CONSTANTS
  PacketLength = 5
  PacketIds = 8
  TTYSize = 7
  MaxLost = 2
  MaxCut = 1
SPECIFICATION FairSpec
INVARIANTS
  SerialTypeOK
  NoMixedPacket
  LossIsLocal
PROPERTY StaysInStep
