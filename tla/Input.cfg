CONSTANTS
  Tablets <- MCTablets
  VTools = {"pen", "eraser", "airbrush", "mouse"}
  minPress = 20
  LineSize = 2
  MaxFaults = 4
  QueueSize = 6
SPECIFICATION InputSpec
INVARIANTS
  TypeOK
  TouchFollows
  ToolFollows
  LidFollows
