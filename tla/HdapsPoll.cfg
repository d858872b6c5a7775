CONSTANTS
  Tasks = {t1, t2}
  Poll = Poll
  Nobody = Nobody
  HZ = 20
  Rates <- MCRates
SPECIFICATION FairSpec
INVARIANTS
  TypeOK
  UsersArePolled
  NoPollWithoutUsers
  NoPollWhileSuspended
PROPERTY PollsDeliver
