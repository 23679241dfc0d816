\* Two requests at a time, a legacy row or none, one fault: a restart, a
\* seeding, a step back of the clock or a statement that fails.
SPECIFICATION FairSpec
CONSTANTS
  legacy = legacy
  p = p
  q = q
  Requests = {p, q}
  People <- Chosen
  Legacy = legacy
  Whitelist = {1}
  WhitelistMax = 1
  SequenceSize = 2
  MaxClock = 1
  MaxUID = 3
  MaxFaults = 1
  Anyone = Anyone
  Free = Free
  Nobody = Nobody
INVARIANTS TypeOK RefusedForTheName TokenNamesItsUser
PROPERTIES RequestsEnd
CHECK_DEADLOCK FALSE
