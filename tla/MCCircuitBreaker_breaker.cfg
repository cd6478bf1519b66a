SPECIFICATION LiveSpec
CONSTANTS
  Requests = {r1}
  Risk = risk
  Levels <- MCLevels
  Configured = 100
  MaxDay = 1
  MaxMoves = 2
  MaxRestarts = 1
CHECK_DEADLOCK FALSE
INVARIANTS TypeOK FloorStops
PROPERTIES HaltHoldsOnceSettled LossHalts DrawdownStops
