SPECIFICATION SudpSpec
CONSTANTS
  Cap = 2
  MaxPackets = 5
INVARIANTS SudpTypeOK LossExplained
PROPERTY EndsUnlessJammed
CHECK_DEADLOCK FALSE
