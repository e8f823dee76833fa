SPECIFICATION SudpSpec
CONSTANTS
  Cap = 2
  MaxPackets = 5

PROPERTY NothingHangs
CHECK_DEADLOCK FALSE
