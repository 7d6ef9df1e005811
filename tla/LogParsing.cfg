SPECIFICATION Spec
CONSTANTS
  Platforms = {"android", "ios"}
  NoEntry = NoEntry
  MaxFed = 5
  IncompleteTicks = 2
INVARIANTS
    ParserInv
PROPERTIES
    HeaderAwaitsItsBody
    DeliversAsPromised
CHECK_DEADLOCK FALSE
