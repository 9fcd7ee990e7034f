SPECIFICATION PageSpec
CONSTANTS
  Cards = {"c", "d"}
  StatusOf <- MCStatusOf
  InRepo = {"c"}
  ValidStatuses = {"active", "deprecated"}
  DefaultStatuses = {"active"}
  Unknown = "bogus"
  Widenings = {{"active", "deprecated"}}
  MaxSearches = 2
  Unset = Unset
INVARIANT WideningKeepsTheRail
CHECK_DEADLOCK FALSE
