SPECIFICATION BoundedSpec
CONSTANTS
  c1 = c1
  c2 = c2
  p1 = p1
  p2 = p2
  Plugins <- OnePlugin
  Calls <- TwoCalls
  Providers <- TwiceProvided
  MaxDepth <- FirstNests
  Budgets <- TwoBudgets
  Declared <- Brittle
  Default <- Brittle
INVARIANT PermitsAreAccounted
PROPERTIES ExecutionsAreTheirOwn ExecutionsEnd
