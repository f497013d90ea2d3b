SPECIFICATION Spec
CONSTANTS
  c1 = c1
  c2 = c2
  p1 = p1
  p2 = p2
  Plugins <- TwoPlugins
  Calls <- OneCall
  Providers <- BothProvide
  MaxDepth <- BothNested
  Budgets <- ThreeBudgets
  Declared <- Brittle
  Default <- Brittle
PROPERTY NothingStartsWhenOff
