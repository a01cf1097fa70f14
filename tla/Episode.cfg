SPECIFICATION Spec
CONSTANTS
  Harnesses <- AllHarnesses
  Budgets <- SmallBudgets
  MaxInvalidActions = 2
  MaxCallTokens = 2
  MaxLateWrites = 2
INVARIANT BudgetsAreExact
INVARIANT OnlyAcceptedWorkIsVerified
INVARIANT BrokenToolsGiveNoVerdict
INVARIANT ChatEndingsAreKnown
PROPERTY EndIsFinal
CHECK_DEADLOCK FALSE
