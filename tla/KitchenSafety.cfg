SPECIFICATION Spec
CONSTANTS
  Prep = Prep
  a1 = a1
  Callers = {a1}
  MaxDishes = 2
  MaxCounter = 2
  Suppressing = FALSE
  MaxGrowth = 1
  Recipes = {"remediate", "notify", "none"}
INVARIANT TypeOK
INVARIANT EndedOrderQuiet
INVARIANT OnePerPhase
INVARIANT RowsEndFirst
INVARIANT OutcomeEarned
INVARIANT ActiveWhileOpen
PROPERTY EndedUntilResolved
