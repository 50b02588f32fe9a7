SPECIFICATION Spec
CONSTANTS
  Prep = Prep
  a1 = a1
  Callers = {a1}
  MaxDishes = 2
  MaxCounter = 2
  Suppressing = FALSE
  MaxGrowth = 0
  Recipes = {"remediate"}
CHECK_DEADLOCK FALSE
PROPERTY NewIsDispatched
