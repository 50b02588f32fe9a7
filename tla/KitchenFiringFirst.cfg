SPECIFICATION Spec
CONSTANTS
  Prep = Prep
  a1 = a1
  Callers = {a1}
  MaxDishes = 2
  MaxCounter = 1
  Suppressing = FALSE
  MaxGrowth = 0
  Recipes = {"remediate", "notify", "closing"}
CHECK_DEADLOCK FALSE
PROPERTY FiringFirst
