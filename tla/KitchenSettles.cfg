SPECIFICATION FairSpec
CONSTANTS
  Prep = Prep
  a1 = a1
  Callers = {a1}
  MaxDishes = 2
  MaxCounter = 1
  Suppressing = TRUE
  MaxGrowth = 2
  Recipes = {"remediate", "silent"}
CHECK_DEADLOCK FALSE
INVARIANT DishesPerAlert
PROPERTY OrderSettles
