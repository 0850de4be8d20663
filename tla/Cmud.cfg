CONSTANTS
  al = al
  alex = alex
  x = x
  cpu = cpu
  gpu = gpu
  Player <- Names
  Hardware = {cpu, gpu}
  Location = {5}
  prices <- Prices
  powers <- Powers
  Levels = 3
  problemHealth <- Healths
  breakRate = 2
  Longer <- LongerNames
  Together <- Pairs
  MaxBudget <- Budgets
  MaxCrashes = 1
  None = None
SPECIFICATION Spec
INVARIANT PanicOnlyIfTorn NothingForFree
PROPERTY EducationGrows
