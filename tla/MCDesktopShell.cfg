SPECIFICATION Programs
CONSTANTS
  Desktops = {1, 2}
  Pinnable = {"web", "calc"}
  FirstDock <- FirstInDock
  MAX_DOCK = 2
  MaxListed = 2
  MaxWindows = 2
  MaxBurst = 2
  MaxEvents = 4
PROPERTY SubstitutionYields
CHECK_DEADLOCK FALSE
