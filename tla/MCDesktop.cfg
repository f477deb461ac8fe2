SPECIFICATION Programs
CONSTANTS
  Desktops = {1, 2}
  Pinnable = {"web", "calc"}
  FirstDock <- FirstInDock
  MAX_DOCK = 2
  MaxListed = 2
  MaxWindows = 2
  MaxBurst = 2
  MaxEvents = 4
CONSTRAINT FewFaults
INVARIANTS
  TypesOK
  MenusKept
PROPERTIES
  ShellRight
  ScreenRight
  KillsChosen
  RaisedOvertakes
  QuitsCome
  TextKept
  AppsRight
CHECK_DEADLOCK FALSE
