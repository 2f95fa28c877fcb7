\* The menu's thread_fork may fail: the assertions do not all hold.
SPECIFICATION Spec
CONSTANTS
  menu = menu
  u1 = u1
  u2 = u2
  Proc = {menu, u1, u2}
  KProc = menu
  NULL = NULL
  ProcsMax = 3
  PidMin = 2
  PidMax = 4
  Status = {0}
  MenuForkFails = TRUE
CHECK_DEADLOCK FALSE
INVARIANTS NoPanic
