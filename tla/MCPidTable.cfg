\* Two user processes beside the kernel's on a table of three slots, so that it
\* fills, and four user pids, so that nextpid wraps and pids collide.  No
\* symmetry, for the temporal properties.
SPECIFICATION FairSpec
CONSTANTS
  menu = menu
  u1 = u1
  u2 = u2
  Proc = {menu, u1, u2}
  KProc = menu
  NULL = NULL
  ProcsMax = 3
  PidMin = 2
  PidMax = 5
  Status = {0}
  MenuForkFails = TRUE
CHECK_DEADLOCK FALSE
INVARIANTS WaiterSafe AllocTerminates PidInv
PROPERTIES ImplementsFamily WaitReturns
