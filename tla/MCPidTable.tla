----------------------------- MODULE MCPidTable -----------------------------
(* PidTable on small tables: the kernel's process and user processes.      *)
EXTENDS PidTable
CONSTANTS menu, u1, u2
=============================================================================
