---------------------------- MODULE MCSemaphore ----------------------------
(* A semaphore with four threads in P, and units for three of them.        *)
EXTENDS Semaphore

CONSTANTS t1, t2, t3, t4
=============================================================================
