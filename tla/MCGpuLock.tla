------------------------------ MODULE MCGpuLock ------------------------------
(***************************************************************************)
(* Two waiters, and two calls that lock the devices.                       *)
(***************************************************************************)
EXTENDS GpuLock

CONSTANTS p1, p2, c1, c2

TwoWaiters == {p1, p2}
TwoCalls == {c1, c2}
===============================================================================
