--------------------------- MODULE ExclusiveLease ---------------------------
(***************************************************************************)
(* What callers of writer_lock rely on: the lease is free or has one        *)
(* holder, and changes hands only through the free state.  A crash of the   *)
(* holder frees it too (a later command clears the orphaned file).          *)
(***************************************************************************)
CONSTANT Procs
VARIABLE holder     \* the set of processes inside the guarded body

Init == holder = {}

Take(p) == holder = {} /\ holder' = {p}
Give(p) == holder = {p} /\ holder' = {}

Next == \E p \in Procs : Take(p) \/ Give(p)

Spec == Init /\ [][Next]_holder
=============================================================================
