--------------------------- MODULE SessionCacheMC ---------------------------
(* Symmetry for the runs of SessionCache: addresses, IDs and threads are     *)
(* interchangeable.                                                         *)
EXTENDS SessionCache, TLC

Symmetric == Permutations(Session) \cup Permutations(Id) \cup Permutations(Thread)
=============================================================================
