---------------------------- MODULE MCTokenCache ----------------------------
(* TokenCache for TLC: model values for tasks, keys and locks. *)
EXTENDS TokenCache, TLC

CONSTANTS k1, k2, r1, r2

MCKeyOf == (r1 :> k1) @@ (r2 :> k2)

Perms == Permutations(Task) \cup Permutations(LockId)
=============================================================================
