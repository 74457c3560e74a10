---------------------------- MODULE MCJwksCache ----------------------------
(* JwksCache for TLC: model values for tasks and kids. *)
EXTENDS JwksCache, TLC

Perms == Permutations(Task) \cup Permutations(Kid)
=============================================================================
