------------------------------ MODULE MCExpiry ------------------------------
(***************************************************************************)
(* The constants of the transport run: clocks off by less and by more than *)
(* the leeway.                                                             *)
(***************************************************************************)
EXTENDS Expiry

MCSubjectLife == {2, 7, 9}
MCBehind == {-1, 0, 8}
=============================================================================
