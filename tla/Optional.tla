------------------------------ MODULE Optional ------------------------------
(* The absence of a value: null and undefined in the code. *)
CONSTANT None
=============================================================================
