------------------------------ MODULE NoneValue ------------------------------
(***************************************************************************)
(* The value of what is absent: a request that is not handled, a row that  *)
(* was deleted, a key that is not there.  Components that are composed     *)
(* share it.                                                               *)
(***************************************************************************)
CONSTANT None
=============================================================================
