----------------------------- MODULE MCRunOwner -----------------------------
(* RunOwner with one re-entry: two attempts where liveness is checked, and *)
(* the code's three where the requeue budget is.                           *)
EXTENDS RunOwner
=============================================================================
