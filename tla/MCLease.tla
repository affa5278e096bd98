------------------------------ MODULE MCLease ------------------------------
(* Two owners contend for one lease; revisions enough that a write always  *)
(* finds a fresh one (record, one per owner, one per delayed write, one).  *)
EXTENDS Lease
=============================================================================
