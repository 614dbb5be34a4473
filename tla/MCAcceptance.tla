---------------------------- MODULE MCAcceptance ----------------------------
(* Instances of Acceptance.                                                *)
EXTENDS Acceptance

FirstSpec == [release |-> "r1", settings |-> "s"]
=============================================================================
