---------------------------- MODULE MCMembership ----------------------------
(***************************************************************************)
(* Instances of Membership.                                                *)
(***************************************************************************)
EXTENDS Membership
=============================================================================
