-------------------------- MODULE MCMultipartMixed --------------------------
(***************************************************************************)
(* Values for TLC: a query with three deferred groups, or a subscription   *)
(* with three events.                                                      *)
(***************************************************************************)
EXTENDS MultipartMixed

CONSTANTS gA, gB, gC, e1, e2, e3

ThreeGroups == {gA, gB, gC}
ThreeEvents == {e1, e2, e3}
=============================================================================
