----------------------------- MODULE MCApprovals -----------------------------
(* Approvals with two requests of one job, the first of them explicit: both *)
(* may be open at the same time, or each may belong to another of the job's *)
(* sessions while the cleanup of the first is still under way.              *)
EXTENDS Approvals

CONSTANTS first, second, jobA

RequestedBy == [a \in Approvals |-> jobA]
=============================================================================
