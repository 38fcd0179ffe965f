----------------------------- MODULE MCEventFeed -----------------------------
(* A small instance of EventFeed: two users, each a member of one tenant of *)
(* two; the first subscribes to a case and its client reads, the second     *)
(* subscribes to the whole tenant and its client may stall.                 *)
EXTENDS EventFeed

CONSTANTS t1, t2, c1, s1, s2

CaseOrTenant ==
  {[tenant |-> t1, case |-> c1], [tenant |-> t2, case |-> NoCase]}
OwnTenant == [s \in {s1, s2} |-> IF s = s1 THEN {t1} ELSE {t2}]
=============================================================================
