---------------------------- MODULE MCFeedOfCases ----------------------------
(* A small instance of FeedOfCases: one agent creates a case and moves it   *)
(* on, in two requests that may overlap; one subscriber reads, one stalls.  *)
EXTENDS FeedOfCases

CONSTANTS t1, u1, u2, c1, k1, k2, s1, s2

Cmd(expected, to) == [expected |-> expected, to |-> to, doc |-> 0, until |-> 1]
In(op, k, cmd) ==
  [op |-> op, user |-> u1, tenant |-> t1, key |-> k, case |-> c1, cmd |-> cmd, form |-> "ok"]

CreateAndMove ==
  { In("create", k1, Cmd(0, "intake")),
    In("transition", k2, Cmd(1, "collecting_documents")) }
OneMove == {<<"intake", "collecting_documents">>}
AgentAndViewer == [u \in {u1, u2} |-> [t \in {t1} |-> IF u = u1 THEN "agent" ELSE "viewer"]]
FullScopes == [u \in {u1, u2} |-> {"read", "write"}]
WholeTenant == {[tenant |-> t1, case |-> NoCase]}
Viewers == [s \in Sockets |-> u2]
=============================================================================
