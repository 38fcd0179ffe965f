------------------------------ MODULE MCCaseApi ------------------------------
(* Small instances of CaseApi. *)
EXTENDS CaseApi, TLC

CONSTANTS t1, t2, u1, u2, c1, c2, k1, k2

Cmd(expected, to, doc, until) ==
  [expected |-> expected, to |-> to, doc |-> doc, until |-> until]
In(op, u, t, k, c, cmd, form) ==
  [op |-> op, user |-> u, tenant |-> t, key |-> k, case |-> c, cmd |-> cmd,
   form |-> form]
NoCmd == Cmd(0, "intake", 0, 0)

Lifecycle ==
  {<<"intake", "collecting_documents">>, <<"collecting_documents", "review">>}

(* One tenant, everything about retries: the same key with the same and     *)
(* with another command, a transition and a rotation that race for version  *)
(* 2, a transition that is not allowed, a key version that falls, a row     *)
(* left illegible by somebody else.                                         *)
RetryInputs ==
  { In("create", u1, t1, k1, c1, Cmd(0, "intake", 2, 1), "ok"),
    In("create", u2, t1, k1, c1, Cmd(0, "intake", 2, 1), "ok"),
    In("transition", u1, t1, k1, c1, Cmd(1, "collecting_documents", 0, 0), "ok"),
    In("transition", u1, t1, k2, c1, Cmd(1, "collecting_documents", 0, 0), "ok"),
    In("transition", u1, t1, k2, c1, Cmd(1, "closed", 0, 0), "ok"),
    In("transition", u1, t1, k2, c2, Cmd(1, "collecting_documents", 0, 0), "ok"),
    In("rotate", u2, t1, k2, c1, Cmd(1, "intake", 3, 0), "ok"),
    In("rotate", u2, t1, k2, c1, Cmd(1, "intake", 1, 0), "ok") }
RetryFlaws == {<<c1, flaw>> : flaw \in {"retention", "document"}}
RetryRoles ==
  [u \in {u1, u2} |-> [t \in {t1} |-> IF u = u1 THEN "agent" ELSE "administrator"]]
FullScopes == [u \in {u1, u2} |-> {"read", "write"}]

(* Two tenants; an agent is promoted, a stranger becomes a viewer and a     *)
(* session is revoked while creations, rotations and reads are in flight.   *)
AccessInputs ==
  { In("create", u1, t1, k1, c1, Cmd(0, "intake", 1, 1), "ok"),
    In("rotate", u1, t1, k2, c1, Cmd(1, "intake", 2, 0), "ok"),
    In("get", u2, t2, k1, c1, NoCmd, "ok"),
    In("get", u2, t1, k1, c1, NoCmd, "ok"),
    In("list", u2, t2, k1, c1, NoCmd, "ok") }
AccessRoles ==
  [u \in {u1, u2} |-> [t \in {t1, t2} |->
     CASE u = u1 /\ t = t1 -> "agent" [] u = u2 /\ t = t2 -> "viewer" [] OTHER -> "none"]]
AccessChanges == {<<u1, t1, "administrator">>, <<u2, t1, "viewer">>}

(* One request of every kind and form, for the liveness run. *)
OneOfEach ==
  { In("create", u1, t1, k1, c1, Cmd(0, "intake", 1, 1), f) : f \in Forms }
  \cup
  { In("create", u1, t1, k1, c1, Cmd(0, "intake", 2, 1), "ok"),
    In("transition", u1, t1, k2, c1, Cmd(1, "review", 0, 0), "ok"),
    In("rotate", u1, t1, k2, c1, Cmd(1, "intake", 2, 0), "ok"),
    In("get", u1, t1, k1, c1, NoCmd, "ok"),
    In("list", u1, t1, k1, c1, NoCmd, "ok") }
LiveFlaws == {<<c1, "status">>}
OneRole == [u \in {u1} |-> [t \in {t1} |-> "administrator"]]
OneChange == {<<u1, t1, "none">>}
OneScopes == [u \in {u1} |-> {"read", "write"}]

RequestSymmetry == Permutations(Requests)
=============================================================================
