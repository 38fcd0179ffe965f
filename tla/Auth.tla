--------------------------------- MODULE Auth ---------------------------------
(***************************************************************************)
(* Authentication: AuthService of src/auth.rs, which every HTTP handler,    *)
(* every WebSocket handshake and every TCP frame passes through.            *)
(*                                                                         *)
(* A request is verified locally (shared_auth_lib's Guard, external), then  *)
(* the session service is asked about its bearer.  The service answers with *)
(* the session as it is at that moment; while the answer travels, the       *)
(* session may be revoked, replaced or narrowed and the clock moves on; the *)
(* handler compares the answer with the local identity and with the clock   *)
(* as it is when it resumes.  CaseApi, EventFeed and TcpServer take all of  *)
(* this for one step, at the moment of the service's answer.                *)
(***************************************************************************)
EXTENDS Naturals, FiniteSets

CONSTANTS
  Requests,    \* each is used once
  Users,
  SessionIds,
  Tokens,      \* bearer values
  NoToken,     \* the header is missing, not "Bearer " or empty
  Identity,    \* what local verification makes of each token
  Reports,     \* what the session service may report about a token
  InOrder,     \* the report every session starts with
  Changing,    \* tokens whose session may change meanwhile
  Absent,      \* a field that is not there
  MaxChanges,  \* bound: how often sessions change
  MaxClock     \* the clock stops here

Scopes == {"read", "write"}
(* Our own SHARED_AUTH_ISSUER and SHARED_AUTH_AUDIENCE, or somebody else's. *)
Parties == {"ours", "theirs", Absent}

(* AuthOutcome with what authenticate_with_scopes reads of it.  A session   *)
(* id that is missing or empty is Absent.                                   *)
Outcomes == {"sharedAuth", "sandboxed", "otherAuthority", "anonymous", "unauthenticated"}
Identities == [outcome : Outcomes, user : Users, session : SessionIds \cup {Absent}]
(* Introspection *)
AllReports ==
  [active : BOOLEAN, sub : Users \cup {Absent}, iss : Parties, aud : Parties,
   sid : SessionIds \cup {Absent}, exp : Nat \cup {Absent}, nbf : Nat \cup {Absent},
   scopes : SUBSET Scopes]

ASSUME AuthAssumption ==
  /\ NoToken \notin Tokens
  /\ Identity \in [Tokens -> Identities]
  /\ Reports \subseteq AllReports /\ InOrder \in Reports
  /\ Changing \subseteq Tokens
  /\ Absent \notin Users \cup SessionIds \cup Nat \cup {"ours", "theirs"}
  /\ MaxChanges \in Nat /\ MaxClock \in Nat

Failures == {"unauthorized", "forbidden", "degraded"}
Stages == {"idle", "guard", "asking", "answered", "accepted"} \cup Failures
Waiting == {"guard", "asking", "answered"}

VARIABLES
  stage,    \* the await each request is at, then its verdict
  bearer,   \* its token
  needs,    \* required_scopes
  answer,   \* the introspection it was given
  report,   \* what the session service would report about each token now
  changes,
  clock,    \* unix_now, in seconds
  \* history, read by no action
  seen,     \* reports about its token since the request arrived
  arrived   \* the clock when it arrived

vars == <<stage, bearer, needs, answer, report, changes, clock, seen, arrived>>

(* The type invariant; no answer without a local identity to compare it with. *)
TypeOK ==
  /\ stage \in [Requests -> Stages]
  /\ bearer \in [Requests -> Tokens \cup {NoToken}]
  /\ needs \in [Requests -> SUBSET Scopes]
  /\ answer \in [Requests -> Reports \cup {Absent}]
  /\ report \in [Tokens -> Reports]
  /\ changes \in 0 .. MaxChanges
  /\ clock \in 0 .. MaxClock
  /\ seen \in [Requests -> SUBSET Reports]
  /\ arrived \in [Requests -> 0 .. MaxClock]
  /\ \A r \in Requests : answer[r] # Absent => bearer[r] \in Tokens

Init ==
  /\ stage = [r \in Requests |-> "idle"]
  /\ bearer = [r \in Requests |-> NoToken]
  /\ needs = [r \in Requests |-> {}]
  /\ answer = [r \in Requests |-> Absent]
  /\ report = [t \in Tokens |-> InOrder]
  /\ changes = 0
  /\ clock = 0
  /\ seen = [r \in Requests |-> {}]
  /\ arrived = [r \in Requests |-> 0]

GoTo(r, next) == stage' = [stage EXCEPT ![r] = next]

-----------------------------------------------------------------------------
Arrive(r) ==
  /\ stage[r] = "idle"
  /\ GoTo(r, "guard")
  /\ \E t \in Tokens \cup {NoToken}, s \in Scopes :
       /\ bearer' = [bearer EXCEPT ![r] = t]
       /\ needs' = [needs EXCEPT ![r] = {s}]
       /\ seen' = [seen EXCEPT ![r] = IF t = NoToken THEN {} ELSE {report[t]}]
  /\ arrived' = [arrived EXCEPT ![r] = clock]
  /\ UNCHANGED <<answer, report, changes, clock>>

(* Mutant of GuardVerdict: an outcome that is not handled falls through. *)
GuardVerdictRaw(t) ==
  IF t = NoToken THEN "unauthorized"
  ELSE IF Identity[t].outcome = "sharedAuth" THEN "asking"
  ELSE Identity[t].outcome

(* bearer, then what guard.check returned. *)
GuardVerdict(t) ==
  IF t = NoToken THEN "unauthorized"
  ELSE IF Identity[t].outcome = "sharedAuth" THEN "asking"
  ELSE IF Identity[t].outcome \in {"sandboxed", "otherAuthority"} THEN "forbidden"
  ELSE "unauthorized"

CheckGuard(r) ==
  /\ stage[r] = "guard"
  /\ GoTo(r, GuardVerdict(bearer[r]))
  /\ UNCHANGED <<bearer, needs, answer, report, changes, clock, seen, arrived>>

Answer(r, rep) ==
  /\ stage[r] = "asking"
  /\ answer' = [answer EXCEPT ![r] = rep]
  /\ GoTo(r, "answered")
  /\ UNCHANGED <<bearer, needs, report, changes, clock, seen, arrived>>

(* Mutant of Introspect: the last answer about the same bearer is good enough. *)
IntrospectCached(r) ==
  LET known == {q \in Requests : bearer[q] = bearer[r] /\ answer[q] # Absent} IN
  Answer(r, IF known = {} THEN report[bearer[r]] ELSE answer[CHOOSE q \in known : TRUE])

(* introspect_with_requirements: the session service answers. *)
Introspect(r) == Answer(r, report[bearer[r]])

SameSession(identity, rep) ==
  /\ identity.session # Absent
  /\ rep.active /\ rep.sub = identity.user
  /\ rep.iss = "ours" /\ rep.aud = "ours" /\ rep.sid = identity.session

(* Mutant of ValidateActiveSession: a session is refused in its first second. *)
ValidateActiveSessionLate(identity, rep, required, now) ==
  /\ SameSession(identity, rep)
  /\ rep.exp # Absent /\ rep.exp > now
  /\ rep.nbf = Absent \/ rep.nbf < now
  /\ required \subseteq rep.scopes

(* validate_active_session *)
ValidateActiveSession(identity, rep, required, now) ==
  /\ SameSession(identity, rep)
  /\ rep.exp # Absent /\ rep.exp > now
  /\ rep.nbf = Absent \/ rep.nbf <= now
  /\ required \subseteq rep.scopes

Decide(r, now) ==
  /\ stage[r] = "answered"
  /\ GoTo(r, IF ValidateActiveSession(Identity[bearer[r]], answer[r], needs[r], now)
             THEN "accepted" ELSE "unauthorized")
  /\ UNCHANGED <<bearer, needs, answer, report, changes, clock, seen, arrived>>

(* Mutant of Validate: the clock is read before the service is asked. *)
ValidateAsOfArrival(r) == Decide(r, arrived[r])

(* The answer is compared, with the clock read now. *)
Validate(r) == Decide(r, clock)

(* AuthOutcome::Degraded, or introspection fails, times out or is too large. *)
Degrade(r) ==
  /\ stage[r] \in Waiting /\ bearer[r] # NoToken
  /\ GoTo(r, "degraded")
  /\ UNCHANGED <<bearer, needs, answer, report, changes, clock, seen, arrived>>

-----------------------------------------------------------------------------
(* A session is revoked, replaced by another, narrowed, prolonged. *)
SessionChanges(t) ==
  /\ changes < MaxChanges
  /\ changes' = changes + 1
  /\ \E new \in Reports \ {report[t]} :
       /\ report' = [report EXCEPT ![t] = new]
       /\ seen' = [r \in Requests |->
                     IF stage[r] \in Waiting /\ bearer[r] = t THEN seen[r] \cup {new}
                     ELSE seen[r]]
  /\ UNCHANGED <<stage, bearer, needs, answer, clock, arrived>>

Tick ==
  /\ clock < MaxClock
  /\ clock' = clock + 1
  /\ UNCHANGED <<stage, bearer, needs, answer, report, changes, seen, arrived>>

Next ==
  \/ \E r \in Requests :
       Arrive(r) \/ CheckGuard(r) \/ Introspect(r) \/ Validate(r) \/ Degrade(r)
  \/ \E t \in Changing : SessionChanges(t)
  \/ Tick

Spec == Init /\ [][Next]_vars

-----------------------------------------------------------------------------
(* Properties. *)

(* What the README asks of a session: the exact issuer, audience, session   *)
(* and scopes, active, of the subject that was verified; two session ids    *)
(* that are both missing do not agree.                                      *)
Agrees(r, rep) ==
  LET identity == Identity[bearer[r]] IN
  /\ rep.active /\ identity.session # Absent
  /\ <<rep.iss, rep.aud>> = <<"ours", "ours">>
  /\ <<rep.sub, rep.sid>> = <<identity.user, identity.session>>
  /\ needs[r] \subseteq rep.scopes

InLifetime(rep, now) ==
  /\ rep.exp # Absent /\ now < rep.exp
  /\ rep.nbf # Absent => rep.nbf <= now

(* An accepted request has a verified identity of Shared Auth, not of a     *)
(* sandbox, and its session agreed with that identity in every respect at   *)
(* one and the same moment since the request arrived: a session that was    *)
(* revoked or replaced before never gets through, nor do two halves of two  *)
(* sessions.                                                                *)
AcceptedWasLive ==
  \A r \in Requests : stage[r] = "accepted" =>
    /\ bearer[r] \in Tokens /\ Identity[bearer[r]].outcome = "sharedAuth"
    /\ \E rep \in seen[r] : Agrees(r, rep)

(* At the moment of acceptance the clock is within the lifetime of a        *)
(* session that was live since the request arrived, however long the        *)
(* answer took: a session that expired while it was asked about is refused. *)
AcceptedWithinLifetime ==
  [][\A r \in Requests : stage[r] # "accepted" /\ stage'[r] = "accepted" =>
       \E rep \in seen[r] : Agrees(r, rep) /\ InLifetime(rep, clock)]_vars

(* The other direction: a caller who is told "unauthorized" had no usable   *)
(* bearer or identity, or its session did not agree, or was outside its     *)
(* lifetime, at some moment of the request.  A session that was in order    *)
(* all along is never refused, at its first and last second included.       *)
RefusedForCause ==
  \A r \in Requests : stage[r] = "unauthorized" =>
    \/ bearer[r] = NoToken
    \/ Identity[bearer[r]].outcome \in {"anonymous", "unauthenticated"}
    \/ \E rep \in seen[r] :
         ~Agrees(r, rep) \/ \E now \in arrived[r] .. clock : ~InLifetime(rep, now)
=============================================================================
