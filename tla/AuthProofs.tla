----------------------------- MODULE AuthProofs -----------------------------
(***************************************************************************)
(* Proofs about Auth, for every set of requests, tokens and reports, every  *)
(* sequence of session changes and every clock.                             *)
(***************************************************************************)
EXTENDS Auth, TLAPS

(***************************************************************************)
(* What the verdicts rest on is not in the verdicts: where a request waits  *)
(* tells what is known about its bearer, the history of a waiting request   *)
(* contains the present report, and an answer is one of the reports seen.   *)
(***************************************************************************)
Fresh == \A r \in Requests : stage[r] = "idle" => answer[r] = Absent
Verified ==
  \A r \in Requests : stage[r] \in {"asking", "answered"} =>
    bearer[r] \in Tokens /\ Identity[bearer[r]].outcome = "sharedAuth"
Watched ==
  \A r \in Requests : stage[r] \in Waiting /\ bearer[r] \in Tokens =>
    report[bearer[r]] \in seen[r]
Answered == \A r \in Requests : stage[r] = "answered" => answer[r] \in seen[r]
Elapsed == \A r \in Requests : arrived[r] <= clock

AuthInv ==
  /\ TypeOK /\ Fresh /\ Verified /\ Watched /\ Answered /\ Elapsed
  /\ AcceptedWasLive /\ RefusedForCause

(* The Guard's verdict is a stage of the request. *)
LEMMA GuardVerdicts ==
  ASSUME NEW t \in Tokens \cup {NoToken}
  PROVE  /\ GuardVerdict(t) \in {"asking", "forbidden", "unauthorized"}
         /\ GuardVerdict(t) = "asking" =>
              t \in Tokens /\ Identity[t].outcome = "sharedAuth"
         /\ GuardVerdict(t) = "unauthorized" =>
              t = NoToken \/ Identity[t].outcome \in {"anonymous", "unauthenticated"}
<1>1. t # NoToken => Identity[t].outcome \in Outcomes
  BY AuthAssumption DEF Identities
<1>2. QED
  BY <1>1 DEF GuardVerdict, Outcomes

(* validate_active_session accepts exactly the reports that agree with the  *)
(* verified identity and are within their lifetime.                         *)
LEMMA ValidateExact ==
  ASSUME NEW r \in Requests, NEW rep \in Reports, NEW now \in Nat,
         bearer[r] \in Tokens
  PROVE  ValidateActiveSession(Identity[bearer[r]], rep, needs[r], now)
           <=> Agrees(r, rep) /\ InLifetime(rep, now)
<1>1. rep.exp \in Nat \cup {Absent} /\ rep.nbf \in Nat \cup {Absent}
  BY AuthAssumption DEF AllReports
<1>2. QED
  BY <1>1 DEF ValidateActiveSession, SameSession, Agrees, InLifetime

(* The invariant holds when no request has arrived. *)
LEMMA AuthInit == Init => AuthInv
  BY AuthAssumption DEF Init, AuthInv, TypeOK, Fresh, Verified, Watched, Answered, Elapsed,
     AcceptedWasLive, RefusedForCause, Stages, Waiting

(* A request that moves on and is given no verdict, or one that is neither  *)
(* "accepted" nor "unauthorized", disturbs no verdict.                      *)
LEMMA MoveOn ==
  ASSUME AuthInv, NEW r \in Requests, NEW next \in Stages \ {"idle", "accepted", "unauthorized"},
         GoTo(r, next), stage[r] \in Waiting,
         next \in {"asking", "answered"} =>
           bearer[r] \in Tokens /\ Identity[bearer[r]].outcome = "sharedAuth",
         next = "answered" => answer'[r] \in seen[r],
         answer' \in [Requests -> Reports \cup {Absent}],
         \A q \in Requests \ {r} : answer'[q] = answer[q],
         answer'[r] # Absent => bearer[r] \in Tokens,
         UNCHANGED <<bearer, needs, report, changes, clock, seen, arrived>>
  PROVE  AuthInv'
<1> USE DEF AuthInv, GoTo
<1>1. stage' = [stage EXCEPT ![r] = next] /\ stage \in [Requests -> Stages]
  BY DEF TypeOK
<1>2. TypeOK'
  BY <1>1 DEF TypeOK
<1>3. Fresh' /\ Verified' /\ Watched' /\ Answered' /\ Elapsed'
  BY <1>1 DEF Fresh, Verified, Watched, Answered, Elapsed
<1>4. AcceptedWasLive' /\ RefusedForCause'
  BY <1>1 DEF AcceptedWasLive, RefusedForCause, Agrees, InLifetime
<1>5. QED  BY <1>2, <1>3, <1>4

(* Every step keeps the invariant: one step per action. *)
LEMMA AuthStep == AuthInv /\ [Next]_vars => AuthInv'
<1> SUFFICES ASSUME AuthInv, [Next]_vars PROVE AuthInv'
  OBVIOUS
<1> USE DEF AuthInv
<1>0. Waiting \subseteq Stages /\ Waiting = {"guard", "asking", "answered"}
  BY DEF Waiting, Stages
<1>1. ASSUME NEW r \in Requests, Arrive(r) PROVE AuthInv'
  <2>1. PICK t \in Tokens \cup {NoToken}, s \in Scopes :
          /\ bearer' = [bearer EXCEPT ![r] = t]
          /\ needs' = [needs EXCEPT ![r] = {s}]
          /\ seen' = [seen EXCEPT ![r] = IF t = NoToken THEN {} ELSE {report[t]}]
    BY <1>1 DEF Arrive
  <2>2. /\ stage[r] = "idle" /\ stage' = [stage EXCEPT ![r] = "guard"]
        /\ arrived' = [arrived EXCEPT ![r] = clock]
        /\ UNCHANGED <<answer, report, changes, clock>>
    BY <1>1 DEF Arrive, GoTo
  <2>3. TypeOK'
    BY <1>0, <2>1, <2>2 DEF TypeOK, Fresh
  <2>4. Fresh' /\ Verified' /\ Answered' /\ Elapsed'
    BY <2>1, <2>2 DEF TypeOK, Fresh, Verified, Answered, Elapsed
  <2>5. Watched'
    BY <1>0, <2>1, <2>2, AuthAssumption DEF TypeOK, Watched
  <2>6. AcceptedWasLive' /\ RefusedForCause'
    BY <2>1, <2>2 DEF TypeOK, AcceptedWasLive, RefusedForCause, Agrees, InLifetime
  <2>7. QED  BY <2>3, <2>4, <2>5, <2>6
<1>2. ASSUME NEW r \in Requests, CheckGuard(r) PROVE AuthInv'
  <2> DEFINE verdict == GuardVerdict(bearer[r])
  <2>1. bearer[r] \in Tokens \cup {NoToken}
    BY DEF TypeOK
  <2>2. CASE verdict # "unauthorized"
    BY <1>0, <1>2, <2>1, <2>2, GuardVerdicts, MoveOn DEF CheckGuard, Stages, Failures, TypeOK
  <2>3. CASE verdict = "unauthorized"
    <3>1. /\ stage' = [stage EXCEPT ![r] = "unauthorized"]
          /\ UNCHANGED <<bearer, needs, answer, report, changes, clock, seen, arrived>>
      BY <1>2, <2>3 DEF CheckGuard, GoTo
    <3>2. TypeOK' /\ Fresh' /\ Verified' /\ Watched' /\ Answered' /\ Elapsed'
      BY <1>0, <3>1 DEF TypeOK, Fresh, Verified, Watched, Answered, Elapsed, Stages, Failures
    <3>3. AcceptedWasLive'
      BY <3>1 DEF TypeOK, AcceptedWasLive, Agrees
    <3>4. RefusedForCause'
      BY <2>1, <2>3, <3>1, GuardVerdicts DEF TypeOK, RefusedForCause, Agrees, InLifetime
    <3>5. QED  BY <3>2, <3>3, <3>4
  <2>4. QED  BY <2>2, <2>3
<1>3. ASSUME NEW r \in Requests, Introspect(r) PROVE AuthInv'
  <2>1. /\ stage[r] = "asking" /\ GoTo(r, "answered")
        /\ answer' = [answer EXCEPT ![r] = report[bearer[r]]]
        /\ UNCHANGED <<bearer, needs, report, changes, clock, seen, arrived>>
    BY <1>3 DEF Introspect, Answer
  <2>2. bearer[r] \in Tokens /\ Identity[bearer[r]].outcome = "sharedAuth"
    BY <2>1 DEF Verified
  <2>3. report[bearer[r]] \in seen[r] /\ report[bearer[r]] \in Reports
    BY <1>0, <2>1, <2>2 DEF Watched, TypeOK
  <2>4. QED
    BY <1>0, <2>1, <2>2, <2>3, MoveOn DEF TypeOK, Stages
<1>4. ASSUME NEW r \in Requests, Validate(r) PROVE AuthInv'
  <2> DEFINE valid == ValidateActiveSession(Identity[bearer[r]], answer[r], needs[r], clock)
             verdict == IF valid THEN "accepted" ELSE "unauthorized"
  <2>1. /\ stage[r] = "answered" /\ stage' = [stage EXCEPT ![r] = verdict]
        /\ UNCHANGED <<bearer, needs, answer, report, changes, clock, seen, arrived>>
    BY <1>4 DEF Validate, Decide, GoTo
  <2>2. /\ bearer[r] \in Tokens /\ Identity[bearer[r]].outcome = "sharedAuth"
        /\ answer[r] \in seen[r] /\ answer[r] \in Reports
        /\ clock \in Nat /\ arrived[r] \in Nat /\ clock \in arrived[r] .. clock
    BY <2>1, AuthAssumption DEF Verified, Answered, Elapsed, TypeOK
  <2>3. valid <=> Agrees(r, answer[r]) /\ InLifetime(answer[r], clock)
    BY <2>2, ValidateExact
  <2>4. TypeOK' /\ Fresh' /\ Verified' /\ Watched' /\ Answered' /\ Elapsed'
    BY <1>0, <2>1 DEF TypeOK, Fresh, Verified, Watched, Answered, Elapsed, Stages, Failures
  <2>5. AcceptedWasLive'
    BY <2>1, <2>2, <2>3 DEF TypeOK, AcceptedWasLive, Agrees
  <2>6. RefusedForCause'
    BY <2>1, <2>2, <2>3 DEF TypeOK, RefusedForCause, Agrees, InLifetime
  <2>7. QED  BY <2>4, <2>5, <2>6
<1>5. ASSUME NEW r \in Requests, Degrade(r) PROVE AuthInv'
  BY <1>0, <1>5, MoveOn DEF Degrade, Stages, Failures, TypeOK
<1>6. ASSUME NEW t \in Changing, SessionChanges(t) PROVE AuthInv'
  <2>1. PICK new \in Reports :
          /\ report' = [report EXCEPT ![t] = new]
          /\ seen' = [r \in Requests |->
                        IF stage[r] \in Waiting /\ bearer[r] = t THEN seen[r] \cup {new}
                        ELSE seen[r]]
    BY <1>6 DEF SessionChanges
  <2>2. /\ t \in Tokens /\ changes' \in 0 .. MaxChanges
        /\ UNCHANGED <<stage, bearer, needs, answer, clock, arrived>>
    BY <1>6, AuthAssumption DEF SessionChanges, TypeOK
  <2>3. \A r \in Requests : seen[r] \subseteq seen'[r]
    BY <2>1
  <2>4. TypeOK'
    BY <2>1, <2>2 DEF TypeOK
  <2>5. Fresh' /\ Verified' /\ Answered' /\ Elapsed'
    BY <2>2, <2>3 DEF Fresh, Verified, Answered, Elapsed
  <2>6. Watched'
    BY <2>1, <2>2 DEF TypeOK, Watched
  <2>7. AcceptedWasLive' /\ RefusedForCause'
    BY <2>2, <2>3 DEF AcceptedWasLive, RefusedForCause, Agrees, InLifetime
  <2>8. QED  BY <2>4, <2>5, <2>6, <2>7
<1>7. CASE Tick
  <2>1. /\ clock' = clock + 1 /\ clock' \in 0 .. MaxClock /\ clock \in Nat
        /\ UNCHANGED <<stage, bearer, needs, answer, report, changes, seen, arrived>>
    BY <1>7, AuthAssumption DEF Tick, TypeOK
  <2>2. TypeOK' /\ Fresh' /\ Verified' /\ Watched' /\ Answered'
    BY <2>1 DEF TypeOK, Fresh, Verified, Watched, Answered
  <2>3. Elapsed' /\ \A r \in Requests : arrived[r] .. clock \subseteq arrived'[r] .. clock'
    BY <2>1, AuthAssumption DEF TypeOK, Elapsed
  <2>4. AcceptedWasLive' /\ RefusedForCause'
    BY <2>1, <2>3 DEF AcceptedWasLive, RefusedForCause, Agrees, InLifetime
  <2>5. QED  BY <2>2, <2>3, <2>4
<1>8. CASE UNCHANGED vars
  BY <1>8 DEF vars, TypeOK, Fresh, Verified, Watched, Answered, Elapsed,
     AcceptedWasLive, RefusedForCause, Agrees, InLifetime
<1>9. QED
  BY <1>1, <1>2, <1>3, <1>4, <1>5, <1>6, <1>7, <1>8 DEF Next

(* AuthInv is inductive. *)
LEMMA AuthInvariant == Spec => []AuthInv
  BY AuthInit, AuthStep, PTL DEF Spec

-----------------------------------------------------------------------------
(* Every variable of AuthService's requests keeps its type, and no answer   *)
(* is compared without a verified identity.                                 *)
THEOREM AuthTyped == Spec => []TypeOK
<1>1. AuthInv => TypeOK
  BY DEF AuthInv
<1>2. QED  BY <1>1, AuthInvariant, PTL

(* AcceptedWasLive: whatever session changes fall between the question, the *)
(* answer and the comparison, an accepted request had one report that       *)
(* agreed with its verified identity in every respect.                      *)
THEOREM OnlyLiveAccepted == Spec => []AcceptedWasLive
<1>1. AuthInv => AcceptedWasLive
  BY DEF AuthInv
<1>2. QED  BY <1>1, AuthInvariant, PTL

(* RefusedForCause: authenticate_with_scopes never answers Unauthorized to  *)
(* a caller whose session was in order from arrival to verdict.             *)
THEOREM NoRefusalWithoutCause == Spec => []RefusedForCause
<1>1. AuthInv => RefusedForCause
  BY DEF AuthInv
<1>2. QED  BY <1>1, AuthInvariant, PTL

(* AcceptedWithinLifetime: a step that accepts does so with the clock, as   *)
(* it is at that step, within the lifetime of a session seen since arrival. *)
THEOREM NoLateAcceptance == Spec => AcceptedWithinLifetime
<1> DEFINE Timely ==
      \A r \in Requests : stage[r] # "accepted" /\ stage'[r] = "accepted" =>
        \E rep \in seen[r] : Agrees(r, rep) /\ InLifetime(rep, clock)
<1>1. ASSUME AuthInv, [Next]_vars PROVE [Timely]_vars
  <2> SUFFICES ASSUME NEW r \in Requests, stage[r] # "accepted", stage'[r] = "accepted"
      PROVE  \E rep \in seen[r] : Agrees(r, rep) /\ InLifetime(rep, clock)
    OBVIOUS
  <2>1. Validate(r)
    <3>1. stage \in [Requests -> Stages] /\ bearer[r] \in Tokens \cup {NoToken}
      BY <1>1 DEF AuthInv, TypeOK
    <3>2. ~CheckGuard(r)
      BY <3>1, GuardVerdicts DEF CheckGuard, GoTo
    <3>3. ~(Arrive(r) \/ Introspect(r) \/ Degrade(r))
      BY <3>1 DEF Arrive, Introspect, Answer, Degrade, GoTo
    <3>4. ASSUME NEW q \in Requests,
                 Arrive(q) \/ CheckGuard(q) \/ Introspect(q) \/ Validate(q) \/ Degrade(q)
          PROVE  q = r
      BY <3>1, <3>4 DEF Arrive, CheckGuard, Introspect, Answer, Validate, Decide, Degrade, GoTo
    <3>5. ~Tick /\ ~UNCHANGED vars /\ \A t \in Changing : ~SessionChanges(t)
      BY DEF Tick, vars, SessionChanges
    <3>6. QED  BY <1>1, <3>2, <3>3, <3>4, <3>5 DEF Next
  <2>2. /\ bearer[r] \in Tokens /\ answer[r] \in seen[r] /\ answer[r] \in Reports
        /\ clock \in Nat
    BY <1>1, <2>1, AuthAssumption DEF Validate, Decide, AuthInv, Verified, Answered, TypeOK
  <2>3. ValidateActiveSession(Identity[bearer[r]], answer[r], needs[r], clock)
    BY <1>1, <2>1 DEF Validate, Decide, GoTo, AuthInv, TypeOK
  <2>4. QED  BY <2>2, <2>3, ValidateExact
<1>2. QED
  BY <1>1, AuthInvariant, PTL DEF Spec, AcceptedWithinLifetime
=============================================================================
