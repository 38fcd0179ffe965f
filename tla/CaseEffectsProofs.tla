-------------------------- MODULE CaseEffectsProofs --------------------------
(***************************************************************************)
(* What a mutation leaves behind, and what its client is told about it:     *)
(* proofs about CaseApi on top of those of CaseApiProofs, for every set of  *)
(* tenants, users, cases, keys and requests and for every set of inputs,    *)
(* ending with the refinement of CaseLedger.                                *)
(***************************************************************************)
EXTENDS CaseApiProofs, FiniteSetTheorems

-----------------------------------------------------------------------------
(* What one step can be for one request. *)

Kept(q) ==
  /\ pc'[q] = pc[q] /\ input'[q] = input[q] /\ evt'[q] = evt[q]
  /\ replayed'[q] = replayed[q] /\ body'[q] = body[q] /\ reply'[q] = reply[q]

(* The handler gets past authentication or admission. *)
Forward(q) ==
  /\ pc[q] \in {"auth", "context"}
  /\ \/ pc'[q] = "context"
     \/ pc'[q] = "execute" /\ input[q].op \in Mutations
     \/ pc'[q] = "readCase" /\ input[q].op = "get"
     \/ pc'[q] = "list" /\ input[q].op = "list"
  /\ UNCHANGED <<input, evt, replayed, body, reply, published>>

(* The handler returns an error; past a transaction, or together with one,  *)
(* only two codes are left, and the one of a row that cannot be read.       *)
Failed(q) ==
  /\ pc[q] \in Active
  /\ \E code \in Errors :
       /\ Fail(q, code)
       /\ pc[q] \in {"readCase", "readEvent"} \/ Commit(q) =>
            \/ code \in {"not_found", "temporarily_unavailable"}
            \/ code = "validation" /\ pc[q] = "readCase" /\ ~Legible(Target(q))

(* A transaction leaves its mark in the idempotency table. *)
LEMMA CommitMarks ==
  ASSUME Typing, NEW q \in Requests, pc[q] # "idle", UNCHANGED idem
  PROVE  ~Commit(q)
<1> SUFFICES ASSUME Commit(q) PROVE FALSE
  OBVIOUS
<1>1. input[q].tenant \in Tenants /\ input[q].key \in Keys
  BY InputAssumption DEF Typing, TypeOK, ApiTypeOK, AllInputs
<1>2. idem \in [Tenants -> [Keys -> Nat]] /\ Len(log) \in Nat
  BY DEF Typing, TypeOK, DatabaseTypeOK
<1>3. idem[input[q].tenant][input[q].key] = 0
  BY DEF Commit, WriteCaseAndEvent, Recorded
<1>4. idem'[input[q].tenant][input[q].key] = Len(log) + 1
  BY <1>1, <1>2 DEF Commit
<1>5. QED  BY <1>2, <1>3, <1>4

(* Every step is one of these for every request. *)
LEMMA RequestStep ==
  ASSUME Typing, [Next]_vars, NEW q \in Requests
  PROVE  \/ Kept(q) \/ Arrive(q) \/ Forward(q) \/ Failed(q) \/ Abort(q)
         \/ ExecuteApplied(q) \/ ExecuteReplayed(q) \/ ReadCase(q)
         \/ FinishMutation(q) \/ RecordAccess(q) \/ ListCases(q)
<1> USE DEF Typing, TypeOK, ApiTypeOK
<1>1. ASSUME NEW r \in Requests, r # q, Arrive(r) \/ Serve(r) \/ Unavailable(r) \/ Abort(r)
      PROVE  Kept(q)
  BY <1>1 DEF Kept, Arrive, Serve, Unavailable, Abort, Authenticate, AuthenticateRefused,
     TenantContext, TenantContextRefused, ExecuteApplied, ExecuteAppliedUnseen,
     ExecuteReplayed, ExecuteConflict, ExecuteRefused, ExecuteForbidden, ReadCase,
     ReadCaseMissing, ReadCaseIllegible, FinishMutation, ReturnMutation, RecordAccess,
     RecordAccessUnseen, ListCases, ListCasesIllegible, Fail
<1>2. CASE Authenticate(q)
  BY <1>2 DEF Authenticate, Forward
<1>3. CASE TenantContext(q)
  <2>1. input[q].op \in Ops
    BY <1>3, InputAssumption DEF TenantContext, AllInputs
  <2>2. QED  BY <1>3, <2>1 DEF TenantContext, Forward, FirstStage, Ops, Mutations
<1>4. CASE AuthenticateRefused(q) \/ TenantContextRefused(q)
  <2>1. input[q] \in Inputs
    BY <1>4 DEF AuthenticateRefused, TenantContextRefused
  <2>2. PICK code \in Errors : Fail(q, code)
    BY <1>4, <2>1, VerdictCodes DEF AuthenticateRefused, TenantContextRefused
  <2>3. pc[q] \in {"auth", "context"} /\ ~Commit(q)
    <3>1. UNCHANGED idem
      BY <1>4 DEF AuthenticateRefused, TenantContextRefused, database
    <3>2. QED  BY <1>4, <3>1, CommitMarks DEF AuthenticateRefused, TenantContextRefused
  <2>4. QED  BY <2>2, <2>3 DEF Failed, Active, Stages
<1>5. CASE ExecuteConflict(q) \/ ExecuteRefused(q) \/ ExecuteForbidden(q)
  <2>1. input[q] \in Inputs
    BY <1>5 DEF ExecuteConflict, ExecuteRefused, ExecuteForbidden
  <2>2. PICK code \in Errors : Fail(q, code)
    BY <1>5, <2>1, VerdictCodes DEF ExecuteConflict, ExecuteRefused, ExecuteForbidden, Errors
  <2>3. pc[q] = "execute" /\ ~Commit(q)
    <3>1. UNCHANGED idem
      BY <1>5 DEF ExecuteConflict, ExecuteRefused, ExecuteForbidden, database
    <3>2. QED  BY <1>5, <3>1, CommitMarks DEF ExecuteConflict, ExecuteRefused, ExecuteForbidden
  <2>4. QED  BY <2>2, <2>3 DEF Failed, Active, Stages
<1>6. CASE \/ ExecuteAppliedUnseen(q) \/ ReadCaseMissing(q) \/ RecordAccessUnseen(q)
           \/ Unavailable(q)
  BY <1>6 DEF ExecuteAppliedUnseen, ReadCaseMissing, RecordAccessUnseen, Unavailable,
     Failed, Active, Stages, Errors
<1>7. CASE ReadCaseIllegible(q)
  BY <1>7 DEF ReadCaseIllegible, Failed, Active, Stages, Errors
<1>8. CASE ListCasesIllegible(q)
  <2>1. UNCHANGED idem
    BY <1>8 DEF ListCasesIllegible, database
  <2>2. ~Commit(q)
    BY <1>8, <2>1, CommitMarks DEF ListCasesIllegible
  <2>3. QED  BY <1>8, <2>2 DEF ListCasesIllegible, Failed, Active, Stages, Errors
<1>9. CASE Environment \/ UNCHANGED vars
  BY <1>9 DEF Environment, ChangeRole, RevokeSession, Tick, ApplyRetention, ForeignWrite,
     api, vars, Kept
<1>10. QED
  BY <1>1, <1>2, <1>3, <1>4, <1>5, <1>6, <1>7, <1>8, <1>9 DEF Next, Serve

(* The event log only grows, and at its end. *)
LEMMA LogGrows ==
  ASSUME Typing, [Next]_vars
  PROVE  /\ Len(log) <= Len(log')
         /\ \A i \in DOMAIN log : i \in DOMAIN log' /\ log'[i] = log[i]
<1>1. log \in Seq(Events)
  BY DEF Typing, TypeOK, DatabaseTypeOK
<1>2. ASSUME NEW r \in Requests, pc[r] = "execute", Commit(r)
      PROVE  /\ Len(log) <= Len(log')
             /\ \A i \in DOMAIN log : i \in DOMAIN log' /\ log'[i] = log[i]
  <2>1. PICK e \in Events : log' = Append(log, e)
    BY <1>2, CommitAppends DEF CommitsEvent
  <2>2. QED  BY <1>1, <2>1
<1>3. CASE ~ \E r \in Requests : pc[r] = "execute" /\ Commit(r)
  BY <1>1, <1>3, OnlyCommitsWrite
<1>4. QED  BY <1>2, <1>3

-----------------------------------------------------------------------------
(***************************************************************************)
(* The strengthening.  The idempotency table points at an event of its own  *)
(* slot; a case stays with its tenant; an event carries the slot, the hash  *)
(* and the version of the request that wrote it, and that request is past   *)
(* its transaction; an event a handler refers to is its own or that of the  *)
(* same request made before; and what the handler read back is the case of  *)
(* that event, no older than the event.                                     *)
(***************************************************************************)
SlotOK ==
  \A t \in Tenants, k \in Keys : idem[t][k] > 0 =>
    log[idem[t][k]].tenant = t /\ log[idem[t][k]].key = k

TenantsFixed == \A i \in DOMAIN log : rows[log[i].case].tenant = log[i].tenant

Origin(e) ==
  LET in == input[e.by] IN
  /\ in.op \in Mutations
  /\ e.tenant = in.tenant /\ e.key = in.key /\ e.hash = CanonicalHash(in)
  /\ in.op # "create" => e.version = in.cmd.expected + 1 /\ in.cmd.expected > 0
  /\ in.op = "rotate" => in.cmd.doc > 0
Provenance == \A i \in DOMAIN log : Origin(log[i])

Later == {"readCase", "readEvent", "done", "aborted"}
Owned == \A i \in DOMAIN log : pc[log[i].by] \in Later

Referred ==
  \A r \in Requests : evt[r] > 0 =>
    /\ pc[r] \in Later /\ Mutates(r)
    /\ SameRequest(input[log[evt[r]].by], input[r])
    /\ replayed[r] <=> log[evt[r]].by # r

ListOnly == \A r \in Requests : pc[r] = "list" => input[r].op = "list"

ReadOut(r) ==
  LET e == log[evt[r]] IN
  \E s \in body[r] :
    body[r] = {s} /\ s.id = e.case /\ s.tenant = e.tenant /\ s.version >= e.version
ReadBack ==
  \A r \in Requests : Mutates(r) /\ (pc[r] = "readEvent" \/ Succeeded(r)) =>
    evt[r] > 0 /\ ReadOut(r)

LogInv == Typing /\ Recording /\ Numbering /\ SlotOK /\ TenantsFixed /\ Provenance
EffectsInv == LogInv /\ Owned /\ Referred /\ ListOnly /\ ReadBack

(* Indices that handlers and the idempotency table hold are those of events. *)
LEMMA Indices ==
  ASSUME Typing
  PROVE  /\ log \in Seq(Events) /\ Len(log) \in Nat /\ DOMAIN log = 1 .. Len(log)
         /\ \A i \in DOMAIN log : log[i] \in Events /\ log[i].by \in Requests
               /\ log[i].case \in Cases /\ log[i].tenant \in Tenants /\ log[i].key \in Keys
               /\ log[i].version \in Nat
         /\ \A r \in Requests : evt[r] \in Nat /\ (evt[r] > 0 => evt[r] \in DOMAIN log)
         /\ \A t \in Tenants, k \in Keys :
               idem[t][k] \in Nat /\ (idem[t][k] > 0 => idem[t][k] \in DOMAIN log)
<1>1. log \in Seq(Events) /\ Len(log) \in Nat /\ DOMAIN log = 1 .. Len(log)
  BY DEF Typing, TypeOK, DatabaseTypeOK
<1>2. \A i \in DOMAIN log : log[i] \in Events
  BY <1>1
<1>3. \A e \in Events : /\ e.by \in Requests /\ e.case \in Cases /\ e.tenant \in Tenants
                        /\ e.key \in Keys /\ e.version \in Nat
  BY DEF Events
<1>4. \A r \in Requests : evt[r] \in Nat /\ (evt[r] > 0 => evt[r] \in DOMAIN log)
  BY <1>1 DEF Typing, TypeOK, ApiTypeOK, IndexOK
<1>5. \A t \in Tenants, k \in Keys :
        idem[t][k] \in Nat /\ (idem[t][k] > 0 => idem[t][k] \in DOMAIN log)
  BY <1>1 DEF Typing, TypeOK, DatabaseTypeOK, IndexOK
<1>6. QED  BY <1>1, <1>2, <1>3, <1>4, <1>5

(* What a transaction writes says where it comes from: the event has the    *)
(* hash and, if it changes a case, the version its request expected; the    *)
(* row stays with its tenant.                                               *)
LEMMA CommitOrigin ==
  ASSUME Typing, NEW r \in Requests, pc[r] = "execute", Commit(r)
  PROVE  \E e \in Events :
           /\ CommitsEvent(r, e)
           /\ Origin(e)
           /\ rows'[e.case].tenant = e.tenant
           /\ rows[e.case].version = 0 \/ rows[e.case].tenant = e.tenant
<1> DEFINE in == input[r]
<1>0. PICK e \in Events : CommitsEvent(r, e)
  BY CommitAppends
<1>1. in \in AllInputs /\ in.op \in Mutations /\ in.cmd.expected \in Nat /\ in.cmd.doc \in Nat
  BY InputAssumption DEF Typing, TypeOK, ApiTypeOK, StageOK, AllInputs, Commands
<1>2. PICK c \in Cases :
        /\ IF in.op = "create" THEN rows[c].version = 0 ELSE c = in.case
        /\ rows' = [rows EXCEPT ![c] = NewRow(in, c)]
        /\ log' = Append(log,
                   [tenant |-> in.tenant, key |-> in.key,
                    hash |-> CanonicalHash(in), case |-> c,
                    version |-> NewRow(in, c).version, by |-> r])
  BY DEF Commit, WriteCaseAndEvent
<1>3. log \in Seq(Events) /\ rows \in [Cases -> Rows] /\ rows[c] \in Rows
  BY DEF Typing, TypeOK, DatabaseTypeOK
<1>4. /\ e = [tenant |-> in.tenant, key |-> in.key, hash |-> CanonicalHash(in), case |-> c,
              version |-> NewRow(in, c).version, by |-> r]
      /\ e.version = rows[c].version + 1
  <2>1. log' = Append(log, e) /\ e.version = rows[e.case].version + 1
    BY <1>0 DEF CommitsEvent
  <2>2. QED  BY <1>2, <1>3, <2>1
<1>5. rows'[c] = NewRow(in, c) /\ rows[c].version \in Nat /\ rows[c].doc \in Nat
  BY <1>2, <1>3 DEF Rows
<1>6. CASE in.op = "create"
  <2>1. NewRow(in, c).tenant = in.tenant
    BY <1>6 DEF NewRow
  <2>2. QED  BY <1>0, <1>1, <1>2, <1>4, <1>5, <1>6, <2>1 DEF Origin
<1>7. CASE in.op # "create"
  <2>1. c = in.case /\ SqlVerdict(in) = "ok"
    BY <1>2, <1>7 DEF Commit, WriteCaseAndEvent
  <2>2. /\ Visible(in.tenant, c) /\ rows[c].version = in.cmd.expected
        /\ in.op = "rotate" => rows[c].doc # 0 /\ ~(in.cmd.doc <= rows[c].doc)
    BY <1>7, <2>1 DEF SqlVerdict
  <2>3. /\ rows[c].version > 0 /\ rows[c].tenant = in.tenant
        /\ in.op = "rotate" => in.cmd.doc > 0
    BY <1>1, <1>5, <2>2 DEF Visible
  <2>4. NewRow(in, c).tenant = rows[c].tenant
    BY <1>1, <1>3, <1>7 DEF NewRow, Mutations, Rows
  <2>5. QED  BY <1>0, <1>1, <1>4, <1>5, <1>7, <2>2, <2>3, <2>4 DEF Origin
<1>8. QED  BY <1>6, <1>7

(* Who writes the event log: a handler at its transaction. *)
LEMMA LogWriters ==
  ASSUME Typing, [Next]_vars
  PROVE  \/ /\ UNCHANGED <<log, idem>>
            /\ \A c \in Cases :
                 rows'[c].version = rows[c].version /\ rows'[c].tenant = rows[c].tenant
         \/ \E r \in Requests : ExecuteApplied(r) \/ ExecuteAppliedUnseen(r)
<1>1. CASE ~ \E r \in Requests : pc[r] = "execute" /\ Commit(r)
  BY <1>1, OnlyCommitsWrite
<1>2. ASSUME NEW r \in Requests, pc[r] = "execute", Commit(r)
      PROVE  \E q \in Requests : ExecuteApplied(q) \/ ExecuteAppliedUnseen(q)
  <2>1. idem' # idem
    BY <1>2, CommitMarks
  <2>2. ASSUME NEW q \in Requests, Arrive(q) \/ Serve(q) \/ Unavailable(q) \/ Abort(q)
        PROVE  ExecuteApplied(q) \/ ExecuteAppliedUnseen(q)
    BY <2>1, <2>2 DEF Arrive, Serve, Unavailable, Abort, Authenticate, AuthenticateRefused,
       TenantContext, TenantContextRefused, ExecuteReplayed, ExecuteConflict, ExecuteRefused,
       ExecuteForbidden, ReadCase, ReadCaseMissing, ReadCaseIllegible, FinishMutation,
       ReturnMutation, RecordAccess, RecordAccessUnseen, ListCases, ListCasesIllegible,
       database
  <2>3. ~Environment /\ ~UNCHANGED vars
    BY <2>1 DEF Environment, ChangeRole, RevokeSession, Tick, ApplyRetention,
       ForeignWrite, vars
  <2>4. QED  BY <2>2, <2>3 DEF Next
<1>3. QED  BY <1>1, <1>2

(* The writers of events keep the requests they made. *)
LEMMA WritersKeep ==
  ASSUME Typing, Owned, [Next]_vars, NEW i \in DOMAIN log
  PROVE  input'[log[i].by] = input[log[i].by]
<1>1. log[i].by \in Requests /\ pc[log[i].by] # "idle"
  BY Indices DEF Owned, Later
<1>2. QED  BY <1>1, RequestsKeep

(* Log, idempotency table, rows and the origin of every event stay in step. *)
LEMMA LogInvStep ==
  ASSUME LogInv, Owned, [Next]_vars
  PROVE  LogInv'
<1> USE DEF LogInv
<1>1. Typing'
  BY TypingStep
<1>2. ASSUME NEW r \in Requests, ExecuteApplied(r) \/ ExecuteAppliedUnseen(r)
      PROVE  LogInv'
  <2>1. pc[r] = "execute" /\ Commit(r)
    BY <1>2 DEF ExecuteApplied, ExecuteAppliedUnseen
  <2>2. Recording' /\ Numbering'
    BY <2>1, CommitRecords
  <2>3. PICK e \in Events :
          /\ CommitsEvent(r, e) /\ Origin(e)
          /\ rows'[e.case].tenant = e.tenant
          /\ rows[e.case].version = 0 \/ rows[e.case].tenant = e.tenant
    BY <2>1, CommitOrigin
  <2>4. /\ e.by = r /\ log' = Append(log, e)
        /\ rows' = [rows EXCEPT ![e.case] = rows'[e.case]]
        /\ idem' = [idem EXCEPT ![e.tenant][e.key] = Len(log) + 1]
        /\ e.case \in Cases /\ e.tenant \in Tenants /\ e.key \in Keys
    BY <2>3 DEF CommitsEvent, Events
  <2>5. /\ log \in Seq(Events) /\ rows \in [Cases -> Rows] /\ idem \in [Tenants -> [Keys -> Nat]]
        /\ Len(log) \in Nat
    BY DEF Typing, TypeOK, DatabaseTypeOK
  <2>6. /\ DOMAIN log' = DOMAIN log \cup {Len(log) + 1}
        /\ log'[Len(log) + 1] = e
        /\ \A i \in DOMAIN log : log'[i] = log[i]
    BY <2>4, <2>5
  <2>7. SlotOK'
    <3> SUFFICES ASSUME NEW t \in Tenants, NEW k \in Keys, idem'[t][k] > 0
        PROVE  log'[idem'[t][k]].tenant = t /\ log'[idem'[t][k]].key = k
      BY DEF SlotOK
    <3>1. CASE t = e.tenant /\ k = e.key
      BY <2>4, <2>5, <2>6, <3>1
    <3>2. CASE ~(t = e.tenant /\ k = e.key)
      <4>1. idem'[t][k] = idem[t][k]
        BY <2>4, <2>5, <3>2
      <4>2. idem[t][k] \in DOMAIN log
        BY <4>1, Indices
      <4>3. QED  BY <2>6, <4>1, <4>2 DEF SlotOK
    <3>3. QED  BY <3>1, <3>2
  <2>8. TenantsFixed'
    <3> SUFFICES ASSUME NEW i \in DOMAIN log' PROVE rows'[log'[i].case].tenant = log'[i].tenant
      BY DEF TenantsFixed
    <3>1. CASE i = Len(log) + 1
      BY <2>3, <2>6, <3>1
    <3>2. CASE i \in DOMAIN log
      <4>1. log'[i] = log[i] /\ log[i].case \in Cases /\ rows[log[i].case].tenant = log[i].tenant
        BY <2>6, <3>2, Indices DEF TenantsFixed
      <4>2. CASE log[i].case = e.case
        <5>1. log[i].version \in Versions(e.case)
          BY <3>2, <4>2 DEF Versions
        <5>2. rows[e.case].version # 0
          BY <2>4, <5>1 DEF Numbering
        <5>3. QED  BY <2>3, <4>1, <4>2, <5>2
      <4>3. CASE log[i].case # e.case
        BY <2>4, <2>5, <4>1, <4>3
      <4>4. QED  BY <4>2, <4>3
    <3>3. QED  BY <2>6, <3>1, <3>2
  <2>9. Provenance'
    <3> SUFFICES ASSUME NEW i \in DOMAIN log' PROVE Origin(log[i])'
      BY DEF Provenance
    <3>1. CASE i = Len(log) + 1
      <4>1. input'[e.by] = input[e.by]
        BY <2>1, <2>4, RequestsKeep
      <4>2. QED  BY <2>3, <2>6, <3>1, <4>1 DEF Origin, CanonicalHash
    <3>2. CASE i \in DOMAIN log
      BY <2>6, <3>2, WritersKeep DEF Provenance, Origin, CanonicalHash
    <3>3. QED  BY <2>6, <3>1, <3>2
  <2>10. QED  BY <1>1, <2>2, <2>7, <2>8, <2>9
<1>3. CASE /\ UNCHANGED <<log, idem>>
           /\ \A c \in Cases :
                rows'[c].version = rows[c].version /\ rows'[c].tenant = rows[c].tenant
  <2>1. Recording' /\ Numbering' /\ SlotOK'
    BY <1>3 DEF Recording, Numbering, Versions, SlotOK
  <2>2. TenantsFixed'
    BY <1>3, Indices DEF TenantsFixed
  <2>3. Provenance'
    BY <1>3, WritersKeep DEF Provenance, Origin, CanonicalHash
  <2>4. QED  BY <1>1, <2>1, <2>2, <2>3
<1>4. QED  BY <1>2, <1>3, LogWriters

(* A request that wrote an event is past its transaction for good. *)
LEMMA OwnedStep ==
  ASSUME EffectsInv, [Next]_vars
  PROVE  Owned'
<1> USE DEF EffectsInv, LogInv
<1> SUFFICES ASSUME NEW i \in DOMAIN log' PROVE pc'[log'[i].by] \in Later
  BY DEF Owned
<1>0. pc \in [Requests -> Stages]
  BY DEF Typing, TypeOK, ApiTypeOK
<1>1. CASE i \in DOMAIN log
  <2> DEFINE q == log[i].by
  <2>1. /\ log'[i] = log[i] /\ q \in Requests /\ pc[q] \in Later
        /\ input[q].op \in Mutations
    BY <1>1, LogGrows, Indices DEF Owned, Provenance, Origin
  <2>2. CASE Kept(q)
    BY <2>1, <2>2 DEF Kept
  <2>3. CASE Failed(q)
    BY <1>0, <2>1, <2>3 DEF Failed, Fail, Later
  <2>4. CASE Abort(q)
    BY <1>0, <2>1, <2>4 DEF Abort, Later
  <2>5. CASE ReadCase(q)
    BY <1>0, <2>1, <2>5 DEF ReadCase, Later, Mutations
  <2>6. CASE FinishMutation(q)
    BY <1>0, <2>1, <2>6 DEF FinishMutation, ReturnMutation, Later
  <2>7. CASE Arrive(q) \/ Forward(q) \/ ExecuteApplied(q) \/ ExecuteReplayed(q)
             \/ RecordAccess(q) \/ ListCases(q)
    BY <2>1, <2>7 DEF Arrive, Forward, ExecuteApplied, ExecuteReplayed, RecordAccess,
       ListCases, Later
  <2>8. QED
    BY <2>1, <2>2, <2>3, <2>4, <2>5, <2>6, <2>7, RequestStep
<1>2. CASE i \notin DOMAIN log
  <2>1. PICK r \in Requests : ExecuteApplied(r) \/ ExecuteAppliedUnseen(r)
    BY <1>2, LogWriters
  <2>2. PICK e \in Events : log' = Append(log, e) /\ e.by = r
    BY <2>1, CommitAppends DEF ExecuteApplied, ExecuteAppliedUnseen, CommitsEvent
  <2>3. log'[i].by = r
    BY <1>2, <2>2, Indices
  <2>4. QED
    BY <1>0, <2>1, <2>3 DEF ExecuteApplied, ExecuteAppliedUnseen, Fail, Later
<1>3. QED  BY <1>1, <1>2

(* Two requests with the same slot and the same canonical hash are the same *)
(* to a client: what is hashed tells everything else apart.                 *)
LEMMA HashTellsApart ==
  ASSUME NEW a, NEW b, CanonicalHash(a) = CanonicalHash(b),
         a.tenant = b.tenant, a.key = b.key
  PROVE  SameRequest(a, b)
<1>1. a.op = b.op /\ a.cmd = b.cmd
  BY DEF CanonicalHash
<1>2. a.op # "create" => a.case = b.case
  BY <1>1 DEF CanonicalHash
<1>3. QED  BY <1>1, <1>2 DEF SameRequest

(* The event a handler refers to is its own or, if replayed, that of the    *)
(* same request made before: apme_* found the key with an equal hash.       *)
LEMMA ReferredStep ==
  ASSUME EffectsInv, [Next]_vars
  PROVE  Referred'
<1> USE DEF EffectsInv, LogInv
<1> SUFFICES ASSUME NEW r \in Requests, evt'[r] > 0
    PROVE  /\ pc'[r] \in Later /\ input'[r].op \in Mutations
           /\ SameRequest(input'[log'[evt'[r]].by], input'[r])
           /\ replayed'[r] <=> log'[evt'[r]].by # r
  BY DEF Referred, Mutates, SameRequest
<1>0. /\ pc \in [Requests -> Stages] /\ evt \in [Requests -> Nat]
      /\ replayed \in [Requests -> BOOLEAN] /\ log \in Seq(Events) /\ Len(log) \in Nat
  BY DEF Typing, TypeOK, ApiTypeOK, DatabaseTypeOK
<1>1. CASE evt'[r] = evt[r] /\ replayed'[r] = replayed[r]
  <2> DEFINE q == log[evt[r]].by
  <2>1. /\ evt[r] \in DOMAIN log /\ pc[r] \in Later /\ input[r].op \in Mutations
        /\ SameRequest(input[q], input[r])
        /\ replayed[r] <=> q # r
    BY <1>1, Indices DEF Referred, Mutates
  <2>2. log'[evt[r]] = log[evt[r]] /\ input'[q] = input[q]
    BY <2>1, LogGrows, WritersKeep
  <2>3. input'[r] = input[r]
    BY <2>1, RequestsKeep DEF Later
  <2>4. pc'[r] \in Later
    <3>1. CASE Kept(r) \/ Failed(r) \/ Abort(r)
      BY <1>0, <2>1, <3>1 DEF Kept, Failed, Fail, Abort, Later
    <3>2. CASE ReadCase(r) \/ FinishMutation(r)
      BY <1>0, <2>1, <3>2 DEF ReadCase, FinishMutation, ReturnMutation, Later, Mutations
    <3>3. CASE Arrive(r) \/ Forward(r) \/ ExecuteApplied(r) \/ ExecuteReplayed(r)
               \/ RecordAccess(r) \/ ListCases(r)
      BY <2>1, <3>3 DEF Arrive, Forward, ExecuteApplied, ExecuteReplayed, RecordAccess,
         ListCases, Later
    <3>4. QED  BY <3>1, <3>2, <3>3, RequestStep
  <2>5. QED  BY <1>1, <2>1, <2>2, <2>3, <2>4
<1>2. CASE ExecuteApplied(r)
  <2>1. PICK e \in Events : log' = Append(log, e) /\ e.by = r
    BY <1>2, CommitAppends DEF ExecuteApplied, CommitsEvent
  <2>2. /\ evt'[r] = Len(log) + 1 /\ log'[Len(log) + 1].by = r /\ replayed'[r] = FALSE
        /\ pc'[r] = "readCase" /\ input'[r] = input[r] /\ input[r].op \in Mutations
    BY <1>0, <1>2, <2>1 DEF ExecuteApplied, Typing, StageOK
  <2>3. QED  BY <2>2 DEF SameRequest, Later
<1>3. CASE ExecuteReplayed(r)
  <2> DEFINE j == Recorded(input[r])
             q == log[j].by
  <2>1. /\ pc[r] = "execute" /\ j > 0 /\ log[j].hash = CanonicalHash(input[r])
        /\ pc'[r] = "readCase" /\ evt'[r] = j /\ replayed'[r] = TRUE
        /\ UNCHANGED <<input, log>>
    BY <1>0, <1>3 DEF ExecuteReplayed, database
  <2>2. input[r].tenant \in Tenants /\ input[r].key \in Keys
    BY <2>1, InputAssumption DEF Typing, TypeOK, ApiTypeOK, AllInputs
  <2>3. /\ j \in DOMAIN log
        /\ log[j].tenant = input[r].tenant /\ log[j].key = input[r].key
    BY <2>1, <2>2, Indices DEF Recorded, SlotOK
  <2>4. /\ log[j].tenant = input[q].tenant /\ log[j].key = input[q].key
        /\ log[j].hash = CanonicalHash(input[q])
    BY <2>3 DEF Provenance, Origin
  <2>5. SameRequest(input[q], input[r])
    BY <2>1, <2>3, <2>4, HashTellsApart
  <2>6. q # r
    BY <2>1, <2>3 DEF Owned, Later
  <2>7. input[r].op \in Mutations
    BY <2>1 DEF Typing, StageOK
  <2>8. QED  BY <2>1, <2>5, <2>6, <2>7 DEF Later
<1>4. CASE ~ExecuteApplied(r) /\ ~ExecuteReplayed(r)
  <2>1. evt'[r] = evt[r] /\ replayed'[r] = replayed[r]
    BY <1>4, RequestStep DEF Kept, Arrive, Forward, Failed, Fail, Abort, ReadCase,
       FinishMutation, ReturnMutation, RecordAccess, ListCases
  <2>2. QED  BY <1>1, <2>1
<1>5. QED  BY <1>2, <1>3, <1>4

(* Only list_cases waits for the list. *)
LEMMA ListOnlyStep ==
  ASSUME EffectsInv, [Next]_vars
  PROVE  ListOnly'
<1> USE DEF EffectsInv, LogInv
<1> SUFFICES ASSUME NEW r \in Requests, pc'[r] = "list" PROVE input'[r].op = "list"
  BY DEF ListOnly
<1>0. pc \in [Requests -> Stages]
  BY DEF Typing, TypeOK, ApiTypeOK
<1>1. CASE Kept(r)
  BY <1>1 DEF Kept, ListOnly
<1>2. CASE Forward(r)
  BY <1>2 DEF Forward
<1>3. CASE \/ Arrive(r) \/ Failed(r) \/ Abort(r) \/ ExecuteApplied(r) \/ ExecuteReplayed(r)
           \/ ReadCase(r) \/ FinishMutation(r) \/ RecordAccess(r) \/ ListCases(r)
  BY <1>0, <1>3 DEF Arrive, Failed, Fail, Abort, ExecuteApplied, ExecuteReplayed, ReadCase,
     FinishMutation, ReturnMutation, RecordAccess, ListCases
<1>4. QED  BY <1>1, <1>2, <1>3, RequestStep

(* mutation_result returns the case of the event, read after the event was  *)
(* committed: whatever other requests did to the case since, it is no older. *)
LEMMA ReadBackStep ==
  ASSUME EffectsInv, [Next]_vars
  PROVE  ReadBack'
<1> USE DEF EffectsInv, LogInv
<1> SUFFICES ASSUME NEW r \in Requests, input'[r].op \in Mutations,
                    pc'[r] = "readEvent" \/ (pc'[r] = "done" /\ reply'[r] \in Successes)
    PROVE  evt'[r] > 0 /\ ReadOut(r)'
  BY DEF ReadBack, Mutates, Succeeded, Finished
<1>0. /\ pc \in [Requests -> Stages] /\ evt \in [Requests -> Nat]
      /\ body \in [Requests -> SUBSET Snapshots]
      /\ reply \in [Requests -> {"none"} \cup Successes \cup Errors]
  BY DEF Typing, TypeOK, ApiTypeOK
<1>1. ASSUME input[r].op \in Mutations, pc[r] = "readEvent" \/ Succeeded(r),
             evt'[r] = evt[r], body'[r] = body[r]
      PROVE  evt'[r] > 0 /\ ReadOut(r)'
  <2>1. evt[r] > 0 /\ ReadOut(r)
    BY <1>1 DEF ReadBack, Mutates
  <2>2. log'[evt[r]] = log[evt[r]]
    BY <2>1, Indices, LogGrows
  <2>3. QED  BY <1>1, <2>1, <2>2 DEF ReadOut
<1>2. CASE Kept(r)
  BY <1>1, <1>2 DEF Kept, Succeeded, Finished
<1>3. CASE ReadCase(r)
  <2> DEFINE e == log[evt[r]]
  <2>1. /\ pc[r] = "readCase" /\ input[r].op \in Mutations
        /\ UNCHANGED <<log, evt, input>>
        /\ body'[r] = {Snapshot(Target(r))} /\ Visible(input[r].tenant, Target(r))
    BY <1>0, <1>3 DEF ReadCase, database
  <2>2. evt[r] > 0 /\ evt[r] \in DOMAIN log /\ Target(r) = e.case
    BY <2>1, Indices DEF Typing, StageOK, Target
  <2>3. e.tenant = input[r].tenant
    BY <2>2 DEF Provenance, Origin, Referred, SameRequest
  <2>4. e.version <= rows[e.case].version
    <3>1. e.version \in Versions(e.case) /\ e.case \in Cases
      BY <2>2, Indices DEF Versions
    <3>2. rows[e.case].version \in Nat
      BY <3>1 DEF Typing, TypeOK, DatabaseTypeOK, Rows
    <3>3. QED  BY <3>1, <3>2 DEF Numbering
  <2>5. /\ Snapshot(e.case).id = e.case /\ Snapshot(e.case).tenant = e.tenant
        /\ Snapshot(e.case).version >= e.version
    <3>1. rows[e.case].tenant = e.tenant
      BY <2>1, <2>2, <2>3 DEF Visible
    <3>2. rows[e.case].version \in Nat /\ e.version \in Nat
      BY <2>2, Indices DEF Typing, TypeOK, DatabaseTypeOK, Rows
    <3>3. QED  BY <2>4, <3>1, <3>2 DEF Snapshot
  <2>6. ReadOut(r)'
    BY <2>1, <2>2, <2>5 DEF ReadOut
  <2>7. QED  BY <2>1, <2>2, <2>6
<1>4. CASE FinishMutation(r)
  <2>1. pc[r] = "readEvent" /\ input[r].op \in Mutations /\ UNCHANGED <<evt, body>>
    BY <1>4 DEF FinishMutation, ReturnMutation
  <2>2. QED  BY <1>1, <2>1
<1>5. CASE RecordAccess(r) \/ ListCases(r)
  <2>1. input[r].op \in {"get", "list"} /\ input' = input
    BY <1>5 DEF RecordAccess, ListCases, Typing, StageOK, ListOnly
  <2>2. QED  BY <2>1 DEF Mutations
<1>6. CASE Failed(r)
  BY <1>0, <1>6 DEF Failed, Fail, Errors, Successes
<1>7. CASE Arrive(r) \/ Forward(r) \/ Abort(r) \/ ExecuteApplied(r) \/ ExecuteReplayed(r)
  BY <1>0, <1>7 DEF Arrive, Forward, Abort, ExecuteApplied, ExecuteReplayed
<1>8. QED  BY <1>2, <1>3, <1>4, <1>5, <1>6, <1>7, RequestStep

(* EffectsInv is inductive. *)
LEMMA EffectsStep == EffectsInv /\ [Next]_vars => EffectsInv'
  BY LogInvStep, OwnedStep, ReferredStep, ListOnlyStep, ReadBackStep DEF EffectsInv

(* A migrated, empty database satisfies it. *)
LEMMA EffectsInit == Init => EffectsInv
<1> SUFFICES ASSUME Init PROVE EffectsInv
  OBVIOUS
<1>1. log = <<>> /\ \A c \in Cases : rows[c].version = 0
  BY DEF Init, NoRow
<1>2. Recording /\ Numbering /\ TenantsFixed /\ Provenance /\ Owned
  BY <1>1 DEF Recording, Numbering, Versions, TenantsFixed, Provenance, Owned
<1>3. SlotOK /\ Referred /\ ListOnly /\ ReadBack
  BY DEF Init, SlotOK, Referred, ListOnly, ReadBack, Succeeded, Finished
<1>4. QED  BY <1>2, <1>3, TypingInit DEF EffectsInv, LogInv

(* Hence it holds of every reachable state. *)
LEMMA EffectsInvariant == Spec => []EffectsInv
  BY EffectsInit, EffectsStep, PTL DEF Spec

-----------------------------------------------------------------------------
(* What a client is told. *)

(* A mutation that succeeds reports the event of its own command, committed *)
(* by itself or by the same request made before, and the case of that       *)
(* event, no older than the event (mutation_result).                        *)
THEOREM RepliesMatch == Spec => []ReplyMatchesRequest
<1>1. ASSUME EffectsInv PROVE ReplyMatchesRequest
  <2> SUFFICES ASSUME NEW r \in Requests, Succeeded(r), Mutates(r)
      PROVE  /\ evt[r] \in DOMAIN log
             /\ LET e == log[evt[r]] IN
                /\ SameRequest(input[e.by], input[r])
                /\ replayed[r] <=> e.by # r
                /\ input[r].op # "create" => e.version = input[r].cmd.expected + 1
                /\ ReadOut(r)
    BY DEF ReplyMatchesRequest, ReadOut
  <2>1. evt[r] > 0 /\ ReadOut(r)
    BY <1>1 DEF EffectsInv, ReadBack
  <2>2. evt[r] \in DOMAIN log
    BY <1>1, <2>1, Indices DEF EffectsInv, LogInv
  <2>3. /\ SameRequest(input[log[evt[r]].by], input[r])
        /\ replayed[r] <=> log[evt[r]].by # r
    BY <1>1, <2>1 DEF EffectsInv, Referred
  <2>4. input[r].op # "create" => log[evt[r]].version = input[r].cmd.expected + 1
    BY <1>1, <2>2, <2>3 DEF EffectsInv, LogInv, Provenance, Origin, SameRequest
  <2>5. QED  BY <2>1, <2>2, <2>3, <2>4
<1>2. QED  BY <1>1, EffectsInvariant, PTL

-----------------------------------------------------------------------------
(* What the channel carries. *)

(* Only a handler that returns a mutation publishes. *)
LEMMA Publishers ==
  ASSUME [Next]_vars
  PROVE  UNCHANGED published \/ \E r \in Requests : FinishMutation(r)
<1>1. ASSUME NEW r \in Requests, Arrive(r) \/ Serve(r) \/ Unavailable(r) \/ Abort(r)
      PROVE  UNCHANGED published \/ FinishMutation(r)
  BY <1>1 DEF Arrive, Serve, Unavailable, Abort, Authenticate, AuthenticateRefused,
     TenantContext, TenantContextRefused, ExecuteApplied, ExecuteAppliedUnseen,
     ExecuteReplayed, ExecuteConflict, ExecuteRefused, ExecuteForbidden, ReadCase,
     ReadCaseMissing, ReadCaseIllegible, RecordAccess, RecordAccessUnseen, ListCases,
     ListCasesIllegible, Fail
<1>2. CASE Environment \/ UNCHANGED vars
  BY <1>2 DEF Environment, ChangeRole, RevokeSession, Tick, ApplyRetention, ForeignWrite,
     api, vars
<1>3. QED  BY <1>1, <1>2 DEF Next

(* A success stays one: the request id is not used again. *)
LEMMA SuccessStays ==
  ASSUME Typing, [Next]_vars, NEW q \in Requests, Succeeded(q)
  PROVE  Kept(q)
  BY RequestStep DEF Succeeded, Finished, Arrive, Forward, Failed, Abort, ExecuteApplied,
     ExecuteReplayed, ReadCase, FinishMutation, ReturnMutation, RecordAccess, ListCases,
     Active

(* A mutation succeeds by returning from mutation_result, and only so. *)
LEMMA MutationSucceeds ==
  ASSUME EffectsInv, [Next]_vars, NEW q \in Requests, Succeeded(q)', Mutates(q)'
  PROVE  (Kept(q) /\ Succeeded(q) /\ Mutates(q)) \/ FinishMutation(q)
<1> USE DEF EffectsInv, LogInv
<1>0. /\ pc \in [Requests -> Stages]
      /\ reply \in [Requests -> {"none"} \cup Successes \cup Errors]
  BY DEF Typing, TypeOK, ApiTypeOK
<1>1. CASE Kept(q)
  BY <1>1 DEF Kept, Succeeded, Finished, Mutates
<1>2. CASE Failed(q)
  BY <1>0, <1>2 DEF Failed, Fail, Succeeded, Errors, Successes
<1>3. CASE RecordAccess(q) \/ ListCases(q)
  <2>1. input[q].op \in {"get", "list"} /\ input' = input
    BY <1>3 DEF RecordAccess, ListCases, Typing, StageOK, ListOnly
  <2>2. QED  BY <2>1 DEF Mutations, Mutates
<1>4. CASE Arrive(q) \/ Forward(q) \/ Abort(q) \/ ExecuteApplied(q) \/ ExecuteReplayed(q)
           \/ ReadCase(q)
  BY <1>0, <1>4 DEF Arrive, Forward, Abort, ExecuteApplied, ExecuteReplayed, ReadCase,
     Succeeded, Finished
<1>5. QED  BY <1>1, <1>2, <1>3, <1>4, RequestStep

(* A commit's own handler publishes it when it returns: no earlier entry of *)
(* the channel is that event, for its writer would have returned already.   *)
LEMMA PublishedStep ==
  ASSUME EffectsInv, PublishedOncePerCommit, [Next]_vars
  PROVE  PublishedOncePerCommit'
<1> USE DEF EffectsInv, LogInv
<1>0. /\ pc \in [Requests -> Stages] /\ published \in Seq(Nat) /\ Len(published) \in Nat
      /\ DOMAIN published = 1 .. Len(published)
      /\ reply \in [Requests -> {"none"} \cup Successes \cup Errors]
      /\ evt \in [Requests -> Nat] /\ replayed \in [Requests -> BOOLEAN]
  BY DEF Typing, TypeOK, ApiTypeOK
<1>1. ASSUME NEW i \in DOMAIN published
      PROVE  /\ published[i] \in DOMAIN log'
             /\ pc'[log'[published[i]].by] = "done"
             /\ reply'[log'[published[i]].by] \in Successes
  <2>1. published[i] \in DOMAIN log /\ Succeeded(log[published[i]].by)
    BY DEF PublishedOncePerCommit
  <2>2. published[i] \in DOMAIN log' /\ log'[published[i]] = log[published[i]]
    BY <2>1, LogGrows
  <2>3. Kept(log[published[i]].by)
    BY <2>1, Indices, SuccessStays
  <2>4. QED  BY <2>1, <2>2, <2>3 DEF Kept, Succeeded, Finished
<1>2. CASE UNCHANGED published /\ ~ \E r \in Requests : FinishMutation(r) /\ ~replayed[r]
  <2>1. ASSUME NEW q \in Requests, Succeeded(q)', Mutates(q)', ~replayed'[q]
        PROVE  \E i \in DOMAIN published' : published'[i] = evt'[q]
    <3>1. Kept(q) /\ Succeeded(q) /\ Mutates(q)
      BY <1>2, <2>1, MutationSucceeds DEF FinishMutation, ReturnMutation
    <3>2. QED  BY <1>2, <2>1, <3>1 DEF Kept, PublishedOncePerCommit
  <2>2. \A q \in Requests : Succeeded(q)' /\ Mutates(q)' /\ ~replayed'[q] =>
          \E i \in DOMAIN published' : published'[i] = evt'[q]
    BY <2>1
  <2>3. QED  BY <1>1, <1>2, <2>2 DEF PublishedOncePerCommit, Succeeded, Finished
<1>3. ASSUME NEW r \in Requests, FinishMutation(r), ~replayed[r]
      PROVE  PublishedOncePerCommit'
  <2>1. /\ pc[r] = "readEvent" /\ published' = Append(published, evt[r])
        /\ pc'[r] = "done" /\ reply'[r] \in Successes
        /\ UNCHANGED <<input, evt, replayed, log>>
    BY <1>0, <1>3 DEF FinishMutation, ReturnMutation, database, Successes
  <2>2. evt[r] > 0 /\ evt[r] \in DOMAIN log /\ log[evt[r]].by = r
    BY <1>3, <2>1, Indices DEF Typing, StageOK, Referred
  <2>3. \A i \in DOMAIN published : published[i] # evt[r]
    BY <2>1, <2>2 DEF PublishedOncePerCommit, Succeeded, Finished
  <2>4. /\ DOMAIN published' = DOMAIN published \cup {Len(published) + 1}
        /\ published'[Len(published) + 1] = evt[r]
        /\ \A i \in DOMAIN published : published'[i] = published[i]
    BY <1>0, <2>1, <2>2
  <2>5. \A i, j \in DOMAIN published' : published'[i] = published'[j] => i = j
    BY <2>3, <2>4 DEF PublishedOncePerCommit
  <2>6. \A i \in DOMAIN published' :
          published'[i] \in DOMAIN log' /\ Succeeded(log[published[i]].by)'
    <3> SUFFICES ASSUME NEW i \in DOMAIN published'
        PROVE  published'[i] \in DOMAIN log' /\ Succeeded(log[published[i]].by)'
      OBVIOUS
    <3>1. CASE i \in DOMAIN published
      BY <1>1, <2>4, <3>1 DEF Succeeded, Finished
    <3>2. CASE i = Len(published) + 1
      BY <2>1, <2>2, <2>4, <3>2 DEF Succeeded, Finished
    <3>3. QED  BY <2>4, <3>1, <3>2
  <2>7. ASSUME NEW q \in Requests, Succeeded(q)', Mutates(q)', ~replayed'[q]
        PROVE  \E i \in DOMAIN published' : published'[i] = evt'[q]
    <3>1. CASE q = r
      BY <2>1, <2>4, <3>1
    <3>2. CASE q # r
      <4>1. ~FinishMutation(q)
        BY <1>0, <2>1, <3>2 DEF FinishMutation, ReturnMutation
      <4>2. Kept(q) /\ Succeeded(q) /\ Mutates(q)
        BY <2>7, <4>1, MutationSucceeds
      <4>3. PICK i \in DOMAIN published : published[i] = evt[q]
        BY <2>7, <4>2 DEF Kept, PublishedOncePerCommit
      <4>4. QED  BY <2>1, <2>4, <4>3
    <3>3. QED  BY <3>1, <3>2
  <2>8. \A q \in Requests : Succeeded(q)' /\ Mutates(q)' /\ ~replayed'[q] =>
          \E i \in DOMAIN published' : published'[i] = evt'[q]
    BY <2>7
  <2>9. QED  BY <2>5, <2>6, <2>8 DEF PublishedOncePerCommit
<1>4. ASSUME NEW r \in Requests, FinishMutation(r), replayed[r]
      PROVE  UNCHANGED published /\ ~ \E q \in Requests : FinishMutation(q) /\ ~replayed[q]
  <2>1. \A q \in Requests : FinishMutation(q) => q = r
    BY <1>0, <1>4 DEF FinishMutation, ReturnMutation
  <2>2. QED  BY <1>4, <2>1 DEF FinishMutation, ReturnMutation
<1>5. QED  BY <1>2, <1>3, <1>4, Publishers

(* The channel carries every event at most once, only after its writer was  *)
(* told of it, and the event of every mutation reported as newly applied.   *)
THEOREM PublishedOnce == Spec => []PublishedOncePerCommit
<1>1. Init => PublishedOncePerCommit
  BY DEF Init, PublishedOncePerCommit, Succeeded, Finished
<1>2. EffectsInv /\ PublishedOncePerCommit /\ [Next]_vars => PublishedOncePerCommit'
  BY PublishedStep
<1>3. QED  BY <1>1, <1>2, EffectsInvariant, PTL DEF Spec

-----------------------------------------------------------------------------
(* What a retry is told. *)

(* The idempotency table answers a request that has an event of its own     *)
(* slot with that event and its hash.                                       *)
LEMMA RetryFindsEvent ==
  ASSUME EffectsInv, NEW r \in Requests, NEW i \in DOMAIN log,
         SameRequest(input[log[i].by], input[r])
  PROVE  /\ Recorded(input[r]) = i /\ i > 0
         /\ log[i].hash = CanonicalHash(input[r])
         /\ input[r].op \in Mutations
<1> USE DEF EffectsInv, LogInv
<1>1. Origin(log[i]) /\ i > 0
  BY Indices DEF Provenance
<1>2. log[i].tenant = input[r].tenant /\ log[i].key = input[r].key
  BY <1>1 DEF Origin, SameRequest
<1>3. Recorded(input[r]) = i
  BY <1>2 DEF Recorded, Recording
<1>4. CanonicalHash(input[log[i].by]) = CanonicalHash(input[r])
  BY DEF CanonicalHash, SameRequest
<1>5. QED  BY <1>1, <1>3, <1>4 DEF Origin, SameRequest

(* A request that was committed before is valid still, but for a creation's *)
(* retain_until, which CreateCaseCommand::validate compares with the clock. *)
LEMMA RetryValid ==
  ASSUME EffectsInv, NEW r \in Requests, pc[r] # "idle", NEW i \in DOMAIN log,
         SameRequest(input[log[i].by], input[r]), input[r].form = "ok",
         ~CommandValid(input[r], clock)
  PROVE  input[r].op = "create" /\ input[r].cmd.until <= clock
<1> USE DEF EffectsInv, LogInv
<1>1. Origin(log[i])
  BY DEF Provenance
<1>2. /\ input[r].op \in {"transition", "rotate"} => input[r].cmd.expected > 0
      /\ input[r].op = "rotate" => input[r].cmd.doc > 0
  BY <1>1 DEF Origin, SameRequest
<1>3. input[r].op = "create" /\ ~(input[r].cmd.until > clock)
  BY <1>2 DEF CommandValid
<1>4. input[r].cmd.until \in Nat /\ clock \in Nat
  BY InputAssumption DEF Typing, TypeOK, ApiTypeOK, DatabaseTypeOK, AllInputs, Commands
<1>5. QED  BY <1>3, <1>4

(* A retry that reads reads the case of the committed event, and so does    *)
(* the request that committed it.                                           *)
LEMMA RetryTarget ==
  ASSUME EffectsInv, NEW r \in Requests, pc[r] = "readCase", NEW i \in DOMAIN log,
         SameRequest(input[log[i].by], input[r])
  PROVE  Target(r) = log[i].case
<1> USE DEF EffectsInv, LogInv
<1>1. input[r].op \in Mutations /\ Recorded(input[r]) = i
  BY RetryFindsEvent
<1>2. evt[r] > 0 /\ evt[r] \in DOMAIN log
  BY <1>1, Indices DEF Typing, StageOK
<1>3. SameRequest(input[log[evt[r]].by], input[r])
  BY <1>2 DEF Referred
<1>4. evt[r] = i
  BY <1>1, <1>2, <1>3, RetryFindsEvent
<1>5. QED  BY <1>2, <1>4 DEF Target

(* That case is missing only when it is tombstoned. *)
LEMMA RetryMissing ==
  ASSUME EffectsInv, NEW r \in Requests, pc[r] = "readCase", NEW i \in DOMAIN log,
         SameRequest(input[log[i].by], input[r]), ~Visible(input[r].tenant, Target(r))
  PROVE  rows[log[i].case].tombstoned
<1> USE DEF EffectsInv, LogInv
<1>1. Target(r) = log[i].case
  BY RetryTarget
<1>2. rows[log[i].case].tenant = input[r].tenant
  BY DEF TenantsFixed, Provenance, Origin, SameRequest
<1>3. rows[log[i].case].version > 0
  <2>1. log[i].version \in Versions(log[i].case) /\ log[i].case \in Cases
    BY Indices DEF Versions
  <2>2. rows[log[i].case].version \in Nat
    BY <2>1 DEF Typing, TypeOK, DatabaseTypeOK, Rows
  <2>3. QED  BY <2>1, <2>2 DEF Numbering
<1>4. QED  BY <1>1, <1>2, <1>3 DEF Visible

(* A mutation answered with a definite refusal committed nothing, unless    *)
(* case_from_row could not read the row of its case back: of the codes of   *)
(* DefiniteRefusals only that one follows a transaction.                    *)
THEOREM RefusedMeansNothing == Spec => RefusalMeansNoEffect
<1> DEFINE Refused(r) ==
      pc[r] \in Active /\ pc'[r] = "done" /\ reply'[r] \in DefiniteRefusals
<1> DEFINE Unread(r, i) == reply'[r] = "validation" /\ ~Legible(log'[i].case)
<1>1. ASSUME EffectsInv, [Next]_vars, NEW r \in Requests, Refused(r),
             NEW i \in DOMAIN log', log'[i].by = r
      PROVE  Unread(r, i)
  <2> USE <1>1 DEF EffectsInv, LogInv
  <2>0. /\ pc \in [Requests -> Stages]
        /\ reply \in [Requests -> {"none"} \cup Successes \cup Errors]
    BY DEF Typing, TypeOK, ApiTypeOK
  <2>1. CASE i \in DOMAIN log
    <3>1. log'[i] = log[i] /\ log[i].by = r
      BY <2>1, LogGrows
    <3>2. pc[r] \in {"readCase", "readEvent"} /\ input[r].op \in Mutations
      BY <2>1, <3>1 DEF Owned, Later, Active, Provenance, Origin
    <3>3. Failed(r)
      <4>1. ~Kept(r) /\ ~Abort(r)
        BY <2>0, <3>2 DEF Kept, Abort
      <4>2. /\ ~Arrive(r) /\ ~Forward(r) /\ ~ExecuteApplied(r) /\ ~ExecuteReplayed(r)
            /\ ~RecordAccess(r) /\ ~ListCases(r)
        BY <3>2 DEF Arrive, Forward, ExecuteApplied, ExecuteReplayed, RecordAccess, ListCases
      <4>3. ~ReadCase(r) /\ ~FinishMutation(r)
        BY <2>0 DEF ReadCase, FinishMutation, ReturnMutation, DefiniteRefusals, Errors
      <4>4. QED  BY <4>1, <4>2, <4>3, RequestStep
    <3>4. /\ pc[r] = "readCase" /\ reply'[r] = "validation" /\ ~Legible(Target(r))
      BY <2>0, <3>2, <3>3 DEF Failed, Fail, DefiniteRefusals
    <3>5. SameRequest(input[log[i].by], input[r])
      BY <3>1 DEF SameRequest
    <3>6. Target(r) = log[i].case
      BY <2>1, <3>4, <3>5, RetryTarget
    <3>7. QED  BY <3>1, <3>4, <3>6
  <2>2. CASE i \notin DOMAIN log
    <3>1. PICK q \in Requests : ExecuteApplied(q) \/ ExecuteAppliedUnseen(q)
      BY <2>2, LogWriters
    <3>2. PICK e \in Events : log' = Append(log, e) /\ e.by = q
      BY <3>1, CommitAppends DEF ExecuteApplied, ExecuteAppliedUnseen, CommitsEvent
    <3>3. q = r
      BY <2>2, <3>2, Indices
    <3>4. QED
      BY <2>0, <3>1, <3>3 DEF ExecuteApplied, ExecuteAppliedUnseen, Fail, DefiniteRefusals
  <2>3. QED  BY <2>1, <2>2
<1>2. EffectsInv /\ [Next]_vars =>
        [\A r \in Requests : Refused(r) =>
           \A i \in DOMAIN log' : log'[i].by = r => Unread(r, i)]_vars
  BY <1>1
<1>3. QED  BY <1>2, EffectsInvariant, PTL DEF Spec, RefusalMeansNoEffect

(* How a handler can end, and with which answer. *)
LEMMA Endings ==
  ASSUME Typing, [Next]_vars, NEW r \in Requests, pc[r] \in Active, pc'[r] = "done"
  PROVE  \/ reply'[r] \in Successes \cup {"unauthorized", "forbidden", "temporarily_unavailable"}
         \/ TenantContextRefused(r) \/ ExecuteConflict(r) \/ ExecuteRefused(r)
         \/ ReadCaseMissing(r) \/ ReadCaseIllegible(r) \/ ListCasesIllegible(r)
<1> USE DEF Typing, TypeOK, ApiTypeOK, Active
<1>1. ASSUME NEW q \in Requests, q # r, Arrive(q) \/ Serve(q) \/ Unavailable(q) \/ Abort(q)
      PROVE  FALSE
  BY <1>1 DEF Arrive, Serve, Unavailable, Abort, Authenticate, AuthenticateRefused,
     TenantContext, TenantContextRefused, ExecuteApplied, ExecuteAppliedUnseen,
     ExecuteReplayed, ExecuteConflict, ExecuteRefused, ExecuteForbidden, ReadCase,
     ReadCaseMissing, ReadCaseIllegible, FinishMutation, ReturnMutation, RecordAccess,
     RecordAccessUnseen, ListCases, ListCasesIllegible, Fail
<1>2. CASE AuthenticateRefused(r)
  BY <1>2 DEF AuthenticateRefused, AuthVerdict, Fail
<1>3. CASE ExecuteAppliedUnseen(r) \/ ExecuteForbidden(r) \/ RecordAccessUnseen(r)
           \/ Unavailable(r)
  BY <1>3 DEF ExecuteAppliedUnseen, ExecuteForbidden, RecordAccessUnseen, Unavailable, Fail
<1>4. CASE FinishMutation(r) \/ RecordAccess(r) \/ ListCases(r)
  BY <1>4 DEF FinishMutation, ReturnMutation, RecordAccess, ListCases, Successes
<1>5. CASE TenantContext(r)
  <2>1. input[r].op \in Ops
    BY <1>5, InputAssumption DEF TenantContext, AllInputs
  <2>2. QED  BY <1>5, <2>1 DEF TenantContext, FirstStage, Ops
<1>6. CASE Arrive(r) \/ Authenticate(r) \/ ExecuteApplied(r)
           \/ ExecuteReplayed(r) \/ ReadCase(r) \/ Abort(r)
  BY <1>6 DEF Arrive, Authenticate, ExecuteApplied, ExecuteReplayed, ReadCase, Abort
<1>7. CASE Environment \/ UNCHANGED vars
  BY <1>7 DEF Environment, ChangeRole, RevokeSession, Tick, ApplyRetention, ForeignWrite,
     api, vars
<1>8. QED
  BY <1>1, <1>2, <1>3, <1>4, <1>5, <1>6, <1>7 DEF Next, Serve

(* However late and however often a committed mutation is retried, and      *)
(* whatever happened to its case since, the retry succeeds or is refused    *)
(* for a reason that is not about the command, except for creations past    *)
(* their retain_until and for cases whose row cannot be read.               *)
THEOREM RetriesAreHarmless == Spec => RetryOutcome
<1> DEFINE Retry(r, i) ==
      /\ pc[r] \in Active /\ pc'[r] = "done" /\ input[r].form = "ok"
      /\ SameRequest(input[log[i].by], input[r])
<1> DEFINE Answer(r, i) ==
      \/ reply'[r] \in Successes
      \/ reply'[r] \in {"unauthorized", "forbidden", "temporarily_unavailable"}
      \/ reply'[r] = "not_found" /\ rows[log[i].case].tombstoned
      \/ /\ reply'[r] = "validation"
         /\ \/ input[r].op = "create" /\ input[r].cmd.until <= clock
            \/ ~Legible(log[i].case)
<1>1. ASSUME EffectsInv, [Next]_vars, NEW r \in Requests, NEW i \in DOMAIN log, Retry(r, i)
      PROVE  Answer(r, i)
  <2> USE <1>1 DEF EffectsInv, LogInv
  <2>0. reply \in [Requests -> {"none"} \cup Successes \cup Errors]
    BY DEF Typing, TypeOK, ApiTypeOK
  <2>1. /\ Recorded(input[r]) = i /\ i > 0
        /\ log[i].hash = CanonicalHash(input[r])
        /\ input[r].op \in Mutations
    BY RetryFindsEvent
  <2>2. ~ExecuteConflict(r) /\ ~ExecuteRefused(r)
    BY <2>1, Indices DEF ExecuteConflict, ExecuteRefused
  <2>3. CASE TenantContextRefused(r)
    <3> DEFINE verdict == Admission(input[r], member[input[r].user][input[r].tenant], clock)
    <3>1. verdict # "ok" /\ reply'[r] = verdict /\ pc[r] # "idle"
      BY <2>0, <2>3 DEF TenantContextRefused, Fail
    <3>2. verdict = "forbidden" \/ (verdict = "validation" /\ ~CommandValid(input[r], clock))
      BY <2>1, <3>1 DEF Admission
    <3>3. QED  BY <3>1, <3>2, RetryValid
  <2>4. CASE ReadCaseMissing(r)
    <3>1. reply'[r] = "not_found"
      BY <2>0, <2>4 DEF ReadCaseMissing, Fail
    <3>2. QED  BY <2>4, <3>1, RetryMissing DEF ReadCaseMissing
  <2>5. CASE ReadCaseIllegible(r)
    <3>1. reply'[r] = "validation"
      BY <2>0, <2>5 DEF ReadCaseIllegible, Fail
    <3>2. QED  BY <2>5, <3>1, RetryTarget DEF ReadCaseIllegible
  <2>6. ~ListCasesIllegible(r)
    BY <2>1 DEF ListCasesIllegible, ListOnly, Mutations
  <2>7. QED  BY <2>2, <2>3, <2>4, <2>5, <2>6, Endings
<1>2. EffectsInv /\ [Next]_vars =>
        [\A r \in Requests : \A i \in DOMAIN log : Retry(r, i) => Answer(r, i)]_vars
  BY <1>1
<1>3. QED  BY <1>2, EffectsInvariant, PTL DEF Spec, RetryOutcome

-----------------------------------------------------------------------------
(***************************************************************************)
(* The refinement of CaseLedger.  A mutation that arrives asks for its      *)
(* slot, a transaction records it, seen or unseen, and the handler's return *)
(* acknowledges it and announces it if it is its own; every other step      *)
(* leaves the ledger alone.                                                 *)
(***************************************************************************)

(* A request asks when it arrives and asks for the same slot ever after. *)
LEMMA AskedOnce ==
  ASSUME Typing, [Next]_vars, NEW q \in Requests, ~Arrive(q)
  PROVE  AskedSlot'[q] = AskedSlot[q]
<1>1. CASE pc[q] = "idle"
  <2>1. Kept(q)
    BY <1>1, RequestStep DEF Forward, Failed, Abort, ExecuteApplied, ExecuteReplayed,
       ReadCase, FinishMutation, ReturnMutation, RecordAccess, ListCases, Active
  <2>2. QED  BY <1>1, <2>1 DEF AskedSlot, Kept
<1>2. CASE pc[q] # "idle"
  <2>1. pc'[q] # "idle" /\ input'[q] = input[q]
    BY <1>2, RequestsKeep
  <2>2. QED  BY <1>2, <2>1 DEF AskedSlot, Mutates
<1>3. QED  BY <1>1, <1>2

(* A request is acknowledged when its handler returns the event. *)
LEMMA AckedOnce ==
  ASSUME EffectsInv, [Next]_vars, NEW q \in Requests, ~FinishMutation(q)
  PROVE  AckedEvent'[q] = AckedEvent[q]
<1>1. CASE Succeeded(q)' /\ Mutates(q)'
  <2>1. Kept(q) /\ Succeeded(q) /\ Mutates(q)
    BY <1>1, MutationSucceeds
  <2>2. QED  BY <1>1, <2>1 DEF AckedEvent, Kept
<1>2. CASE ~(Succeeded(q)' /\ Mutates(q)')
  <2>1. ~(Succeeded(q) /\ Mutates(q))
    <3> SUFFICES ASSUME Succeeded(q), Mutates(q) PROVE FALSE
      OBVIOUS
    <3>1. Kept(q)
      BY SuccessStays DEF EffectsInv, LogInv
    <3>2. QED  BY <1>2, <3>1 DEF Kept, Succeeded, Finished, Mutates
  <2>2. QED  BY <1>2, <2>1 DEF AckedEvent
<1>3. QED  BY <1>1, <1>2

(* The two maps change only where a request arrives or returns. *)
LEMMA MapsKeep ==
  ASSUME EffectsInv, [Next]_vars
  PROVE  /\ (\A q \in Requests : ~Arrive(q)) => AskedSlot' = AskedSlot
         /\ (\A q \in Requests : ~FinishMutation(q)) => AckedEvent' = AckedEvent
<1>1. ASSUME \A q \in Requests : ~Arrive(q) PROVE AskedSlot' = AskedSlot
  <2>1. \A q \in Requests : AskedSlot'[q] = AskedSlot[q]
    BY <1>1, AskedOnce DEF EffectsInv, LogInv
  <2>2. QED  BY <2>1 DEF AskedSlot
<1>2. ASSUME \A q \in Requests : ~FinishMutation(q) PROVE AckedEvent' = AckedEvent
  <2>1. \A q \in Requests : AckedEvent'[q] = AckedEvent[q]
    BY <1>2, AckedOnce
  <2>2. QED  BY <2>1 DEF AckedEvent
<1>3. QED  BY <1>1, <1>2

(* A request that arrives asks the ledger for its slot. *)
LEMMA ArriveAsks ==
  ASSUME EffectsInv, [Next]_vars, NEW r \in Requests, Arrive(r)
  PROVE  Ledger!Ask(r) \/ UNCHANGED <<AskedSlot, LogEntries, AckedEvent, published>>
<1> USE DEF EffectsInv, LogInv
<1>0. /\ pc \in [Requests -> Stages] /\ input \in [Requests -> Inputs \cup {NoInput}]
  BY DEF Typing, TypeOK, ApiTypeOK
<1>1. PICK in \in Inputs : input' = [input EXCEPT ![r] = in]
  BY DEF Arrive
<1>2. /\ pc[r] = "idle" /\ pc' = [pc EXCEPT ![r] = "auth"] /\ UNCHANGED <<published, log>>
  BY DEF Arrive, database
<1>3. \A q \in Requests : ~FinishMutation(q)
  BY <1>0, <1>2 DEF FinishMutation, ReturnMutation
<1>4. AckedEvent' = AckedEvent /\ LogEntries' = LogEntries
  BY <1>2, <1>3, MapsKeep DEF LogEntries
<1>5. \A q \in Requests \ {r} : AskedSlot'[q] = AskedSlot[q]
  BY <1>0, <1>1, <1>2 DEF AskedSlot, Mutates
<1>6. AskedSlot[r] = NoSlot
  BY <1>2 DEF AskedSlot
<1>7. CASE in.op \in Mutations
  <2>1. AskedSlot'[r] = <<in.tenant, in.key>> /\ <<in.tenant, in.key>> \in Slots
    BY <1>0, <1>1, <1>2, <1>7, InputAssumption DEF AskedSlot, Mutates, Slots, AllInputs
  <2>2. AskedSlot' = [AskedSlot EXCEPT ![r] = <<in.tenant, in.key>>]
    BY <1>5, <2>1 DEF AskedSlot
  <2>3. QED  BY <1>2, <1>4, <1>6, <2>1, <2>2 DEF Ledger!Ask
<1>8. CASE in.op \notin Mutations
  <2>1. AskedSlot'[r] = NoSlot
    BY <1>0, <1>1, <1>2, <1>8 DEF AskedSlot, Mutates
  <2>2. AskedSlot' = AskedSlot
    BY <1>5, <1>6, <2>1 DEF AskedSlot
  <2>3. QED  BY <1>2, <1>4, <2>2
<1>9. QED  BY <1>7, <1>8

(* The map from events to entries commutes with a transaction's append. *)
LEMMA EntriesAppend ==
  ASSUME Typing, NEW e \in Events, log' = Append(log, e)
  PROVE  LogEntries' = Append(LogEntries, [slot |-> <<e.tenant, e.key>>, owner |-> e.by])
<1> DEFINE x == [slot |-> <<e.tenant, e.key>>, owner |-> e.by]
           n == Len(log)
<1>1. log \in Seq(Events) /\ n \in Nat /\ DOMAIN log = 1 .. n
  BY Indices
<1>2. /\ DOMAIN log' = 1 .. (n + 1) /\ log'[n + 1] = e
      /\ \A i \in 1 .. n : log'[i] = log[i]
  BY <1>1
<1>3. LogEntries \in Seq(Ledger!Entries) /\ Len(LogEntries) = n
  <2>1. \A i \in 1 .. n : [slot |-> <<log[i].tenant, log[i].key>>, owner |-> log[i].by]
                            \in Ledger!Entries
    BY <1>1, Indices DEF Ledger!Entries, Slots
  <2>2. LogEntries \in [1 .. n -> Ledger!Entries]
    BY <1>1, <2>1 DEF LogEntries
  <2>3. QED  BY <1>1, <2>2
<1>4. /\ DOMAIN Append(LogEntries, x) = 1 .. (n + 1)
      /\ Append(LogEntries, x)[n + 1] = x
      /\ \A i \in 1 .. n : Append(LogEntries, x)[i] = LogEntries[i]
  BY <1>1, <1>3
<1>5. \A i \in 1 .. (n + 1) : LogEntries'[i] = Append(LogEntries, x)[i]
  <2> SUFFICES ASSUME NEW i \in 1 .. (n + 1)
      PROVE  LogEntries'[i] = Append(LogEntries, x)[i]
    OBVIOUS
  <2>1. CASE i = n + 1
    BY <1>2, <1>4, <2>1 DEF LogEntries
  <2>2. CASE i \in 1 .. n
    BY <1>1, <1>2, <1>4, <2>2 DEF LogEntries
  <2>3. i = n + 1 \/ i \in 1 .. n
    BY <1>1
  <2>4. QED  BY <2>1, <2>2, <2>3
<1>6. /\ LogEntries' = [i \in 1 .. (n + 1) |-> LogEntries'[i]]
      /\ Append(LogEntries, x) = [i \in 1 .. (n + 1) |-> Append(LogEntries, x)[i]]
  <2>1. LogEntries' = [i \in 1 .. (n + 1) |-> LogEntries'[i]]
    BY <1>2 DEF LogEntries
  <2>2. Append(LogEntries, x) = [i \in 1 .. (n + 1) |-> Append(LogEntries, x)[i]]
    BY <1>1, <1>3
  <2>3. QED  BY <2>1, <2>2
<1>7. QED  BY <1>5, <1>6

(* A transaction, whether its answer arrives or not, records the request in *)
(* a slot that was empty.                                                   *)
LEMMA CommitRecordsSlot ==
  ASSUME EffectsInv, [Next]_vars, NEW r \in Requests,
         ExecuteApplied(r) \/ ExecuteAppliedUnseen(r)
  PROVE  Ledger!Record(r)
<1> USE DEF EffectsInv, LogInv
<1>0. pc \in [Requests -> Stages]
  BY DEF Typing, TypeOK, ApiTypeOK
<1>1. /\ pc[r] = "execute" /\ Commit(r) /\ UNCHANGED published
      /\ pc' = [pc EXCEPT ![r] = pc'[r]] /\ pc'[r] \in {"readCase", "done"}
  BY <1>0 DEF ExecuteApplied, ExecuteAppliedUnseen, Fail
<1>2. PICK e \in Events : CommitsEvent(r, e)
  BY <1>1, CommitAppends
<1>3. /\ log' = Append(log, e)
      /\ e.tenant = input[r].tenant /\ e.key = input[r].key /\ e.by = r
  BY <1>2 DEF CommitsEvent
<1>4. e.tenant \in Tenants /\ e.key \in Keys /\ input[r].op \in Mutations
  BY <1>1 DEF Events, Typing, StageOK
<1>5. AskedSlot[r] = <<e.tenant, e.key>> /\ AskedSlot[r] \in Slots
  BY <1>1, <1>3, <1>4 DEF AskedSlot, Mutates, Slots
<1>6. AckedEvent[r] = 0
  BY <1>1 DEF AckedEvent, Succeeded, Finished
<1>7. ASSUME NEW i \in DOMAIN LogEntries PROVE LogEntries[i].slot # AskedSlot[r]
  <2>1. i \in DOMAIN log /\ i > 0 /\ LogEntries[i].slot = <<log[i].tenant, log[i].key>>
    BY <1>7, Indices DEF LogEntries
  <2>2. idem[log[i].tenant][log[i].key] = i /\ idem[e.tenant][e.key] = 0
    BY <1>1, <1>3, <2>1 DEF Recording, Commit, WriteCaseAndEvent, Recorded
  <2>3. QED  BY <1>5, <2>1, <2>2
<1>8. (\A q \in Requests : ~Arrive(q)) /\ (\A q \in Requests : ~FinishMutation(q))
  BY <1>0, <1>1 DEF Arrive, FinishMutation, ReturnMutation
<1>9. AskedSlot' = AskedSlot /\ AckedEvent' = AckedEvent
  BY <1>8, MapsKeep
<1>10. LogEntries' = Append(LogEntries, [slot |-> AskedSlot[r], owner |-> r])
  BY <1>3, <1>5, EntriesAppend
<1>11. QED  BY <1>1, <1>5, <1>6, <1>7, <1>9, <1>10 DEF Ledger!Record

(* The handler's return acknowledges the entry of the request's slot, and   *)
(* announces it if the request is its owner.                                *)
LEMMA FinishAcknowledges ==
  ASSUME EffectsInv, [Next]_vars, NEW r \in Requests, FinishMutation(r)
  PROVE  Ledger!Acknowledge(r)
<1> USE DEF EffectsInv, LogInv
<1> DEFINE i == evt[r]
<1>0. /\ pc \in [Requests -> Stages] /\ evt \in [Requests -> Nat]
      /\ replayed \in [Requests -> BOOLEAN]
      /\ reply \in [Requests -> {"none"} \cup Successes \cup Errors]
  BY DEF Typing, TypeOK, ApiTypeOK
<1>1. /\ pc[r] = "readEvent" /\ pc' = [pc EXCEPT ![r] = "done"]
      /\ published' = IF replayed[r] THEN published ELSE Append(published, i)
      /\ reply'[r] \in Successes
      /\ UNCHANGED <<input, evt, log>>
  BY <1>0 DEF FinishMutation, ReturnMutation, database, Successes
<1>2. i > 0 /\ i \in DOMAIN log /\ input[r].op \in Mutations
  BY <1>1, Indices DEF Typing, StageOK
<1>3. /\ SameRequest(input[log[i].by], input[r])
      /\ replayed[r] <=> log[i].by # r
  BY <1>2 DEF Referred
<1>4. log[i].tenant = input[r].tenant /\ log[i].key = input[r].key
  BY <1>2, <1>3 DEF Provenance, Origin, SameRequest
<1>5. AskedSlot[r] = <<log[i].tenant, log[i].key>>
  BY <1>1, <1>2, <1>4 DEF AskedSlot, Mutates
<1>6. /\ i \in DOMAIN LogEntries /\ LogEntries[i].slot = AskedSlot[r]
      /\ LogEntries[i].owner = log[i].by /\ LogEntries' = LogEntries
  BY <1>1, <1>2, <1>5 DEF LogEntries
<1>7. AckedEvent[r] = 0 /\ AckedEvent'[r] = i
  BY <1>0, <1>1, <1>2 DEF AckedEvent, Succeeded, Finished, Mutates
<1>8. \A q \in Requests : ~Arrive(q) /\ (q # r => ~FinishMutation(q))
  BY <1>0, <1>1 DEF Arrive, FinishMutation, ReturnMutation
<1>9. AskedSlot' = AskedSlot
  BY <1>8, MapsKeep
<1>10. AckedEvent' = [AckedEvent EXCEPT ![r] = i]
  <2>1. \A q \in Requests \ {r} : AckedEvent'[q] = AckedEvent[q]
    BY <1>8, AckedOnce
  <2>2. QED  BY <1>7, <2>1 DEF AckedEvent
<1>11. published' = IF LogEntries[i].owner = r THEN Append(published, i) ELSE published
  BY <1>1, <1>3, <1>6
<1>12. QED  BY <1>6, <1>7, <1>9, <1>10, <1>11 DEF Ledger!Acknowledge

(* The case API implements the ledger: seen through its mutations, however  *)
(* requests are retried, raced, lost or aborted, a slot is filled at most   *)
(* once, a client is acknowledged only with the entry of its own slot, and  *)
(* an entry is announced exactly when its owner is acknowledged.            *)
THEOREM LedgerRefined == Spec => ImplementsLedger
<1>1. Init => Ledger!LedgerInit
  BY DEF Init, Ledger!LedgerInit, AskedSlot, LogEntries, AckedEvent, Succeeded, Finished
<1>2. ASSUME EffectsInv, [Next]_vars
      PROVE  [Ledger!LedgerNext]_(Ledger!ledgerVars)
  <2>1. CASE \E r \in Requests : Arrive(r)
    BY <1>2, <2>1, ArriveAsks DEF Ledger!LedgerNext, Ledger!ledgerVars
  <2>2. CASE \E r \in Requests : ExecuteApplied(r) \/ ExecuteAppliedUnseen(r)
    BY <1>2, <2>2, CommitRecordsSlot DEF Ledger!LedgerNext
  <2>3. CASE \E r \in Requests : FinishMutation(r)
    BY <1>2, <2>3, FinishAcknowledges DEF Ledger!LedgerNext
  <2>4. CASE /\ ~ \E r \in Requests : Arrive(r) \/ FinishMutation(r)
             /\ ~ \E r \in Requests : ExecuteApplied(r) \/ ExecuteAppliedUnseen(r)
    <3>1. UNCHANGED <<log, published>>
      BY <1>2, <2>4, LogWriters, Publishers DEF EffectsInv, LogInv
    <3>2. AskedSlot' = AskedSlot /\ AckedEvent' = AckedEvent
      BY <1>2, <2>4, MapsKeep
    <3>3. QED  BY <3>1, <3>2 DEF Ledger!ledgerVars, LogEntries
  <2>5. QED  BY <2>1, <2>2, <2>3, <2>4
<1>3. QED
  BY <1>1, <1>2, EffectsInvariant, PTL DEF Spec, ImplementsLedger, Ledger!LedgerSpec

-----------------------------------------------------------------------------
(* What the tenant audit holds. *)

Readers(e) ==
  {q \in Requests : Succeeded(q) /\ input[q].op = "get" /\ AuditEntry(q) = e}
Written(e) == {i \in DOMAIN audit : audit[i] = e}

(* A read that succeeds is a finished one, and every entry of the audit may *)
(* answer for one.  Counting needs the readers to be finitely many: they    *)
(* are, whatever the set of requests, since each step adds at most one.     *)
Audited ==
  \A e \in AuditEntries :
    IsFiniteSet(Readers(e)) /\ Cardinality(Readers(e)) <= Cardinality(Written(e))

(* The audit only grows; record_access adds the entry of its request. *)
LEMMA AuditGrows ==
  ASSUME Typing, [Next]_vars
  PROVE  /\ Len(audit) <= Len(audit')
         /\ \A i \in DOMAIN audit : i \in DOMAIN audit' /\ audit'[i] = audit[i]
<1>0. audit \in Seq(AuditEntries)
  BY DEF Typing, TypeOK, DatabaseTypeOK
<1>1. ASSUME NEW r \in Requests, Arrive(r) \/ Serve(r) \/ Unavailable(r) \/ Abort(r)
      PROVE  UNCHANGED audit \/ audit' = Append(audit, AuditEntry(r))
  BY <1>1 DEF Arrive, Serve, Unavailable, Abort, Authenticate, AuthenticateRefused,
     TenantContext, TenantContextRefused, ExecuteApplied, ExecuteAppliedUnseen,
     ExecuteReplayed, ExecuteConflict, ExecuteRefused, ExecuteForbidden, Commit,
     WriteCaseAndEvent, ReadCase, ReadCaseMissing, ReadCaseIllegible, FinishMutation,
     ReturnMutation, RecordAccess, RecordAccessUnseen, ListCases, ListCasesIllegible,
     database
<1>2. ASSUME Environment \/ UNCHANGED vars PROVE UNCHANGED audit
  BY <1>2 DEF Environment, ChangeRole, RevokeSession, Tick, ApplyRetention, ForeignWrite,
     vars
<1>3. UNCHANGED audit \/ \E x : audit' = Append(audit, x)
  BY <1>1, <1>2 DEF Next
<1>4. CASE UNCHANGED audit
  BY <1>0, <1>4
<1>5. ASSUME NEW x, audit' = Append(audit, x)
      PROVE  /\ Len(audit) <= Len(audit')
             /\ \A i \in DOMAIN audit : i \in DOMAIN audit' /\ audit'[i] = audit[i]
  BY <1>0, <1>5
<1>6. QED  BY <1>3, <1>4, <1>5

(* Only record_access makes a read succeed. *)
LEMMA ReadSucceeds ==
  ASSUME EffectsInv, [Next]_vars, NEW q \in Requests, ~RecordAccess(q), NEW e
  PROVE  q \in Readers(e)' <=> q \in Readers(e)
<1> USE DEF EffectsInv, LogInv
<1>0. /\ pc \in [Requests -> Stages]
      /\ reply \in [Requests -> {"none"} \cup Successes \cup Errors]
  BY DEF Typing, TypeOK, ApiTypeOK
<1>1. CASE Kept(q)
  BY <1>1 DEF Kept, Readers, AuditEntry, Succeeded, Finished
<1>2. CASE ~Kept(q)
  <2>1. ~Succeeded(q)
    BY <1>2, SuccessStays
  <2>2. ~(Succeeded(q)' /\ input'[q].op = "get")
    <3>1. CASE Failed(q)
      BY <1>0, <3>1 DEF Failed, Fail, Succeeded, Errors, Successes
    <3>2. CASE FinishMutation(q) \/ ListCases(q)
      <4>1. input[q].op # "get" /\ input' = input
        BY <3>2 DEF FinishMutation, ReturnMutation, ListCases, Typing, StageOK, ListOnly,
           Mutations
      <4>2. QED  BY <4>1
    <3>3. CASE \/ Arrive(q) \/ Forward(q) \/ Abort(q) \/ ExecuteApplied(q)
               \/ ExecuteReplayed(q) \/ ReadCase(q)
      BY <1>0, <3>3 DEF Arrive, Forward, Abort, ExecuteApplied, ExecuteReplayed, ReadCase,
         Succeeded, Finished
    <3>4. QED  BY <1>2, <3>1, <3>2, <3>3, RequestStep
  <2>3. QED  BY <2>1, <2>2 DEF Readers
<1>3. QED  BY <1>1, <1>2

(* The entries of the audit that equal e are finitely many. *)
LEMMA WrittenFinite ==
  ASSUME audit \in Seq(AuditEntries), NEW e
  PROVE  IsFiniteSet(Written(e)) /\ Cardinality(Written(e)) \in Nat
<1>1. Len(audit) \in Nat /\ DOMAIN audit = 1 .. Len(audit)
  OBVIOUS
<1>2. IsFiniteSet(1 .. Len(audit))
  BY <1>1, FS_Interval
<1>3. Written(e) \in SUBSET (1 .. Len(audit))
  BY <1>1 DEF Written
<1>4. IsFiniteSet(Written(e))
  BY <1>2, <1>3, FS_Subset
<1>5. QED  BY <1>4, FS_CardinalityType

(* A read and its entry are counted by the same step. *)
LEMMA AuditedStep ==
  ASSUME EffectsInv, Audited, [Next]_vars
  PROVE  Audited'
<1> USE DEF EffectsInv, LogInv
<1> SUFFICES ASSUME NEW e \in AuditEntries
    PROVE  IsFiniteSet(Readers(e)') /\ Cardinality(Readers(e)') <= Cardinality(Written(e)')
  BY DEF Audited
<1>0. /\ pc \in [Requests -> Stages] /\ audit \in Seq(AuditEntries)
      /\ audit' \in Seq(AuditEntries)
      /\ reply \in [Requests -> {"none"} \cup Successes \cup Errors]
  <2>1. Typing'
    BY TypingStep
  <2>2. QED  BY <2>1 DEF Typing, TypeOK, ApiTypeOK, DatabaseTypeOK
<1>1. /\ IsFiniteSet(Readers(e)) /\ Cardinality(Readers(e)) \in Nat
      /\ IsFiniteSet(Written(e)) /\ Cardinality(Written(e)) \in Nat
      /\ Cardinality(Readers(e)) <= Cardinality(Written(e))
  <2>1. IsFiniteSet(Readers(e)) /\ Cardinality(Readers(e)) <= Cardinality(Written(e))
    BY DEF Audited
  <2>2. Cardinality(Readers(e)) \in Nat
    BY <2>1, FS_CardinalityType
  <2>3. QED  BY <1>0, <2>1, <2>2, WrittenFinite
<1>2. IsFiniteSet(Written(e)') /\ Cardinality(Written(e)') \in Nat
  <2> DEFINE W == {i \in DOMAIN audit' : audit'[i] = e}
  <2>1. Len(audit') \in Nat /\ DOMAIN audit' = 1 .. Len(audit')
    BY <1>0
  <2>2. IsFiniteSet(1 .. Len(audit')) /\ W \in SUBSET (1 .. Len(audit'))
    BY <2>1, FS_Interval
  <2>3. IsFiniteSet(W)
    BY <2>2, FS_Subset
  <2>4. QED  BY <2>3, FS_CardinalityType DEF Written
<1>3. Written(e) \subseteq Written(e)'
  BY AuditGrows DEF Written
<1>4. Cardinality(Written(e)) <= Cardinality(Written(e)')
  BY <1>2, <1>3, FS_Subset
<1>5. CASE \A q \in Requests : q \in Readers(e)' <=> q \in Readers(e)
  <2>1. Readers(e)' = Readers(e)
    BY <1>5 DEF Readers
  <2>2. QED  BY <1>1, <1>2, <1>4, <2>1
<1>6. CASE ~ \A q \in Requests : q \in Readers(e)' <=> q \in Readers(e)
  <2>1. PICK r \in Requests : ~(r \in Readers(e)' <=> r \in Readers(e))
    BY <1>6
  <2>2. RecordAccess(r)
    BY <2>1, ReadSucceeds
  <2>3. /\ pc[r] = "audit" /\ pc' = [pc EXCEPT ![r] = "done"] /\ input' = input
        /\ audit' = Append(audit, AuditEntry(r))
    BY <2>2 DEF RecordAccess
  <2>4. r \notin Readers(e) /\ r \in Readers(e)' /\ AuditEntry(r) = e
    <3>1. r \notin Readers(e)
      BY <2>3 DEF Readers, Succeeded, Finished
    <3>2. r \in Readers(e)'
      BY <2>1, <3>1
    <3>3. AuditEntry(r)' = AuditEntry(r) /\ AuditEntry(r)' = e
      BY <2>3, <3>2 DEF AuditEntry, Readers
    <3>4. QED  BY <3>1, <3>2, <3>3
  <2>5. Readers(e)' = Readers(e) \cup {r}
    <3>1. \A q \in Requests \ {r} : ~RecordAccess(q)
      BY <1>0, <2>3 DEF RecordAccess
    <3>2. \A q \in Requests \ {r} : q \in Readers(e)' <=> q \in Readers(e)
      BY <3>1, ReadSucceeds
    <3>3. Readers(e)' \subseteq Requests /\ Readers(e) \subseteq Requests
      BY DEF Readers
    <3>4. QED  BY <2>4, <3>2, <3>3
  <2>6. Written(e)' = Written(e) \cup {Len(audit) + 1} /\ Len(audit) + 1 \notin Written(e)
    BY <1>0, <2>3, <2>4 DEF Written
  <2>7. /\ IsFiniteSet(Readers(e)') /\ Cardinality(Readers(e)') = Cardinality(Readers(e)) + 1
    BY <1>1, <2>4, <2>5, FS_AddElement
  <2>8. Cardinality(Written(e)') = Cardinality(Written(e)) + 1
    BY <1>1, <2>6, FS_AddElement
  <2>9. QED  BY <1>1, <2>7, <2>8
<1>7. QED  BY <1>5, <1>6

(* The GET of one case does not return it without its access entry in the   *)
(* tenant audit, over however many concurrent reads of the same case by the *)
(* same user.                                                               *)
THEOREM ReadsAreAudited == Spec => []AccessAudited
<1>1. Init => Audited
  <2> SUFFICES ASSUME Init, NEW e \in AuditEntries
      PROVE  IsFiniteSet(Readers(e)) /\ Cardinality(Readers(e)) <= Cardinality(Written(e))
    BY DEF Audited
  <2>1. Readers(e) = {} /\ Written(e) = {}
    BY DEF Init, Readers, Written, Succeeded, Finished
  <2>2. QED  BY <2>1, FS_EmptySet
<1>2. EffectsInv /\ Audited /\ [Next]_vars => Audited'
  BY AuditedStep
<1>3. ASSUME EffectsInv, Audited PROVE AccessAudited
  <2> SUFFICES ASSUME NEW r \in Requests, Succeeded(r), input[r].op = "get"
      PROVE  Cardinality(Readers(AuditEntry(r))) <= Cardinality(Written(AuditEntry(r)))
    BY DEF AccessAudited, Readers, Written
  <2>1. input[r] \in AllInputs
    BY <1>3, InputAssumption DEF EffectsInv, LogInv, Typing, TypeOK, ApiTypeOK, Succeeded,
       Finished
  <2>2. AuditEntry(r) \in AuditEntries
    BY <2>1 DEF AuditEntry, AuditEntries, AllInputs
  <2>3. QED  BY <1>3, <2>2 DEF Audited
<1>4. QED  BY <1>1, <1>2, <1>3, EffectsInvariant, PTL DEF Spec
=============================================================================
