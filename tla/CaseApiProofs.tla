--------------------------- MODULE CaseApiProofs ---------------------------
(***************************************************************************)
(* Proofs about CaseApi, for every set of tenants, users, cases, keys and   *)
(* requests and for every set of inputs.                                    *)
(***************************************************************************)
EXTENDS CaseApi, TLAPS

(* Where a handler is tells which operation it serves, and every index a    *)
(* handler or the idempotency table holds points into the event log.        *)
StageOK ==
  \A r \in Requests :
    /\ pc[r] = "execute" => input[r].op \in Mutations
    /\ pc[r] = "readCase" => input[r].op \in Mutations \cup {"get"}
    /\ pc[r] = "readCase" /\ input[r].op \in Mutations => evt[r] > 0
    /\ pc[r] = "readEvent" => input[r].op \in Mutations /\ evt[r] > 0
    /\ pc[r] = "audit" => input[r].op = "get"

IndexOK ==
  /\ \A r \in Requests : evt[r] <= Len(log)
  /\ \A t \in Tenants, k \in Keys : idem[t][k] <= Len(log)

Typing == TypeOK /\ StageOK /\ IndexOK

-----------------------------------------------------------------------------
(* Verdicts are codes of the API. *)
LEMMA VerdictCodes ==
  ASSUME NEW in \in Inputs, NEW role, NEW now
  PROVE  /\ AuthVerdict(in) \in Errors \cup {"ok"}
         /\ Admission(in, role, now) \in Errors \cup {"ok"}
         /\ SqlVerdict(in) \in Errors \cup {"ok"}
  BY DEF AuthVerdict, Admission, SqlVerdict, Errors

(* A handler that fails leaves a well-typed API behind. *)
LEMMA FailTyped ==
  ASSUME ApiTypeOK, NEW r \in Requests, NEW code \in Errors, pc[r] # "idle",
         Fail(r, code)
  PROVE  ApiTypeOK'
  BY DEF ApiTypeOK, Fail, Stages

(* What a transaction writes is well typed. *)
LEMMA CommitTyped ==
  ASSUME Typing, NEW r \in Requests, pc[r] = "execute", Commit(r)
  PROVE  DatabaseTypeOK' /\ Len(log') = Len(log) + 1
<1> DEFINE in == input[r]
<1>1. in \in AllInputs /\ in.op \in Mutations
  BY InputAssumption DEF Typing, TypeOK, ApiTypeOK, StageOK
<1>2. PICK c \in Cases :
        /\ rows' = [rows EXCEPT ![c] = NewRow(in, c)]
        /\ log' = Append(log,
                   [tenant |-> in.tenant, key |-> in.key,
                    hash |-> CanonicalHash(in), case |-> c,
                    version |-> NewRow(in, c).version, by |-> r])
  BY DEF Commit, WriteCaseAndEvent
<1>3. NewRow(in, c) \in Rows
  <2>1. rows[c] \in Rows /\ rows[c].version + 1 \in Nat
    BY DEF Typing, TypeOK, DatabaseTypeOK, Rows
  <2>2. in.tenant \in Tenants /\ in.cmd \in Commands
    BY <1>1 DEF AllInputs
  <2>3. CASE in.op = "create"
    BY <2>2, <2>3 DEF NewRow, Rows, Commands, Statuses, Flaws
  <2>4. CASE in.op = "transition"
    BY <2>1, <2>2, <2>4 DEF NewRow, Rows, Commands
  <2>5. CASE in.op = "rotate"
    BY <2>1, <2>2, <2>5 DEF NewRow, Rows, Commands, Flaws
  <2>6. QED
    BY <1>1, <2>3, <2>4, <2>5 DEF Mutations
<1>4. CanonicalHash(in) \in Hashes
  BY <1>1 DEF CanonicalHash, Hashes, AllInputs, Mutations
<1>5. log' \in Seq(Events) /\ Len(log') = Len(log) + 1
  BY <1>1, <1>2, <1>3, <1>4 DEF Events, Rows, AllInputs, Typing, TypeOK, DatabaseTypeOK
<1>6. rows' \in [Cases -> Rows]
  BY <1>2, <1>3 DEF Typing, TypeOK, DatabaseTypeOK
<1>7. idem' \in [Tenants -> [Keys -> Nat]]
  BY <1>1 DEF Commit, WriteCaseAndEvent, AllInputs, Typing, TypeOK, DatabaseTypeOK
<1>8. QED
  BY <1>5, <1>6, <1>7 DEF Commit, WriteCaseAndEvent, DatabaseTypeOK, Typing, TypeOK

(* A read looks at a case, and returns a snapshot. *)
LEMMA SnapshotTyped ==
  ASSUME Typing, NEW c \in Cases
  PROVE  Snapshot(c) \in Snapshots
  BY DEF Snapshot, Snapshots, Rows, Typing, TypeOK, DatabaseTypeOK

(* The case a read is about, the path's or the recorded event's, is a case. *)
LEMMA TargetTyped ==
  ASSUME Typing, NEW r \in Requests, pc[r] # "idle"
  PROVE  Target(r) \in Cases
<1>1. CASE evt[r] > 0
  <2>1. log[evt[r]] \in Events
    BY <1>1 DEF Typing, TypeOK, ApiTypeOK, DatabaseTypeOK, IndexOK
  <2>2. QED  BY <1>1, <2>1 DEF Target, Events
<1>2. CASE ~(evt[r] > 0)
  BY <1>2, InputAssumption DEF Target, AllInputs, Typing, TypeOK, ApiTypeOK
<1>3. QED  BY <1>1, <1>2

(* The database part of the invariant when a step leaves the log alone. *)
LEMMA QuietTyping ==
  ASSUME Typing, UNCHANGED database
  PROVE  DatabaseTypeOK'
  BY DEF Typing, TypeOK, DatabaseTypeOK, database

(* Returning an error code keeps the invariant, at whatever await the       *)
(* handler was.                                                             *)
LEMMA FailStep ==
  ASSUME Typing, NEW r \in Requests, NEW code \in Errors, pc[r] \in Active,
         Fail(r, code), UNCHANGED <<database, history>>
  PROVE  Typing'
<1>1. ApiTypeOK'
  BY FailTyped DEF Typing, TypeOK, Active
<1>2. HistoryTypeOK'
  BY DEF Typing, TypeOK, HistoryTypeOK, history
<1>3. StageOK'
  BY DEF Typing, TypeOK, ApiTypeOK, StageOK, Fail, Stages
<1>4. IndexOK'
  BY DEF Typing, TypeOK, ApiTypeOK, IndexOK, Fail, database
<1>5. QED
  BY <1>1, <1>2, <1>3, <1>4, QuietTyping DEF Typing, TypeOK

(* The steps of a request that end no handler and write nothing. *)
LEMMA QuietStep ==
  ASSUME Typing, NEW r \in Requests, pc[r] \in Active, NEW stage \in Stages,
         pc' = [pc EXCEPT ![r] = stage], stage # "idle",
         body' \in [Requests -> SUBSET Snapshots],
         reply' \in [Requests -> {"none"} \cup Successes \cup Errors],
         published' \in Seq(Nat),
         UNCHANGED <<input, evt, replayed, database, history>>,
         stage = "execute" => input[r].op \in Mutations,
         stage = "readCase" => input[r].op = "get",
         stage = "readEvent" => input[r].op \in Mutations /\ evt[r] > 0,
         stage = "audit" => input[r].op = "get"
  PROVE  Typing'
<1>1. ApiTypeOK'
  BY DEF Typing, TypeOK, ApiTypeOK, Active
<1>2. HistoryTypeOK'
  BY DEF Typing, TypeOK, HistoryTypeOK, history
<1>3. StageOK'
  BY DEF Typing, TypeOK, ApiTypeOK, StageOK, Mutations
<1>4. IndexOK'
  BY DEF Typing, TypeOK, ApiTypeOK, IndexOK, database
<1>5. QED
  BY <1>1, <1>2, <1>3, <1>4, QuietTyping DEF Typing, TypeOK

(* A committing step, whether or not its handler goes on. *)
LEMMA CommitIndex ==
  ASSUME Typing, NEW r \in Requests, pc[r] = "execute", Commit(r),
         evt' \in [Requests -> Nat],
         \A q \in Requests : evt'[q] = evt[q] \/ evt'[q] = Len(log) + 1
  PROVE  IndexOK'
<1>1. Len(log') = Len(log) + 1 /\ Len(log) \in Nat
  BY CommitTyped DEF Typing, TypeOK, DatabaseTypeOK
<1>2. \A q \in Requests : evt'[q] <= Len(log')
  <2> SUFFICES ASSUME NEW q \in Requests PROVE evt'[q] <= Len(log')
    OBVIOUS
  <2>1. evt[q] \in Nat /\ evt[q] <= Len(log)
    BY DEF Typing, TypeOK, ApiTypeOK, IndexOK
  <2>2. QED  BY <1>1, <2>1
<1>3. \A t \in Tenants, k \in Keys : idem'[t][k] <= Len(log')
  BY <1>1 DEF Typing, TypeOK, DatabaseTypeOK, IndexOK, Commit, WriteCaseAndEvent
<1>4. QED  BY <1>2, <1>3 DEF IndexOK

(* The migrated, empty database and the idle handlers are well typed. *)
LEMMA TypingInit == Init => Typing
<1> SUFFICES ASSUME Init PROVE Typing
  OBVIOUS
<1>1. \A t \in Tenants : NoRow(t) \in Rows
  BY DEF NoRow, Rows, Statuses, Flaws
<1>2. (CHOOSE t \in Tenants : TRUE) \in Tenants
  BY StartAssumption
<1>3. rows \in [Cases -> Rows]
  BY <1>1, <1>2 DEF Init
<1>4. ApiTypeOK
  BY DEF Init, ApiTypeOK, Stages
<1>5. DatabaseTypeOK
  BY <1>3, StartAssumption DEF Init, DatabaseTypeOK
<1>6. HistoryTypeOK
  BY DEF Init, HistoryTypeOK
<1>7. StageOK /\ IndexOK
  BY DEF Init, StageOK, IndexOK
<1>8. QED  BY <1>4, <1>5, <1>6, <1>7 DEF Typing, TypeOK

(* Every step of the handlers, the environment and the faults keeps the     *)
(* invariant: one step per action.                                          *)
LEMMA TypingStep == Typing /\ [Next]_vars => Typing'
<1> SUFFICES ASSUME Typing, [Next]_vars PROVE Typing'
  OBVIOUS
<1> USE DEF Active
<1>1. ASSUME NEW r \in Requests, Arrive(r) PROVE Typing'
  <2>1. PICK in \in Inputs :
          /\ input' = [input EXCEPT ![r] = in]
          /\ held' = [held EXCEPT ![r] = {member[in.user][in.tenant]}]
          /\ granted' = [granted EXCEPT ![r] = sessions[in.user]]
    BY <1>1 DEF Arrive
  <2>2. in.user \in Users /\ in.tenant \in Tenants
    BY InputAssumption DEF AllInputs
  <2>3. member[in.user][in.tenant] \in Roles /\ sessions[in.user] \in SUBSET Scopes
    BY <2>2 DEF Typing, TypeOK, DatabaseTypeOK
  <2>4. HistoryTypeOK'
    BY <2>1, <2>3 DEF Typing, TypeOK, HistoryTypeOK
  <2>5. ApiTypeOK'
    BY <1>1, <2>1 DEF Arrive, Typing, TypeOK, ApiTypeOK, Stages
  <2>6. StageOK' /\ IndexOK'
    BY <1>1, <2>1 DEF Arrive, Typing, TypeOK, ApiTypeOK, StageOK, IndexOK, Stages, database
  <2>7. QED
    BY <1>1, <2>4, <2>5, <2>6, QuietTyping DEF Arrive, Typing, TypeOK
<1>2. ASSUME NEW r \in Requests, Authenticate(r) PROVE Typing'
  BY <1>2, QuietStep DEF Authenticate, Stages, Typing, TypeOK, ApiTypeOK
<1>3. ASSUME NEW r \in Requests, AuthenticateRefused(r) PROVE Typing'
  <2>1. AuthVerdict(input[r]) \in Errors
    BY <1>3, VerdictCodes DEF AuthenticateRefused, Typing, TypeOK, ApiTypeOK
  <2>2. QED  BY <1>3, <2>1, FailStep DEF AuthenticateRefused, Stages
<1>4. ASSUME NEW r \in Requests, TenantContext(r) PROVE Typing'
  <2>1. input[r].op \in Ops
    BY <1>4, InputAssumption DEF TenantContext, Typing, TypeOK, ApiTypeOK, AllInputs
  <2>2. /\ FirstStage(input[r].op) \in {"execute", "readCase", "list"}
        /\ FirstStage(input[r].op) = "execute" => input[r].op \in Mutations
        /\ FirstStage(input[r].op) = "readCase" => input[r].op = "get"
    BY <2>1 DEF FirstStage, Ops, Mutations
  <2>3. QED
    BY <1>4, <2>2, QuietStep DEF TenantContext, Stages, Typing, TypeOK, ApiTypeOK
<1>5. ASSUME NEW r \in Requests, TenantContextRefused(r) PROVE Typing'
  <2> DEFINE verdict == Admission(input[r], member[input[r].user][input[r].tenant], clock)
  <2>1. verdict \in Errors
    BY <1>5, VerdictCodes DEF TenantContextRefused, Typing, TypeOK, ApiTypeOK
  <2>2. QED  BY <1>5, <2>1, FailStep DEF TenantContextRefused, Stages
<1>6. ASSUME NEW r \in Requests, ExecuteApplied(r) PROVE Typing'
  <2>1. DatabaseTypeOK' /\ Len(log) \in Nat
    BY <1>6, CommitTyped DEF ExecuteApplied, Typing, TypeOK, DatabaseTypeOK
  <2>2. ApiTypeOK'
    BY <1>6, <2>1 DEF ExecuteApplied, Typing, TypeOK, ApiTypeOK, Stages
  <2>3. IndexOK'
    BY <1>6, <2>2, CommitIndex DEF ExecuteApplied, Typing, TypeOK, ApiTypeOK
  <2>4. StageOK'
    BY <1>6, <2>1 DEF ExecuteApplied, Typing, TypeOK, ApiTypeOK, StageOK
  <2>5. HistoryTypeOK'
    BY <1>6 DEF ExecuteApplied, Typing, TypeOK, HistoryTypeOK, history
  <2>6. QED  BY <2>1, <2>2, <2>3, <2>4, <2>5 DEF Typing, TypeOK
<1>7. ASSUME NEW r \in Requests, ExecuteAppliedUnseen(r) PROVE Typing'
  <2>1. DatabaseTypeOK'
    BY <1>7, CommitTyped DEF ExecuteAppliedUnseen
  <2>2. ApiTypeOK'
    BY <1>7, FailTyped DEF ExecuteAppliedUnseen, Typing, TypeOK, Errors
  <2>3. IndexOK'
    BY <1>7, <2>2, CommitIndex DEF ExecuteAppliedUnseen, Fail, Typing, TypeOK, ApiTypeOK
  <2>4. StageOK'
    BY <1>7 DEF ExecuteAppliedUnseen, Fail, Typing, TypeOK, ApiTypeOK, StageOK
  <2>5. HistoryTypeOK'
    BY <1>7 DEF ExecuteAppliedUnseen, Typing, TypeOK, HistoryTypeOK, history
  <2>6. QED  BY <2>1, <2>2, <2>3, <2>4, <2>5 DEF Typing, TypeOK
<1>8. ASSUME NEW r \in Requests, ExecuteReplayed(r) PROVE Typing'
  <2>1. Recorded(input[r]) \in 1 .. Len(log)
    BY <1>8, InputAssumption DEF ExecuteReplayed, Recorded, AllInputs, IndexOK,
       Typing, TypeOK, ApiTypeOK, DatabaseTypeOK
  <2>2. ApiTypeOK'
    BY <1>8, <2>1 DEF ExecuteReplayed, Typing, TypeOK, ApiTypeOK, Stages
  <2>3. IndexOK'
    BY <1>8, <2>1 DEF ExecuteReplayed, Typing, TypeOK, ApiTypeOK, IndexOK, database
  <2>4. StageOK'
    BY <1>8, <2>1 DEF ExecuteReplayed, Typing, TypeOK, ApiTypeOK, StageOK
  <2>5. HistoryTypeOK'
    BY <1>8 DEF ExecuteReplayed, Typing, TypeOK, HistoryTypeOK, history
  <2>6. QED
    BY <1>8, <2>2, <2>3, <2>4, <2>5, QuietTyping DEF ExecuteReplayed, Typing, TypeOK
<1>9. ASSUME NEW r \in Requests, ExecuteConflict(r) PROVE Typing'
  BY <1>9, FailStep DEF ExecuteConflict, Stages, Errors
<1>10. ASSUME NEW r \in Requests, ExecuteRefused(r) PROVE Typing'
  <2>1. SqlVerdict(input[r]) \in Errors
    BY <1>10, VerdictCodes DEF ExecuteRefused, Typing, TypeOK, ApiTypeOK
  <2>2. QED  BY <1>10, <2>1, FailStep DEF ExecuteRefused, Stages
<1>11. ASSUME NEW r \in Requests, ExecuteForbidden(r) PROVE Typing'
  BY <1>11, FailStep DEF ExecuteForbidden, Stages, Errors
<1>12. ASSUME NEW r \in Requests, ReadCase(r) PROVE Typing'
  <2>1. Snapshot(Target(r)) \in Snapshots
    BY <1>12, TargetTyped, SnapshotTyped DEF ReadCase
  <2>2. body' \in [Requests -> SUBSET Snapshots]
    BY <1>12, <2>1 DEF ReadCase, Typing, TypeOK, ApiTypeOK
  <2>3. input[r].op # "get" => input[r].op \in Mutations /\ evt[r] > 0
    BY <1>12 DEF ReadCase, Typing, StageOK
  <2>4. QED
    BY <1>12, <2>2, <2>3, QuietStep DEF ReadCase, Stages, Typing, TypeOK, ApiTypeOK
<1>13. ASSUME NEW r \in Requests,
              ReadCaseMissing(r) \/ ReadCaseIllegible(r) \/ ListCasesIllegible(r)
       PROVE  Typing'
  BY <1>13, FailStep DEF ReadCaseMissing, ReadCaseIllegible, ListCasesIllegible, Stages,
     Errors
<1>14. ASSUME NEW r \in Requests, FinishMutation(r) PROVE Typing'
  <2>1. published' \in Seq(Nat)
    BY <1>14 DEF FinishMutation, ReturnMutation, Typing, TypeOK, ApiTypeOK
  <2>2. reply' \in [Requests -> {"none"} \cup Successes \cup Errors]
    BY <1>14 DEF FinishMutation, ReturnMutation, Typing, TypeOK, ApiTypeOK, Successes
  <2>3. QED
    BY <1>14, <2>1, <2>2, QuietStep DEF FinishMutation, ReturnMutation, Stages, Typing, TypeOK, ApiTypeOK
<1>15. ASSUME NEW r \in Requests, RecordAccess(r) \/ RecordAccessUnseen(r) PROVE Typing'
  <2>1. AuditEntry(r) \in AuditEntries
    BY <1>15, InputAssumption DEF RecordAccess, RecordAccessUnseen, AuditEntry,
       AuditEntries, AllInputs, Typing, TypeOK, ApiTypeOK
  <2>2. DatabaseTypeOK'
    <3>1. audit' \in Seq(AuditEntries)
      <4>1. audit' = Append(audit, AuditEntry(r))
        BY <1>15 DEF RecordAccess, RecordAccessUnseen
      <4>2. audit \in Seq(AuditEntries)
        BY DEF Typing, TypeOK, DatabaseTypeOK
      <4>3. QED  BY <2>1, <4>1, <4>2
    <3>2. UNCHANGED <<member, sessions, rows, log, idem, clock>>
      BY <1>15 DEF RecordAccess, RecordAccessUnseen
    <3>3. QED
      BY <3>1, <3>2 DEF Typing, TypeOK, DatabaseTypeOK
  <2>3. ApiTypeOK'
    BY <1>15 DEF RecordAccess, RecordAccessUnseen, Fail, Typing, TypeOK, ApiTypeOK,
       Stages, Successes, Errors
  <2>4. StageOK' /\ IndexOK'
    BY <1>15 DEF RecordAccess, RecordAccessUnseen, Fail, Typing, TypeOK, ApiTypeOK,
       StageOK, IndexOK
  <2>5. HistoryTypeOK'
    BY <1>15 DEF RecordAccess, RecordAccessUnseen, Typing, TypeOK, HistoryTypeOK, history
  <2>6. QED  BY <2>2, <2>3, <2>4, <2>5 DEF Typing, TypeOK
<1>16. ASSUME NEW r \in Requests, ListCases(r) PROVE Typing'
  <2>1. {Snapshot(c) : c \in Listed(r)} \subseteq Snapshots
    BY SnapshotTyped DEF Listed
  <2>2. body' \in [Requests -> SUBSET Snapshots]
    BY <1>16, <2>1 DEF ListCases, Typing, TypeOK, ApiTypeOK
  <2>3. QED
    BY <1>16, <2>2, QuietStep DEF ListCases, Stages, Successes, Typing, TypeOK, ApiTypeOK
<1>17. ASSUME NEW r \in Requests, Unavailable(r) PROVE Typing'
  BY <1>17, FailStep DEF Unavailable, Errors
<1>18. ASSUME NEW r \in Requests, Abort(r) PROVE Typing'
  BY <1>18, QuietStep DEF Abort, Stages, Typing, TypeOK, ApiTypeOK
<1>19. ASSUME NEW u \in Users, NEW t \in Tenants, NEW role \in Roles, ChangeRole(u, t, role)
       PROVE  Typing'
  <2>1. ApiTypeOK' /\ StageOK' /\ IndexOK'
    BY <1>19 DEF ChangeRole, api, Typing, TypeOK, ApiTypeOK, StageOK, IndexOK
  <2>2. DatabaseTypeOK'
    BY <1>19 DEF ChangeRole, Typing, TypeOK, DatabaseTypeOK
  <2>3. HistoryTypeOK'
    BY <1>19 DEF ChangeRole, Typing, TypeOK, HistoryTypeOK
  <2>4. QED  BY <2>1, <2>2, <2>3 DEF Typing, TypeOK
<1>20. ASSUME NEW u \in Users, RevokeSession(u) PROVE Typing'
  BY <1>20 DEF RevokeSession, api, history, Typing, TypeOK, ApiTypeOK, DatabaseTypeOK,
     HistoryTypeOK, StageOK, IndexOK
<1>21. CASE Tick
  BY <1>21 DEF Tick, api, history, Typing, TypeOK, ApiTypeOK, DatabaseTypeOK,
     HistoryTypeOK, StageOK, IndexOK
<1>22. CASE ApplyRetention
  <2>1. rows' \in [Cases -> Rows]
    <3>1. \A c \in Cases : [rows[c] EXCEPT !.doc = 0, !.tombstoned = TRUE] \in Rows
      BY DEF Typing, TypeOK, DatabaseTypeOK, Rows
    <3>2. QED
      BY <1>22, <3>1 DEF ApplyRetention, Typing, TypeOK, DatabaseTypeOK
  <2>2. QED
    BY <1>22, <2>1 DEF ApplyRetention, api, history, Typing, TypeOK, ApiTypeOK,
       DatabaseTypeOK, HistoryTypeOK, StageOK, IndexOK
<1>23. ASSUME NEW write \in ForeignWrites, ForeignWrite(write[1], write[2])
       PROVE  Typing'
  <2> DEFINE c == write[1]  flaw == write[2]
  <2>1. c \in Cases /\ flaw \in Flaws
    BY StartAssumption
  <2>2. [rows[c] EXCEPT !.flaw = flaw] \in Rows
    BY <2>1 DEF Typing, TypeOK, DatabaseTypeOK, Rows
  <2>3. rows' \in [Cases -> Rows]
    BY <1>23, <2>1, <2>2 DEF ForeignWrite, Typing, TypeOK, DatabaseTypeOK
  <2>4. QED
    BY <1>23, <2>3 DEF ForeignWrite, api, history, Typing, TypeOK, ApiTypeOK,
       DatabaseTypeOK, HistoryTypeOK, StageOK, IndexOK
<1>24. CASE UNCHANGED vars
  BY <1>24 DEF vars, Typing, TypeOK, ApiTypeOK, DatabaseTypeOK, HistoryTypeOK,
     StageOK, IndexOK
<1>25. ASSUME NEW change \in RoleChanges, ChangeRole(change[1], change[2], change[3])
       PROVE  Typing'
  <2>1. change[1] \in Users /\ change[2] \in Tenants /\ change[3] \in Roles
    BY StartAssumption
  <2>2. QED  BY <1>19, <1>25, <2>1
<1>26. ASSUME NEW u \in Revocable, RevokeSession(u) PROVE Typing'
  BY <1>20, <1>26, StartAssumption
<1>27. QED
  BY <1>1, <1>2, <1>3, <1>4, <1>5, <1>6, <1>7, <1>8, <1>9, <1>10, <1>11, <1>12,
     <1>13, <1>14, <1>15, <1>16, <1>17, <1>18, <1>21, <1>22, <1>23, <1>24, <1>25,
     <1>26
     DEF Next, Serve, Environment

(* Every variable keeps its type, every handler is at an await its operation *)
(* has, and every index points into the event log.                          *)
THEOREM TypeCorrect == Spec => []TypeOK
<1>1. Typing => TypeOK
  BY DEF Typing
<1>2. QED
  BY <1>1, TypingInit, TypingStep, PTL DEF Spec

-----------------------------------------------------------------------------
(***************************************************************************)
(* At most one event per (tenant, key).  AtMostOnceEffect is not inductive: *)
(* nothing in it says that a key which already has an event cannot be       *)
(* committed again.  The strengthening is that the idempotency table points *)
(* back at every event of the log.                                          *)
(***************************************************************************)
Recording == \A i \in DOMAIN log : idem[log[i].tenant][log[i].key] = i

Versions(c) == {log[i].version : i \in {j \in DOMAIN log : log[j].case = c}}
Numbering == \A c \in Cases : Versions(c) = 1 .. rows[c].version

(* Two events of one tenant and key would both be the recorded one. *)
LEMMA RecordingKeepsKeysApart ==
  ASSUME Recording, Numbering
  PROVE  AtMostOnceEffect
  BY DEF Recording, Numbering, Versions, AtMostOnceEffect

CommitsEvent(r, e) ==
  /\ log' = Append(log, e)
  /\ e.tenant = input[r].tenant /\ e.key = input[r].key /\ e.by = r
  /\ e.version = rows[e.case].version + 1
  /\ rows' = [rows EXCEPT ![e.case] = rows'[e.case]]
  /\ rows'[e.case].version = e.version
  /\ idem[e.tenant][e.key] = 0
  /\ idem' = [idem EXCEPT ![e.tenant][e.key] = Len(log) + 1]

(* A transaction appends one event, under a key that had none, numbered one *)
(* above the row it found.                                                  *)
LEMMA CommitAppends ==
  ASSUME Typing, NEW r \in Requests, pc[r] = "execute", Commit(r)
  PROVE  \E e \in Events : CommitsEvent(r, e)
<1> DEFINE in == input[r]
<1>1. in \in AllInputs /\ in.op \in Mutations
  BY InputAssumption DEF Typing, TypeOK, ApiTypeOK, StageOK
<1>2. PICK c \in Cases :
        /\ IF in.op = "create" THEN rows[c].version = 0 ELSE c = in.case
        /\ rows' = [rows EXCEPT ![c] = NewRow(in, c)]
        /\ log' = Append(log,
                   [tenant |-> in.tenant, key |-> in.key,
                    hash |-> CanonicalHash(in), case |-> c,
                    version |-> NewRow(in, c).version, by |-> r])
  BY DEF Commit, WriteCaseAndEvent
<1> DEFINE e == [tenant |-> in.tenant, key |-> in.key,
                 hash |-> CanonicalHash(in), case |-> c,
                 version |-> NewRow(in, c).version, by |-> r]
<1>3. rows[c] \in Rows /\ rows \in [Cases -> Rows]
  BY DEF Typing, TypeOK, DatabaseTypeOK
<1>4. NewRow(in, c).version = rows[c].version + 1
  <2>1. CASE in.op = "create"
    BY <1>2, <2>1 DEF NewRow
  <2>2. CASE in.op = "transition"
    BY <1>3, <2>2 DEF NewRow, Rows
  <2>3. CASE in.op = "rotate"
    BY <1>3, <2>3 DEF NewRow, Rows
  <2>4. QED  BY <1>1, <2>1, <2>2, <2>3 DEF Mutations
<1>5. e \in Events
  <2>1. CanonicalHash(in) \in Hashes
    BY <1>1 DEF CanonicalHash, Hashes, AllInputs
  <2>2. NewRow(in, c).version \in Nat
    BY <1>3, <1>4 DEF Rows
  <2>3. QED  BY <1>1, <2>1, <2>2 DEF Events, AllInputs
<1>6. rows'[c] = NewRow(in, c)
  BY <1>2, <1>3
<1>7. idem[in.tenant][in.key] = 0
      /\ idem' = [idem EXCEPT ![in.tenant][in.key] = Len(log) + 1]
  BY DEF Commit, WriteCaseAndEvent, Recorded
<1>8. CommitsEvent(r, e)
  BY <1>2, <1>4, <1>6, <1>7 DEF CommitsEvent
<1>9. QED
  BY <1>5, <1>8

(* The transaction of Commit keeps the idempotency record in step with the  *)
(* event log and the row's version in step with its events.                 *)
LEMMA CommitRecords ==
  ASSUME Typing, Recording, Numbering, NEW r \in Requests, pc[r] = "execute", Commit(r)
  PROVE  Recording' /\ Numbering'
<1>0. PICK e \in Events : CommitsEvent(r, e)
  BY CommitAppends
<1> DEFINE c == e.case
<1>1. /\ c \in Cases
      /\ log' = Append(log, e)
      /\ e.version = rows[c].version + 1
      /\ rows' = [rows EXCEPT ![c] = rows'[c]]
      /\ rows'[c].version = e.version
      /\ idem[e.tenant][e.key] = 0
      /\ idem' = [idem EXCEPT ![e.tenant][e.key] = Len(log) + 1]
  <2>1. c \in Cases
    BY DEF Events
  <2>2. QED
    BY <1>0, <2>1 DEF CommitsEvent
<1>2. /\ log \in Seq(Events) /\ idem \in [Tenants -> [Keys -> Nat]]
      /\ rows \in [Cases -> Rows] /\ rows[c].version \in Nat
  BY <1>1 DEF Typing, TypeOK, DatabaseTypeOK, Rows
<1>3. /\ DOMAIN log' = DOMAIN log \cup {Len(log) + 1}
      /\ Len(log) + 1 \notin DOMAIN log
      /\ log'[Len(log) + 1] = e
      /\ \A i \in DOMAIN log : log'[i] = log[i] /\ log[i] \in Events /\ i > 0
  BY <1>1, <1>2
<1>4. Recording'
  <2> SUFFICES ASSUME NEW i \in DOMAIN log' PROVE idem'[log'[i].tenant][log'[i].key] = i
    BY DEF Recording
  <2>1. CASE i = Len(log) + 1
    BY <1>1, <1>2, <1>3, <2>1 DEF Events
  <2>2. CASE i \in DOMAIN log
    <3>1. idem[log[i].tenant][log[i].key] = i /\ i # 0
      BY <1>3, <2>2 DEF Recording
    <3>2. ~(log[i].tenant = e.tenant /\ log[i].key = e.key)
      BY <1>1, <3>1
    <3>3. log[i].tenant \in Tenants /\ log[i].key \in Keys
          /\ e.tenant \in Tenants /\ e.key \in Keys
      BY <1>3, <2>2 DEF Events
    <3>4. idem'[log[i].tenant][log[i].key] = idem[log[i].tenant][log[i].key]
      BY <1>1, <1>2, <3>2, <3>3
    <3>5. QED  BY <1>3, <2>2, <3>1, <3>4
  <2>3. QED  BY <1>3, <2>1, <2>2
<1>5. Numbering'
  <2> SUFFICES ASSUME NEW d \in Cases PROVE Versions(d)' = 1 .. rows'[d].version
    BY DEF Numbering
  <2>1. Versions(d) = 1 .. rows[d].version
    BY DEF Numbering
  <2>2. CASE d = c
    <3>1. Versions(d)' = Versions(d) \cup {e.version}
      BY <1>1, <1>3, <2>2 DEF Versions
    <3>2. 1 .. rows'[d].version = (1 .. rows[d].version) \cup {rows[d].version + 1}
      BY <1>1, <1>2, <2>2
    <3>3. QED  BY <1>1, <2>1, <2>2, <3>1, <3>2
  <2>3. CASE d # c
    <3>1. Versions(d)' = Versions(d)
      BY <1>1, <1>3, <2>3 DEF Versions
    <3>2. rows'[d] = rows[d]
      BY <1>1, <1>2, <2>3
    <3>3. QED  BY <2>1, <3>1, <3>2
  <2>4. QED  BY <2>2, <2>3
<1>6. QED  BY <1>4, <1>5

(* Every other step leaves the log, the idempotency table and the version   *)
(* and tenant of every row alone.                                           *)
LEMMA OnlyCommitsWrite ==
  ASSUME Typing, [Next]_vars,
         ~ \E r \in Requests : pc[r] = "execute" /\ Commit(r)
  PROVE  /\ UNCHANGED <<log, idem>>
         /\ \A c \in Cases :
              rows'[c].version = rows[c].version /\ rows'[c].tenant = rows[c].tenant
<1>1. ASSUME NEW r \in Requests, Arrive(r) \/ Serve(r) \/ Unavailable(r) \/ Abort(r)
      PROVE  UNCHANGED <<log, idem, rows>>
  BY <1>1 DEF Arrive, Serve, Unavailable, Abort, Authenticate, AuthenticateRefused,
     TenantContext, TenantContextRefused, ExecuteApplied, ExecuteAppliedUnseen,
     ExecuteReplayed, ExecuteConflict, ExecuteRefused, ExecuteForbidden, ReadCase,
     ReadCaseMissing, ReadCaseIllegible, FinishMutation, ReturnMutation, RecordAccess,
       RecordAccessUnseen, ListCases, ListCasesIllegible, database
<1>2. ASSUME \/ ApplyRetention
             \/ \E write \in ForeignWrites : ForeignWrite(write[1], write[2])
      PROVE  /\ UNCHANGED <<log, idem>>
             /\ \A c \in Cases :
                  rows'[c].version = rows[c].version /\ rows'[c].tenant = rows[c].tenant
  <2>1. rows \in [Cases -> Rows]
    BY DEF Typing, TypeOK, DatabaseTypeOK
  <2>2. CASE ApplyRetention
    BY <2>1, <2>2 DEF ApplyRetention, Rows
  <2>3. ASSUME NEW write \in ForeignWrites, ForeignWrite(write[1], write[2])
        PROVE  /\ UNCHANGED <<log, idem>>
               /\ \A c \in Cases :
                    rows'[c].version = rows[c].version /\ rows'[c].tenant = rows[c].tenant
    BY <2>1, <2>3 DEF ForeignWrite, Rows
  <2>4. QED  BY <1>2, <2>2, <2>3
<1>3. ASSUME \/ \E change \in RoleChanges : ChangeRole(change[1], change[2], change[3])
             \/ \E u \in Revocable : RevokeSession(u)
             \/ Tick
      PROVE  UNCHANGED <<log, idem, rows>>
  BY <1>3 DEF ChangeRole, RevokeSession, Tick
<1>4. CASE UNCHANGED vars
  BY <1>4 DEF vars
<1>5. QED
  BY <1>1, <1>2, <1>3, <1>4 DEF Next, Environment

(* AtMostOnceEffect, for every number of retries, races, lost answers and   *)
(* faults: one (tenant, idempotency key) leaves at most one event, and the  *)
(* events of a case are numbered without gap up to the version of its row.  *)
THEOREM AtMostOnce == Spec => []AtMostOnceEffect
<1> DEFINE Inv == Typing /\ Recording /\ Numbering
<1>1. Init => Inv
  <2> SUFFICES ASSUME Init PROVE Inv
    OBVIOUS
  <2>1. log = <<>> /\ \A c \in Cases : rows[c].version = 0
    BY DEF Init, NoRow
  <2>2. QED
    BY <2>1, TypingInit DEF Recording, Numbering, Versions
<1>2. Inv /\ [Next]_vars => Inv'
  <2> SUFFICES ASSUME Inv, [Next]_vars PROVE Inv'
    OBVIOUS
  <2>1. Typing'
    BY TypingStep
  <2>2. CASE \E r \in Requests : pc[r] = "execute" /\ Commit(r)
    BY <2>1, <2>2, CommitRecords
  <2>3. CASE ~ \E r \in Requests : pc[r] = "execute" /\ Commit(r)
    BY <2>1, <2>3, OnlyCommitsWrite DEF Recording, Numbering, Versions
  <2>4. QED  BY <2>2, <2>3
<1>3. Inv => AtMostOnceEffect
  BY RecordingKeepsKeysApart
<1>4. QED
  BY <1>1, <1>2, <1>3, PTL DEF Spec

-----------------------------------------------------------------------------
(***************************************************************************)
(* Authorization.  AuthorizedCommit and TenantIsolation look back at what a *)
(* caller held; they follow from what a handler knows at each await: the    *)
(* history of a live request contains the caller's present role and scopes, *)
(* a handler past authentication has its scope, a handler past              *)
(* tenant_context has seen a role its operation accepts (is cleared), and   *)
(* a cleared request stays cleared.                                         *)
(***************************************************************************)
Cleared(r) ==
  /\ RequiredScope(input[r].op) \in granted[r]
  /\ \E role \in held[r] : RoleAllows(input[r].op, role)

Authenticated == {"context", "execute", "readCase", "readEvent", "list", "audit"}
Admitted == Authenticated \ {"context"}

Watched ==
  \A r \in Requests : pc[r] \in Active =>
    /\ member[input[r].user][input[r].tenant] \in held[r]
    /\ sessions[input[r].user] \subseteq granted[r]
Scoped ==
  \A r \in Requests : pc[r] \in Authenticated => RequiredScope(input[r].op) \in granted[r]
HandlersCleared == \A r \in Requests : pc[r] \in Admitted => Cleared(r)
BodiesCleared ==
  \A r \in Requests : body[r] # {} =>
    pc[r] # "idle" /\ Cleared(r) /\ \A s \in body[r] : s.tenant = input[r].tenant
EventsCleared ==
  \A i \in DOMAIN log :
    /\ pc[log[i].by] # "idle"
    /\ input[log[i].by].op \in Mutations
    /\ Cleared(log[i].by)

(* A handler that Admission lets pass holds a role its operation allows. *)
LEMMA AdmissionClears ==
  ASSUME NEW in \in Inputs, NEW role, NEW now, Admission(in, role, now) = "ok"
  PROVE  RoleAllows(in.op, role)
  BY DEF Admission, RoleAllows, Mutations

(* What any step may do to a request that has arrived. *)
LEMMA RequestsKeep ==
  ASSUME Typing, [Next]_vars, NEW q \in Requests, pc[q] # "idle"
  PROVE  /\ pc'[q] # "idle" /\ input'[q] = input[q]
         /\ granted'[q] = granted[q] /\ held[q] \subseteq held'[q]
<1> USE DEF Typing, TypeOK, ApiTypeOK, HistoryTypeOK, Active
<1>1. ASSUME NEW r \in Requests, Arrive(r)
      PROVE  /\ pc'[q] # "idle" /\ input'[q] = input[q]
             /\ granted'[q] = granted[q] /\ held[q] \subseteq held'[q]
  BY <1>1 DEF Arrive
<1>2. ASSUME NEW r \in Requests, Serve(r) \/ Unavailable(r) \/ Abort(r)
      PROVE  pc'[q] # "idle" /\ UNCHANGED <<input, granted, held>>
  <2>1. UNCHANGED <<input, granted, held>>
    BY <1>2 DEF Serve, Unavailable, Abort, Authenticate, AuthenticateRefused,
       TenantContext, TenantContextRefused, ExecuteApplied, ExecuteAppliedUnseen,
       ExecuteReplayed, ExecuteConflict, ExecuteRefused, ExecuteForbidden, ReadCase,
       ReadCaseMissing, ReadCaseIllegible, FinishMutation, ReturnMutation, RecordAccess,
       RecordAccessUnseen, ListCases, ListCasesIllegible,
       Fail, history
  <2>2. CASE TenantContext(r)
    <3>1. FirstStage(input[r].op) # "idle"
      BY <2>2, InputAssumption DEF TenantContext, FirstStage, AllInputs, Ops
    <3>2. QED  BY <2>1, <2>2, <3>1 DEF TenantContext
  <2>3. CASE ~TenantContext(r)
    BY <1>2, <2>1, <2>3 DEF Serve, Unavailable, Abort, Authenticate, AuthenticateRefused,
       TenantContextRefused, ExecuteApplied, ExecuteAppliedUnseen,
       ExecuteReplayed, ExecuteConflict, ExecuteRefused, ExecuteForbidden, ReadCase,
       ReadCaseMissing, ReadCaseIllegible, FinishMutation, ReturnMutation, RecordAccess,
       RecordAccessUnseen, ListCases, ListCasesIllegible,
       Fail
  <2>4. QED  BY <2>2, <2>3
<1>3. ASSUME Environment
      PROVE  /\ pc'[q] # "idle" /\ input'[q] = input[q]
             /\ granted'[q] = granted[q] /\ held[q] \subseteq held'[q]
  BY <1>3 DEF Environment, ChangeRole, RevokeSession, Tick, ApplyRetention, ForeignWrite, api, history
<1>4. CASE UNCHANGED vars
  BY <1>4 DEF vars
<1>5. QED
  BY <1>1, <1>2, <1>3, <1>4 DEF Next

(* What a request was cleared for it keeps: held only grows and granted is  *)
(* fixed.                                                                   *)
LEMMA ClearedStays ==
  ASSUME Typing, [Next]_vars, NEW q \in Requests, pc[q] # "idle", Cleared(q)
  PROVE  Cleared(q)'
<1>1. input'[q] = input[q] /\ granted'[q] = granted[q] /\ held[q] \subseteq held'[q]
  BY RequestsKeep
<1>2. QED  BY <1>1 DEF Cleared

(* How a request gets into each region of its handler. *)
LEMMA StageProgress ==
  ASSUME Typing, [Next]_vars, NEW q \in Requests
  PROVE  /\ pc'[q] \in Active => pc[q] \in Active \/ Arrive(q)
         /\ pc'[q] \in Authenticated => pc[q] \in Authenticated \/ Authenticate(q)
         /\ pc'[q] \in Admitted => pc[q] \in Admitted \/ TenantContext(q)
         /\ body'[q] \subseteq body[q] \/ ReadCase(q) \/ ListCases(q)
<1> USE DEF Typing, TypeOK, ApiTypeOK, Active, Authenticated, Admitted, Stages
<1> DEFINE Progress ==
      /\ pc'[q] \in Active => pc[q] \in Active \/ Arrive(q)
      /\ pc'[q] \in Authenticated => pc[q] \in Authenticated \/ Authenticate(q)
      /\ pc'[q] \in Admitted => pc[q] \in Admitted \/ TenantContext(q)
      /\ body'[q] \subseteq body[q] \/ ReadCase(q) \/ ListCases(q)
<1>1. ASSUME NEW r \in Requests, Arrive(r) PROVE Progress
  BY <1>1 DEF Arrive
<1>2. ASSUME NEW r \in Requests, Serve(r) \/ Unavailable(r) \/ Abort(r), r # q PROVE Progress
  BY <1>2 DEF Serve, Unavailable, Abort, Authenticate, AuthenticateRefused,
       TenantContext, TenantContextRefused, ExecuteApplied, ExecuteAppliedUnseen,
       ExecuteReplayed, ExecuteConflict, ExecuteRefused, ExecuteForbidden, ReadCase,
       ReadCaseMissing, ReadCaseIllegible, FinishMutation, ReturnMutation, RecordAccess,
       RecordAccessUnseen, ListCases, ListCasesIllegible,
       Fail
<1>3. ASSUME Serve(q) \/ Unavailable(q) \/ Abort(q) PROVE Progress
  <2>1. CASE Authenticate(q) \/ AuthenticateRefused(q)
    BY <2>1 DEF Authenticate, AuthenticateRefused, Fail
  <2>2. CASE TenantContext(q) \/ TenantContextRefused(q)
    BY <2>2 DEF TenantContext, TenantContextRefused, Fail
  <2>3. CASE \/ ExecuteApplied(q) \/ ExecuteAppliedUnseen(q) \/ ExecuteReplayed(q)
             \/ ExecuteConflict(q) \/ ExecuteRefused(q) \/ ExecuteForbidden(q)
    BY <2>3 DEF ExecuteApplied, ExecuteAppliedUnseen, ExecuteReplayed, ExecuteConflict,
       ExecuteRefused, ExecuteForbidden, Fail
  <2>4. CASE \/ ReadCase(q) \/ ReadCaseMissing(q) \/ ReadCaseIllegible(q)
             \/ ListCases(q) \/ ListCasesIllegible(q)
    BY <2>4 DEF ReadCase, ReadCaseMissing, ReadCaseIllegible, ListCases, ListCasesIllegible,
       Fail
  <2>5. CASE FinishMutation(q) \/ RecordAccess(q) \/ RecordAccessUnseen(q)
    BY <2>5 DEF FinishMutation, ReturnMutation, RecordAccess, RecordAccessUnseen, Fail
  <2>6. CASE Unavailable(q) \/ Abort(q)
    BY <2>6 DEF Unavailable, Abort, Fail
  <2>7. QED  BY <1>3, <2>1, <2>2, <2>3, <2>4, <2>5, <2>6 DEF Serve
<1>4. CASE Environment \/ UNCHANGED vars
  BY <1>4 DEF Environment, ChangeRole, RevokeSession, Tick, ApplyRetention, ForeignWrite, api, vars
<1>5. QED
  BY <1>1, <1>2, <1>3, <1>4 DEF Next

(* Memberships and sessions change in two steps only. *)
LEMMA GrantsChange ==
  ASSUME [Next]_vars
  PROVE  \/ UNCHANGED <<member, sessions>>
         \/ \E change \in RoleChanges : ChangeRole(change[1], change[2], change[3])
         \/ \E u \in Revocable : RevokeSession(u)
<1>1. ASSUME NEW r \in Requests, Arrive(r) \/ Serve(r) \/ Unavailable(r) \/ Abort(r)
      PROVE  UNCHANGED <<member, sessions>>
  <2>1. CASE ExecuteApplied(r) \/ ExecuteAppliedUnseen(r)
    BY <2>1 DEF ExecuteApplied, ExecuteAppliedUnseen, Commit, WriteCaseAndEvent
  <2>2. CASE RecordAccess(r) \/ RecordAccessUnseen(r)
    BY <2>2 DEF RecordAccess, RecordAccessUnseen
  <2>3. CASE \/ Arrive(r) \/ Unavailable(r) \/ Abort(r) \/ Authenticate(r)
             \/ AuthenticateRefused(r) \/ TenantContext(r) \/ TenantContextRefused(r)
             \/ ExecuteReplayed(r) \/ ExecuteConflict(r) \/ ExecuteRefused(r)
             \/ ExecuteForbidden(r) \/ ReadCase(r) \/ ReadCaseMissing(r)
             \/ ReadCaseIllegible(r) \/ FinishMutation(r) \/ ListCases(r)
             \/ ListCasesIllegible(r)
    <3>1. UNCHANGED database
      BY <2>3 DEF Arrive, Unavailable, Abort, Authenticate, AuthenticateRefused,
         TenantContext, TenantContextRefused, ExecuteReplayed, ExecuteConflict,
         ExecuteRefused, ExecuteForbidden, ReadCase, ReadCaseMissing, ReadCaseIllegible,
         FinishMutation, ReturnMutation, ListCases, ListCasesIllegible
    <3>2. QED  BY <3>1 DEF database
  <2>4. QED  BY <1>1, <2>1, <2>2, <2>3 DEF Serve
<1>2. ASSUME \/ Tick \/ ApplyRetention
             \/ \E write \in ForeignWrites : ForeignWrite(write[1], write[2])
      PROVE  UNCHANGED <<member, sessions>>
  BY <1>2 DEF Tick, ApplyRetention, ForeignWrite
<1>3. CASE UNCHANGED vars
  BY <1>3 DEF vars
<1>4. QED  BY <1>1, <1>2, <1>3 DEF Next, Environment

(* The history follows every membership change and revocation that lands    *)
(* while a request is active.                                               *)
LEMMA WatchedStep ==
  ASSUME Typing, Watched, [Next]_vars
  PROVE  Watched'
<1> SUFFICES ASSUME NEW q \in Requests, pc'[q] \in Active
    PROVE  /\ member'[input'[q].user][input'[q].tenant] \in held'[q]
           /\ sessions'[input'[q].user] \subseteq granted'[q]
  BY DEF Watched
<1>1. CASE Arrive(q)
  BY <1>1 DEF Arrive, Typing, TypeOK, ApiTypeOK, HistoryTypeOK, database
<1>2. CASE ~Arrive(q)
  <2>1. pc[q] \in Active
    BY <1>2, StageProgress
  <2>2. /\ member[input[q].user][input[q].tenant] \in held[q]
        /\ sessions[input[q].user] \subseteq granted[q]
    BY <2>1 DEF Watched
  <2>3. input'[q] = input[q] /\ granted'[q] = granted[q] /\ held[q] \subseteq held'[q]
    BY <2>1, RequestsKeep DEF Active
  <2>4. input[q].user \in Users /\ input[q].tenant \in Tenants
    BY <2>1, InputAssumption DEF Typing, TypeOK, ApiTypeOK, AllInputs, Active
  <2>5. CASE UNCHANGED <<member, sessions>>
    BY <2>2, <2>3, <2>5
  <2>6. ASSUME NEW change \in RoleChanges, ChangeRole(change[1], change[2], change[3])
        PROVE  /\ member'[input'[q].user][input'[q].tenant] \in held'[q]
               /\ sessions'[input'[q].user] \subseteq granted'[q]
    <3> DEFINE u == change[1]  t == change[2]  role == change[3]
    <3>1. u \in Users /\ t \in Tenants
      BY StartAssumption
    <3>2. CASE input[q].user = u /\ input[q].tenant = t
      BY <2>1, <2>2, <2>3, <2>4, <2>6, <3>1, <3>2
         DEF ChangeRole, Typing, TypeOK, DatabaseTypeOK
    <3>3. CASE ~(input[q].user = u /\ input[q].tenant = t)
      BY <2>2, <2>3, <2>4, <2>6, <3>1, <3>3 DEF ChangeRole, Typing, TypeOK, DatabaseTypeOK
    <3>4. QED  BY <3>2, <3>3
  <2>7. ASSUME NEW u \in Revocable, RevokeSession(u)
        PROVE  /\ member'[input'[q].user][input'[q].tenant] \in held'[q]
               /\ sessions'[input'[q].user] \subseteq granted'[q]
    BY <2>2, <2>3, <2>4, <2>7, StartAssumption
       DEF RevokeSession, Typing, TypeOK, DatabaseTypeOK
  <2>8. QED  BY <2>5, <2>6, <2>7, GrantsChange
<1>3. QED  BY <1>1, <1>2

(* A handler past authenticate_with_scopes asked for a scope the session    *)
(* had when the request arrived.                                            *)
LEMMA ScopedStep ==
  ASSUME Typing, Watched, Scoped, [Next]_vars
  PROVE  Scoped'
<1> SUFFICES ASSUME NEW q \in Requests, pc'[q] \in Authenticated
    PROVE  RequiredScope(input'[q].op) \in granted'[q]
  BY DEF Scoped, RequiredScope
<1>1. pc[q] \in Active
  BY StageProgress DEF Authenticated, Active, Stages, Authenticate
<1>2. input'[q] = input[q] /\ granted'[q] = granted[q]
  BY <1>1, RequestsKeep DEF Active
<1>3. CASE pc[q] \in Authenticated
  BY <1>2, <1>3 DEF Scoped
<1>4. CASE Authenticate(q)
  <2>1. RequiredScope(input[q].op) \in sessions[input[q].user]
    BY <1>4 DEF Authenticate, AuthVerdict
  <2>2. QED  BY <1>1, <1>2, <2>1 DEF Watched
<1>5. QED  BY <1>3, <1>4, StageProgress

(* A handler gets past tenant_context only with a role that its operation   *)
(* allows, and keeps that clearance.                                        *)
LEMMA HandlersClearedStep ==
  ASSUME Typing, Watched, Scoped, HandlersCleared, [Next]_vars
  PROVE  HandlersCleared'
<1> SUFFICES ASSUME NEW q \in Requests, pc'[q] \in Admitted PROVE Cleared(q)'
  BY DEF HandlersCleared
<1>1. CASE pc[q] \in Admitted
  BY <1>1, ClearedStays DEF HandlersCleared, Admitted, Authenticated
<1>2. CASE TenantContext(q)
  <2>1. input[q] \in Inputs /\ pc[q] = "context"
    BY <1>2 DEF TenantContext, Typing, TypeOK, ApiTypeOK
  <2>2. RoleAllows(input[q].op, member[input[q].user][input[q].tenant])
    BY <1>2, <2>1, AdmissionClears DEF TenantContext
  <2>3. Cleared(q)
    BY <2>1, <2>2 DEF Cleared, Watched, Scoped, Authenticated, Active, Stages
  <2>4. QED  BY <2>1, <2>3, ClearedStays
<1>3. QED  BY <1>1, <1>2, StageProgress

(* Cases enter a response only in reads of the request's own tenant, made   *)
(* by a handler that was cleared.                                           *)
LEMMA BodiesClearedStep ==
  ASSUME Typing, HandlersCleared, BodiesCleared, [Next]_vars
  PROVE  BodiesCleared'
<1> SUFFICES ASSUME NEW q \in Requests, body'[q] # {}
    PROVE  /\ pc'[q] # "idle" /\ Cleared(q)'
           /\ \A s \in body'[q] : s.tenant = input'[q].tenant
  BY DEF BodiesCleared
<1>1. CASE body'[q] \subseteq body[q]
  <2>1. pc[q] # "idle" /\ Cleared(q) /\ \A s \in body[q] : s.tenant = input[q].tenant
    BY <1>1 DEF BodiesCleared
  <2>2. QED  BY <1>1, <2>1, RequestsKeep, ClearedStays
<1>2. CASE ReadCase(q) \/ ListCases(q)
  <2>1. pc[q] \in {"readCase", "list"}
    BY <1>2 DEF ReadCase, ListCases
  <2>2. Cleared(q)
    BY <2>1 DEF HandlersCleared, Admitted, Authenticated
  <2>3. \A s \in body'[q] : s.tenant = input[q].tenant
    <3>1. body \in [Requests -> SUBSET Snapshots]
      BY DEF Typing, TypeOK, ApiTypeOK
    <3>2. \A c : Snapshot(c).tenant = rows[c].tenant
      BY DEF Snapshot
    <3>3. CASE ReadCase(q)
      BY <3>1, <3>2, <3>3 DEF ReadCase, Visible
    <3>4. CASE ListCases(q)
      <4>1. body'[q] = {Snapshot(c) : c \in Listed(q)}
        BY <3>1, <3>4 DEF ListCases
      <4>2. QED  BY <3>2, <4>1 DEF Listed, Visible
    <3>5. QED  BY <1>2, <3>3, <3>4
  <2>4. QED  BY <2>1, <2>2, <2>3, RequestsKeep, ClearedStays
<1>3. QED  BY <1>1, <1>2, StageProgress

(* Events are committed only by handlers that were cleared. *)
LEMMA EventsClearedStep ==
  ASSUME Typing, HandlersCleared, EventsCleared, [Next]_vars
  PROVE  EventsCleared'
<1> DEFINE Writer(q) == pc[q] # "idle" /\ input[q].op \in Mutations /\ Cleared(q)
<1>1. ASSUME NEW q \in Requests, Writer(q) PROVE Writer(q)'
  BY <1>1, RequestsKeep, ClearedStays
<1>2. log \in Seq(Events) /\ \A i \in DOMAIN log : log[i].by \in Requests /\ Writer(log[i].by)
  <2>1. log \in Seq(Events)
    BY DEF Typing, TypeOK, DatabaseTypeOK
  <2>2. \A i \in DOMAIN log : log[i] \in Events
    BY <2>1
  <2>3. QED  BY <2>1, <2>2 DEF Events, EventsCleared
<1>3. ASSUME NEW i \in DOMAIN log' PROVE log'[i].by \in Requests /\ Writer(log'[i].by)
  <2>1. ASSUME NEW r \in Requests, pc[r] = "execute", Commit(r)
        PROVE  log'[i].by \in Requests /\ Writer(log'[i].by)
    <3>1. PICK e \in Events : log' = Append(log, e) /\ e.by = r
      BY <2>1, CommitAppends DEF CommitsEvent
    <3>2. Writer(r)
      BY <2>1 DEF Typing, StageOK, HandlersCleared, Admitted, Authenticated
    <3>3. (i \in DOMAIN log /\ log'[i] = log[i]) \/ log'[i] = e
      BY <1>2, <3>1
    <3>4. QED  BY <1>2, <3>1, <3>2, <3>3
  <2>2. CASE ~ \E r \in Requests : pc[r] = "execute" /\ Commit(r)
    BY <1>2, <2>2, OnlyCommitsWrite
  <2>3. QED  BY <2>1, <2>2
<1>4. QED
  BY <1>1, <1>3 DEF EventsCleared, Cleared

AccessInv ==
  Typing /\ Watched /\ Scoped /\ HandlersCleared /\ BodiesCleared /\ EventsCleared

(* AccessInv is inductive. *)
LEMMA AccessInvariant == Spec => []AccessInv
<1>1. Init => AccessInv
  <2> SUFFICES ASSUME Init PROVE AccessInv
    OBVIOUS
  <2>1. Watched /\ Scoped /\ HandlersCleared /\ BodiesCleared /\ EventsCleared
    BY DEF Init, Watched, Scoped, HandlersCleared, BodiesCleared, EventsCleared,
       Active, Authenticated, Admitted
  <2>2. QED  BY <2>1, TypingInit DEF AccessInv
<1>2. AccessInv /\ [Next]_vars => AccessInv'
  BY TypingStep, WatchedStep, ScopedStep, HandlersClearedStep, BodiesClearedStep,
     EventsClearedStep DEF AccessInv
<1>3. QED  BY <1>1, <1>2, PTL DEF Spec

(* AuthorizedCommit: no interleaving of role changes, revocations and       *)
(* handlers commits an event for a caller who never held the role and the   *)
(* scope for it while the request lasted.                                   *)
THEOREM OnlyAuthorizedCommits == Spec => []AuthorizedCommit
<1>1. AccessInv => AuthorizedCommit
  <2> SUFFICES ASSUME AccessInv, NEW i \in DOMAIN log
      PROVE  LET r == log[i].by IN
             /\ "write" \in granted[r]
             /\ input[r].op = "rotate" => "administrator" \in held[r]
             /\ {"agent", "administrator"} \cap held[r] # {}
    BY DEF AuthorizedCommit
  <2>1. input[log[i].by].op \in Mutations /\ Cleared(log[i].by)
    BY DEF AccessInv, EventsCleared
  <2>2. QED
    BY <2>1 DEF Cleared, RequiredScope, RoleAllows, CanExportOrDelete,
       CanCreateOrTransition, Mutations
<1>2. QED  BY <1>1, AccessInvariant, PTL

(* TenantIsolation: no handler ever holds a case of another tenant, or a    *)
(* case read for a caller without membership and scope.                     *)
THEOREM TenantsAreIsolated == Spec => []TenantIsolation
<1>1. AccessInv => TenantIsolation
  <2> SUFFICES ASSUME AccessInv, NEW r \in Requests, NEW s \in body[r]
      PROVE  /\ s.tenant = input[r].tenant
             /\ held[r] # {"none"}
             /\ RequiredScope(input[r].op) \in granted[r]
    BY DEF TenantIsolation
  <2>1. pc[r] # "idle" /\ Cleared(r) /\ s.tenant = input[r].tenant
    BY DEF AccessInv, BodiesCleared
  <2>2. ~RoleAllows(input[r].op, "none")
    BY DEF RoleAllows, CanExportOrDelete, CanCreateOrTransition
  <2>3. QED  BY <2>1, <2>2 DEF Cleared
<1>2. QED  BY <1>1, AccessInvariant, PTL
=============================================================================
