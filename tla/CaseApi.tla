------------------------------- MODULE CaseApi -------------------------------
(***************************************************************************)
(* The case API of apme-api: the HTTP handlers of src/main.rs and the case  *)
(* service of src/cases.rs, with the tenant database they share.            *)
(*                                                                         *)
(* Every request is a process.  One action is what the handler does between *)
(* two awaits: an introspection call, a membership query, one SQL function, *)
(* one read.  Between any two of them every other request, an              *)
(* administrator changing a membership, a session revocation, the clock and *)
(* the retention worker may run, the storage may fail, and the client may   *)
(* disconnect (hyper then drops the handler's future at its await).         *)
(*                                                                         *)
(* The SQL functions apme_create_case, apme_transition_case,                *)
(* apme_rotate_case_object, apme_append_audit and apme_apply_retention live *)
(* in the apme-interfaces crate.  They are modelled from the way cases.rs   *)
(* calls them and tests/postgres_cases.rs observes them: one transaction,   *)
(* one event per (tenant, idempotency key), errors named by map_sql_error.  *)
(*                                                                         *)
(* The columns of a case are text and nullable: whoever else writes the     *)
(* table (a later release, a repair by hand) may leave a row that           *)
(* case_from_row cannot read.  Its error is a Validation error, also where  *)
(* mutation_result meets it, after the transaction.                         *)
(***************************************************************************)
EXTENDS Naturals, Sequences, FiniteSets

CONSTANTS
  Tenants,        \* ids of the tenants (x-apme-tenant-id)
  Users,          \* shared_user_id of the subjects
  Cases,          \* case ids the database may assign
  Keys,           \* idempotency keys
  Requests,       \* request ids; each is used once
  Inputs,         \* the requests a client may send
  NoInput,        \* what a request id holds before its request arrives
  ValidTransition,\* pairs of statuses the database accepts
  MaxClock,       \* the clock stops here
  InitialRoles,   \* memberships at the start
  InitialScopes,  \* scopes of each user's session at the start
  RoleChanges,    \* <<user, tenant, role>> an administrator may set meanwhile
  Revocable,      \* users whose session may be revoked meanwhile
  ForeignWrites   \* <<case, flaw>> another writer of the table may leave

Roles == {"none", "viewer", "agent", "administrator"}
Scopes == {"read", "write"}
Statuses ==
  {"intake", "collecting_documents", "review", "submitted", "completed", "closed"}
(* What case_from_row may find wrong with a row: a status or a retention    *)
(* class this build has no name for, an incomplete document reference.      *)
Flaws == {"none", "status", "retention", "document"}
Mutations == {"create", "transition", "rotate"}
Ops == Mutations \cup {"get", "list"}

(***************************************************************************)
(* A command carries the fields the service reads: expected_version and     *)
(* to_status, the key_version of the encrypted document (0: no document)    *)
(* and retain_until.  The form of a request says what is wrong with it:     *)
(* "noBearer" (no Authorization header), "sandboxed" (a sandbox identity),  *)
(* "noTenant" and "noKey" (header missing or malformed), "badKey" (longer   *)
(* than 200 bytes or a control character), "badBody" (the command's own     *)
(* validation fails whatever the time).                                     *)
(***************************************************************************)
Commands == [expected : Nat, to : Statuses, doc : Nat, until : Nat]
Forms == {"ok", "noBearer", "sandboxed", "noTenant", "noKey", "badKey", "badBody"}
AllInputs ==
  [op : Ops, user : Users, tenant : Tenants, key : Keys, case : Cases,
   cmd : Commands, form : Forms]

ASSUME InputAssumption == Inputs \subseteq AllInputs /\ NoInput \notin Inputs
ASSUME StartAssumption ==
  /\ Tenants # {}
  /\ InitialRoles \in [Users -> [Tenants -> Roles]]
  /\ InitialScopes \in [Users -> SUBSET Scopes]
  /\ ValidTransition \subseteq Statuses \X Statuses
  /\ MaxClock \in Nat
  /\ RoleChanges \subseteq Users \X Tenants \X Roles
  /\ Revocable \subseteq Users
  /\ ForeignWrites \subseteq Cases \X (Flaws \ {"none"})

Rows ==
  [tenant : Tenants, version : Nat, status : Statuses, doc : Nat, until : Nat,
   tombstoned : BOOLEAN, flaw : Flaws]
Snapshots ==
  [id : Cases, tenant : Tenants, version : Nat, status : Statuses, doc : Nat]
Hashes == Mutations \X (Cases \cup {NoInput}) \X Commands
Events ==
  [tenant : Tenants, key : Keys, hash : Hashes, case : Cases, version : Nat,
   by : Requests]
AuditEntries == [tenant : Tenants, user : Users, case : Cases]

Successes == {"ok", "created"}
(* ApiError::code, the error names a client sees. *)
Errors ==
  {"unauthorized", "forbidden", "temporarily_unavailable", "not_found",
   "idempotency_key_reused", "stale_version", "invalid_transition",
   "key_version_rollback", "validation"}

Stages ==
  {"idle", "auth", "context", "execute", "readCase", "readEvent", "list", "audit",
   "done", "aborted"}
Active == Stages \ {"idle", "done", "aborted"}

VARIABLES
  \* the API process
  pc,        \* the await each request's handler is suspended at
  input,     \* what the client sent
  evt,       \* event_id the SQL function returned (index into log, 0: none)
  replayed,  \* the replayed column of that row
  body,      \* cases read so far, and returned on success
  reply,     \* response code, "none" until the handler returns
  published, \* log indices sent to the broadcast channel, in order
  \* the tenant database and the session service
  member,    \* apme_tenant_memberships
  sessions,  \* scopes introspection reports; none once revoked
  rows,      \* apme_cases; version 0: no such case
  log,       \* apme_case_events, in commit order
  idem,      \* event recorded for (tenant, key), 0: none
  audit,     \* access entries appended to the tenant audit
  clock,
  \* history, read by no action
  held,      \* roles the caller held in the tenant since the request arrived
  granted    \* scopes the caller's session had when the request arrived

api == <<pc, input, evt, replayed, body, reply, published>>
database == <<member, sessions, rows, log, idem, audit, clock>>
history == <<held, granted>>
vars == <<pc, input, evt, replayed, body, reply, published, member, sessions,
          rows, log, idem, audit, clock, held, granted>>

ApiTypeOK ==
  /\ pc \in [Requests -> Stages]
  /\ input \in [Requests -> Inputs \cup {NoInput}]
  /\ evt \in [Requests -> Nat]
  /\ replayed \in [Requests -> BOOLEAN]
  /\ body \in [Requests -> SUBSET Snapshots]
  /\ reply \in [Requests -> {"none"} \cup Successes \cup Errors]
  /\ published \in Seq(Nat)
  /\ \A r \in Requests : pc[r] # "idle" => input[r] \in Inputs

DatabaseTypeOK ==
  /\ member \in [Users -> [Tenants -> Roles]]
  /\ sessions \in [Users -> SUBSET Scopes]
  /\ rows \in [Cases -> Rows]
  /\ log \in Seq(Events)
  /\ idem \in [Tenants -> [Keys -> Nat]]
  /\ audit \in Seq(AuditEntries)
  /\ clock \in Nat

HistoryTypeOK ==
  /\ held \in [Requests -> SUBSET Roles]
  /\ granted \in [Requests -> SUBSET Scopes]

(* The type invariant: what each variable of the handlers, the database and *)
(* the history may hold.                                                    *)
TypeOK == ApiTypeOK /\ DatabaseTypeOK /\ HistoryTypeOK

NoRow(t) ==
  [tenant |-> t, version |-> 0, status |-> "intake", doc |-> 0, until |-> 0,
   tombstoned |-> FALSE, flaw |-> "none"]

(* The service starts on a migrated, empty database. *)
Init ==
  /\ pc = [r \in Requests |-> "idle"]
  /\ input = [r \in Requests |-> NoInput]
  /\ evt = [r \in Requests |-> 0]
  /\ replayed = [r \in Requests |-> FALSE]
  /\ body = [r \in Requests |-> {}]
  /\ reply = [r \in Requests |-> "none"]
  /\ published = <<>>
  /\ member = InitialRoles
  /\ sessions = InitialScopes
  /\ rows = [c \in Cases |-> NoRow(CHOOSE t \in Tenants : TRUE)]
  /\ log = <<>>
  /\ idem = [t \in Tenants |-> [k \in Keys |-> 0]]
  /\ audit = <<>>
  /\ clock = 0
  /\ held = [r \in Requests |-> {}]
  /\ granted = [r \in Requests |-> {}]

-----------------------------------------------------------------------------
(* What the handlers decide without waiting. *)

(* The scope each handler asks authenticate_with_scopes for. *)
RequiredScope(op) == IF op \in Mutations THEN "write" ELSE "read"

(* TenantRole::can_create_or_transition and can_export_or_delete. *)
CanCreateOrTransition(role) == role \in {"agent", "administrator"}
CanExportOrDelete(role) == role = "administrator"

(* Mutant of RoleAllows: a rotation guarded by require_mutator. *)
RoleAllowsMutatorRotates(op, role) ==
  CASE op \in Mutations -> CanCreateOrTransition(role)
    [] OTHER -> role # "none"

(* The role check each operation makes on the tenant context; reading is    *)
(* open to every active member.                                             *)
RoleAllows(op, role) ==
  CASE op = "rotate" -> CanExportOrDelete(role)
    [] op \in {"create", "transition"} -> CanCreateOrTransition(role)
    [] OTHER -> role # "none"

(* CreateCaseCommand::validate(now), expected_version > 0,                  *)
(* EncryptedObjectReference::validate.                                      *)
CommandValid(in, now) ==
  /\ in.form # "badBody"
  /\ in.op = "create" => in.cmd.until > now
  /\ in.op \in {"transition", "rotate"} => in.cmd.expected > 0
  /\ in.op = "rotate" => in.cmd.doc > 0

(* From the membership row to the next await: tenant header, membership,    *)
(* idempotency header, role, key and command, in that order.                *)
Admission(in, role, now) ==
  IF in.form = "noTenant" THEN "validation"
  ELSE IF role = "none" THEN "forbidden"
  ELSE IF in.op \notin Mutations THEN "ok"
  ELSE IF in.form = "noKey" THEN "validation"
  ELSE IF ~RoleAllows(in.op, role) THEN "forbidden"
  ELSE IF in.form = "badKey" \/ ~CommandValid(in, now) THEN "validation"
  ELSE "ok"

(* Mutants of CanonicalHash: the path's case id is not hashed; the caller is. *)
CanonicalHashWithoutCase(in) == <<in.op, NoInput, in.cmd>>
CanonicalHashWithCaller(in) ==
  <<in.op, IF in.op = "create" THEN NoInput ELSE in.case, in.cmd, in.user>>

(* canonical_hash(&(1, command)) for a create, canonical_hash(&(1, case_id, *)
(* command)) otherwise: neither the caller nor the time is hashed.          *)
CanonicalHash(in) ==
  <<in.op, IF in.op = "create" THEN NoInput ELSE in.case, in.cmd>>

(* Mutant of Visible: the tenant predicate is missing. *)
VisibleToAnyTenant(t, c) == rows[c].version > 0 /\ ~rows[c].tombstoned

(* CASE_SELECT_ONE and CASE_SELECT_LIST: the caller's tenant, not tombstoned. *)
Visible(t, c) == rows[c].version > 0 /\ rows[c].tenant = t /\ ~rows[c].tombstoned

(* Where parse_status, parse_retention and the match on the document's      *)
(* three columns succeed, case_from_row returns the case.                   *)
Legible(c) == rows[c].flaw = "none"
Snapshot(c) ==
  [id |-> c, tenant |-> rows[c].tenant, version |-> rows[c].version,
   status |-> rows[c].status, doc |-> rows[c].doc]

FirstStage(op) ==
  CASE op \in Mutations -> "execute" [] op = "get" -> "readCase" [] op = "list" -> "list"

-----------------------------------------------------------------------------
(* Requests arrive and are authorized. *)

Arrive(r) ==
  /\ pc[r] = "idle"
  /\ \E in \in Inputs :
       /\ input' = [input EXCEPT ![r] = in]
       /\ held' = [held EXCEPT ![r] = {member[in.user][in.tenant]}]
       /\ granted' = [granted EXCEPT ![r] = sessions[in.user]]
  /\ pc' = [pc EXCEPT ![r] = "auth"]
  /\ UNCHANGED <<evt, replayed, body, reply, published, database>>

(* The handler returns an error: whatever it had read is dropped. *)
Fail(r, code) ==
  /\ pc' = [pc EXCEPT ![r] = "done"]
  /\ reply' = [reply EXCEPT ![r] = code]
  /\ body' = [body EXCEPT ![r] = {}]
  /\ UNCHANGED <<input, evt, replayed, published>>

(* authenticate_with_scopes: local verification, then the session as        *)
(* introspection reports it now.                                            *)
AuthVerdict(in) ==
  IF in.form = "noBearer" THEN "unauthorized"
  ELSE IF in.form = "sandboxed" THEN "forbidden"
  ELSE IF RequiredScope(in.op) \notin sessions[in.user] THEN "unauthorized"
  ELSE "ok"

Authenticate(r) ==
  /\ pc[r] = "auth"
  /\ AuthVerdict(input[r]) = "ok"
  /\ pc' = [pc EXCEPT ![r] = "context"]
  /\ UNCHANGED <<input, evt, replayed, body, reply, published, database, history>>

AuthenticateRefused(r) ==
  /\ pc[r] = "auth"
  /\ AuthVerdict(input[r]) # "ok"
  /\ Fail(r, AuthVerdict(input[r]))
  /\ UNCHANGED <<database, history>>

(* tenant_context, and the checks that follow it before the next await. *)
TenantContext(r) ==
  LET in == input[r]
      verdict == Admission(in, member[in.user][in.tenant], clock)
  IN
  /\ pc[r] = "context"
  /\ verdict = "ok"
  /\ pc' = [pc EXCEPT ![r] = FirstStage(in.op)]
  /\ UNCHANGED <<input, evt, replayed, body, reply, published, database, history>>

TenantContextRefused(r) ==
  LET in == input[r]
      verdict == Admission(in, member[in.user][in.tenant], clock)
  IN
  /\ pc[r] = "context"
  /\ verdict # "ok"
  /\ Fail(r, verdict)
  /\ UNCHANGED <<database, history>>

-----------------------------------------------------------------------------
(* The SQL functions: one transaction each. *)

(* The error the function raises, after map_sql_error and ApiError::code,   *)
(* or "ok" when it applies the command.  No pair of ValidTransition starts  *)
(* from a status without a name; KeyVersionRollback says that the key       *)
(* version must increase.                                                   *)
SqlVerdict(in) ==
  LET row == rows[in.case] IN
  IF in.op = "create" THEN "ok"
  ELSE IF ~Visible(in.tenant, in.case) THEN "not_found"
  ELSE IF row.version # in.cmd.expected THEN "stale_version"
  ELSE IF in.op = "transition"
  THEN IF row.flaw # "status" /\ <<row.status, in.cmd.to>> \in ValidTransition
       THEN "ok" ELSE "invalid_transition"
  ELSE IF row.doc = 0 THEN "not_found"
  ELSE IF in.cmd.doc <= row.doc THEN "key_version_rollback"
  ELSE "ok"

(* The event already recorded for the request's tenant and key, 0: none. *)
Recorded(in) == idem[in.tenant][in.key]

(* The row the transaction writes; a rotation binds the whole document      *)
(* reference.                                                               *)
NewRow(in, c) ==
  CASE in.op = "create" ->
         [tenant |-> in.tenant, version |-> 1, status |-> "intake",
          doc |-> in.cmd.doc, until |-> in.cmd.until, tombstoned |-> FALSE,
          flaw |-> "none"]
    [] in.op = "transition" ->
         [rows[c] EXCEPT !.version = @ + 1, !.status = in.cmd.to]
    [] in.op = "rotate" ->
         [rows[c] EXCEPT !.version = @ + 1, !.doc = in.cmd.doc,
                         !.flaw = IF @ = "document" THEN "none" ELSE @]

WriteCaseAndEvent(r) ==
  LET in == input[r] IN
  /\ Recorded(in) = 0
  /\ SqlVerdict(in) = "ok"
  /\ \E c \in Cases :
       /\ IF in.op = "create" THEN rows[c].version = 0 ELSE c = in.case
       /\ rows' = [rows EXCEPT ![c] = NewRow(in, c)]
       /\ log' = Append(log,
                   [tenant |-> in.tenant, key |-> in.key,
                    hash |-> CanonicalHash(in), case |-> c,
                    version |-> NewRow(in, c).version, by |-> r])
  /\ UNCHANGED <<member, sessions, audit, clock>>

(* Mutant of Commit: the idempotency record is not written. *)
CommitUnrecorded(r) == WriteCaseAndEvent(r) /\ UNCHANGED idem

(* Case row, event and idempotency record are written together. *)
Commit(r) ==
  /\ WriteCaseAndEvent(r)
  /\ idem' = [idem EXCEPT ![input[r].tenant][input[r].key] = Len(log) + 1]

ExecuteApplied(r) ==
  /\ pc[r] = "execute"
  /\ Commit(r)
  /\ pc' = [pc EXCEPT ![r] = "readCase"]
  /\ evt' = [evt EXCEPT ![r] = Len(log) + 1]
  /\ replayed' = [replayed EXCEPT ![r] = FALSE]
  /\ UNCHANGED <<input, body, reply, published, history>>

(* The transaction commits but its row never reaches the service. *)
ExecuteAppliedUnseen(r) ==
  /\ pc[r] = "execute"
  /\ Commit(r)
  /\ Fail(r, "temporarily_unavailable")
  /\ UNCHANGED history

ExecuteReplayed(r) ==
  /\ pc[r] = "execute"
  /\ Recorded(input[r]) > 0
  /\ log[Recorded(input[r])].hash = CanonicalHash(input[r])
  /\ pc' = [pc EXCEPT ![r] = "readCase"]
  /\ evt' = [evt EXCEPT ![r] = Recorded(input[r])]
  /\ replayed' = [replayed EXCEPT ![r] = TRUE]
  /\ UNCHANGED <<input, body, reply, published, database, history>>

ExecuteConflict(r) ==
  /\ pc[r] = "execute"
  /\ Recorded(input[r]) > 0
  /\ log[Recorded(input[r])].hash # CanonicalHash(input[r])
  /\ Fail(r, "idempotency_key_reused")
  /\ UNCHANGED <<database, history>>

ExecuteRefused(r) ==
  /\ pc[r] = "execute"
  /\ Recorded(input[r]) = 0
  /\ SqlVerdict(input[r]) # "ok"
  /\ Fail(r, SqlVerdict(input[r]))
  /\ UNCHANGED <<database, history>>

(* APME_NOT_AUTHORIZED: the membership went away after tenant_context read  *)
(* it.  How much the functions re-check is not visible from here, so they   *)
(* may refuse, and they may as well apply the command.                      *)
ExecuteForbidden(r) ==
  LET in == input[r] IN
  /\ pc[r] = "execute"
  /\ ~RoleAllows(in.op, member[in.user][in.tenant])
  /\ Fail(r, "forbidden")
  /\ UNCHANGED <<database, history>>

-----------------------------------------------------------------------------
(* Reads, and the end of each handler. *)

(* The case a read is about: the one the SQL function returned, or the path's. *)
Target(r) == IF evt[r] > 0 THEN log[evt[r]].case ELSE input[r].case

(* CaseService::get_case, for the GET handler and inside mutation_result. *)
ReadCase(r) ==
  /\ pc[r] = "readCase"
  /\ Visible(input[r].tenant, Target(r)) /\ Legible(Target(r))
  /\ body' = [body EXCEPT ![r] = {Snapshot(Target(r))}]
  /\ pc' = [pc EXCEPT ![r] = IF input[r].op = "get" THEN "audit" ELSE "readEvent"]
  /\ UNCHANGED <<input, evt, replayed, reply, published, database, history>>

(* case_from_row fails, for the GET handler and after a transaction alike.  *)
ReadCaseIllegible(r) ==
  /\ pc[r] = "readCase"
  /\ Visible(input[r].tenant, Target(r)) /\ ~Legible(Target(r))
  /\ Fail(r, "validation")
  /\ UNCHANGED <<database, history>>

(* Mutants of ReadCaseMissing: the missing row of a committed mutation is   *)
(* reported as a bad request; the handler polls for the row.                *)
ReadCaseMissingInvalid(r) ==
  /\ pc[r] = "readCase"
  /\ ~Visible(input[r].tenant, Target(r))
  /\ Fail(r, "validation")
  /\ UNCHANGED <<database, history>>
ReadCaseMissingPolls(r) ==
  /\ pc[r] = "readCase"
  /\ ~Visible(input[r].tenant, Target(r))
  /\ UNCHANGED vars

ReadCaseMissing(r) ==
  /\ pc[r] = "readCase"
  /\ ~Visible(input[r].tenant, Target(r))
  /\ Fail(r, "not_found")
  /\ UNCHANGED <<database, history>>

(* The handler returns the case and the event; out is what the channel has  *)
(* carried by then.                                                         *)
ReturnMutation(r, out) ==
  /\ pc[r] = "readEvent"
  /\ pc' = [pc EXCEPT ![r] = "done"]
  /\ published' = out
  /\ reply' = [reply EXCEPT ![r] =
                 IF input[r].op = "create" /\ ~replayed[r] THEN "created" ELSE "ok"]
  /\ UNCHANGED <<input, evt, replayed, body, database, history>>

(* Mutants of FinishMutation: replays are published too; a fresh transition *)
(* returns without publishing; the client is answered first.                *)
FinishMutationPublishingAll(r) == ReturnMutation(r, Append(published, evt[r]))
FinishMutationPublishingCreates(r) ==
  ReturnMutation(r, IF replayed[r] \/ input[r].op # "create" THEN published
                    ELSE Append(published, evt[r]))
FinishMutationAnsweringFirst(r) ==
  IF reply[r] = "none"
  THEN /\ pc[r] = "readEvent"
       /\ reply' = [reply EXCEPT ![r] = "ok"]
       /\ UNCHANGED <<pc, input, evt, replayed, body, published, database, history>>
  ELSE ReturnMutation(r, IF replayed[r] THEN published ELSE Append(published, evt[r]))

(* The event row arrives; from here to the response the handler does not    *)
(* wait: it publishes unless the mutation was replayed, and returns.        *)
FinishMutation(r) ==
  ReturnMutation(r, IF replayed[r] THEN published ELSE Append(published, evt[r]))

(* Mutant of AuditEntry: the tenant is bound where the case id belongs. *)
AuditEntryOfTenant(r) ==
  [tenant |-> input[r].tenant, user |-> input[r].user, case |-> input[r].tenant]

AuditEntry(r) ==
  [tenant |-> input[r].tenant, user |-> input[r].user, case |-> input[r].case]

(* Mutant of RecordAccess: the entry is left to a task that may not run. *)
RecordAccessLater(r) ==
  /\ pc[r] = "audit"
  /\ pc' = [pc EXCEPT ![r] = "done"]
  /\ reply' = [reply EXCEPT ![r] = "ok"]
  /\ UNCHANGED <<input, evt, replayed, body, published, database, history>>

(* record_access, then the GET handler returns the case. *)
RecordAccess(r) ==
  /\ pc[r] = "audit"
  /\ audit' = Append(audit, AuditEntry(r))
  /\ pc' = [pc EXCEPT ![r] = "done"]
  /\ reply' = [reply EXCEPT ![r] = "ok"]
  /\ UNCHANGED <<input, evt, replayed, body, published, member, sessions, rows,
                 log, idem, clock, history>>

(* The audit entry is written, its acknowledgement is lost. *)
RecordAccessUnseen(r) ==
  /\ pc[r] = "audit"
  /\ audit' = Append(audit, AuditEntry(r))
  /\ Fail(r, "temporarily_unavailable")
  /\ UNCHANGED <<member, sessions, rows, log, idem, clock, history>>

(* list_cases collects into one Result: a single row that case_from_row     *)
(* cannot read fails the whole list.                                        *)
Listed(r) == {c \in Cases : Visible(input[r].tenant, c)}

ListCases(r) ==
  /\ pc[r] = "list"
  /\ \A c \in Listed(r) : Legible(c)
  /\ body' = [body EXCEPT ![r] = {Snapshot(c) : c \in Listed(r)}]
  /\ pc' = [pc EXCEPT ![r] = "done"]
  /\ reply' = [reply EXCEPT ![r] = "ok"]
  /\ UNCHANGED <<input, evt, replayed, published, database, history>>

ListCasesIllegible(r) ==
  /\ pc[r] = "list"
  /\ \E c \in Listed(r) : ~Legible(c)
  /\ Fail(r, "validation")
  /\ UNCHANGED <<database, history>>

(* CaseServiceError::Storage at any query, AuthFailure::Degraded while      *)
(* authenticating: nothing was written by the call that failed.             *)
Unavailable(r) ==
  /\ pc[r] \in Active
  /\ Fail(r, "temporarily_unavailable")
  /\ UNCHANGED <<database, history>>

(* The client disconnects, or the process stops, while the handler waits. *)
Abort(r) ==
  /\ pc[r] \in Active
  /\ pc' = [pc EXCEPT ![r] = "aborted"]
  /\ body' = [body EXCEPT ![r] = {}]
  /\ UNCHANGED <<input, evt, replayed, reply, published, database, history>>

-----------------------------------------------------------------------------
(* What happens around the API. *)

(* An administrator's statement on apme_tenant_memberships. *)
ChangeRole(u, t, role) ==
  /\ member[u][t] # role
  /\ member' = [member EXCEPT ![u][t] = role]
  /\ held' = [r \in Requests |->
                IF pc[r] \in Active /\ input[r].user = u /\ input[r].tenant = t
                THEN held[r] \cup {role} ELSE held[r]]
  /\ UNCHANGED <<api, sessions, rows, log, idem, audit, clock, granted>>

(* Shared Auth revokes the session; introspection reports it inactive. *)
RevokeSession(u) ==
  /\ sessions[u] # {}
  /\ sessions' = [sessions EXCEPT ![u] = {}]
  /\ UNCHANGED <<api, member, rows, log, idem, audit, clock, history>>

Tick ==
  /\ clock < MaxClock
  /\ clock' = clock + 1
  /\ UNCHANGED <<api, member, sessions, rows, log, idem, audit, history>>

(* apply_retention: expired cases lose their object and disappear; the ones *)
(* left out are under legal hold.                                           *)
Expired(c) == rows[c].version > 0 /\ ~rows[c].tombstoned /\ rows[c].until <= clock

ApplyRetention ==
  /\ \E S \in SUBSET {c \in Cases : Expired(c)} :
       /\ S # {}
       /\ rows' = [c \in Cases |->
                     IF c \in S THEN [rows[c] EXCEPT !.doc = 0, !.tombstoned = TRUE]
                     ELSE rows[c]]
  /\ UNCHANGED <<api, member, sessions, log, idem, audit, clock, history>>

(* Another writer of apme_cases leaves a row this build cannot read. *)
ForeignWrite(c, flaw) ==
  /\ rows[c].version > 0 /\ ~rows[c].tombstoned /\ Legible(c)
  /\ rows' = [rows EXCEPT ![c].flaw = flaw]
  /\ UNCHANGED <<api, member, sessions, log, idem, audit, clock, history>>

-----------------------------------------------------------------------------
(* One step of the service for request r. *)
Serve(r) ==
  \/ Authenticate(r)
  \/ AuthenticateRefused(r)
  \/ TenantContext(r)
  \/ TenantContextRefused(r)
  \/ ExecuteApplied(r)
  \/ ExecuteAppliedUnseen(r)
  \/ ExecuteReplayed(r)
  \/ ExecuteConflict(r)
  \/ ExecuteRefused(r)
  \/ ExecuteForbidden(r)
  \/ ReadCase(r)
  \/ ReadCaseMissing(r)
  \/ ReadCaseIllegible(r)
  \/ FinishMutation(r)
  \/ RecordAccess(r)
  \/ RecordAccessUnseen(r)
  \/ ListCases(r)
  \/ ListCasesIllegible(r)

Environment ==
  \/ \E change \in RoleChanges : ChangeRole(change[1], change[2], change[3])
  \/ \E u \in Revocable : RevokeSession(u)
  \/ Tick
  \/ ApplyRetention
  \/ \E write \in ForeignWrites : ForeignWrite(write[1], write[2])

Next ==
  \/ \E r \in Requests : Arrive(r) \/ Serve(r) \/ Unavailable(r) \/ Abort(r)
  \/ Environment

Spec == Init /\ [][Next]_vars

(* A handler that waits for the database or for introspection is resumed    *)
(* once the call answers: tokio polls every woken task.  Faults are not part *)
(* of the fairness, so an end is never owed to one.                         *)
FairSpec == Spec /\ \A r \in Requests : WF_vars(Serve(r))

-----------------------------------------------------------------------------
(* Properties. *)

Finished(r) == pc[r] = "done"
Succeeded(r) == Finished(r) /\ reply[r] \in Successes
Mutates(r) == input[r].op \in Mutations

(* Two requests a client would call the same: same tenant and key, same     *)
(* operation on the same case with the same command.                        *)
SameRequest(a, b) ==
  /\ a.op = b.op /\ a.tenant = b.tenant /\ a.key = b.key /\ a.cmd = b.cmd
  /\ a.op = "create" \/ a.case = b.case

(* A mutation that succeeds reports the event of its own command: committed *)
(* by itself, or, if replayed, by an earlier request a client would call    *)
(* the same; the event moves the case on from expected_version, and the     *)
(* case in the response is that event's case, no older than the event       *)
(* (mutation_result reads it after the transaction).                        *)
ReplyMatchesRequest ==
  \A r \in Requests : Succeeded(r) /\ Mutates(r) =>
    /\ evt[r] \in DOMAIN log
    /\ LET e == log[evt[r]] IN
       /\ SameRequest(input[e.by], input[r])
       /\ replayed[r] <=> e.by # r
       /\ input[r].op # "create" => e.version = input[r].cmd.expected + 1
       /\ \E s \in body[r] :
            body[r] = {s} /\ s.id = e.case /\ s.tenant = e.tenant /\ s.version >= e.version

(* However often a mutation is retried, raced or half lost, one (tenant,    *)
(* idempotency key) leaves at most one event, and a case's events are       *)
(* numbered 1, 2, 3 without a gap, its row carrying the last number.        *)
AtMostOnceEffect ==
  /\ \A i, j \in DOMAIN log :
       log[i].tenant = log[j].tenant /\ log[i].key = log[j].key => i = j
  /\ \A c \in Cases :
       {log[i].version : i \in {j \in DOMAIN log : log[j].case = c}} = 1 .. rows[c].version

(* The broadcast channel carries a committed event once, and only after its *)
(* own handler read it back; a client told that its mutation was applied    *)
(* now (not replayed) can rely on the event having been published.          *)
PublishedOncePerCommit ==
  /\ \A i, j \in DOMAIN published : published[i] = published[j] => i = j
  /\ \A i \in DOMAIN published :
       published[i] \in DOMAIN log /\ Succeeded(log[published[i]].by)
  /\ \A r \in Requests : Succeeded(r) /\ Mutates(r) /\ ~replayed[r] =>
       \E i \in DOMAIN published : published[i] = evt[r]

(* Whatever is read for a request belongs to the tenant it names, and was   *)
(* read for somebody who was a member of it at some moment of the request,  *)
(* with a session alive and in scope when the request arrived.              *)
TenantIsolation ==
  \A r \in Requests : \A s \in body[r] :
    /\ s.tenant = input[r].tenant
    /\ held[r] # {"none"}
    /\ RequiredScope(input[r].op) \in granted[r]

(* Every event was committed for somebody who, at some moment of the        *)
(* request, held a role allowed to do that: an administrator for a          *)
(* rotation, an agent or administrator otherwise, with the write scope when *)
(* the request arrived.                                                     *)
AuthorizedCommit ==
  \A i \in DOMAIN log :
    LET r == log[i].by IN
    /\ "write" \in granted[r]
    /\ input[r].op = "rotate" => "administrator" \in held[r]
    /\ {"agent", "administrator"} \cap held[r] # {}

(* These codes tell a client that nothing happened, so that it may change   *)
(* the command and use a new key.  not_found and temporarily_unavailable    *)
(* are not among them: a committed mutation may be answered with either.    *)
DefiniteRefusals ==
  Errors \ {"not_found", "temporarily_unavailable"}

(* A request refused with one of them has committed nothing, with one       *)
(* exception: mutation_result reads the case back after the transaction,    *)
(* and if another writer has left its row illegible by then, the client of  *)
(* a committed mutation is told "validation".  No other code, and no other  *)
(* cause of that code, follows a transaction.                               *)
RefusalMeansNoEffect ==
  [][\A r \in Requests :
       pc[r] \in Active /\ pc'[r] = "done" /\ reply'[r] \in DefiniteRefusals =>
         \A i \in DOMAIN log' : log'[i].by = r =>
           reply'[r] = "validation" /\ ~Legible(log'[i].case)]_vars

(* The GET of one case does not return it without its access entry in the   *)
(* tenant audit: for every user, tenant and case there are at least as many *)
(* entries as successful GETs of it.  Lists and mutations return cases too, *)
(* and write no entry.                                                      *)
AccessAudited ==
  \A r \in Requests : Succeeded(r) /\ input[r].op = "get" =>
    Cardinality({q \in Requests : Succeeded(q) /\ input[q].op = "get"
                                    /\ AuditEntry(q) = AuditEntry(r)})
      <= Cardinality({i \in DOMAIN audit : audit[i] = AuditEntry(r)})

(* Once a mutation is committed, every identical well-formed request ends   *)
(* with a success or with a refusal that is not about the command: the      *)
(* caller is not allowed (any more), the service is unavailable, or the     *)
(* case is tombstoned, whatever else happened to it since (another          *)
(* transition, a rotation).  There are two exceptions, both told as         *)
(* "validation".  create_case compares retain_until with the clock before   *)
(* it looks for the idempotency record, so a retry that comes after it is   *)
(* refused.  And a retry whose case another writer has left illegible is    *)
(* refused by case_from_row.                                                *)
RetryOutcome ==
  [][\A r \in Requests : \A i \in DOMAIN log :
       /\ pc[r] \in Active /\ pc'[r] = "done" /\ input[r].form = "ok"
       /\ SameRequest(input[log[i].by], input[r])
       => \/ reply'[r] \in Successes
          \/ reply'[r] \in {"unauthorized", "forbidden", "temporarily_unavailable"}
          \/ reply'[r] = "not_found" /\ rows[log[i].case].tombstoned
          \/ /\ reply'[r] = "validation"
             /\ \/ input[r].op = "create" /\ input[r].cmd.until <= clock
                \/ ~Legible(log[i].case)]_vars

(* The API, seen through its mutations, is the ledger of CaseLedger: the    *)
(* slot of a request is its tenant and key, the entry of an event its slot  *)
(* and the request that committed it, and a request is acknowledged when    *)
(* its handler returns a success.                                           *)
Slots == Tenants \X Keys
NoSlot == <<>>

AskedSlot ==
  [r \in Requests |->
     IF pc[r] # "idle" /\ Mutates(r) THEN <<input[r].tenant, input[r].key>> ELSE NoSlot]
LogEntries ==
  [i \in DOMAIN log |-> [slot |-> <<log[i].tenant, log[i].key>>, owner |-> log[i].by]]
AckedEvent == [r \in Requests |-> IF Succeeded(r) /\ Mutates(r) THEN evt[r] ELSE 0]

Ledger == INSTANCE CaseLedger WITH
  asked <- AskedSlot, ledger <- LogEntries, acked <- AckedEvent, announced <- published

ImplementsLedger == Ledger!LedgerSpec

(* Every request that arrives is answered or its client is gone, with no    *)
(* help from a fault.                                                       *)
EveryRequestEnds ==
  \A r \in Requests : pc[r] \in Active ~> pc[r] \in {"done", "aborted"}
=============================================================================
