----------------------------- MODULE FeedOfCases -----------------------------
(***************************************************************************)
(* The case API and the event feed together: the events that subscribers    *)
(* get are the ones the handlers publish when they finish a mutation, and   *)
(* the memberships a handshake reads are those of the tenant database.      *)
(*                                                                         *)
(* The state is that of CaseApi and of EventFeed; the channel's contents    *)
(* and the memberships EventFeed reads are computed from CaseApi's.  A step *)
(* of a handler that publishes is a step of both; every other step belongs  *)
(* to one of them and leaves the other alone.  The channel is closed when   *)
(* the server has drained: no handler is left, and none begins.             *)
(***************************************************************************)
EXTENDS CaseApi

CONSTANTS
  NoCase, Wanted, Sockets, Cap, Reading,   \* as in EventFeed
  UserOf                           \* the user of each socket

ASSUME SocketAssumption ==
  /\ UserOf \in [Sockets -> Users] /\ Reading \subseteq Sockets
  /\ NoCase \notin Cases /\ Wanted \subseteq [tenant : Tenants, case : Cases \cup {NoCase}]
  /\ Cap \in Nat \ {0} /\ IsFiniteSet(Requests)

VARIABLES
  open, stage, sub, cursor, delivered, since, behind,  \* as in EventFeed
  \* history, read by no action
  before     \* requests already answered with success when a request arrived

feed == <<open, stage, sub, cursor, delivered, since, behind>>
allVars == <<vars, feed, before>>

(* TenantEvent, as publish_mutation builds it from the event of a mutation. *)
TenantEvent(i) == [tenant |-> log[i].tenant, case |-> log[i].case]
SentEvents == [i \in DOMAIN published |-> TenantEvent(published[i])]

TenantsOf == [s \in Sockets |-> {t \in Tenants : member[UserOf[s]][t] # "none"}]

Feed == INSTANCE EventFeed WITH
  sent <- SentEvents, member <- TenantsOf,
  MaxSent <- Cardinality(Requests), Membership <- [s \in Sockets |-> {}], Leavable <- {}

ComposedInit ==
  /\ Init
  /\ open = TRUE
  /\ stage = [s \in Sockets |-> "idle"]
  /\ sub = [s \in Sockets |-> <<>>]
  /\ cursor = [s \in Sockets |-> 1]
  /\ delivered = [s \in Sockets |-> <<>>]
  /\ since = [s \in Sockets |-> 0]
  /\ behind = [s \in Sockets |-> 0]
  /\ before = [r \in Requests |-> {}]

-----------------------------------------------------------------------------
(* What a handler's step does to the channel. *)
Broadcast ==
  IF published' = published
  THEN UNCHANGED feed
  ELSE Feed!Publish(TenantEvent(published'[Len(published')]))

Handle(r) == Serve(r) /\ Broadcast /\ UNCHANGED before

Request(r) ==
  /\ open /\ Arrive(r)
  /\ before' = [before EXCEPT ![r] = {q \in Requests : reply[q] \in Successes}]
  /\ UNCHANGED feed

(* Faults, and everything that happens around the API. *)
Disturb ==
  /\ (\E r \in Requests : Unavailable(r) \/ Abort(r)) \/ Environment
  /\ UNCHANGED <<feed, before>>

(* A step of one socket's task. *)
Alone == UNCHANGED <<vars, before>>
Drained ==
  /\ \A r \in Requests : pc[r] \notin Active
  /\ Alone /\ Feed!CloseChannel
Open(s) ==
  Alone /\ (Feed!Handshake(s) \/ Feed!Authenticate(s) \/ Feed!Subscribe(s) \/ Feed!HandshakeFails(s))
Upgrade(s) == Alone /\ Feed!Upgrade(s)
Recv(s) == Alone /\ Feed!Recv(s)
Take(s) == Alone /\ (Feed!SendDone(s) \/ Feed!SendFails(s))
Talk(s) == Alone /\ (Feed!Ping(s) \/ Feed!ClientCloses(s))

ComposedNext ==
  \/ \E r \in Requests : Request(r) \/ Handle(r)
  \/ Disturb
  \/ Drained
  \/ \E s \in Sockets : Open(s) \/ Upgrade(s) \/ Recv(s) \/ Take(s) \/ Talk(s)

(* The fairness of the two components. *)
ComposedSpec ==
  /\ ComposedInit /\ [][ComposedNext]_allVars
  /\ \A r \in Requests : WF_allVars(Handle(r))
  /\ \A s \in Sockets : WF_allVars(Upgrade(s)) /\ SF_allVars(Recv(s))
  /\ \A s \in Reading : WF_allVars(Take(s))

-----------------------------------------------------------------------------
(* Properties. *)

Author(i) == log[published[i]].by
Overrun(i) == i + Cap <= Len(published)

(* Events keep the order of the answers that confirmed them: if q had been  *)
(* told that its own mutation was applied when r's request arrived, whoever *)
(* gets r's event has been given q's before it, unless q's was published    *)
(* before the subscription, or was overrun, or belongs to another case than *)
(* the one subscribed to.  Two kinds of mutation are left out because their *)
(* events may come in the other order: those of requests that overlapped,   *)
(* and those a caller knows only from a replayed answer, which the request  *)
(* that committed them may still be about to publish.                       *)
CausesFirst ==
  \A s \in Sockets : \A j \in DOMAIN delivered[s] :
    \A q \in before[Author(delivered[s][j])] :
      Mutates(q) /\ ~replayed[q] =>
        \E i \in DOMAIN published :
          /\ published[i] = evt[q] /\ i < delivered[s][j]
          /\ \/ i <= since[s] \/ behind[s] > Cap
             \/ ~Feed!SubscriptionAllows(sub[s], SentEvents[i])
             \/ \E k \in 1 .. j - 1 : delivered[s][k] = i

(* A fresh mutation that is about to be answered reaches every subscriber   *)
(* that reads and is allowed to see it, although another subscriber does    *)
(* not read: unless the handler itself fails or is dropped with its         *)
(* connection, the socket closes, or the event is overrun.                  *)
MutationsAreHeard ==
  \A r \in Requests, s \in Reading :
    (/\ pc[r] = "readEvent" /\ ~replayed[r]
     /\ stage[s] = "looping" /\ Feed!SubscriptionAllows(sub[s], TenantEvent(evt[r])))
      ~> \/ Finished(r) /\ reply[r] \notin Successes
         \/ pc[r] = "aborted"
         \/ stage[s] = "closed"
         \/ \E i \in DOMAIN published :
              published[i] = evt[r] /\ (i \in Feed!Got(s) \/ Overrun(i))
=============================================================================
