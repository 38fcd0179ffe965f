------------------------------ MODULE EventFeed ------------------------------
(***************************************************************************)
(* The WebSocket feed of src/main.rs: publish_mutation sends every event of *)
(* every tenant to one tokio broadcast channel; each accepted socket owns a *)
(* receiver of it and runs socket_loop, which filters by subscription.      *)
(*                                                                         *)
(* The channel keeps the last Cap values.  A receiver that falls further    *)
(* behind loses the oldest ones: its next recv returns Lagged and moves it  *)
(* to the oldest value still kept; socket_loop ignores that silently.  A    *)
(* socket that waits for its client to take a message does not receive.     *)
(***************************************************************************)
EXTENDS Naturals, Sequences

CONSTANTS
  Tenants, Cases,
  NoCase,      \* a subscription to every case of the tenant
  Wanted,      \* the subscriptions clients ask for
  Sockets,     \* client connections; each is used once
  Cap,         \* broadcast::channel(256)
  MaxSent,     \* the handlers publish no more than this
  Membership,  \* tenants of each socket's user at the start
  Leavable,    \* sockets whose user may lose a membership meanwhile
  Reading      \* sockets whose client keeps taking messages

Subscriptions == [tenant : Tenants, case : Cases \cup {NoCase}]
TenantEvents == [tenant : Tenants, case : Cases]

ASSUME FeedAssumption ==
  /\ Cap \in Nat \ {0} /\ MaxSent \in Nat
  /\ NoCase \notin Cases /\ Wanted \subseteq Subscriptions
  /\ Membership \in [Sockets -> SUBSET Tenants]
  /\ Leavable \subseteq Sockets /\ Reading \subseteq Sockets

Stages ==
  {"idle", "auth", "context", "upgrading", "looping", "sending", "ponging", "closed"}
Subscribed == {"upgrading", "looping", "sending", "ponging"}

VARIABLES
  sent,       \* everything sent to the channel, oldest first
  open,       \* a sender is alive
  stage,      \* the await each socket's task is suspended at
  sub,        \* its CaseSubscription, <<>> before the handshake
  cursor,     \* the receiver's position: the next index it will receive
  delivered,  \* indices its client got, in order
  member,     \* tenants each socket's user is an active member of
  \* history, read by no action
  since,      \* number of events sent when the handshake was accepted
  behind      \* the furthest the receiver was ever behind

vars == <<sent, open, stage, sub, cursor, delivered, member, since, behind>>

(* The type invariant; a cursor is never ahead of the next value to be sent. *)
TypeOK ==
  /\ sent \in Seq(TenantEvents)
  /\ open \in BOOLEAN
  /\ stage \in [Sockets -> Stages]
  /\ sub \in [Sockets -> Subscriptions \cup {<<>>}]
  /\ cursor \in [Sockets -> 1 .. Len(sent) + 1]
  /\ delivered \in [Sockets -> Seq(1 .. Len(sent))]
  /\ member \in [Sockets -> SUBSET Tenants]
  /\ since \in [Sockets -> 0 .. Len(sent)]
  /\ behind \in [Sockets -> Nat]

Init ==
  /\ sent = <<>>
  /\ open = TRUE
  /\ stage = [s \in Sockets |-> "idle"]
  /\ sub = [s \in Sockets |-> <<>>]
  /\ cursor = [s \in Sockets |-> 1]
  /\ delivered = [s \in Sockets |-> <<>>]
  /\ member = Membership
  /\ since = [s \in Sockets |-> 0]
  /\ behind = [s \in Sockets |-> 0]

-----------------------------------------------------------------------------
(* Mutant of SubscriptionAllows: a subscription to one case forgets its tenant. *)
SubscriptionAllowsAnyTenant(subscription, event) ==
  \/ subscription.case = event.case
  \/ subscription.case = NoCase /\ subscription.tenant = event.tenant

(* subscription_allows *)
SubscriptionAllows(subscription, event) ==
  /\ subscription.tenant = event.tenant
  /\ subscription.case = NoCase \/ subscription.case = event.case

Backlog(s) == Len(sent) + 1 - cursor[s]

(* Mutant of Publish: a channel that makes the sender wait for the slowest  *)
(* receiver.                                                                *)
PublishWaiting(event) ==
  /\ open
  /\ Len(sent) < MaxSent
  /\ \A s \in Sockets : stage[s] \in Subscribed => Backlog(s) < Cap
  /\ sent' = Append(sent, event)
  /\ UNCHANGED <<open, stage, sub, cursor, delivered, member, since, behind>>

(* publish_mutation: the send never waits for a receiver, and the handler   *)
(* drops its result.                                                        *)
Publish(event) ==
  /\ open
  /\ Len(sent) < MaxSent
  /\ sent' = Append(sent, event)
  /\ behind' = [s \in Sockets |->
                  IF stage[s] \in Subscribed /\ Backlog(s) + 1 > behind[s]
                  THEN Backlog(s) + 1 ELSE behind[s]]
  /\ UNCHANGED <<open, stage, sub, cursor, delivered, member, since>>

(* The router, and with it the last sender, is dropped. *)
CloseChannel ==
  /\ open
  /\ open' = FALSE
  /\ UNCHANGED <<sent, stage, sub, cursor, delivered, member, since, behind>>

(* The user's membership of a tenant ends. *)
Leave(s) ==
  \E t \in member[s] :
    /\ member' = [member EXCEPT ![s] = @ \ {t}]
    /\ UNCHANGED <<sent, open, stage, sub, cursor, delivered, since, behind>>

-----------------------------------------------------------------------------
(* The handshake. *)

Handshake(s) ==
  /\ stage[s] = "idle" /\ open
  /\ stage' = [stage EXCEPT ![s] = "auth"]
  /\ \E wanted \in Wanted : sub' = [sub EXCEPT ![s] = wanted]
  /\ UNCHANGED <<sent, open, cursor, delivered, member, since, behind>>

Authenticate(s) ==
  /\ stage[s] = "auth"
  /\ stage' = [stage EXCEPT ![s] = "context"]
  /\ UNCHANGED <<sent, open, sub, cursor, delivered, member, since, behind>>

(* A member gets a receiver that will yield from index i on. *)
SubscribeAt(s, i) ==
  /\ stage[s] = "context"
  /\ sub[s].tenant \in member[s]
  /\ stage' = [stage EXCEPT ![s] = "upgrading"]
  /\ cursor' = [cursor EXCEPT ![s] = i]
  /\ since' = [since EXCEPT ![s] = Len(sent)]
  /\ UNCHANGED <<sent, open, sub, delivered, member, behind>>

(* Mutants of Subscribe: the receiver starts beyond the next event; it      *)
(* starts with what the channel still keeps.                                *)
SubscribeBeyond(s) == SubscribeAt(s, Len(sent) + 2)
SubscribeFromStart(s) == SubscribeAt(s, 1)

(* tenant_context answers; subscribe and the upgrade response follow        *)
(* without waiting.                                                         *)
Subscribe(s) == SubscribeAt(s, Len(sent) + 1)

(* Authentication, introspection or tenant_context fails or refuses, or the *)
(* client goes away before the upgrade is complete.                         *)
HandshakeFails(s) ==
  /\ stage[s] \in {"auth", "context", "upgrading"}
  /\ stage' = [stage EXCEPT ![s] = "closed"]
  /\ UNCHANGED <<sent, open, sub, cursor, delivered, member, since, behind>>

(* Mutant of Upgrade: the receiver is created by the socket's own task. *)
UpgradeSubscribing(s) ==
  /\ stage[s] = "upgrading"
  /\ stage' = [stage EXCEPT ![s] = "looping"]
  /\ cursor' = [cursor EXCEPT ![s] = Len(sent) + 1]
  /\ UNCHANGED <<sent, open, sub, delivered, member, since, behind>>

(* on_upgrade starts socket_loop. *)
Upgrade(s) ==
  /\ stage[s] = "upgrading"
  /\ stage' = [stage EXCEPT ![s] = "looping"]
  /\ UNCHANGED <<sent, open, sub, cursor, delivered, member, since, behind>>

-----------------------------------------------------------------------------
(* socket_loop *)

(* The oldest index the channel still keeps. *)
Oldest == IF Len(sent) > Cap THEN Len(sent) - Cap + 1 ELSE 1

(* events.recv() returns a value; an allowed one is sent to the client. *)
Receive(s) ==
  /\ stage[s] = "looping"
  /\ cursor[s] \in Oldest .. Len(sent)
  /\ cursor' = [cursor EXCEPT ![s] = @ + 1]
  /\ stage' = [stage EXCEPT ![s] =
                 IF SubscriptionAllows(sub[s], sent[cursor[s]]) THEN "sending" ELSE "looping"]
  /\ UNCHANGED <<sent, open, sub, delivered, member, since, behind>>

ResumeAt(s, i) ==
  /\ stage[s] = "looping"
  /\ cursor[s] < Oldest
  /\ cursor' = [cursor EXCEPT ![s] = i]
  /\ UNCHANGED <<sent, open, stage, sub, delivered, member, since, behind>>

(* Mutants of ReceiveLagged: the receiver resumes at the end of the channel; *)
(* it retries the value that is gone.                                       *)
ReceiveLaggedToEnd(s) == ResumeAt(s, Len(sent) + 1)
ReceiveLaggedRetrying(s) == ResumeAt(s, cursor[s])

(* RecvError::Lagged: the receiver resumes at the oldest value kept. *)
ReceiveLagged(s) == ResumeAt(s, Oldest)

(* RecvError::Closed: no sender left and nothing to receive. *)
ReceiveClosed(s) ==
  /\ stage[s] = "looping"
  /\ ~open /\ cursor[s] > Len(sent)
  /\ stage' = [stage EXCEPT ![s] = "closed"]
  /\ UNCHANGED <<sent, open, sub, cursor, delivered, member, since, behind>>

(* The client took the event received last, or the pong. *)
SendDone(s) ==
  /\ stage[s] \in {"sending", "ponging"}
  /\ stage' = [stage EXCEPT ![s] = "looping"]
  /\ delivered' = IF stage[s] = "sending"
                  THEN [delivered EXCEPT ![s] = Append(@, cursor[s] - 1)]
                  ELSE delivered
  /\ UNCHANGED <<sent, open, sub, cursor, member, since, behind>>

(* The send of an event or of a pong fails: the loop breaks. *)
SendFails(s) ==
  /\ stage[s] \in {"sending", "ponging"}
  /\ stage' = [stage EXCEPT ![s] = "closed"]
  /\ UNCHANGED <<sent, open, sub, cursor, delivered, member, since, behind>>

Ping(s) ==
  /\ stage[s] = "looping"
  /\ stage' = [stage EXCEPT ![s] = "ponging"]
  /\ UNCHANGED <<sent, open, sub, cursor, delivered, member, since, behind>>

(* A close frame, the end of the stream or an error is read from the client. *)
ClientCloses(s) ==
  /\ stage[s] = "looping"
  /\ stage' = [stage EXCEPT ![s] = "closed"]
  /\ UNCHANGED <<sent, open, sub, cursor, delivered, member, since, behind>>

-----------------------------------------------------------------------------
Recv(s) == Receive(s) \/ ReceiveLagged(s) \/ ReceiveClosed(s)

Next ==
  \/ \E event \in TenantEvents : Publish(event)
  \/ CloseChannel
  \/ \E s \in Leavable : Leave(s)
  \/ \E s \in Sockets :
       \/ Handshake(s) \/ Authenticate(s) \/ Subscribe(s) \/ HandshakeFails(s)
       \/ Upgrade(s) \/ Recv(s) \/ SendDone(s) \/ SendFails(s)
       \/ Ping(s) \/ ClientCloses(s)

Spec == Init /\ [][Next]_vars

(* tokio::select! picks among ready branches at random, so recv is chosen   *)
(* even while the client keeps pinging: strong fairness.  A send ends only  *)
(* if the client takes messages, so it is owed to the Reading sockets alone. *)
FairSpec ==
  /\ Spec
  /\ \A s \in Sockets : WF_vars(Upgrade(s)) /\ SF_vars(Recv(s))
  /\ \A s \in Reading : WF_vars(SendDone(s) \/ SendFails(s))

-----------------------------------------------------------------------------
(* Properties. *)

InFlight(s) == IF stage[s] = "sending" THEN {cursor[s] - 1} ELSE {}
Got(s) == {delivered[s][i] : i \in DOMAIN delivered[s]}

(* A client gets events in the order they were published, none twice, and   *)
(* none published before its handshake was accepted.                        *)
DeliveredInOrder ==
  \A s \in Sockets :
    /\ \A i, j \in DOMAIN delivered[s] : i < j => delivered[s][i] < delivered[s][j]
    /\ \A i \in Got(s) \cup InFlight(s) : i > since[s]

(* A client gets events of the tenant, and of the case, it subscribed to.   *)
FeedIsolation ==
  \A s \in Sockets : \A i \in Got(s) :
    /\ sent[i].tenant = sub[s].tenant
    /\ sub[s].case \in {NoCase, sent[i].case}

(* A receiver that was never more than Cap values behind skipped nothing:   *)
(* every allowed event it has passed since the handshake was accepted was   *)
(* delivered or is being sent.                                              *)
NothingMissedWithinCap ==
  \A s \in Sockets : stage[s] \in Subscribed /\ behind[s] <= Cap =>
    \A i \in since[s] + 1 .. cursor[s] - 1 :
      SubscriptionAllows(sub[s], sent[i]) => i \in Got(s) \cup InFlight(s)

(* What an overrun costs is bounded: a receiver resumes with the oldest     *)
(* event still kept, so the last Cap events it passed are never skipped.    *)
LagSkipsOnlyOverwritten ==
  [][\A s \in Sockets : stage[s] = "looping" /\ cursor'[s] > cursor[s] =>
       \A i \in cursor[s] .. cursor'[s] - 1 :
         \/ i + Cap <= Len(sent)
         \/ ~SubscriptionAllows(sub[s], sent[i])
         \/ stage'[s] = "sending" /\ i = cursor'[s] - 1]_vars

(* A client that keeps reading gets every allowed event, or loses it to an  *)
(* overrun, or its socket closes, whatever the other clients do: a stalled  *)
(* client holds back nobody else.                                           *)
ReadersCatchUp ==
  \A s \in Reading, i \in 1 .. MaxSent :
    (stage[s] = "looping" /\ cursor[s] <= i /\ i <= Len(sent))
      ~> \/ stage[s] = "closed"
         \/ i \in Got(s)
         \/ cursor[s] > i /\ (~SubscriptionAllows(sub[s], sent[i]) \/ i + Cap <= Len(sent))
=============================================================================
