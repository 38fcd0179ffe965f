--------------------------- MODULE EventFeedProofs ---------------------------
(***************************************************************************)
(* Proofs about EventFeed: for every capacity of the channel, every number  *)
(* of events, every set of tenants, cases and sockets, and whatever the     *)
(* clients subscribe to.                                                    *)
(***************************************************************************)
EXTENDS EventFeed, TLAPS

-----------------------------------------------------------------------------
(***************************************************************************)
(* The strengthening, for one socket.  Before the subscription nothing is   *)
(* delivered and nothing counted; afterwards the receiver is past the       *)
(* events of its past, its backlog is part of what was counted, and what it *)
(* is sending is an allowed event of its own; what was delivered is in      *)
(* order, allowed, and behind the receiver and the event in flight; and     *)
(* nothing was missed while the receiver was within the capacity.           *)
(***************************************************************************)
Fresh(s) ==
  stage[s] \in {"idle", "auth", "context"} => delivered[s] = <<>> /\ behind[s] = 0

Positioned(s) ==
  /\ stage[s] \in Subscribed => cursor[s] > since[s] /\ Backlog(s) <= behind[s]
  /\ stage[s] = "sending" =>
       /\ cursor[s] - 1 > since[s]
       /\ SubscriptionAllows(sub[s], sent[cursor[s] - 1])

Ordered(s) ==
  /\ \A i, j \in DOMAIN delivered[s] : i < j => delivered[s][i] < delivered[s][j]
  /\ \A i \in DOMAIN delivered[s] :
       /\ since[s] < delivered[s][i] /\ delivered[s][i] < cursor[s]
       /\ stage[s] = "sending" => delivered[s][i] < cursor[s] - 1
       /\ SubscriptionAllows(sub[s], sent[delivered[s][i]])

Complete(s) ==
  stage[s] \in Subscribed /\ behind[s] <= Cap =>
    \A i \in since[s] + 1 .. cursor[s] - 1 :
      SubscriptionAllows(sub[s], sent[i]) => i \in Got(s) \cup InFlight(s)

SocketOK(s) == Fresh(s) /\ Positioned(s) /\ Ordered(s) /\ Complete(s)
FeedInv == TypeOK /\ \A s \in Sockets : SocketOK(s)

-----------------------------------------------------------------------------
(* What one step can be for one socket. *)
Same(s) ==
  /\ sent' = sent /\ stage'[s] = stage[s] /\ sub'[s] = sub[s] /\ cursor'[s] = cursor[s]
  /\ delivered'[s] = delivered[s] /\ since'[s] = since[s] /\ behind'[s] = behind[s]

Moves(s) ==
  \/ Handshake(s) \/ Authenticate(s) \/ Subscribe(s) \/ HandshakeFails(s)
  \/ Upgrade(s) \/ Recv(s) \/ SendDone(s) \/ SendFails(s)
  \/ Ping(s) \/ ClientCloses(s)

(* A step is the socket's own, a publication, or nothing to it. *)
LEMMA SocketStep ==
  ASSUME TypeOK, [Next]_vars, NEW s \in Sockets
  PROVE  Same(s) \/ Moves(s) \/ \E event \in TenantEvents : Publish(event)
<1> USE DEF TypeOK
<1>1. ASSUME NEW v \in Sockets, v # s, Moves(v) PROVE Same(s)
  BY <1>1 DEF Same, Moves, Handshake, Authenticate, Subscribe, SubscribeAt, HandshakeFails,
     Upgrade, Recv, Receive, ReceiveLagged, ResumeAt, ReceiveClosed, SendDone, SendFails,
     Ping, ClientCloses
<1>2. ASSUME NEW v \in Leavable, Leave(v) PROVE Same(s)
  BY <1>2 DEF Same, Leave
<1>3. CASE CloseChannel \/ UNCHANGED vars
  BY <1>3 DEF Same, CloseChannel, vars
<1>4. QED  BY <1>1, <1>2, <1>3 DEF Next, Moves

(* The channel only grows. *)
LEMMA SentGrows ==
  ASSUME TypeOK, NEW event \in TenantEvents, Publish(event)
  PROVE  /\ sent' \in Seq(TenantEvents) /\ Len(sent) \in Nat /\ Len(sent') = Len(sent) + 1
         /\ \A i \in 1 .. Len(sent) : sent'[i] = sent[i]
  BY DEF TypeOK, Publish

(* Types, for one socket. *)
LEMMA SocketTypes ==
  ASSUME TypeOK, NEW s \in Sockets
  PROVE  /\ Len(sent) \in Nat /\ cursor[s] \in 1 .. Len(sent) + 1 /\ cursor[s] \in Nat
         /\ since[s] \in 0 .. Len(sent) /\ since[s] \in Nat /\ behind[s] \in Nat
         /\ delivered[s] \in Seq(1 .. Len(sent)) /\ Len(delivered[s]) \in Nat
         /\ DOMAIN delivered[s] = 1 .. Len(delivered[s])
         /\ \A i \in DOMAIN delivered[s] : delivered[s][i] \in 1 .. Len(sent)
<1>1. Len(sent) \in Nat /\ delivered[s] \in Seq(1 .. Len(sent))
  BY DEF TypeOK
<1>2. QED  BY <1>1 DEF TypeOK

(* Types are preserved. *)
LEMMA TypeStep ==
  ASSUME FeedInv, [Next]_vars
  PROVE  TypeOK'
<1> USE DEF FeedInv
<1>1. ASSUME NEW event \in TenantEvents, Publish(event) PROVE TypeOK'
  <2>1. /\ sent' \in Seq(TenantEvents) /\ Len(sent) \in Nat /\ Len(sent') = Len(sent) + 1
    BY <1>1, SentGrows
  <2>2. cursor' \in [Sockets -> 1 .. Len(sent') + 1] /\ since' \in [Sockets -> 0 .. Len(sent')]
    BY <1>1, <2>1 DEF TypeOK, Publish
  <2>3. behind' \in [Sockets -> Nat]
    BY <1>1, <2>1 DEF TypeOK, Publish, Backlog
  <2>4. delivered' \in [Sockets -> Seq(1 .. Len(sent'))]
    <3>1. \A n \in Nat : \A d \in Seq(1 .. n) : d \in Seq(1 .. (n + 1))
      OBVIOUS
    <3>2. QED  BY <1>1, <2>1, <3>1 DEF TypeOK, Publish
  <2>5. QED  BY <1>1, <2>1, <2>2, <2>3, <2>4 DEF TypeOK, Publish
<1>2. ASSUME NEW s \in Sockets, Handshake(s) PROVE TypeOK'
  BY <1>2, FeedAssumption DEF TypeOK, Handshake, Stages
<1>3. ASSUME NEW s \in Sockets,
             \/ Authenticate(s) \/ HandshakeFails(s) \/ Upgrade(s) \/ ReceiveClosed(s)
             \/ SendFails(s) \/ Ping(s) \/ ClientCloses(s)
      PROVE  TypeOK'
  BY <1>3 DEF TypeOK, Authenticate, HandshakeFails, Upgrade, ReceiveClosed, SendFails, Ping,
     ClientCloses, Stages
<1>4. ASSUME NEW s \in Sockets, Subscribe(s) PROVE TypeOK'
  <2>1. Len(sent) \in Nat
    BY DEF TypeOK
  <2>2. cursor' \in [Sockets -> 1 .. Len(sent) + 1] /\ since' \in [Sockets -> 0 .. Len(sent)]
    BY <1>4, <2>1 DEF TypeOK, Subscribe, SubscribeAt
  <2>3. QED  BY <1>4, <2>2 DEF TypeOK, Subscribe, SubscribeAt, Stages
<1>5. ASSUME NEW s \in Sockets, Receive(s) PROVE TypeOK'
  <2>1. Len(sent) \in Nat /\ cursor[s] \in Nat /\ cursor[s] <= Len(sent)
    BY <1>5, SocketTypes, FeedAssumption DEF Receive, Oldest
  <2>2. cursor' \in [Sockets -> 1 .. Len(sent) + 1]
    BY <1>5, <2>1 DEF TypeOK, Receive
  <2>3. QED  BY <1>5, <2>2 DEF TypeOK, Receive, Stages
<1>6. ASSUME NEW s \in Sockets, ReceiveLagged(s) PROVE TypeOK'
  <2>1. Len(sent) \in Nat /\ Oldest \in 1 .. Len(sent) + 1
    BY FeedAssumption DEF TypeOK, Oldest
  <2>2. cursor' \in [Sockets -> 1 .. Len(sent) + 1]
    BY <1>6, <2>1 DEF TypeOK, ReceiveLagged, ResumeAt
  <2>3. QED  BY <1>6, <2>2 DEF TypeOK, ReceiveLagged, ResumeAt
<1>7. ASSUME NEW s \in Sockets, SendDone(s) PROVE TypeOK'
  <2>1. delivered' \in [Sockets -> Seq(1 .. Len(sent))]
    <3>1. CASE stage[s] = "sending"
      <4>1. cursor[s] - 1 \in 1 .. Len(sent)
        BY <3>1, SocketTypes DEF SocketOK, Positioned
      <4>2. Append(delivered[s], cursor[s] - 1) \in Seq(1 .. Len(sent))
        BY <4>1, SocketTypes
      <4>3. QED  BY <1>7, <3>1, <4>2 DEF TypeOK, SendDone
    <3>2. CASE stage[s] # "sending"
      BY <1>7, <3>2 DEF TypeOK, SendDone
    <3>3. QED  BY <3>1, <3>2
  <2>2. QED  BY <1>7, <2>1 DEF TypeOK, SendDone, Stages
<1>8. ASSUME NEW s \in Leavable, Leave(s) PROVE TypeOK'
  <2>1. s \in Sockets
    BY FeedAssumption
  <2>2. QED  BY <1>8, <2>1 DEF TypeOK, Leave
<1>9. CASE CloseChannel \/ UNCHANGED vars
  BY <1>9 DEF TypeOK, CloseChannel, vars
<1>10. QED
  BY <1>1, <1>2, <1>3, <1>4, <1>5, <1>6, <1>7, <1>8, <1>9 DEF Next, Recv

-----------------------------------------------------------------------------
(* SocketOK is preserved, move by move. *)

(* Nothing happens to the socket. *)
LEMMA SameStep ==
  ASSUME TypeOK, NEW s \in Sockets, SocketOK(s), Same(s)
  PROVE  SocketOK(s)'
<1>1. Fresh(s)' /\ Positioned(s)'
  BY DEF Same, SocketOK, Fresh, Positioned, Backlog, SubscriptionAllows
<1>2. Ordered(s)'
  BY DEF Same, SocketOK, Ordered, SubscriptionAllows
<1>3. Complete(s)'
  BY DEF Same, SocketOK, Complete, Got, InFlight, SubscriptionAllows
<1>4. QED  BY <1>1, <1>2, <1>3 DEF SocketOK

(* A publication adds to the backlog and to what is counted. *)
LEMMA PublishStep ==
  ASSUME TypeOK, NEW s \in Sockets, SocketOK(s), NEW event \in TenantEvents, Publish(event)
  PROVE  SocketOK(s)'
<1> DEFINE n == Len(sent)
<1>1. /\ n \in Nat /\ Len(sent') = n + 1 /\ \A i \in 1 .. n : sent'[i] = sent[i]
  BY SentGrows
<1>2. /\ cursor[s] \in 1 .. n + 1 /\ cursor[s] \in Nat /\ since[s] \in Nat /\ behind[s] \in Nat
      /\ \A i \in DOMAIN delivered[s] : delivered[s][i] \in 1 .. n
  BY SocketTypes
<1>3. UNCHANGED <<stage, sub, cursor, delivered, since>>
  BY DEF Publish
<1>4. behind'[s] = IF stage[s] \in Subscribed /\ n + 1 - cursor[s] + 1 > behind[s]
                   THEN n + 1 - cursor[s] + 1 ELSE behind[s]
  BY DEF Publish, Backlog
<1>5. Fresh(s)'
  BY <1>3, <1>4 DEF SocketOK, Fresh, Subscribed
<1>6. Positioned(s)'
  <2>1. stage[s] \in Subscribed => cursor[s] > since[s] /\ Len(sent') + 1 - cursor[s] <= behind'[s]
    BY <1>1, <1>2, <1>4 DEF SocketOK, Positioned
  <2>2. stage[s] = "sending" => cursor[s] - 1 > since[s]
                                  /\ SubscriptionAllows(sub[s], sent'[cursor[s] - 1])
    BY <1>1, <1>2 DEF SocketOK, Positioned
  <2>3. QED  BY <1>3, <2>1, <2>2 DEF Positioned, Backlog, SubscriptionAllows
<1>7. Ordered(s)'
  BY <1>1, <1>2, <1>3 DEF SocketOK, Ordered, SubscriptionAllows
<1>8. Complete(s)'
  <2> SUFFICES ASSUME stage[s] \in Subscribed, behind'[s] <= Cap,
                      NEW i \in since[s] + 1 .. cursor[s] - 1,
                      SubscriptionAllows(sub[s], sent'[i])
      PROVE  i \in Got(s) \cup InFlight(s)
    BY <1>3 DEF Complete, Got, InFlight, SubscriptionAllows
  <2>1. behind[s] <= Cap /\ sent'[i] = sent[i]
    BY <1>1, <1>2, <1>4, FeedAssumption
  <2>2. QED  BY <2>1 DEF SocketOK, Complete
<1>9. QED  BY <1>5, <1>6, <1>7, <1>8 DEF SocketOK

(* The handshake delivers nothing, and the subscription starts with the     *)
(* next event.                                                              *)
LEMMA HandshakeStep ==
  ASSUME TypeOK, NEW s \in Sockets, SocketOK(s),
         Handshake(s) \/ Authenticate(s) \/ Subscribe(s)
  PROVE  SocketOK(s)'
<1>0. /\ Len(sent) \in Nat /\ stage \in [Sockets -> Stages]
      /\ cursor \in [Sockets -> 1 .. Len(sent) + 1] /\ since \in [Sockets -> 0 .. Len(sent)]
  BY DEF TypeOK
<1>1. /\ delivered[s] = <<>> /\ behind[s] = 0
      /\ UNCHANGED <<sent, delivered, behind>>
      /\ stage'[s] \in {"auth", "context", "upgrading"}
  BY <1>0 DEF SocketOK, Fresh, Handshake, Authenticate, Subscribe, SubscribeAt
<1>2. stage'[s] = "upgrading" => cursor'[s] = Len(sent) + 1 /\ since'[s] = Len(sent)
  BY <1>0 DEF Handshake, Authenticate, Subscribe, SubscribeAt
<1>3. Fresh(s)' /\ Ordered(s)'
  BY <1>1 DEF Fresh, Ordered
<1>4. Positioned(s)' /\ Complete(s)'
  BY <1>0, <1>1, <1>2 DEF Positioned, Complete, Subscribed, Backlog
<1>5. QED  BY <1>3, <1>4 DEF SocketOK

(* A socket that closes keeps what it delivered; one that is upgraded or    *)
(* answers a ping stays where it is in the channel.                         *)
LEMMA TurnStep ==
  ASSUME TypeOK, NEW s \in Sockets, SocketOK(s),
         \/ HandshakeFails(s) \/ Upgrade(s) \/ ReceiveClosed(s) \/ SendFails(s) \/ Ping(s)
         \/ ClientCloses(s)
  PROVE  SocketOK(s)'
<1>1. /\ UNCHANGED <<sent, sub, cursor, delivered, since, behind>>
      /\ \/ stage'[s] = "closed"
         \/ stage[s] \in Subscribed \ {"sending"} /\ stage'[s] \in {"looping", "ponging"}
  BY DEF TypeOK, HandshakeFails, Upgrade, ReceiveClosed, SendFails, Ping, ClientCloses,
     Subscribed
<1>2. Fresh(s)' /\ Positioned(s)'
  BY <1>1 DEF SocketOK, Fresh, Positioned, Subscribed, Backlog
<1>3. Ordered(s)'
  BY <1>1 DEF SocketOK, Ordered, SubscriptionAllows
<1>4. Complete(s)'
  BY <1>1 DEF SocketOK, Complete, Subscribed, Got, InFlight, SubscriptionAllows
<1>5. QED  BY <1>2, <1>3, <1>4 DEF SocketOK

(* A value is received: an allowed one goes to the client. *)
LEMMA ReceiveStep ==
  ASSUME TypeOK, NEW s \in Sockets, SocketOK(s), Receive(s)
  PROVE  SocketOK(s)'
<1> DEFINE n == Len(sent)
           c == cursor[s]
<1>1. /\ n \in Nat /\ c \in Nat /\ since[s] \in Nat /\ behind[s] \in Nat
      /\ \A i \in DOMAIN delivered[s] : delivered[s][i] \in Nat
  BY SocketTypes
<1>2. /\ stage[s] = "looping" /\ cursor'[s] = c + 1
      /\ stage'[s] = IF SubscriptionAllows(sub[s], sent[c]) THEN "sending" ELSE "looping"
      /\ UNCHANGED <<sent, sub, delivered, since, behind>>
  BY DEF TypeOK, Receive
<1>3. c > since[s] /\ n + 1 - c <= behind[s]
  BY <1>2 DEF SocketOK, Positioned, Subscribed, Backlog
<1>4. Fresh(s)'
  BY <1>2 DEF Fresh
<1>5. Positioned(s)'
  <2>1. cursor'[s] > since'[s] /\ n + 1 - cursor'[s] <= behind'[s]
    BY <1>1, <1>2, <1>3
  <2>2. stage'[s] = "sending" => cursor'[s] - 1 = c /\ SubscriptionAllows(sub[s], sent[c])
    BY <1>1, <1>2
  <2>3. QED  BY <1>2, <1>3, <2>1, <2>2 DEF Positioned, Backlog, SubscriptionAllows
<1>6. Ordered(s)'
  <2>1. \A i \in DOMAIN delivered[s] : /\ since[s] < delivered[s][i] /\ delivered[s][i] < c
                                       /\ SubscriptionAllows(sub[s], sent[delivered[s][i]])
    BY DEF SocketOK, Ordered
  <2>2. \A i \in DOMAIN delivered[s] : delivered[s][i] < cursor'[s]
                                         /\ delivered[s][i] < cursor'[s] - 1
    BY <1>1, <1>2, <2>1
  <2>3. QED  BY <1>2, <2>1, <2>2 DEF SocketOK, Ordered, SubscriptionAllows
<1>7. Complete(s)'
  <2> SUFFICES ASSUME behind[s] <= Cap, NEW i \in since[s] + 1 .. cursor'[s] - 1,
                      SubscriptionAllows(sub[s], sent[i])
      PROVE  i \in Got(s) \/ (stage'[s] = "sending" /\ i = c)
    BY <1>1, <1>2 DEF Complete, Got, InFlight, SubscriptionAllows
  <2>1. CASE i = c
    BY <1>2, <2>1
  <2>2. CASE i # c
    <3>1. i \in since[s] + 1 .. c - 1
      BY <1>1, <1>2, <2>2
    <3>2. QED  BY <1>2, <3>1 DEF SocketOK, Complete, Subscribed, InFlight
  <2>3. QED  BY <2>1, <2>2
<1>8. QED  BY <1>4, <1>5, <1>6, <1>7 DEF SocketOK

(* A receiver that lags was further behind than the capacity. *)
LEMMA LaggedStep ==
  ASSUME TypeOK, NEW s \in Sockets, SocketOK(s), ReceiveLagged(s)
  PROVE  SocketOK(s)'
<1> DEFINE n == Len(sent)
           c == cursor[s]
<1>1. /\ n \in Nat /\ c \in 1 .. n + 1 /\ c \in Nat /\ since[s] \in Nat /\ behind[s] \in Nat
      /\ Cap \in Nat
      /\ \A i \in DOMAIN delivered[s] : delivered[s][i] \in Nat
  BY SocketTypes, FeedAssumption
<1>2. /\ stage[s] = "looping" /\ c < Oldest /\ cursor'[s] = Oldest
      /\ UNCHANGED <<sent, stage, sub, delivered, since, behind>>
  BY DEF TypeOK, ReceiveLagged, ResumeAt
<1>3. n > Cap /\ Oldest = n - Cap + 1
  BY <1>1, <1>2 DEF Oldest
<1>4. c > since[s] /\ n + 1 - c <= behind[s]
  BY <1>2 DEF SocketOK, Positioned, Subscribed, Backlog
<1>5. behind[s] > Cap
  BY <1>1, <1>2, <1>3, <1>4
<1>6. Fresh(s)' /\ Complete(s)'
  BY <1>1, <1>2, <1>5 DEF Fresh, Complete
<1>7. Positioned(s)'
  <2>1. cursor'[s] > since'[s] /\ n + 1 - cursor'[s] <= behind'[s]
    BY <1>1, <1>2, <1>3, <1>4
  <2>2. QED  BY <1>2, <2>1 DEF Positioned, Backlog
<1>8. Ordered(s)'
  <2>1. \A i \in DOMAIN delivered[s] : delivered[s][i] < cursor'[s]
    BY <1>1, <1>2, <1>3 DEF SocketOK, Ordered
  <2>2. QED  BY <1>2, <2>1 DEF SocketOK, Ordered, SubscriptionAllows
<1>9. QED  BY <1>6, <1>7, <1>8 DEF SocketOK

(* The client takes the event in flight, the newest it was given. *)
LEMMA DoneStep ==
  ASSUME TypeOK, NEW s \in Sockets, SocketOK(s), SendDone(s)
  PROVE  SocketOK(s)'
<1> DEFINE n == Len(sent)
           c == cursor[s]
           d == delivered[s]
<1>1. /\ n \in Nat /\ c \in Nat /\ since[s] \in Nat /\ behind[s] \in Nat
      /\ d \in Seq(1 .. n) /\ Len(d) \in Nat /\ DOMAIN d = 1 .. Len(d)
      /\ \A i \in DOMAIN d : d[i] \in Nat
  BY SocketTypes
<1>2. /\ stage[s] \in {"sending", "ponging"} /\ stage'[s] = "looping"
      /\ UNCHANGED <<sent, sub, cursor, since, behind>>
  BY DEF TypeOK, SendDone
<1>3. CASE stage[s] = "ponging"
  <2>1. delivered' = delivered
    BY <1>3 DEF SendDone
  <2>2. Fresh(s)' /\ Positioned(s)'
    BY <1>2, <1>3, <2>1 DEF SocketOK, Fresh, Positioned, Subscribed, Backlog
  <2>3. Ordered(s)'
    BY <1>2, <2>1 DEF SocketOK, Ordered, SubscriptionAllows
  <2>4. Complete(s)'
    BY <1>2, <1>3, <2>1 DEF SocketOK, Complete, Subscribed, Got, InFlight, SubscriptionAllows
  <2>5. QED  BY <2>2, <2>3, <2>4 DEF SocketOK
<1>4. CASE stage[s] = "sending"
  <2>1. delivered'[s] = Append(d, c - 1)
    BY <1>4 DEF TypeOK, SendDone
  <2>2. /\ c - 1 > since[s] /\ SubscriptionAllows(sub[s], sent[c - 1])
        /\ n + 1 - c <= behind[s] /\ c > since[s]
    BY <1>4 DEF SocketOK, Positioned, Subscribed, Backlog
  <2>3. c - 1 \in 1 .. n
    BY <1>1, <2>2, SocketTypes
  <2>4. /\ DOMAIN delivered'[s] = 1 .. Len(d) + 1
        /\ delivered'[s][Len(d) + 1] = c - 1
        /\ \A i \in 1 .. Len(d) : delivered'[s][i] = d[i]
    BY <1>1, <2>1, <2>3
  <2>5. Fresh(s)' /\ Positioned(s)'
    BY <1>2, <2>2 DEF Fresh, Positioned, Backlog
  <2>6. \A i \in 1 .. Len(d) : /\ since[s] < d[i] /\ d[i] < c - 1
                               /\ SubscriptionAllows(sub[s], sent[d[i]])
    BY <1>1, <1>4 DEF SocketOK, Ordered
  <2>7. Ordered(s)'
    <3>1. ASSUME NEW i \in DOMAIN delivered'[s], NEW j \in DOMAIN delivered'[s], i < j
          PROVE  delivered'[s][i] < delivered'[s][j]
      <4>1. i \in 1 .. Len(d)
        BY <1>1, <2>4, <3>1
      <4>2. CASE j \in 1 .. Len(d)
        BY <1>1, <2>4, <3>1, <4>1, <4>2 DEF SocketOK, Ordered
      <4>3. CASE j = Len(d) + 1
        BY <2>4, <2>6, <4>1, <4>3
      <4>4. QED  BY <1>1, <2>4, <4>2, <4>3
    <3>2. ASSUME NEW i \in DOMAIN delivered'[s]
          PROVE  /\ since[s] < delivered'[s][i] /\ delivered'[s][i] < c
                 /\ SubscriptionAllows(sub[s], sent[delivered'[s][i]])
      <4>1. CASE i \in 1 .. Len(d)
        <5>1. delivered'[s][i] = d[i] /\ d[i] \in Nat
          BY <1>1, <2>4, <4>1
        <5>2. /\ since[s] < d[i] /\ d[i] < c - 1
              /\ SubscriptionAllows(sub[s], sent[d[i]])
          BY <2>6, <4>1
        <5>3. d[i] < c
          BY <1>1, <5>1, <5>2
        <5>4. QED  BY <5>1, <5>2, <5>3
      <4>2. CASE i = Len(d) + 1
        BY <1>1, <2>2, <2>4, <4>2
      <4>3. QED  BY <1>1, <2>4, <4>1, <4>2
    <3>3. QED  BY <1>2, <3>1, <3>2 DEF Ordered, SubscriptionAllows
  <2>8. Complete(s)'
    <3>1. Got(s)' = Got(s) \cup {c - 1}
      <4> DEFINE e == delivered'[s]
      <4>1. 1 .. Len(d) + 1 = (1 .. Len(d)) \cup {Len(d) + 1}
        BY <1>1
      <4>2. {e[i] : i \in 1 .. Len(d) + 1} = {e[i] : i \in 1 .. Len(d)} \cup {e[Len(d) + 1]}
        BY <4>1
      <4>3. {e[i] : i \in 1 .. Len(d)} = {d[i] : i \in 1 .. Len(d)}
        BY <2>4
      <4>4. QED  BY <1>1, <2>4, <4>2, <4>3 DEF Got
    <3>2. Got(s) \cup InFlight(s) = Got(s)'
      BY <1>4, <3>1 DEF InFlight
    <3>3. QED  BY <1>2, <1>4, <3>2 DEF SocketOK, Complete, Subscribed, SubscriptionAllows
  <2>9. QED  BY <2>5, <2>7, <2>8 DEF SocketOK
<1>5. QED  BY <1>2, <1>3, <1>4

(* Every step preserves FeedInv. *)
LEMMA FeedStep ==
  ASSUME FeedInv, [Next]_vars
  PROVE  FeedInv'
<1>1. TypeOK'
  BY TypeStep
<1>2. ASSUME NEW s \in Sockets PROVE SocketOK(s)'
  BY SocketStep, SameStep, PublishStep, HandshakeStep, TurnStep, ReceiveStep,
     LaggedStep, DoneStep DEF FeedInv, Moves, Recv
<1>3. QED  BY <1>1, <1>2 DEF FeedInv

(* FeedInv holds of the empty channel and ever after. *)
LEMMA FeedInvariant == Spec => []FeedInv
<1>1. Init => FeedInv
  <2> SUFFICES ASSUME Init PROVE FeedInv
    OBVIOUS
  <2>1. TypeOK
    BY FeedAssumption DEF Init, TypeOK, Stages
  <2>2. \A s \in Sockets : SocketOK(s)
    BY DEF Init, SocketOK, Fresh, Positioned, Ordered, Complete, Subscribed
  <2>3. QED  BY <2>1, <2>2 DEF FeedInv
<1>2. FeedInv /\ [Next]_vars => FeedInv'
  BY FeedStep
<1>3. QED  BY <1>1, <1>2, PTL DEF Spec

(***************************************************************************)
(* What a client holds has no gap: a receiver that stayed within the        *)
(* capacity has given its client, with every event, all the allowed ones    *)
(* before it.  This outlives the socket, so that what was delivered can be  *)
(* judged after it closed.                                                  *)
(***************************************************************************)
GapFree(s) ==
  behind[s] <= Cap =>
    \A j \in DOMAIN delivered[s] : \A i \in since[s] + 1 .. delivered[s][j] - 1 :
      SubscriptionAllows(sub[s], sent[i]) => i \in Got(s)

(* Nothing happens to the socket. *)
LEMMA GapSame ==
  ASSUME NEW s \in Sockets, GapFree(s), Same(s)
  PROVE  GapFree(s)'
  BY DEF Same, GapFree, Got, SubscriptionAllows

(* Only a send that is done adds to what the client holds, and then nothing *)
(* allowed before it is missing.                                            *)
LEMMA GapStep ==
  ASSUME FeedInv, NEW s \in Sockets, GapFree(s), [Next]_vars
  PROVE  GapFree(s)'
<1> DEFINE n == Len(sent)
           d == delivered[s]
<1>0. /\ TypeOK /\ SocketOK(s) /\ n \in Nat /\ d \in Seq(1 .. n) /\ DOMAIN d = 1 .. Len(d)
      /\ Len(d) \in Nat /\ since[s] \in Nat /\ cursor[s] \in Nat
      /\ behind[s] \in Nat /\ Cap \in Nat
      /\ \A i \in DOMAIN d : d[i] \in 1 .. n
  BY SocketTypes, FeedAssumption DEF FeedInv
<1>1. CASE Same(s)
  BY <1>1, GapSame
<1>2. ASSUME NEW event \in TenantEvents, Publish(event)
      PROVE  GapFree(s)'
  <2>1. \A i \in 1 .. n : sent'[i] = sent[i]
    BY <1>0, <1>2, SentGrows
  <2>2. behind'[s] <= Cap => behind[s] <= Cap
    BY <1>0, <1>2 DEF Publish, Backlog
  <2>3. UNCHANGED <<sub, delivered, since>>
    BY <1>2 DEF Publish
  <2>4. \A j \in DOMAIN d : \A i \in since[s] + 1 .. d[j] - 1 : sent'[i] = sent[i]
    <3> SUFFICES ASSUME NEW j \in DOMAIN d, NEW i \in since[s] + 1 .. d[j] - 1
        PROVE  i \in 1 .. n
      BY <2>1
    <3>1. d[j] \in 1 .. n
      BY <1>0
    <3>2. QED  BY <1>0, <3>1
  <2>5. QED  BY <2>2, <2>3, <2>4 DEF GapFree, Got, SubscriptionAllows
<1>3. CASE Handshake(s) \/ Authenticate(s) \/ Subscribe(s)
  <2>1. d = <<>> /\ delivered' = delivered
    BY <1>0, <1>3 DEF SocketOK, Fresh, Handshake, Authenticate, Subscribe, SubscribeAt
  <2>2. QED  BY <2>1 DEF GapFree
<1>4. CASE \/ HandshakeFails(s) \/ Upgrade(s) \/ Recv(s) \/ SendFails(s) \/ Ping(s)
           \/ ClientCloses(s) \/ (SendDone(s) /\ stage[s] # "sending")
  <2>1. UNCHANGED <<sent, sub, delivered, since, behind>>
    BY <1>4 DEF HandshakeFails, Upgrade, Recv, Receive, ReceiveLagged, ResumeAt,
       ReceiveClosed, SendDone, SendFails, Ping, ClientCloses
  <2>2. QED  BY <2>1 DEF GapFree, Got, SubscriptionAllows
<1>5. CASE SendDone(s) /\ stage[s] = "sending"
  <2>1. delivered'[s] = Append(d, cursor[s] - 1) /\ UNCHANGED <<sent, sub, since, behind>>
    BY <1>0, <1>5 DEF TypeOK, SendDone
  <2>2. cursor[s] - 1 > since[s] /\ cursor[s] - 1 \in Nat
    BY <1>0, <1>5 DEF SocketOK, Positioned
  <2>3. /\ DOMAIN delivered'[s] = 1 .. Len(d) + 1
        /\ delivered'[s][Len(d) + 1] = cursor[s] - 1
        /\ \A i \in 1 .. Len(d) : delivered'[s][i] = d[i]
    BY <1>0, <2>1, <2>2
  <2>4. Got(s) \subseteq Got(s)'
    <3>1. \A i \in DOMAIN d : i \in DOMAIN delivered'[s] /\ delivered'[s][i] = d[i]
      BY <1>0, <2>3
    <3>2. QED  BY <3>1 DEF Got
  <2> SUFFICES ASSUME behind[s] <= Cap, NEW j \in DOMAIN delivered'[s],
                      NEW i \in since[s] + 1 .. delivered'[s][j] - 1,
                      SubscriptionAllows(sub[s], sent[i])
      PROVE  i \in Got(s)
    BY <2>1, <2>4 DEF GapFree, SubscriptionAllows
  <2>5. CASE j \in 1 .. Len(d)
    BY <1>0, <2>3, <2>5 DEF GapFree
  <2>6. CASE j = Len(d) + 1
    <3>1. i \in since[s] + 1 .. cursor[s] - 1 /\ i # cursor[s] - 1
      BY <1>0, <2>2, <2>3, <2>6
    <3>2. i \in Got(s) \cup InFlight(s)
      BY <1>0, <1>5, <3>1 DEF SocketOK, Complete, Subscribed
    <3>3. QED  BY <1>5, <3>1, <3>2 DEF InFlight
  <2>7. QED  BY <1>0, <2>3, <2>5, <2>6
<1>6. QED  BY <1>0, <1>1, <1>2, <1>3, <1>4, <1>5, SocketStep DEF Moves

-----------------------------------------------------------------------------
(* Every variable of channel and sockets keeps its type, and no receiver is *)
(* ahead of the channel.                                                    *)
THEOREM FeedTyped == Spec => []TypeOK
<1>1. FeedInv => TypeOK
  BY DEF FeedInv
<1>2. QED  BY <1>1, FeedInvariant, PTL

(* A client gets events in the order they were published, none twice, none  *)
(* from before its handshake was accepted.                                  *)
THEOREM InOrder == Spec => []DeliveredInOrder
<1>1. ASSUME FeedInv PROVE DeliveredInOrder
  <2> SUFFICES ASSUME NEW s \in Sockets
      PROVE  /\ \A i, j \in DOMAIN delivered[s] : i < j => delivered[s][i] < delivered[s][j]
             /\ \A i \in Got(s) \cup InFlight(s) : i > since[s]
    BY DEF DeliveredInOrder
  <2>1. SocketOK(s)
    BY <1>1 DEF FeedInv
  <2>2. /\ \A i \in DOMAIN delivered[s] : delivered[s][i] \in Nat
        /\ since[s] \in Nat /\ cursor[s] \in Nat
    BY <1>1, SocketTypes DEF FeedInv
  <2>3. \A i \in Got(s) : i > since[s]
    BY <2>1, <2>2 DEF SocketOK, Ordered, Got
  <2>4. \A i \in InFlight(s) : i > since[s]
    BY <2>1, <2>2 DEF SocketOK, Positioned, InFlight
  <2>5. QED  BY <2>1, <2>3, <2>4 DEF SocketOK, Ordered
<1>2. QED  BY <1>1, FeedInvariant, PTL

(* A client gets events of the tenant, and of the case, it subscribed to. *)
THEOREM FeedsAreIsolated == Spec => []FeedIsolation
<1>1. FeedInv => FeedIsolation
  BY DEF FeedInv, SocketOK, Ordered, SubscriptionAllows, FeedIsolation, Got
<1>2. QED  BY <1>1, FeedInvariant, PTL

(* A receiver that was never more than Cap values behind skipped nothing. *)
THEOREM NothingMissed == Spec => []NothingMissedWithinCap
<1>1. FeedInv => NothingMissedWithinCap
  BY DEF FeedInv, SocketOK, Complete, NothingMissedWithinCap
<1>2. QED  BY <1>1, FeedInvariant, PTL

(* An overrun costs only what the channel has overwritten: the last Cap     *)
(* events a receiver passes are given to its client or not allowed to it.   *)
THEOREM LagIsBounded == Spec => LagSkipsOnlyOverwritten
<1> DEFINE Skip(s) == \A i \in cursor[s] .. cursor'[s] - 1 :
             \/ i + Cap <= Len(sent)
             \/ ~SubscriptionAllows(sub[s], sent[i])
             \/ stage'[s] = "sending" /\ i = cursor'[s] - 1
<1>1. ASSUME FeedInv, [Next]_vars, NEW s \in Sockets, stage[s] = "looping",
             cursor'[s] > cursor[s]
      PROVE  Skip(s)
  <2>1. /\ Len(sent) \in Nat /\ cursor[s] \in Nat /\ Cap \in Nat
        /\ cursor \in [Sockets -> 1 .. Len(sent) + 1] /\ stage \in [Sockets -> Stages]
    BY <1>1, SocketTypes, FeedAssumption DEF FeedInv, TypeOK
  <2>2. Receive(s) \/ ReceiveLagged(s)
    BY <1>1, <2>1, SocketStep DEF FeedInv, Same, Moves, Publish, Handshake, Authenticate,
       Subscribe, SubscribeAt, HandshakeFails, Upgrade, Recv, ReceiveClosed, SendDone,
       SendFails, Ping, ClientCloses
  <2>3. CASE Receive(s)
    BY <2>1, <2>3 DEF Receive
  <2>4. CASE ReceiveLagged(s)
    <3>1. cursor[s] < Oldest /\ cursor'[s] = Oldest
      BY <2>1, <2>4 DEF ReceiveLagged, ResumeAt
    <3>2. Oldest = Len(sent) - Cap + 1
      BY <2>1, <3>1 DEF Oldest
    <3>3. QED  BY <2>1, <3>1, <3>2
  <2>5. QED  BY <2>2, <2>3, <2>4
<1>2. FeedInv /\ [Next]_vars =>
        [\A s \in Sockets : stage[s] = "looping" /\ cursor'[s] > cursor[s] => Skip(s)]_vars
  BY <1>1
<1>3. QED  BY <1>2, FeedInvariant, PTL DEF Spec, LagSkipsOnlyOverwritten
=============================================================================
