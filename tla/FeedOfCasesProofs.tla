-------------------------- MODULE FeedOfCasesProofs --------------------------
(***************************************************************************)
(* Proofs about FeedOfCases: what a subscriber may conclude from the order  *)
(* in which events reach it, for every set of requests, sockets, tenants    *)
(* and cases and every capacity of the channel.  The proofs about the case  *)
(* service and about the feed are used as they are: a step of the composed  *)
(* system is a step, or no step, of each.                                   *)
(***************************************************************************)
EXTENDS FeedOfCases, CaseEffectsProofs

FeedP == INSTANCE EventFeedProofs WITH
  sent <- SentEvents, member <- TenantsOf,
  MaxSent <- Cardinality(Requests), Membership <- [s \in Sockets |-> {}], Leavable <- {}

(***************************************************************************)
(* The strengthening.  A request is answered with success when its handler  *)
(* is done; what was known when a request arrived has succeeded; and an     *)
(* event on the channel has before it the events of all mutations that were *)
(* confirmed as newly applied when its request arrived.  With it go the     *)
(* invariants of the two components.                                        *)
(***************************************************************************)
Replied == \A r \in Requests : reply[r] \in Successes => pc[r] = "done"

Known ==
  /\ before \in [Requests -> SUBSET Requests]
  /\ \A r \in Requests : \A q \in before[r] : Succeeded(q)

Precedes ==
  \A d \in DOMAIN published : \A q \in before[Author(d)] :
    Mutates(q) /\ ~replayed[q] => \E i \in DOMAIN published : i < d /\ published[i] = evt[q]

ApiInv == EffectsInv /\ PublishedOncePerCommit /\ Replied
ChannelInv == FeedP!FeedInv /\ \A s \in Sockets : FeedP!GapFree(s)
CauseInv == ApiInv /\ Known /\ Precedes /\ ChannelInv

-----------------------------------------------------------------------------
(* What the feed assumes of its constants holds here. *)
LEMMA FeedOK == FeedP!FeedAssumption
<1>1. Cardinality(Requests) \in Nat
  BY SocketAssumption, FS_CardinalityType
<1>2. QED  BY <1>1, SocketAssumption DEF FeedP!FeedAssumption, FeedP!Subscriptions

(* A step of the composed system is a step of the case API, or leaves it    *)
(* alone.                                                                   *)
LEMMA ApiStep ==
  ASSUME [ComposedNext]_allVars
  PROVE  [Next]_vars
<1>1. ASSUME NEW r \in Requests, Request(r) \/ Handle(r) PROVE Next
  BY <1>1 DEF Request, Handle, Next
<1>2. CASE Disturb
  BY <1>2 DEF Disturb, Next
<1>3. CASE Drained \/ UNCHANGED allVars
  BY <1>3 DEF Drained, Alone, allVars
<1>4. ASSUME NEW s \in Sockets, Open(s) \/ Upgrade(s) \/ Recv(s) \/ Take(s) \/ Talk(s)
      PROVE  UNCHANGED vars
  BY <1>4 DEF Open, Upgrade, Recv, Take, Talk, Alone
<1>5. QED  BY <1>1, <1>2, <1>3, <1>4 DEF ComposedNext

(* The invariants of the case API hold in the composed system. *)
LEMMA ApiInvStep ==
  ASSUME ApiInv, [Next]_vars
  PROVE  ApiInv'
<1> USE DEF ApiInv
<1>1. EffectsInv' /\ PublishedOncePerCommit'
  BY EffectsStep, PublishedStep
<1>2. ASSUME NEW q \in Requests, reply'[q] \in Successes PROVE pc'[q] = "done"
  <2>1. /\ Typing /\ pc \in [Requests -> Stages]
        /\ reply \in [Requests -> {"none"} \cup Successes \cup Errors]
    BY DEF EffectsInv, LogInv, Typing, TypeOK, ApiTypeOK
  <2>2. CASE Kept(q)
    BY <1>2, <2>2 DEF Kept, Replied
  <2>3. CASE Failed(q)
    BY <2>1, <2>3 DEF Failed, Fail
  <2>4. CASE Arrive(q) \/ Forward(q) \/ Abort(q) \/ ExecuteApplied(q) \/ ExecuteReplayed(q)
             \/ ReadCase(q)
    BY <1>2, <2>1, <2>4 DEF Replied, Arrive, Forward, Abort, ExecuteApplied, ExecuteReplayed,
       ReadCase, Active
  <2>5. CASE FinishMutation(q) \/ RecordAccess(q) \/ ListCases(q)
    BY <2>1, <2>5 DEF FinishMutation, ReturnMutation, RecordAccess, ListCases
  <2>6. QED  BY <2>1, <2>2, <2>3, <2>4, <2>5, RequestStep
<1>3. QED  BY <1>1, <1>2 DEF Replied

(* Every published event is one of the log, and its author has succeeded. *)
LEMMA Entries ==
  ASSUME ApiInv
  PROVE  /\ published \in Seq(Nat) /\ Len(published) \in Nat
         /\ DOMAIN published = 1 .. Len(published)
         /\ \A d \in DOMAIN published :
              /\ published[d] \in DOMAIN log
              /\ Author(d) \in Requests /\ Succeeded(Author(d))
<1>1. Typing /\ published \in Seq(Nat)
  BY DEF ApiInv, EffectsInv, LogInv, Typing, TypeOK, ApiTypeOK
<1>2. QED  BY <1>1, Indices DEF ApiInv, PublishedOncePerCommit, Author

(* The channel's contents are tenant events, one for each publication. *)
LEMMA SentTyped ==
  ASSUME ApiInv
  PROVE  SentEvents \in Seq(FeedP!TenantEvents) /\ Len(SentEvents) = Len(published)
<1>1. \A i \in DOMAIN published : TenantEvent(published[i]) \in FeedP!TenantEvents
  BY Entries, Indices DEF ApiInv, EffectsInv, LogInv, TenantEvent, FeedP!TenantEvents
<1>2. QED  BY <1>1, Entries DEF SentEvents

-----------------------------------------------------------------------------
(* What was known when a request arrived stays answered. *)
LEMMA KnownStep ==
  ASSUME CauseInv, [ComposedNext]_allVars
  PROVE  Known'
<1> USE DEF CauseInv
<1>0. Typing /\ [Next]_vars
  BY ApiStep DEF ApiInv, EffectsInv, LogInv
<1>1. \A q \in Requests : Succeeded(q) => Succeeded(q)'
  BY <1>0, SuccessStays DEF Kept, Succeeded, Finished
<1>2. CASE UNCHANGED before
  BY <1>1, <1>2 DEF Known
<1>3. ASSUME NEW r \in Requests, Request(r) PROVE Known'
  <2>1. before' = [before EXCEPT ![r] = {q \in Requests : reply[q] \in Successes}]
    BY <1>3 DEF Request
  <2>2. \A q \in Requests : reply[q] \in Successes => Succeeded(q)
    BY DEF ApiInv, Replied, Succeeded, Finished
  <2>3. before' \in [Requests -> SUBSET Requests]
    BY <2>1 DEF Known
  <2>4. \A p \in Requests : \A q \in before'[p] : q \in Requests /\ Succeeded(q)
    BY <2>1, <2>2 DEF Known
  <2>5. QED  BY <1>1, <2>3, <2>4 DEF Known
<1>4. (\E r \in Requests : Request(r)) \/ UNCHANGED before
  BY DEF ComposedNext, Handle, Disturb, Drained, Open, Upgrade, Recv, Take, Talk, Alone, allVars
<1>5. QED  BY <1>2, <1>3, <1>4

(* A publication comes after those of all mutations confirmed before its    *)
(* request arrived: a fresh success is told when it is published.           *)
LEMMA PrecedesStep ==
  ASSUME CauseInv, [ComposedNext]_allVars
  PROVE  Precedes'
<1> USE DEF CauseInv
<1>0. Typing /\ [Next]_vars /\ EffectsInv
  BY ApiStep DEF ApiInv, EffectsInv, LogInv
<1>1. \A q \in Requests : Succeeded(q) =>
        (Mutates(q)' <=> Mutates(q)) /\ replayed'[q] = replayed[q] /\ evt'[q] = evt[q]
  BY <1>0, SuccessStays DEF Kept, Mutates
<1>2. ASSUME NEW a \in Requests, pc[a] # "idle" PROVE before'[a] = before[a]
  <2>1. ASSUME NEW r \in Requests, Request(r) PROVE before'[a] = before[a]
    BY <1>2, <2>1 DEF Request, Arrive, Known
  <2>2. (\E r \in Requests : Request(r)) \/ UNCHANGED before
    BY DEF ComposedNext, Handle, Disturb, Drained, Open, Upgrade, Recv, Take, Talk, Alone,
       allVars
  <2>3. QED  BY <2>1, <2>2
<1>3. ASSUME NEW a \in Requests, pc[a] # "idle", NEW q \in before'[a], Mutates(q)', ~replayed'[q]
      PROVE  /\ q \in before[a] /\ q \in Requests /\ Succeeded(q) /\ Mutates(q) /\ ~replayed[q]
             /\ evt'[q] = evt[q]
  <2>1. q \in before[a] /\ q \in Requests /\ Succeeded(q)
    BY <1>2, <1>3 DEF Known
  <2>2. QED  BY <1>1, <1>3, <2>1
<1>4. ASSUME NEW d \in DOMAIN published, NEW q \in before[Author(d)],
             Mutates(q), ~replayed[q]
      PROVE  \E i \in DOMAIN published : i < d /\ published[i] = evt[q]
  BY <1>4 DEF Precedes
<1>5. ASSUME NEW d \in DOMAIN published
      PROVE  Author(d) \in Requests /\ pc[Author(d)] # "idle" /\ log'[published[d]] = log[published[d]]
  BY <1>0, Entries, LogGrows DEF Succeeded, Finished
<1>6. CASE UNCHANGED published
  <2> SUFFICES ASSUME NEW d \in DOMAIN published, NEW q \in before'[Author(d)],
                      Mutates(q)', ~replayed'[q]
      PROVE  \E i \in DOMAIN published : i < d /\ published[i] = evt'[q]
    BY <1>5, <1>6 DEF Precedes, Author
  <2>1. QED  BY <1>3, <1>4, <1>5
<1>7. ASSUME NEW r \in Requests, FinishMutation(r), ~replayed[r]
      PROVE  Precedes'
  <2>1. /\ pc[r] = "readEvent" /\ published' = Append(published, evt[r]) /\ log' = log
    BY <1>7 DEF FinishMutation, ReturnMutation, database
  <2>2. evt[r] \in Nat /\ evt[r] > 0 /\ evt[r] \in DOMAIN log /\ log[evt[r]].by = r
    BY <1>0, <1>7, <2>1, Indices DEF Typing, StageOK, EffectsInv, Referred
  <2>3. /\ DOMAIN published' = DOMAIN published \cup {Len(published) + 1}
        /\ published'[Len(published) + 1] = evt[r]
        /\ \A i \in DOMAIN published : published'[i] = published[i] /\ i < Len(published) + 1
    BY <2>1, <2>2, Entries
  <2> SUFFICES ASSUME NEW d \in DOMAIN published', NEW q \in before'[log'[published'[d]].by],
                      Mutates(q)', ~replayed'[q]
      PROVE  \E i \in DOMAIN published : i < d /\ published[i] = evt'[q]
    BY <2>3 DEF Precedes, Author
  <2>4. CASE d \in DOMAIN published
    <3>1. log'[published'[d]].by = Author(d)
      BY <2>1, <2>3, <2>4 DEF Author
    <3>2. QED  BY <1>3, <1>4, <1>5, <2>4, <3>1
  <2>5. CASE d = Len(published) + 1
    <3>1. log'[published'[d]].by = r /\ pc[r] # "idle"
      BY <2>1, <2>2, <2>3, <2>5
    <3>2. q \in Requests /\ Succeeded(q) /\ Mutates(q) /\ ~replayed[q] /\ evt'[q] = evt[q]
      BY <1>3, <3>1
    <3>3. PICK i \in DOMAIN published : published[i] = evt[q]
      BY <3>2 DEF ApiInv, PublishedOncePerCommit
    <3>4. QED  BY <2>3, <2>5, <3>2, <3>3
  <2>6. QED  BY <2>3, <2>4, <2>5
<1>8. ASSUME NEW r \in Requests, FinishMutation(r), replayed[r]
      PROVE  UNCHANGED published
  BY <1>8 DEF FinishMutation, ReturnMutation
<1>9. QED  BY <1>0, <1>6, <1>7, <1>8, Publishers

-----------------------------------------------------------------------------
(* What the channel carries is changed by publications only. *)
LEMMA SentKept ==
  ASSUME ApiInv, [Next]_vars, UNCHANGED published
  PROVE  SentEvents' = SentEvents
<1>1. \A i \in DOMAIN published : log'[published[i]] = log[published[i]]
  BY Entries, LogGrows DEF ApiInv, EffectsInv, LogInv
<1>2. QED  BY <1>1 DEF SentEvents, TenantEvent

(* To the feed, a step of the composed system is one of its own or nothing. *)
LEMMA FeedOrQuiet ==
  ASSUME ApiInv, [ComposedNext]_allVars
  PROVE  FeedP!Next \/ (UNCHANGED feed /\ SentEvents' = SentEvents)
<1>0. [Next]_vars /\ Typing
  BY ApiStep DEF ApiInv, EffectsInv, LogInv
<1>1. ASSUME NEW r \in Requests, Handle(r), ~UNCHANGED published
      PROVE  FeedP!Next
  <2>1. Feed!Publish(TenantEvent(published'[Len(published')]))
    BY <1>1 DEF Handle, Broadcast
  <2>2. PICK q \in Requests : FinishMutation(q)
    BY <1>0, <1>1, Publishers
  <2>3. pc[q] = "readEvent" /\ published' = Append(published, evt[q])
    BY <1>1, <2>2 DEF FinishMutation, ReturnMutation
  <2>4. evt[q] \in DOMAIN log /\ evt[q] \in Nat
    BY <1>0, <2>3, Indices DEF Typing, StageOK
  <2>5. published'[Len(published')] = evt[q]
    BY <2>3, <2>4, Entries
  <2>6. TenantEvent(evt[q]) \in FeedP!TenantEvents
    BY <1>0, <2>4, Indices DEF TenantEvent, FeedP!TenantEvents
  <2>7. FeedP!Publish(TenantEvent(evt[q]))
    BY <2>1, <2>5 DEF Feed!Publish, FeedP!Publish, Feed!Subscribed, FeedP!Subscribed,
       Feed!Backlog, FeedP!Backlog
  <2>8. QED  BY <2>6, <2>7 DEF FeedP!Next
<1>2. ASSUME NEW r \in Requests, Handle(r), UNCHANGED published
      PROVE  UNCHANGED feed /\ SentEvents' = SentEvents
  BY <1>0, <1>2, SentKept DEF Handle, Broadcast
<1>3. ASSUME NEW r \in Requests, Request(r)
      PROVE  UNCHANGED feed /\ SentEvents' = SentEvents
  BY <1>0, <1>3, SentKept DEF Request, Arrive
<1>4. CASE Disturb
  <2>1. UNCHANGED <<published, feed>>
    BY <1>4 DEF Disturb, Unavailable, Abort, Fail, Environment, ChangeRole, RevokeSession,
       Tick, ApplyRetention, ForeignWrite, api
  <2>2. QED  BY <1>0, <2>1, SentKept
<1>5. CASE Drained
  BY <1>5 DEF Drained, Feed!CloseChannel, FeedP!CloseChannel, FeedP!Next
<1>6. ASSUME NEW s \in Sockets, Open(s) \/ Upgrade(s) \/ Recv(s) \/ Take(s) \/ Talk(s)
      PROVE  FeedP!Next
  <2>1. CASE Open(s)
    BY <2>1 DEF Open, FeedP!Next, Feed!Handshake, FeedP!Handshake, Feed!Authenticate,
       FeedP!Authenticate, Feed!Subscribe, FeedP!Subscribe, Feed!SubscribeAt,
       FeedP!SubscribeAt, Feed!HandshakeFails, FeedP!HandshakeFails
  <2>2. CASE Upgrade(s)
    BY <2>2 DEF Upgrade, FeedP!Next, Feed!Upgrade, FeedP!Upgrade
  <2>3. CASE Recv(s)
    BY <2>3 DEF Recv, FeedP!Next, Feed!Recv, FeedP!Recv, Feed!Receive, FeedP!Receive,
       Feed!ReceiveLagged, FeedP!ReceiveLagged, Feed!ResumeAt, FeedP!ResumeAt,
       Feed!ReceiveClosed, FeedP!ReceiveClosed, Feed!Oldest, FeedP!Oldest,
       Feed!SubscriptionAllows, FeedP!SubscriptionAllows
  <2>4. CASE Take(s)
    BY <2>4 DEF Take, FeedP!Next, Feed!SendDone, FeedP!SendDone, Feed!SendFails,
       FeedP!SendFails
  <2>5. CASE Talk(s)
    BY <2>5 DEF Talk, FeedP!Next, Feed!Ping, FeedP!Ping, Feed!ClientCloses,
       FeedP!ClientCloses
  <2>6. QED  BY <1>6, <2>1, <2>2, <2>3, <2>4, <2>5
<1>7. CASE UNCHANGED allVars
  <2>1. UNCHANGED <<published, feed>>
    BY <1>7 DEF allVars, vars
  <2>2. QED  BY <1>0, <2>1, SentKept
<1>8. QED  BY <1>1, <1>2, <1>3, <1>4, <1>5, <1>6, <1>7 DEF ComposedNext

(* The invariants of the feed hold in the composed system, memberships      *)
(* changing under it as they may.                                           *)
LEMMA ChannelStep ==
  ASSUME CauseInv, [ComposedNext]_allVars
  PROVE  ChannelInv'
<1> USE DEF CauseInv, ChannelInv
<1>1. CASE FeedP!Next
  <2>1. FeedP!FeedInv'
    BY <1>1, FeedOK, FeedP!FeedStep
  <2>2. ASSUME NEW s \in Sockets PROVE FeedP!GapFree(s)'
    BY <1>1, FeedOK, FeedP!GapStep
  <2>3. QED  BY <2>1, <2>2
<1>2. CASE UNCHANGED feed /\ SentEvents' = SentEvents
  <2>1. TenantsOf' \in [Sockets -> SUBSET Tenants]
    BY DEF TenantsOf
  <2>2. FeedP!TypeOK'
    BY <1>2, <2>1 DEF feed, FeedP!FeedInv, FeedP!TypeOK
  <2>3. \A s \in Sockets : FeedP!Same(s)
    BY <1>2 DEF feed, FeedP!Same
  <2>4. ASSUME NEW s \in Sockets PROVE FeedP!SocketOK(s)' /\ FeedP!GapFree(s)'
    BY <2>3, FeedOK, FeedP!SameStep, FeedP!GapSame DEF FeedP!FeedInv
  <2>5. QED  BY <2>2, <2>4 DEF FeedP!FeedInv
<1>3. QED  BY <1>1, <1>2, FeedOrQuiet

(* CauseInv holds of the empty system and every step preserves it. *)
LEMMA CauseInvariant == ComposedSpec => []CauseInv
<1>1. ComposedInit => CauseInv
  <2> SUFFICES ASSUME ComposedInit PROVE CauseInv
    OBVIOUS
  <2>1. EffectsInv
    BY EffectsInit DEF ComposedInit
  <2>2. PublishedOncePerCommit /\ Replied
    BY DEF ComposedInit, Init, PublishedOncePerCommit, Succeeded, Finished, Replied, Successes
  <2>3. Known /\ Precedes
    BY DEF ComposedInit, Init, Known, Precedes
  <2>4. SentEvents \in Seq(FeedP!TenantEvents) /\ Len(SentEvents) = 0
    BY <2>1, <2>2, SentTyped DEF ApiInv, ComposedInit, Init
  <2>5. FeedP!TypeOK
    BY <2>4, FeedOK DEF ComposedInit, FeedP!TypeOK, FeedP!Stages, TenantsOf
  <2>6. \A s \in Sockets : FeedP!SocketOK(s) /\ FeedP!GapFree(s)
    BY DEF ComposedInit, FeedP!SocketOK, FeedP!Fresh, FeedP!Positioned, FeedP!Ordered,
       FeedP!Complete, FeedP!Subscribed, FeedP!GapFree
  <2>7. QED
    BY <2>1, <2>2, <2>3, <2>5, <2>6 DEF CauseInv, ApiInv, ChannelInv, FeedP!FeedInv
<1>2. CauseInv /\ [ComposedNext]_allVars => CauseInv'
  BY ApiStep, ApiInvStep, KnownStep, PrecedesStep, ChannelStep DEF CauseInv
<1>3. QED  BY <1>1, <1>2, PTL DEF ComposedSpec

-----------------------------------------------------------------------------
(* No event reaches a subscriber before the event of a mutation whose own   *)
(* request had been answered when the later request arrived, unless that    *)
(* event is from before the subscription, was overrun, or is none the       *)
(* subscriber may see.  Nothing is said of a mutation the caller knew only  *)
(* from a replayed answer.                                                  *)
THEOREM CausesComeFirst == ComposedSpec => []CausesFirst
<1>1. ASSUME CauseInv PROVE CausesFirst
  <2> SUFFICES ASSUME NEW s \in Sockets, NEW j \in DOMAIN delivered[s],
                      NEW q \in before[Author(delivered[s][j])], Mutates(q), ~replayed[q]
      PROVE  \E i \in DOMAIN published :
               /\ published[i] = evt[q] /\ i < delivered[s][j]
               /\ \/ i <= since[s] \/ behind[s] > Cap
                  \/ ~Feed!SubscriptionAllows(sub[s], SentEvents[i])
                  \/ \E k \in 1 .. j - 1 : delivered[s][k] = i
    BY DEF CausesFirst
  <2> DEFINE d == delivered[s]
  <2>1. /\ FeedP!TypeOK /\ FeedP!Ordered(s) /\ FeedP!GapFree(s) /\ ApiInv /\ Precedes
    BY <1>1 DEF CauseInv, ChannelInv, FeedP!FeedInv, FeedP!SocketOK
  <2>2. /\ DOMAIN d = 1 .. Len(d) /\ Len(d) \in Nat /\ since[s] \in Nat /\ behind[s] \in Nat
        /\ Cap \in Nat /\ \A i \in DOMAIN d : d[i] \in 1 .. Len(SentEvents)
    BY <2>1, FeedOK, SocketAssumption, FeedP!SocketTypes
  <2>3. d[j] \in DOMAIN published /\ DOMAIN published = 1 .. Len(published)
        /\ Len(published) \in Nat
    BY <2>1, <2>2, Entries, SentTyped
  <2>4. PICK i \in DOMAIN published : i < d[j] /\ published[i] = evt[q]
    BY <2>1, <2>3 DEF Precedes
  <2>5. CASE /\ i > since[s] /\ behind[s] <= Cap
             /\ Feed!SubscriptionAllows(sub[s], SentEvents[i])
    <3>1. i \in since[s] + 1 .. d[j] - 1
      BY <2>2, <2>3, <2>4, <2>5
    <3>2. i \in FeedP!Got(s)
      BY <2>1, <2>5, <3>1 DEF FeedP!GapFree, Feed!SubscriptionAllows, FeedP!SubscriptionAllows
    <3>3. PICK k \in DOMAIN d : d[k] = i
      BY <3>2 DEF FeedP!Got
    <3>4. ~(j < k) /\ j # k
      BY <2>1, <2>2, <2>3, <2>4, <3>3 DEF FeedP!Ordered
    <3>5. k \in 1 .. j - 1
      BY <2>2, <3>3, <3>4
    <3>6. QED  BY <2>4, <3>3, <3>5
  <2>6. CASE ~(/\ i > since[s] /\ behind[s] <= Cap
               /\ Feed!SubscriptionAllows(sub[s], SentEvents[i]))
    BY <2>2, <2>3, <2>4, <2>6
  <2>7. QED  BY <2>5, <2>6
<1>2. QED  BY <1>1, CauseInvariant, PTL
=============================================================================
