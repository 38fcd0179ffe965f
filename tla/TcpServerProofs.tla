--------------------------- MODULE TcpServerProofs ---------------------------
(***************************************************************************)
(* Proofs about TcpServer, for every finite set of connections and every    *)
(* pair of limits that bounded_env lets through.                            *)
(***************************************************************************)
EXTENDS TcpServer, FiniteSetTheorems, TLAPS

(***************************************************************************)
(* The strengthening.  A connection that has not been read from has no      *)
(* frames; a connection whose frame is with execute, or that waits for the  *)
(* next one, has no response left over; a caller who is entitled while a    *)
(* frame waits for authorization was so when it was read or has become so   *)
(* since.                                                                   *)
(***************************************************************************)
Holders == {c \in Connections : stage[c] \in Holding}

Unread ==
  \A c \in Connections : stage[c] \in {"none", "backlog", "handshake"} =>
    served[c] = 0 /\ answered[c] = 0
NoLeftover ==
  \A c \in Connections : response[c] = "ok" => stage[c] \in {"sending", "closed"}
Marked ==
  \A c \in Connections : stage[c] = "authorize" /\ entitled[c] => entitledAt[c]

TcpInv ==
  /\ TypeOK /\ Unread /\ NoLeftover /\ Marked
  /\ PermitsConserved /\ LockStep /\ EveryFrameReauthorized

-----------------------------------------------------------------------------
(* The holders of a permit are finitely many. *)
LEMMA HoldersFinite == IsFiniteSet(Holders) /\ Cardinality(Holders) \in Nat
<1>1. IsFiniteSet(Holders)
  BY ServerAssumption, FS_Subset DEF Holders
<1>2. QED  BY <1>1, FS_CardinalityType

(* A permit handed from the semaphore to a connection, or back, is counted  *)
(* once; a step within a connection moves none.                             *)
LEMMA PermitMoves ==
  ASSUME TypeOK, PermitsConserved, NEW c \in Connections, NEW next \in Stages,
         stage' = [stage EXCEPT ![c] = next],
         \/ stage[c] \notin Holding /\ next \in Holding /\ permits > 0 /\ permits' = permits - 1
         \/ stage[c] \in Holding /\ next \notin Holding /\ permits' = permits + 1
         \/ (stage[c] \in Holding <=> next \in Holding) /\ permits' = permits
  PROVE  PermitsConserved' /\ permits' \in 0 .. MaxConnections
<1>1. permits + Cardinality(Holders) = MaxConnections
  BY DEF PermitsConserved, Holders
<1>2. PermitsConserved' <=> permits' + Cardinality(Holders') = MaxConnections
  BY DEF PermitsConserved, Holders
<1>3. /\ permits \in Nat /\ MaxConnections \in Nat
      /\ IsFiniteSet(Holders) /\ Cardinality(Holders) \in Nat
  BY HoldersFinite, ServerAssumption DEF TypeOK
<1>4. stage \in [Connections -> Stages]
  BY DEF TypeOK
<1>5. CASE stage[c] \notin Holding /\ next \in Holding /\ permits > 0 /\ permits' = permits - 1
  <2>1. Holders' = Holders \cup {c} /\ c \notin Holders
    BY <1>4, <1>5 DEF Holders
  <2>2. Cardinality(Holders') = Cardinality(Holders) + 1
    BY <1>3, <2>1, FS_AddElement
  <2>3. QED  BY <1>1, <1>2, <1>3, <1>5, <2>2
<1>6. CASE stage[c] \in Holding /\ next \notin Holding /\ permits' = permits + 1
  <2>1. Holders' = Holders \ {c} /\ c \in Holders
    BY <1>4, <1>6 DEF Holders
  <2>2. /\ IsFiniteSet(Holders') /\ Cardinality(Holders') = Cardinality(Holders) - 1
    BY <1>3, <2>1, FS_RemoveElement
  <2>3. Cardinality(Holders') \in Nat
    BY <2>2, FS_CardinalityType
  <2>4. QED  BY <1>1, <1>2, <1>3, <1>6, <2>2, <2>3
<1>7. CASE (stage[c] \in Holding <=> next \in Holding) /\ permits' = permits
  <2>1. Holders' = Holders
    BY <1>4, <1>7 DEF Holders
  <2>2. QED  BY <1>1, <1>2, <1>3, <1>7, <2>1
<1>8. QED  BY <1>5, <1>6, <1>7

(* No connection, all permits in the semaphore. *)
LEMMA TcpInit == Init => TcpInv
<1> SUFFICES ASSUME Init PROVE TcpInv
  OBVIOUS
<1>1. TypeOK
  BY ServerAssumption DEF Init, TypeOK, Stages
<1>2. Unread /\ NoLeftover /\ Marked /\ EveryFrameReauthorized
  BY DEF Init, Unread, NoLeftover, Marked, EveryFrameReauthorized
<1>3. LockStep
  BY DEF Init, LockStep
<1>4. PermitsConserved
  <2>1. Holders = {}
    BY DEF Init, Holders, Holding
  <2>2. Cardinality(Holders) = 0
    BY <2>1, FS_EmptySet
  <2>3. QED  BY <2>2, ServerAssumption DEF Init, PermitsConserved, Holders
<1>5. QED  BY <1>1, <1>2, <1>3, <1>4 DEF TcpInv

(* A task that goes from one wait to another without reading, answering or  *)
(* touching its response: the waits for which nothing has to be known.      *)
LEMMA PlainMove ==
  ASSUME TcpInv, NEW c \in Connections, NEW next \in {"backlog", "handshake", "closed"},
         GoTo(c, next),
         next \in {"backlog", "handshake"} => stage[c] \in {"none", "backlog"},
         \/ stage[c] \notin Holding /\ next \in Holding /\ permits > 0 /\ permits' = permits - 1
         \/ stage[c] \in Holding /\ next \notin Holding /\ permits' = permits + 1
         \/ (stage[c] \in Holding <=> next \in Holding) /\ permits' = permits,
         UNCHANGED <<listening, served, answered, response, entitled, entitledAt>>
  PROVE  TcpInv'
<1>1. /\ TypeOK /\ stage' = [stage EXCEPT ![c] = next] /\ stage \in [Connections -> Stages]
      /\ next \in Stages
  BY DEF TcpInv, TypeOK, GoTo, Stages
<1>2. PermitsConserved' /\ permits' \in 0 .. MaxConnections
  BY <1>1, PermitMoves DEF TcpInv
<1>3. TypeOK'
  BY <1>1, <1>2 DEF TypeOK
<1>4. Unread' /\ NoLeftover' /\ Marked' /\ EveryFrameReauthorized'
  BY <1>1 DEF TcpInv, Unread, NoLeftover, Marked, EveryFrameReauthorized
<1>5. LockStep'
  <2>1. ASSUME NEW d \in Connections PROVE served[d] \in Nat /\ answered[d] \in Nat
    BY ServerAssumption DEF TcpInv, TypeOK
  <2>2. QED
    BY <1>1, <2>1 DEF TcpInv, LockStep
<1>6. QED  BY <1>2, <1>3, <1>4, <1>5 DEF TcpInv

(* A task that stays with its connection, from one wait on the connection   *)
(* or the service to the next: no permit moves.                             *)
LEMMA HoldingMove ==
  ASSUME TcpInv, NEW c \in Connections, stage[c] \in Holding,
         NEW next \in Holding \ {"handshake"}, GoTo(c, next),
         served' \in [Connections -> 0 .. MaxRequests],
         answered' \in [Connections -> 0 .. MaxRequests],
         response' \in [Connections -> {"none", "ok"} \cup Failures],
         entitledAt' \in [Connections -> BOOLEAN],
         \A d \in Connections \ {c} :
           /\ served'[d] = served[d] /\ answered'[d] = answered[d]
           /\ response'[d] = response[d] /\ entitledAt'[d] = entitledAt[d],
         next = "reading" => served'[c] = answered'[c] /\ served'[c] < MaxRequests,
         next # "reading" => served'[c] = answered'[c] + 1,
         response'[c] = "ok" => next = "sending",
         next = "authorize" /\ entitled[c] => entitledAt'[c],
         next = "list" \/ response'[c] = "ok" => entitledAt'[c],
         UNCHANGED <<listening, permits, entitled>>
  PROVE  TcpInv'
<1>1. /\ TypeOK /\ stage' = [stage EXCEPT ![c] = next] /\ stage \in [Connections -> Stages]
      /\ next \in Stages /\ next \in {"reading", "authorize", "list", "sending"}
  BY DEF TcpInv, TypeOK, GoTo, Stages, Holding
<1>2. PermitsConserved' /\ permits' \in 0 .. MaxConnections
  BY <1>1, PermitMoves DEF TcpInv
<1>3. TypeOK'
  BY <1>1, <1>2 DEF TypeOK
<1>4. Unread' /\ NoLeftover' /\ Marked' /\ EveryFrameReauthorized'
  BY <1>1 DEF TcpInv, Unread, NoLeftover, Marked, EveryFrameReauthorized
<1>5. LockStep'
  <2> SUFFICES ASSUME NEW d \in Connections
      PROVE  CASE stage'[d] \in {"authorize", "list", "sending"} -> served'[d] = answered'[d] + 1
               [] stage'[d] = "reading" -> served'[d] = answered'[d] /\ served'[d] < MaxRequests
               [] OTHER -> served'[d] <= answered'[d] + 1
    BY DEF LockStep
  <2>1. CASE d = c
    BY <1>1, <2>1
  <2>2. CASE d # c
    BY <1>1, <2>2 DEF TcpInv, LockStep
  <2>3. QED  BY <2>1, <2>2
<1>6. QED  BY <1>2, <1>3, <1>4, <1>5 DEF TcpInv

(* Every step of the accept loop, of a connection's task and of the         *)
(* sessions keeps the invariant: one step per action.                       *)
LEMMA TcpStep == TcpInv /\ [Next]_vars => TcpInv'
<1> SUFFICES ASSUME TcpInv, [Next]_vars PROVE TcpInv'
  OBVIOUS
<1>0. /\ TypeOK /\ MaxRequests \in Nat /\ MaxRequests > 0 /\ MaxConnections \in Nat
      /\ \A c \in Connections : served[c] \in Nat /\ answered[c] \in Nat
  BY ServerAssumption DEF TcpInv, TypeOK
<1>1. ASSUME NEW c \in Connections, Connect(c) PROVE TcpInv'
  BY <1>1, PlainMove DEF Connect, Holding
<1>2. ASSUME NEW c \in Connections, Accept(c) PROVE TcpInv'
  BY <1>2, PlainMove DEF Accept, Holding
<1>3. ASSUME NEW c \in Connections, AcceptDropped(c) \/ Refused(c) PROVE TcpInv'
  BY <1>3, PlainMove DEF AcceptDropped, Refused, Holding
<1>4. CASE StopListening
  <2>1. /\ listening' = FALSE
        /\ stage' = [c \in Connections |-> IF stage[c] = "backlog" THEN "closed" ELSE stage[c]]
        /\ UNCHANGED <<permits, served, answered, response, entitled, entitledAt>>
    BY <1>4 DEF StopListening
  <2>2. Holders' = Holders
    BY <2>1 DEF Holders, Holding
  <2>3. PermitsConserved'
    BY <2>1, <2>2 DEF TcpInv, PermitsConserved, Holders
  <2>4. TypeOK' /\ Unread' /\ NoLeftover' /\ Marked' /\ EveryFrameReauthorized'
    BY <2>1 DEF TcpInv, TypeOK, Unread, NoLeftover, Marked, EveryFrameReauthorized, Stages
  <2>5. LockStep'
    BY <1>0, <2>1 DEF TcpInv, LockStep
  <2>6. QED  BY <2>3, <2>4, <2>5 DEF TcpInv
<1>5. ASSUME NEW c \in Connections, HandshakeDone(c) PROVE TcpInv'
  <2>1. served[c] = 0 /\ answered[c] = 0 /\ response[c] # "ok"
    BY <1>5 DEF HandshakeDone, TcpInv, Unread, NoLeftover
  <2>2. QED
    BY <1>0, <1>5, <2>1, HoldingMove DEF HandshakeDone, TypeOK, Holding
<1>6. ASSUME NEW c \in Connections, HandshakeFails(c) PROVE TcpInv'
  BY <1>6, PlainMove DEF HandshakeFails, Close, Holding
<1>7. ASSUME NEW c \in Connections, ReadFrame(c) PROVE TcpInv'
  <2>1. /\ stage[c] = "reading" /\ served[c] = answered[c] /\ served[c] < MaxRequests
        /\ response[c] # "ok"
    BY <1>0, <1>7 DEF ReadFrame, TcpInv, LockStep, NoLeftover
  <2>2. /\ served' = [served EXCEPT ![c] = @ + 1]
        /\ entitledAt' = [entitledAt EXCEPT ![c] = entitled[c]]
        /\ UNCHANGED <<listening, permits, answered, entitled>>
    BY <1>7 DEF ReadFrame
  <2>3. /\ served' \in [Connections -> 0 .. MaxRequests] /\ served'[c] = answered[c] + 1
        /\ entitledAt' \in [Connections -> BOOLEAN] /\ entitledAt'[c] = entitled[c]
    BY <1>0, <2>1, <2>2 DEF TypeOK
  <2>4. CASE GoTo(c, "authorize") /\ UNCHANGED response
    BY <1>0, <2>1, <2>2, <2>3, <2>4, HoldingMove DEF TypeOK, Holding
  <2>5. ASSUME NEW code \in {"invalid_request", "unauthorized"}, GoTo(c, "sending"),
               response' = [response EXCEPT ![c] = code]
        PROVE  TcpInv'
    <3>1. response' \in [Connections -> {"none", "ok"} \cup Failures] /\ response'[c] # "ok"
      BY <1>0, <2>5 DEF TypeOK, Failures
    <3>2. QED
      BY <1>0, <2>1, <2>2, <2>3, <2>5, <3>1, HoldingMove DEF TypeOK, Holding
  <2>6. QED  BY <1>7, <2>4, <2>5 DEF ReadFrame
<1>8. ASSUME NEW c \in Connections, ReadEnds(c) \/ SendFails(c) PROVE TcpInv'
  BY <1>8, PlainMove DEF ReadEnds, SendFails, Close, Holding
<1>9. ASSUME NEW c \in Connections, Authorize(c) PROVE TcpInv'
  <2>1. entitledAt[c] /\ response[c] # "ok" /\ served[c] = answered[c] + 1
    BY <1>0, <1>9 DEF Authorize, Pass, TcpInv, Marked, NoLeftover, LockStep
  <2>2. QED
    BY <1>0, <1>9, <2>1, HoldingMove DEF Authorize, Pass, TypeOK, Holding
<1>10. ASSUME NEW c \in Connections, NEW code \in {"ok"} \cup Failures, Respond(c, code),
              stage[c] \in {"authorize", "list"}, code = "ok" => stage[c] = "list"
       PROVE  TcpInv'
  <2>1. /\ response' \in [Connections -> {"none", "ok"} \cup Failures]
        /\ response'[c] = code
        /\ \A d \in Connections \ {c} : response'[d] = response[d]
    BY <1>0, <1>10 DEF Respond, TypeOK
  <2>2. served[c] = answered[c] + 1 /\ (code = "ok" => entitledAt[c])
    BY <1>0, <1>10 DEF TcpInv, LockStep, EveryFrameReauthorized
  <2>3. QED
    BY <1>0, <1>10, <2>1, <2>2, HoldingMove DEF Respond, TypeOK, Holding
<1>11. ASSUME NEW c \in Connections, AuthorizeRefused(c) \/ List(c) PROVE TcpInv'
  BY <1>10, <1>11 DEF AuthorizeRefused, List, Failures
<1>12. ASSUME NEW c \in Connections, SendDone(c) PROVE TcpInv'
  <2>1. /\ stage[c] = "sending" /\ served[c] = answered[c] + 1
        /\ answered' = [answered EXCEPT ![c] = @ + 1]
        /\ response' = [response EXCEPT ![c] = "none"]
        /\ UNCHANGED <<listening, entitled, entitledAt, served>>
    BY <1>0, <1>12 DEF SendDone, Sent, TcpInv, LockStep
  <2>2. /\ answered' \in [Connections -> 0 .. MaxRequests] /\ answered'[c] = served[c]
        /\ response' \in [Connections -> {"none", "ok"} \cup Failures] /\ response'[c] = "none"
    BY <1>0, <2>1 DEF TypeOK
  <2>3. CASE served[c] = MaxRequests
    <3>1. stage' = [stage EXCEPT ![c] = "closed"] /\ permits' = permits + 1
      BY <1>12, <2>3 DEF SendDone, GoTo
    <3>2. PermitsConserved' /\ permits' \in 0 .. MaxConnections
      BY <1>0, <2>1, <3>1, PermitMoves DEF TcpInv, Holding, Stages
    <3>3. TypeOK' /\ Unread' /\ NoLeftover' /\ Marked' /\ EveryFrameReauthorized'
      BY <2>1, <2>2, <3>1, <3>2
         DEF TcpInv, TypeOK, Unread, NoLeftover, Marked, EveryFrameReauthorized, Stages
    <3>4. LockStep'
      BY <1>0, <2>1, <2>2, <3>1 DEF TcpInv, LockStep, TypeOK
    <3>5. QED  BY <3>2, <3>3, <3>4 DEF TcpInv
  <2>4. CASE served[c] # MaxRequests
    <3>1. GoTo(c, "reading") /\ UNCHANGED permits
      BY <1>12, <2>4 DEF SendDone
    <3>2. served[c] < MaxRequests
      BY <1>0, <2>4 DEF TypeOK
    <3>3. QED
      BY <1>0, <2>1, <2>2, <3>1, <3>2, HoldingMove DEF TypeOK, Holding
  <2>5. QED  BY <2>3, <2>4
<1>13. ASSUME NEW c \in Revocable, Revoke(c) PROVE TcpInv'
  <2>1. /\ entitled' = [entitled EXCEPT ![c] = FALSE] /\ c \in Connections
        /\ UNCHANGED <<listening, permits, stage, served, answered, response, entitledAt>>
    BY <1>13, ServerAssumption DEF Revoke
  <2>2. QED
    BY <2>1 DEF TcpInv, TypeOK, Unread, NoLeftover, Marked, EveryFrameReauthorized,
       LockStep, PermitsConserved
<1>14. ASSUME NEW c \in Revocable, Grant(c) PROVE TcpInv'
  <2>1. /\ entitled' = [entitled EXCEPT ![c] = TRUE] /\ c \in Connections
        /\ entitledAt' = [entitledAt EXCEPT ![c] = TRUE]
        /\ UNCHANGED <<listening, permits, stage, served, answered, response>>
    BY <1>14, ServerAssumption DEF Grant
  <2>2. QED
    BY <2>1 DEF TcpInv, TypeOK, Unread, NoLeftover, Marked, EveryFrameReauthorized,
       LockStep, PermitsConserved
<1>15. CASE UNCHANGED vars
  BY <1>15 DEF vars, TcpInv, TypeOK, Unread, NoLeftover, Marked, EveryFrameReauthorized,
     LockStep, PermitsConserved
<1>16. QED
  BY <1>1, <1>2, <1>3, <1>4, <1>5, <1>6, <1>7, <1>8, <1>9, <1>11, <1>12, <1>13, <1>14, <1>15
     DEF Next, Admit, Answer

(* TcpInv is inductive. *)
LEMMA TcpInvariant == Spec => []TcpInv
  BY TcpInit, TcpStep, PTL DEF Spec

-----------------------------------------------------------------------------
(* The server's variables keep their types: in particular the semaphore     *)
(* never holds more permits than it was created with, and no connection     *)
(* counts beyond max_requests_per_connection.                               *)
THEOREM TcpTyped == Spec => []TypeOK
<1>1. TcpInv => TypeOK
  BY DEF TcpInv
<1>2. QED  BY <1>1, TcpInvariant, PTL

(* PermitsConserved: no path out of Server::serve's connection tasks loses  *)
(* a permit or returns one twice, for any number of connections.            *)
THEOREM NoPermitLost == Spec => []PermitsConserved
<1>1. TcpInv => PermitsConserved
  BY DEF TcpInv
<1>2. QED  BY <1>1, TcpInvariant, PTL

(* LockStep: handle_connection answers each frame before it reads the next  *)
(* and stops at its limit.                                                  *)
THEOREM AnswersKeepStep == Spec => []LockStep
<1>1. TcpInv => LockStep
  BY DEF TcpInv
<1>2. QED  BY <1>1, TcpInvariant, PTL

(* EveryFrameReauthorized: execute never lists cases for a frame whose      *)
(* caller has had no session or membership since the frame was read.        *)
THEOREM NoStaleAuthorization == Spec => []EveryFrameReauthorized
<1>1. TcpInv => EveryFrameReauthorized
  BY DEF TcpInv
<1>2. QED  BY <1>1, TcpInvariant, PTL
=============================================================================
