------------------------------ MODULE TcpServer ------------------------------
(***************************************************************************)
(* The stateful avenue: transport::tcp of src/transport.rs.  One task       *)
(* accepts connections; each accepted one takes a permit of a semaphore and *)
(* gets a task of its own that performs the TLS handshake, then reads at    *)
(* most MaxRequests frames, answering each before it reads the next.  A     *)
(* connection for which there is no permit is dropped.  Reading a frame and *)
(* sending a response are bounded by the idle timeout; the handshake is     *)
(* not.  Every frame carries a bearer that is introspected anew.            *)
(***************************************************************************)
EXTENDS Naturals, FiniteSets

CONSTANTS
  Connections,    \* client connections; each is used once
  MaxConnections, \* permits: APME_API_TCP_MAX_CONNECTIONS
  MaxRequests,    \* APME_API_TCP_MAX_REQUESTS_PER_CONNECTION
  Revocable       \* connections whose client may lose and regain session or membership

ASSUME ServerAssumption ==
  /\ MaxConnections \in 1 .. 4096 /\ MaxRequests \in 1 .. 4096   \* bounded_env
  /\ IsFiniteSet(Connections) /\ Revocable \subseteq Connections

(* What a frame may be: not a FrameRequest; a bearer authorize_token rejects *)
(* unseen; a well-formed request.                                           *)
Frames == {"garbage", "badToken", "request"}
Failures ==
  {"invalid_request", "unauthorized", "forbidden", "temporarily_unavailable",
   "response_too_large"}

Stages ==
  {"none", "backlog", "handshake", "reading", "authorize", "list", "sending", "closed"}
Holding == {"handshake", "reading", "authorize", "list", "sending"}

VARIABLES
  listening,  \* the accept loop runs
  permits,    \* permits left in the semaphore
  stage,      \* what each connection's task waits for
  served,     \* frames read on the connection
  answered,   \* responses sent
  response,   \* the response being sent
  entitled,   \* the session is alive and the membership active
  \* history, read by no action
  entitledAt  \* entitled at some moment since the last frame was read

vars == <<listening, permits, stage, served, answered, response, entitled, entitledAt>>

(* The type invariant, with the bounds of Config. *)
TypeOK ==
  /\ listening \in BOOLEAN
  /\ permits \in 0 .. MaxConnections
  /\ stage \in [Connections -> Stages]
  /\ served \in [Connections -> 0 .. MaxRequests]
  /\ answered \in [Connections -> 0 .. MaxRequests]
  /\ response \in [Connections -> {"none", "ok"} \cup Failures]
  /\ entitled \in [Connections -> BOOLEAN]
  /\ entitledAt \in [Connections -> BOOLEAN]

Init ==
  /\ listening = TRUE
  /\ permits = MaxConnections
  /\ stage = [c \in Connections |-> "none"]
  /\ served = [c \in Connections |-> 0]
  /\ answered = [c \in Connections |-> 0]
  /\ response = [c \in Connections |-> "none"]
  /\ entitled = [c \in Connections |-> TRUE]
  /\ entitledAt = [c \in Connections |-> FALSE]

GoTo(c, next) == stage' = [stage EXCEPT ![c] = next]

-----------------------------------------------------------------------------
(* The accept loop: Server::serve. *)

Connect(c) ==
  /\ stage[c] = "none"
  /\ GoTo(c, "backlog")
  /\ UNCHANGED <<listening, permits, served, answered, response, entitled, entitledAt>>

Accept(c) ==
  /\ listening /\ stage[c] = "backlog"
  /\ permits > 0
  /\ permits' = permits - 1
  /\ GoTo(c, "handshake")
  /\ UNCHANGED <<listening, served, answered, response, entitled, entitledAt>>

(* try_acquire_owned fails: the stream is dropped. *)
AcceptDropped(c) ==
  /\ listening /\ stage[c] = "backlog"
  /\ permits = 0
  /\ GoTo(c, "closed")
  /\ UNCHANGED <<listening, permits, served, answered, response, entitled, entitledAt>>

(* The shutdown signal, or an error of accept(): the task ends, what waits  *)
(* in the backlog is reset, and connections already accepted go on.         *)
StopListening ==
  /\ listening
  /\ listening' = FALSE
  /\ stage' = [c \in Connections |-> IF stage[c] = "backlog" THEN "closed" ELSE stage[c]]
  /\ UNCHANGED <<permits, served, answered, response, entitled, entitledAt>>

Refused(c) ==
  /\ ~listening /\ stage[c] = "backlog"
  /\ GoTo(c, "closed")
  /\ UNCHANGED <<listening, permits, served, answered, response, entitled, entitledAt>>

-----------------------------------------------------------------------------
(* A connection's task. *)

(* The task ends and drops its permit. *)
Close(c) ==
  /\ GoTo(c, "closed")
  /\ permits' = permits + 1
  /\ UNCHANGED <<listening, served, answered, response, entitled, entitledAt>>

(* The handshake goes as far as the client takes it: nothing bounds it. *)
HandshakeDone(c) ==
  /\ stage[c] = "handshake"
  /\ GoTo(c, "reading")
  /\ UNCHANGED <<listening, permits, served, answered, response, entitled, entitledAt>>

(* Mutant of HandshakeFails: the permit is forgotten on the early return. *)
HandshakeFailsLeaking(c) ==
  /\ stage[c] = "handshake"
  /\ GoTo(c, "closed")
  /\ UNCHANGED <<listening, permits, served, answered, response, entitled, entitledAt>>

HandshakeFails(c) ==
  /\ stage[c] = "handshake"
  /\ Close(c)

(* framed.next() yields a frame; execute decodes it and checks the bearer's *)
(* form before it waits.                                                    *)
ReadFrame(c) ==
  /\ stage[c] = "reading"
  /\ served[c] < MaxRequests
  /\ \E f \in Frames :
       IF f = "request"
       THEN GoTo(c, "authorize") /\ UNCHANGED response
       ELSE /\ GoTo(c, "sending")
            /\ response' = [response EXCEPT ![c] =
                              IF f = "garbage" THEN "invalid_request" ELSE "unauthorized"]
  /\ served' = [served EXCEPT ![c] = @ + 1]
  /\ entitledAt' = [entitledAt EXCEPT ![c] = entitled[c]]
  /\ UNCHANGED <<listening, permits, answered, entitled>>

(* The idle timeout, the end of the stream, or a frame that cannot be read. *)
ReadEnds(c) ==
  /\ stage[c] = "reading"
  /\ Close(c)

(* authorize_token lets the frame through. *)
Pass(c) ==
  /\ stage[c] = "authorize"
  /\ GoTo(c, "list")
  /\ UNCHANGED <<listening, permits, served, answered, response, entitled, entitledAt>>

(* Mutant of Authorize: a connection authorized once stays authorized. *)
AuthorizeOnce(c) == (entitled[c] \/ answered[c] > 0) /\ Pass(c)

(* Introspection and membership, as they are now. *)
Authorize(c) == entitled[c] /\ Pass(c)

Respond(c, code) ==
  /\ GoTo(c, "sending")
  /\ response' = [response EXCEPT ![c] = code]
  /\ UNCHANGED <<listening, permits, served, answered, entitled, entitledAt>>

AuthorizeRefused(c) ==
  /\ stage[c] = "authorize"
  /\ \/ ~entitled[c] /\ \E code \in {"unauthorized", "forbidden"} : Respond(c, code)
     \/ Respond(c, "temporarily_unavailable")

(* list_cases, and the size of what it returns. *)
List(c) ==
  /\ stage[c] = "list"
  /\ \E code \in {"ok", "temporarily_unavailable", "response_too_large"} : Respond(c, code)

(* The client has taken a response. *)
Sent(c) ==
  /\ stage[c] = "sending"
  /\ answered' = [answered EXCEPT ![c] = @ + 1]
  /\ response' = [response EXCEPT ![c] = "none"]
  /\ UNCHANGED <<listening, entitled, entitledAt>>

(* Mutants of SendDone: the loop runs once more than configured; the permit *)
(* is released with every response; the count starts anew with every frame. *)
SendDoneUncounted(c) ==
  Sent(c) /\ GoTo(c, "reading") /\ UNCHANGED <<permits, served>>
SendDoneReleasing(c) ==
  /\ Sent(c) /\ UNCHANGED served
  /\ permits' = permits + 1
  /\ GoTo(c, IF served[c] = MaxRequests THEN "closed" ELSE "reading")
SendDoneRestarting(c) ==
  /\ stage[c] = "sending" /\ GoTo(c, "reading")
  /\ served' = [served EXCEPT ![c] = 0]
  /\ response' = [response EXCEPT ![c] = "none"]
  /\ UNCHANGED <<listening, permits, answered, entitled, entitledAt>>

(* The response is out; the connection ends after its last frame. *)
SendDone(c) ==
  /\ Sent(c) /\ UNCHANGED served
  /\ IF served[c] = MaxRequests
     THEN GoTo(c, "closed") /\ permits' = permits + 1
     ELSE GoTo(c, "reading") /\ UNCHANGED permits

(* The response timeout, or a broken connection. *)
SendFails(c) ==
  /\ stage[c] = "sending"
  /\ Close(c)

(* The session is revoked or the membership ends. *)
Revoke(c) ==
  /\ entitled[c]
  /\ entitled' = [entitled EXCEPT ![c] = FALSE]
  /\ UNCHANGED <<listening, permits, stage, served, answered, response, entitledAt>>

(* The client signs in again, or is made a member again. *)
Grant(c) ==
  /\ ~entitled[c]
  /\ entitled' = [entitled EXCEPT ![c] = TRUE]
  /\ entitledAt' = [entitledAt EXCEPT ![c] = TRUE]
  /\ UNCHANGED <<listening, permits, stage, served, answered, response>>

-----------------------------------------------------------------------------
(* What a connection's task does by itself once the handshake is over: a    *)
(* read ends with a frame or with the timeout, a send with success or with  *)
(* the timeout, and the two calls of execute answer or fail.                *)
Answer(c) ==
  \/ ReadFrame(c) \/ ReadEnds(c)
  \/ Authorize(c) \/ AuthorizeRefused(c) \/ List(c)
  \/ SendDone(c) \/ SendFails(c)

Admit(c) == Accept(c) \/ AcceptDropped(c) \/ Refused(c)

Next ==
  \/ StopListening
  \/ \E c \in Connections :
       Connect(c) \/ Admit(c) \/ HandshakeDone(c) \/ HandshakeFails(c) \/ Answer(c)
  \/ \E c \in Revocable : Revoke(c) \/ Grant(c)

Spec == Init /\ [][Next]_vars

(* The accept loop and the tasks run, timers fire.  A client owes nothing:  *)
(* it need not connect, and it need not take part in the handshake.         *)
FairSpec ==
  Spec /\ \A c \in Connections : WF_vars(Admit(c)) /\ WF_vars(Answer(c))

-----------------------------------------------------------------------------
(* Properties. *)

(* Every permit is in the semaphore or with exactly one unfinished          *)
(* connection, on every path a task can end by: never more than             *)
(* MaxConnections tasks, and no permit lost for good.                       *)
PermitsConserved ==
  permits + Cardinality({c \in Connections : stage[c] \in Holding}) = MaxConnections

(* Responses keep step with frames: each is answered before the next is     *)
(* read, and no connection is served more than MaxRequests.                 *)
LockStep ==
  \A c \in Connections :
    CASE stage[c] \in {"authorize", "list", "sending"} -> served[c] = answered[c] + 1
      [] stage[c] = "reading" -> served[c] = answered[c] /\ served[c] < MaxRequests
      [] OTHER -> served[c] <= answered[c] + 1

(* A frame is answered with cases only if its caller was entitled at some   *)
(* moment since that very frame was read, however many frames of the        *)
(* connection went well before, and however often the session or the        *)
(* membership is lost and regained: execute authorizes every frame.         *)
EveryFrameReauthorized ==
  \A c \in Connections : stage[c] = "list" \/ response[c] = "ok" => entitledAt[c]

(* Once its handshake is over a connection ends, whatever its client does.  *)
EstablishedConnectionsEnd ==
  \A c \in Connections : stage[c] = "reading" ~> stage[c] = "closed"

(* README.md, on this avenue: "Connections are mTLS-only, length-delimited, *)
(* concurrency/idle/request-count bounded".  A connection that was accepted *)
(* ends.                                                                    *)
AcceptedConnectionsEnd ==
  \A c \in Connections : stage[c] = "handshake" ~> stage[c] = "closed"
=============================================================================
