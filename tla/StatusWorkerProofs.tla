------------------------- MODULE StatusWorkerProofs -------------------------
(***************************************************************************)
(* Proofs about StatusWorker: for every set of signals, operations and      *)
(* workers, every set of topologies a broker may be provisioned with, and   *)
(* whatever the bounds on starts and expiries.                              *)
(***************************************************************************)
EXTENDS StatusWorker, TLAPS

-----------------------------------------------------------------------------
(***************************************************************************)
(* The strengthening.  A worker runs, and a signal leaves the ready state,  *)
(* only on a topology that was validated; a worker is given signals that    *)
(* were sent, and is where decode_signal put it; the worker that is about   *)
(* to ack, and every ack on its way, has an answer behind it; an operation  *)
(* has a response for each time its id was forgotten, and one more only     *)
(* while its id is remembered; and no delivery of an unanswered signal is   *)
(* anywhere but with a worker, among the dropped or among the missed.       *)
(***************************************************************************)
Running == \A w \in Workers : stage[w] # "stopped" => Validated
Served ==
  \A m \in Signals : queue[m] \notin {"absent", "ready"} \/ m \in acks => Validated

Sent ==
  \A w \in Workers : \A d \in buffer[w] \cup {held[w]} :
    d # NoDelivery => queue[d[1]] # "absent"
Decoded ==
  \A w \in Workers :
    /\ stage[w] \in {"publish", "acknowledge"} => Valid(held[w][1])
    /\ stage[w] = "terminate" => ~Valid(held[w][1])

Confirmed ==
  /\ \A w \in Workers : stage[w] = "acknowledge" => ~Unanswered(held[w][1])
  /\ \A m \in acks : ~Unanswered(m)

Windows ==
  \A o \in Operations :
    /\ stored[o] <= forgotten[o] + (IF o \in remembered THEN 1 ELSE 0)
    /\ o \in remembered => stored[o] > 0
Asked ==
  \A o \in Operations : stored[o] > 0 =>
    \E m \in Signals : Asks(m, o) /\ queue[m] # "absent"

Known == dropped \cup missed \cup UNION {buffer[w] \cup {held[w]} : w \in Workers}
Traced ==
  \A m \in Signals : Unanswered(m) => \A n \in 1 .. deliveries[m] : <<m, n>> \in Known
GivenUp == \A m \in Signals : queue[m] = "exhausted" => deliveries[m] >= 2

WorkerInv ==
  /\ TypeOK /\ Running /\ Served /\ Sent /\ Decoded /\ Confirmed
  /\ RemovedOnlyIfAnswered /\ Windows /\ Asked /\ Traced /\ GivenUp

-----------------------------------------------------------------------------
(* The ways a worker's task ends, but for the one that publishes first. *)
Ends(w) == stage[w] # "stopped" /\ Stop(w) /\ UNCHANGED <<broker, starts>>

(* The steps of the broker, of a worker, and of what makes a worker end. *)
LEMMA WorkerCases ==
  ASSUME TypeOK, [Next]_vars
  PROVE  \/ UNCHANGED vars
         \/ \E m \in Signals : Send(m) \/ AckWaitExpires(m) \/ AckArrives(m) \/ AckLost(m)
         \/ \E o \in Operations : ForgetId(o)
         \/ \E w \in Workers, m \in Signals : Deliver(w, m) \/ DeliveryLost(w, m)
         \/ \E w \in Workers : \/ Connect(w) \/ Receive(w) \/ PublishResponse(w)
                               \/ Acknowledge(w) \/ PublishUnconfirmed(w) \/ Ends(w)
  BY DEF Next, Work, Ends, PublishFails, AcknowledgeFails, LeaveLoop, Crash

(* decode_signal yields the operation of a valid signal, and of no other. *)
LEMMA Decoding ==
  ASSUME NEW m \in Signals
  PROVE  /\ DecodeSignal(m) = Invalid <=> ~Valid(m)
         /\ PayloadOf[m].operation \in Operations
         /\ Valid(m) => DecodeSignal(m) = PayloadOf[m].operation
  BY WorkerAssumption DEF DecodeSignal, Valid, Payloads

(* A delivery names its signal and how often it was delivered. *)
LEMMA DeliveryParts ==
  ASSUME NEW d \in Deliveries
  PROVE  d[1] \in Signals /\ d[2] \in Nat /\ d = <<d[1], d[2]>> /\ d # NoDelivery
  BY WorkerAssumption DEF Deliveries

(* What a worker holds while it publishes or acknowledges. *)
LEMMA Holding ==
  ASSUME TypeOK, NEW w \in Workers, stage[w] \in {"publish", "acknowledge", "terminate"}
  PROVE  held[w] \in Deliveries /\ held[w][1] \in Signals
<1>1. held[w] \in Deliveries
  BY DEF TypeOK
<1>2. QED  BY <1>1, DeliveryParts

(* The operation a worker publishes is the one its signal asks for. *)
LEMMA Publishing ==
  ASSUME TypeOK, Decoded, NEW w \in Workers, stage[w] = "publish"
  PROVE  /\ held[w][1] \in Signals /\ Valid(held[w][1])
         /\ DecodeSignal(held[w][1]) = PayloadOf[held[w][1]].operation
         /\ DecodeSignal(held[w][1]) \in Operations
<1>1. held[w][1] \in Signals /\ Valid(held[w][1])
  BY Holding DEF Decoded
<1>2. QED  BY <1>1, Decoding

(* A worker that publishes leaves its operation with a response, whose id   *)
(* the broker remembers: the worker insisted on a duplicate window.         *)
LEMMA Storing ==
  ASSUME TypeOK, Running, Decoded, Windows, NEW w \in Workers, stage[w] = "publish",
         Store(DecodeSignal(held[w][1]))
  PROVE  LET o == DecodeSignal(held[w][1]) IN
         /\ remembered' = remembered \cup {o}
         /\ stored' \in [Operations -> Nat] /\ stored'[o] > 0
         /\ stored'[o] = stored[o] + (IF o \in remembered THEN 0 ELSE 1)
         /\ \A p \in Operations : p # o => stored'[p] = stored[p]
<1> DEFINE o == DecodeSignal(held[w][1])
<1>1. o \in Operations
  BY Publishing
<1>2. remembered' = remembered \cup {o}
  BY DEF Store, Running, Validated, ValidateResponseStream
<1>3. stored \in [Operations -> Nat] /\ (o \in remembered => stored[o] > 0)
  BY <1>1 DEF TypeOK, Windows
<1>4. CASE o \in remembered
  <2>1. stored' = stored
    BY <1>4 DEF Store
  <2>2. QED  BY <1>1, <1>2, <1>3, <1>4, <2>1
<1>5. CASE o \notin remembered
  <2>1. stored' = [stored EXCEPT ![o] = @ + 1]
    BY <1>5 DEF Store
  <2>2. QED  BY <1>1, <1>2, <1>3, <1>5, <2>1
<1>6. QED  BY <1>4, <1>5

(* Responses are never taken back, so an answered signal stays answered. *)
LEMMA AnswersStay ==
  ASSUME TypeOK, Running, Decoded, Windows, [Next]_vars
  PROVE  \A m \in Signals : Unanswered(m)' => Unanswered(m)
<1>1. CASE UNCHANGED stored
  BY <1>1 DEF Unanswered, Valid
<1>2. ASSUME NEW w \in Workers, PublishResponse(w) \/ PublishUnconfirmed(w)
      PROVE  \A m \in Signals : Unanswered(m)' => Unanswered(m)
  <2>1. stage[w] = "publish" /\ Store(DecodeSignal(held[w][1]))
    BY <1>2 DEF PublishResponse, PublishUnconfirmed
  <2>2. \A p \in Operations : stored'[p] >= stored[p]
    <3>1. stored \in [Operations -> Nat] /\ DecodeSignal(held[w][1]) \in Operations
      BY <2>1, Publishing DEF TypeOK
    <3>2. QED  BY <2>1, <3>1, Storing
  <2>3. \A m \in Signals : PayloadOf[m].operation \in Operations
    BY Decoding
  <2>4. \A m \in Signals : stored[PayloadOf[m].operation] \in Nat
    BY <2>3 DEF TypeOK
  <2>5. QED  BY <2>2, <2>3, <2>4 DEF Unanswered, Valid
<1>3. QED
  BY <1>1, <1>2, WorkerCases DEF vars, Send, AckWaitExpires, AckArrives, AckLost,
     ForgetId,
     Deliver, DeliveryLost, HandOut, Connect, Receive, Acknowledge, SendAck, Ends, broker

(* A sent signal is never unsent, and the topology never changes. *)
LEMMA SentStays ==
  ASSUME TypeOK, [Next]_vars
  PROVE  /\ \A m \in Signals : queue[m] # "absent" => queue'[m] # "absent"
         /\ UNCHANGED topology /\ (Validated' <=> Validated)
<1>1. queue \in [Signals -> {"absent", "ready", "leased", "exhausted", "removed"}]
  BY DEF TypeOK
<1>2. UNCHANGED topology /\ \A m \in Signals : queue[m] # "absent" => queue'[m] # "absent"
  BY <1>1, WorkerCases DEF vars, Send, AckWaitExpires, AckArrives, AckLost, ForgetId,
     Deliver, DeliveryLost, HandOut, Connect, Receive, PublishResponse,
     PublishUnconfirmed, Acknowledge, SendAck, Ends, broker
<1>3. QED  BY <1>2 DEF Validated

-----------------------------------------------------------------------------
(* WorkerInv is inductive, part by part. *)

(* The end of a worker's task leaves the types alone. *)
LEMMA StopTyped ==
  ASSUME TypeOK, NEW w \in Workers, stage[w] # "stopped", Stop(w)
  PROVE  /\ stage' \in [Workers -> Stages] /\ buffer' \in [Workers -> SUBSET Deliveries]
         /\ held' \in [Workers -> Deliveries \cup {NoDelivery}]
         /\ dropped' \in SUBSET Deliveries
         /\ \A v \in Workers : held'[v] = NoDelivery <=> stage'[v] \in {"stopped", "idle"}
  BY DEF TypeOK, Stop, Drop, Stages

(* Types are preserved. *)
LEMMA TypeStep ==
  ASSUME TypeOK, Running, Decoded, Windows, [Next]_vars
  PROVE  TypeOK'
<1>1. ASSUME NEW m \in Signals, Send(m) \/ AckWaitExpires(m) \/ AckArrives(m) \/ AckLost(m)
      PROVE  TypeOK'
  BY <1>1 DEF TypeOK, Send, AckWaitExpires, AckArrives, AckLost, worker
<1>2. ASSUME NEW o \in Operations, ForgetId(o) PROVE TypeOK'
  <2>1. forgotten' \in [Operations -> 0 .. MaxExpiries]
    BY <1>2, WorkerAssumption DEF TypeOK, ForgetId
  <2>2. QED  BY <1>2, <2>1 DEF TypeOK, ForgetId, worker
<1>3. ASSUME NEW w \in Workers, NEW m \in Signals, Deliver(w, m) \/ DeliveryLost(w, m)
      PROVE  TypeOK'
  <2>1. queue' \in [Signals -> {"absent", "ready", "leased", "exhausted", "removed"}]
    BY <1>3 DEF TypeOK, Deliver, DeliveryLost, HandOut
  <2>2. deliveries' \in [Signals -> Nat] /\ deliveries[m] + 1 \in Nat
    BY <1>3 DEF TypeOK, Deliver, DeliveryLost, HandOut
  <2>3. buffer' \in [Workers -> SUBSET Deliveries] /\ missed' \in SUBSET Deliveries
    <3>1. <<m, deliveries[m] + 1>> \in Deliveries
      BY <2>2 DEF Deliveries
    <3>2. QED  BY <1>3, <3>1 DEF TypeOK, Deliver, DeliveryLost, HandOut
  <2>4. QED  BY <1>3, <2>1, <2>2, <2>3 DEF TypeOK, Deliver, DeliveryLost, HandOut
<1>4. ASSUME NEW w \in Workers, Connect(w) PROVE TypeOK'
  <2>1. /\ stage' \in [Workers -> Stages] /\ starts' \in 0 .. MaxStarts
        /\ \A v \in Workers : stage'[v] \in {"stopped", "idle"} <=> stage[v] \in {"stopped", "idle"}
    BY <1>4, WorkerAssumption DEF TypeOK, Connect, Stages
  <2>2. QED  BY <1>4, <2>1 DEF TypeOK, Connect, broker
<1>5. ASSUME NEW w \in Workers, Receive(w) PROVE TypeOK'
  <2>1. PICK d \in buffer[w] :
          /\ buffer' = [buffer EXCEPT ![w] = @ \ {d}]
          /\ held' = [held EXCEPT ![w] = d]
          /\ stage' = [stage EXCEPT ![w] =
                         IF DecodeSignal(d[1]) = Invalid THEN "terminate" ELSE "publish"]
    BY <1>5 DEF Receive
  <2>2. d \in Deliveries /\ d # NoDelivery
    BY WorkerAssumption DEF TypeOK
  <2>3. /\ buffer' \in [Workers -> SUBSET Deliveries] /\ stage' \in [Workers -> Stages]
        /\ held' \in [Workers -> Deliveries \cup {NoDelivery}]
        /\ \A v \in Workers : held'[v] = NoDelivery <=> stage'[v] \in {"stopped", "idle"}
    BY <2>1, <2>2 DEF TypeOK, Stages
  <2>4. QED  BY <1>5, <2>3 DEF TypeOK, Receive, broker
<1>6. ASSUME NEW w \in Workers, PublishResponse(w) PROVE TypeOK'
  <2>1. stored' \in [Operations -> Nat] /\ remembered' \in SUBSET Operations
    BY <1>6, Storing, Publishing DEF PublishResponse, TypeOK
  <2>2. /\ stage' \in [Workers -> Stages]
        /\ \A v \in Workers : stage'[v] \in {"stopped", "idle"} <=> stage[v] \in {"stopped", "idle"}
    BY <1>6 DEF TypeOK, PublishResponse, Stages
  <2>3. QED  BY <1>6, <2>1, <2>2 DEF TypeOK, PublishResponse
<1>7. ASSUME NEW w \in Workers, Acknowledge(w) PROVE TypeOK'
  <2>1. acks' \in SUBSET Signals
    BY <1>7, Holding DEF TypeOK, Acknowledge, SendAck
  <2>2. /\ stage' \in [Workers -> Stages]
        /\ held' \in [Workers -> Deliveries \cup {NoDelivery}]
        /\ \A v \in Workers : held'[v] = NoDelivery <=> stage'[v] \in {"stopped", "idle"}
    BY <1>7 DEF TypeOK, Acknowledge, SendAck, Stages
  <2>3. QED  BY <1>7, <2>1, <2>2 DEF TypeOK, Acknowledge, SendAck
<1>8. ASSUME NEW w \in Workers, PublishUnconfirmed(w) PROVE TypeOK'
  <2>1. stored' \in [Operations -> Nat] /\ remembered' \in SUBSET Operations
    BY <1>8, Storing, Publishing DEF PublishUnconfirmed, TypeOK
  <2>2. QED  BY <1>8, <2>1, StopTyped DEF TypeOK, PublishUnconfirmed
<1>9. ASSUME NEW w \in Workers, Ends(w) PROVE TypeOK'
  BY <1>9, StopTyped DEF TypeOK, Ends, broker
<1>10. CASE UNCHANGED vars
  BY <1>10 DEF TypeOK, vars
<1>11. QED
  BY <1>1, <1>2, <1>3, <1>4, <1>5, <1>6, <1>7, <1>8, <1>9, <1>10, WorkerCases

(* A worker is started, and a signal delivered, on a validated topology. *)
LEMMA ValidatedStep ==
  ASSUME TypeOK, Running, Served, [Next]_vars
  PROVE  Running' /\ Served'
<1>1. Validated' <=> Validated
  BY SentStays
<1>2. ASSUME NEW w \in Workers, stage'[w] # "stopped" PROVE Validated
  <2>1. CASE stage[w] # "stopped"
    BY <2>1 DEF Running
  <2>2. CASE stage[w] = "stopped"
    <3>1. \E v \in Workers : Connect(v) /\ stage'[v] # "stopped"
      BY <1>2, <2>2, WorkerCases DEF TypeOK, vars, Send, AckWaitExpires, AckArrives,
         AckLost, ForgetId, Deliver, DeliveryLost, HandOut, Connect, Receive,
         PublishResponse, PublishUnconfirmed, Acknowledge, SendAck, Ends, Stop, Drop,
         worker
    <3>2. QED  BY <3>1 DEF Connect, TypeOK
  <2>3. QED  BY <2>1, <2>2
<1>3. ASSUME NEW m \in Signals, queue'[m] \notin {"absent", "ready"} \/ m \in acks'
      PROVE  Validated
  <2>1. CASE queue[m] \notin {"absent", "ready"} \/ m \in acks
    BY <2>1 DEF Served
  <2>2. CASE queue[m] \in {"absent", "ready"} /\ m \notin acks
    <3>1. \E w \in Workers : stage[w] # "stopped"
      BY <1>3, <2>2, WorkerCases DEF TypeOK, vars, Send, AckWaitExpires, AckArrives,
         AckLost, ForgetId, Deliver, DeliveryLost, HandOut, Connect, Receive,
         PublishResponse, PublishUnconfirmed, Acknowledge, SendAck, Ends, broker
    <3>2. QED  BY <3>1 DEF Running
  <2>3. QED  BY <2>1, <2>2
<1>4. QED  BY <1>1, <1>2, <1>3 DEF Running, Served

(* What one step can do to one worker's task. *)
LEMMA StageStep ==
  ASSUME TypeOK, [Next]_vars, NEW w \in Workers
  PROVE  \/ stage'[w] = stage[w] /\ held'[w] = held[w]
         \/ stage'[w] \in {"stopped", "idle"} /\ held'[w] = NoDelivery
         \/ Receive(w)
         \/ PublishResponse(w)
<1> USE DEF TypeOK
<1>1. ASSUME NEW v \in Workers, v # w,
             \/ Connect(v) \/ Receive(v) \/ PublishResponse(v)
             \/ Acknowledge(v) \/ PublishUnconfirmed(v) \/ Ends(v)
      PROVE  stage'[w] = stage[w] /\ held'[w] = held[w]
  BY <1>1 DEF Connect, Receive, PublishResponse, Acknowledge, SendAck, PublishUnconfirmed,
     Ends, Stop, Drop
<1>2. CASE Connect(w) \/ Acknowledge(w) \/ PublishUnconfirmed(w) \/ Ends(w)
  BY <1>2 DEF Connect, Acknowledge, SendAck, PublishUnconfirmed, Ends, Stop, Drop
<1>3. ASSUME \/ UNCHANGED vars
             \/ \E m \in Signals : Send(m) \/ AckWaitExpires(m) \/ AckArrives(m) \/ AckLost(m)
             \/ \E o \in Operations : ForgetId(o)
             \/ \E v \in Workers, m \in Signals : Deliver(v, m) \/ DeliveryLost(v, m)
      PROVE  stage'[w] = stage[w] /\ held'[w] = held[w]
  BY <1>3 DEF vars, Send, AckWaitExpires, AckArrives, AckLost, ForgetId, Deliver,
     DeliveryLost, HandOut, worker
<1>4. QED  BY <1>1, <1>2, <1>3, WorkerCases

(* What a worker has, it had or is just given. *)
LEMMA Handed ==
  ASSUME TypeOK, [Next]_vars, NEW w \in Workers,
         NEW d \in buffer'[w] \cup {held'[w]}, d # NoDelivery
  PROVE  \/ d \in buffer[w] \cup {held[w]}
         \/ \E m \in Signals : Deliver(w, m) /\ d = <<m, deliveries[m] + 1>>
<1> USE DEF TypeOK
<1>1. ASSUME NEW v \in Workers,
             \/ Connect(v) \/ PublishResponse(v) \/ Acknowledge(v) \/ PublishUnconfirmed(v)
             \/ Ends(v)
      PROVE  d \in buffer[w] \cup {held[w]}
  BY <1>1 DEF Connect, PublishResponse, Acknowledge, SendAck, PublishUnconfirmed,
     Ends, Stop, Drop
<1>2. ASSUME NEW v \in Workers, Receive(v)
      PROVE  d \in buffer[w] \cup {held[w]}
  BY <1>2 DEF Receive
<1>3. ASSUME NEW v \in Workers, NEW m \in Signals, Deliver(v, m)
      PROVE  \/ d \in buffer[w] \cup {held[w]}
             \/ Deliver(w, m) /\ d = <<m, deliveries[m] + 1>>
  <2>1. CASE v = w
    BY <1>3, <2>1 DEF Deliver, HandOut
  <2>2. CASE v # w
    BY <1>3, <2>2 DEF Deliver, HandOut
  <2>3. QED  BY <2>1, <2>2
<1>4. ASSUME \/ UNCHANGED vars
             \/ \E v \in Workers, m \in Signals : DeliveryLost(v, m)
             \/ \E m \in Signals : Send(m) \/ AckWaitExpires(m) \/ AckArrives(m) \/ AckLost(m)
             \/ \E o \in Operations : ForgetId(o)
      PROVE  d \in buffer[w] \cup {held[w]}
  BY <1>4 DEF vars, DeliveryLost, HandOut, Send, AckWaitExpires, AckArrives, AckLost,
     ForgetId, worker
<1>5. QED  BY <1>1, <1>2, <1>3, <1>4, WorkerCases

(* Workers are given signals that were sent. *)
LEMMA SentStep ==
  ASSUME TypeOK, TypeOK', Sent, [Next]_vars
  PROVE  Sent'
<1> SUFFICES ASSUME NEW w \in Workers, NEW d \in buffer'[w] \cup {held'[w]}, d # NoDelivery
    PROVE  queue'[d[1]] # "absent"
  BY DEF Sent
<1>1. d[1] \in Signals
  <2>1. d \in Deliveries
    BY DEF TypeOK
  <2>2. QED  BY <2>1, DeliveryParts
<1>2. CASE d \in buffer[w] \cup {held[w]}
  BY <1>1, <1>2, SentStays DEF Sent
<1>3. ASSUME NEW m \in Signals, Deliver(w, m), d = <<m, deliveries[m] + 1>>
      PROVE  queue'[d[1]] # "absent"
  BY <1>3 DEF Deliver, HandOut, TypeOK
<1>4. QED  BY <1>2, <1>3, Handed

(* A worker publishes for valid signals and terminates the others. *)
LEMMA DecodedStep ==
  ASSUME TypeOK, Decoded, [Next]_vars
  PROVE  Decoded'
<1> SUFFICES ASSUME NEW w \in Workers
    PROVE  /\ stage'[w] \in {"publish", "acknowledge"} => Valid(held'[w][1])
           /\ stage'[w] = "terminate" => ~Valid(held'[w][1])
  BY DEF Decoded, Valid
<1>1. CASE stage'[w] = stage[w] /\ held'[w] = held[w]
  BY <1>1 DEF Decoded
<1>2. CASE Receive(w)
  <2>1. PICK d \in buffer[w] :
          /\ held' = [held EXCEPT ![w] = d]
          /\ stage' = [stage EXCEPT ![w] =
                         IF DecodeSignal(d[1]) = Invalid THEN "terminate" ELSE "publish"]
    BY <1>2 DEF Receive
  <2>2. d[1] \in Signals
    BY DeliveryParts DEF TypeOK
  <2>3. DecodeSignal(d[1]) = Invalid <=> ~Valid(d[1])
    BY <2>2, Decoding
  <2>4. held'[w] = d /\ stage'[w] = IF ~Valid(d[1]) THEN "terminate" ELSE "publish"
    BY <2>1, <2>3 DEF TypeOK
  <2>5. QED  BY <2>4
<1>3. CASE PublishResponse(w)
  BY <1>3 DEF PublishResponse, Decoded, TypeOK
<1>4. QED  BY <1>1, <1>2, <1>3, StageStep

(* An ack has an answer behind it: the broker confirmed the response, or    *)
(* the signal asks for none.                                                *)
LEMMA ConfirmedStep ==
  ASSUME TypeOK, Running, Decoded, Windows, Confirmed, [Next]_vars
  PROVE  Confirmed'
<1>1. \A m \in Signals : ~Unanswered(m) => ~Unanswered(m)'
  BY AnswersStay
<1>2. ASSUME NEW w \in Workers, stage'[w] = "acknowledge"
      PROVE  ~(Valid(held'[w][1]) /\ stored'[PayloadOf[held'[w][1]].operation] = 0)
  <2>1. CASE stage'[w] = stage[w] /\ held'[w] = held[w]
    <3>1. held[w][1] \in Signals /\ ~Unanswered(held[w][1])
      BY <1>2, <2>1, Holding DEF Confirmed
    <3>2. QED  BY <1>1, <2>1, <3>1 DEF Unanswered, Valid
  <2>2. CASE PublishResponse(w)
    <3>1. /\ stage[w] = "publish" /\ Store(DecodeSignal(held[w][1])) /\ held' = held
      BY <2>2 DEF PublishResponse
    <3>2. stored'[DecodeSignal(held[w][1])] > 0
      BY <3>1, Storing
    <3>3. DecodeSignal(held[w][1]) = PayloadOf[held[w][1]].operation
      BY <3>1, Publishing
    <3>4. QED  BY <3>1, <3>2, <3>3
  <2>3. CASE Receive(w)
    BY <1>2, <2>3 DEF Receive, TypeOK
  <2>4. QED  BY <1>2, <2>1, <2>2, <2>3, StageStep
<1>3. ASSUME NEW m \in acks' PROVE ~Unanswered(m)'
  <2>1. CASE m \in acks
    BY <1>1, <2>1 DEF Confirmed, TypeOK
  <2>2. CASE m \notin acks
    <3>1. PICK w \in Workers : Acknowledge(w) /\ m = held[w][1]
      BY <1>3, <2>2, WorkerCases DEF vars, Send, AckWaitExpires, AckArrives, AckLost,
         ForgetId, Deliver, DeliveryLost, HandOut, Connect, Receive, PublishResponse,
         PublishUnconfirmed, Acknowledge, SendAck, Ends, broker
    <3>2. m \in Signals /\ ~Unanswered(m)
      BY <3>1, Holding DEF Acknowledge, Confirmed, Decoded, Unanswered
    <3>3. QED  BY <1>1, <3>2
  <2>3. QED  BY <2>1, <2>2
<1>4. QED  BY <1>2, <1>3 DEF Confirmed, Unanswered, Valid

(* A signal is removed by an ack, not by its delivery. *)
LEMMA RemovedStep ==
  ASSUME WorkerInv, [Next]_vars
  PROVE  RemovedOnlyIfAnswered'
<1> USE DEF WorkerInv
<1> SUFFICES ASSUME NEW m \in Signals, queue'[m] = "removed" PROVE ~Unanswered(m)'
  BY DEF RemovedOnlyIfAnswered
<1>1. ~Unanswered(m)
  <2>1. CASE queue[m] = "removed"
    BY <2>1 DEF RemovedOnlyIfAnswered
  <2>2. CASE queue[m] # "removed"
    <3>1. AckArrives(m) \/ \E w \in Workers : HandOut(w, m) /\ ~topology.consumer.explicit
      BY <2>2, WorkerCases DEF TypeOK, vars, Send, AckWaitExpires, AckArrives, AckLost,
         ForgetId, Deliver, DeliveryLost, HandOut, Connect, Receive, PublishResponse,
         PublishUnconfirmed, Acknowledge, SendAck, Ends, broker
    <3>2. CASE AckArrives(m)
      BY <3>2 DEF AckArrives, Confirmed
    <3>3. ASSUME NEW w \in Workers, HandOut(w, m) PROVE topology.consumer.explicit
      BY <3>3 DEF HandOut, Running, Validated, ValidateConsumer
    <3>4. QED  BY <3>1, <3>2, <3>3
  <2>3. QED  BY <2>1, <2>2
<1>2. QED  BY <1>1, AnswersStay

(* What changes the responses: a worker that publishes, seen or unseen. *)
LEMMA ResponsesStep ==
  ASSUME TypeOK, [Next]_vars
  PROVE  \/ UNCHANGED <<stored, remembered, forgotten>>
         \/ \E o \in Operations : ForgetId(o)
         \/ \E w \in Workers :
              /\ stage[w] = "publish" /\ Store(DecodeSignal(held[w][1]))
              /\ UNCHANGED <<queue, forgotten>>
  BY WorkerCases DEF vars, Send, AckWaitExpires, AckArrives, AckLost, Deliver,
     DeliveryLost, HandOut, Connect,
     Receive, PublishResponse, PublishUnconfirmed, Acknowledge, SendAck, Ends, broker

(* One response for each time an id was forgotten, one more while it is     *)
(* remembered.                                                              *)
LEMMA WindowsStep ==
  ASSUME TypeOK, Running, Decoded, Windows, [Next]_vars
  PROVE  Windows'
<1> SUFFICES ASSUME NEW o \in Operations
    PROVE  /\ stored'[o] <= forgotten'[o] + (IF o \in remembered' THEN 1 ELSE 0)
           /\ o \in remembered' => stored'[o] > 0
  BY DEF Windows
<1>0. /\ stored \in [Operations -> Nat] /\ forgotten \in [Operations -> 0 .. MaxExpiries]
      /\ stored[o] \in Nat /\ forgotten[o] \in Nat
      /\ stored[o] <= forgotten[o] + (IF o \in remembered THEN 1 ELSE 0)
      /\ o \in remembered => stored[o] > 0
  BY WorkerAssumption DEF TypeOK, Windows
<1>1. CASE UNCHANGED <<stored, remembered, forgotten>>
  BY <1>0, <1>1
<1>2. ASSUME NEW p \in Operations, ForgetId(p)
      PROVE  /\ stored'[o] <= forgotten'[o] + (IF o \in remembered' THEN 1 ELSE 0)
             /\ o \in remembered' => stored'[o] > 0
  <2>1. /\ p \in remembered /\ remembered' = remembered \ {p} /\ stored' = stored
        /\ forgotten' = [forgotten EXCEPT ![p] = @ + 1]
    BY <1>2 DEF ForgetId
  <2>2. CASE p = o
    BY <1>0, <2>1, <2>2
  <2>3. CASE p # o
    BY <1>0, <2>1, <2>3
  <2>4. QED  BY <2>2, <2>3
<1>3. ASSUME NEW w \in Workers, stage[w] = "publish", Store(DecodeSignal(held[w][1])),
             UNCHANGED forgotten
      PROVE  /\ stored'[o] <= forgotten'[o] + (IF o \in remembered' THEN 1 ELSE 0)
             /\ o \in remembered' => stored'[o] > 0
  <2>1. CASE o = DecodeSignal(held[w][1])
    BY <1>0, <1>3, <2>1, Storing
  <2>2. CASE o # DecodeSignal(held[w][1])
    BY <1>0, <1>3, <2>2, Storing
  <2>3. QED  BY <2>1, <2>2
<1>4. QED  BY <1>1, <1>2, <1>3, ResponsesStep

(* Nobody is answered who did not ask. *)
LEMMA AskedStep ==
  ASSUME WorkerInv, [Next]_vars
  PROVE  Asked'
<1> USE DEF WorkerInv
<1> SUFFICES ASSUME NEW o \in Operations, stored'[o] > 0
    PROVE  \E m \in Signals : Asks(m, o) /\ queue'[m] # "absent"
  BY DEF Asked, Asks, Valid
<1>1. CASE stored[o] > 0
  <2>1. PICK m \in Signals : Asks(m, o) /\ queue[m] # "absent"
    BY <1>1 DEF Asked
  <2>2. QED  BY <2>1, SentStays
<1>2. CASE ~(stored[o] > 0)
  <2>1. PICK w \in Workers :
          /\ stage[w] = "publish" /\ Store(DecodeSignal(held[w][1])) /\ UNCHANGED queue
    BY <1>2, ResponsesStep DEF ForgetId
  <2>2. DecodeSignal(held[w][1]) = o
    BY <1>2, <2>1, Storing
  <2>3. held[w][1] \in Signals /\ Asks(held[w][1], o)
    BY <2>1, <2>2, Publishing DEF Asks
  <2>4. held[w] # NoDelivery
    BY <2>1 DEF TypeOK
  <2>5. queue[held[w][1]] # "absent"
    BY <2>4 DEF Sent
  <2>6. QED  BY <2>1, <2>3, <2>5
<1>3. QED  BY <1>1, <1>2

(* A delivery leaves the workers' hands only to be dropped, or with an      *)
(* answer behind it.                                                        *)
LEMMA KnownStep ==
  ASSUME TypeOK, Decoded, Confirmed, [Next]_vars,
         NEW m \in Signals, Unanswered(m), NEW n \in Nat, <<m, n>> \in Known
  PROVE  <<m, n>> \in Known'
<1> DEFINE d == <<m, n>>
<1> USE DEF TypeOK
<1>0. d \in Deliveries /\ d # NoDelivery
  BY WorkerAssumption DEF Deliveries
<1>1. CASE d \in dropped \cup missed
  <2>1. dropped \subseteq dropped' /\ missed \subseteq missed'
    BY WorkerCases DEF vars, Send, AckWaitExpires, AckArrives, AckLost, ForgetId,
       Deliver, DeliveryLost, HandOut,
       Connect, Receive, PublishResponse, PublishUnconfirmed, Acknowledge, SendAck, Ends,
       Stop, Drop, worker, broker
  <2>2. QED  BY <1>1, <2>1 DEF Known
<1>2. ASSUME NEW w \in Workers, d \in buffer[w] \cup {held[w]}
      PROVE  d \in dropped' \/ d \in buffer'[w] \cup {held'[w]}
  <2>1. ASSUME NEW v \in Workers, PublishUnconfirmed(v) \/ Ends(v)
        PROVE  d \in dropped' \/ d \in buffer'[w] \cup {held'[w]}
    BY <1>0, <1>2, <2>1 DEF PublishUnconfirmed, Ends, Stop, Drop
  <2>2. ASSUME NEW v \in Workers, Acknowledge(v)
        PROVE  d \in buffer'[w] \cup {held'[w]}
    <3>1. d # held[v]
      <4>1. ~Unanswered(held[v][1])
        BY <2>2 DEF Acknowledge, Confirmed, Decoded, Unanswered
      <4>2. QED  BY <4>1
    <3>2. buffer' = buffer /\ held' = [held EXCEPT ![v] = NoDelivery]
      BY <2>2 DEF Acknowledge, SendAck
    <3>3. QED  BY <1>2, <3>1, <3>2
  <2>3. ASSUME NEW v \in Workers, Receive(v)
        PROVE  d \in buffer'[w] \cup {held'[w]}
    <3>1. PICK x \in buffer[v] :
            buffer' = [buffer EXCEPT ![v] = @ \ {x}] /\ held' = [held EXCEPT ![v] = x]
      BY <2>3 DEF Receive
    <3>2. held[v] = NoDelivery
      BY <2>3 DEF Receive
    <3>3. CASE v = w
      BY <1>0, <1>2, <3>1, <3>2, <3>3
    <3>4. CASE v # w
      BY <1>2, <3>1, <3>4
    <3>5. QED  BY <3>3, <3>4
  <2>4. ASSUME NEW v \in Workers, Connect(v) \/ PublishResponse(v)
        PROVE  d \in buffer'[w] \cup {held'[w]}
    BY <1>2, <2>4 DEF Connect, PublishResponse
  <2>5. ASSUME NEW v \in Workers, NEW k \in Signals, Deliver(v, k) \/ DeliveryLost(v, k)
        PROVE  d \in buffer'[w] \cup {held'[w]}
    BY <1>2, <2>5 DEF Deliver, DeliveryLost, HandOut
  <2>6. ASSUME \/ UNCHANGED vars
               \/ \E k \in Signals : Send(k) \/ AckWaitExpires(k) \/ AckArrives(k) \/ AckLost(k)
               \/ \E o \in Operations : ForgetId(o)
        PROVE  d \in buffer'[w] \cup {held'[w]}
    BY <1>2, <2>6 DEF vars, Send, AckWaitExpires, AckArrives, AckLost, ForgetId, worker
  <2>7. QED  BY <2>1, <2>2, <2>3, <2>4, <2>5, <2>6, WorkerCases
<1>3. QED  BY <1>1, <1>2 DEF Known

(* While a signal is unanswered, each of its deliveries is accounted for. *)
LEMMA TracedStep ==
  ASSUME WorkerInv, [Next]_vars
  PROVE  Traced'
<1> USE DEF WorkerInv
<1> SUFFICES ASSUME NEW m \in Signals, Unanswered(m)', NEW n \in 1 .. deliveries'[m]
    PROVE  <<m, n>> \in Known'
  BY DEF Traced
<1>0. Unanswered(m)
  BY AnswersStay
<1>1. CASE n \in 1 .. deliveries[m]
  BY <1>0, <1>1, KnownStep DEF Traced
<1>2. CASE n \notin 1 .. deliveries[m]
  <2>1. PICK w \in Workers : Deliver(w, m) \/ DeliveryLost(w, m)
    BY <1>2, WorkerCases DEF TypeOK, vars, Send, AckWaitExpires, AckArrives, AckLost,
       ForgetId, Deliver, DeliveryLost, HandOut, Connect, Receive, PublishResponse,
       PublishUnconfirmed, Acknowledge, SendAck, Ends, broker
  <2>2. n = deliveries[m] + 1 /\ <<m, n>> \in missed' \cup buffer'[w]
    BY <1>2, <2>1 DEF Deliver, DeliveryLost, HandOut, TypeOK
  <2>3. QED  BY <2>2 DEF Known
<1>3. QED  BY <1>1, <1>2

(* The broker gives up after max_deliver deliveries, which were validated   *)
(* to be two or more.                                                       *)
LEMMA GivenUpStep ==
  ASSUME WorkerInv, [Next]_vars
  PROVE  GivenUp'
<1> USE DEF WorkerInv
<1> SUFFICES ASSUME NEW m \in Signals, queue'[m] = "exhausted" PROVE deliveries'[m] >= 2
  BY DEF GivenUp
<1>0. deliveries \in [Signals -> Nat]
  BY DEF TypeOK
<1>1. CASE queue[m] = "exhausted"
  <2>1. deliveries[m] >= 2 /\ deliveries[m] \in Nat
    BY <1>0, <1>1 DEF GivenUp
  <2>2. CASE deliveries' = deliveries
    BY <2>1, <2>2
  <2>3. CASE deliveries' # deliveries
    <3>1. PICK w \in Workers, k \in Signals : HandOut(w, k)
      BY <2>3, WorkerCases DEF vars, Deliver, DeliveryLost, Send, AckWaitExpires,
         AckArrives, AckLost, ForgetId, Connect, Receive, PublishResponse,
         PublishUnconfirmed, Acknowledge, SendAck, Ends, broker
    <3>2. QED  BY <1>0, <2>1, <3>1 DEF HandOut
  <2>4. QED  BY <2>2, <2>3
<1>2. CASE queue[m] # "exhausted"
  <2>1. AckWaitExpires(m) /\ deliveries[m] = topology.consumer.max_deliver
    BY <1>2, WorkerCases DEF TypeOK, vars, Send, AckWaitExpires, AckArrives, AckLost,
       ForgetId, Deliver, DeliveryLost, HandOut, Connect, Receive, PublishResponse,
       PublishUnconfirmed, Acknowledge, SendAck, Ends, broker
  <2>2. Validated
    BY <2>1 DEF AckWaitExpires, Served
  <2>3. topology.consumer.max_deliver >= 2
    BY <2>2 DEF Validated, ValidateConsumer, ConsumerFits
  <2>4. QED  BY <2>1, <2>3 DEF AckWaitExpires
<1>3. QED  BY <1>1, <1>2

(* WorkerInv holds of the empty stream and every step preserves it. *)
LEMMA WorkerInit == Init => WorkerInv
<1> SUFFICES ASSUME Init PROVE WorkerInv
  OBVIOUS
<1>1. TypeOK
  BY WorkerAssumption DEF Init, TypeOK, Stages
<1>2. Running /\ Served /\ Sent /\ Decoded /\ Confirmed /\ RemovedOnlyIfAnswered
  BY DEF Init, Running, Served, Sent, Decoded, Confirmed, RemovedOnlyIfAnswered
<1>3. Windows /\ Asked /\ Traced /\ GivenUp
  BY DEF Init, Windows, Asked, Traced, GivenUp
<1>4. QED  BY <1>1, <1>2, <1>3 DEF WorkerInv

(* Hence it holds of every reachable state. *)
LEMMA WorkerInvariant == Spec => []WorkerInv
<1>1. ASSUME WorkerInv, [Next]_vars PROVE WorkerInv'
  <2> USE <1>1 DEF WorkerInv
  <2>1. TypeOK'
    BY TypeStep
  <2>2. QED
    BY <2>1, ValidatedStep, SentStep, DecodedStep, ConfirmedStep, RemovedStep, WindowsStep,
       AskedStep, TracedStep, GivenUpStep
<1>2. QED  BY <1>1, WorkerInit, PTL DEF Spec

-----------------------------------------------------------------------------
(* Every variable of broker and workers keeps its type, and a worker holds  *)
(* a delivery exactly while it handles one.                                 *)
THEOREM WorkerTyped == Spec => []TypeOK
<1>1. WorkerInv => TypeOK
  BY DEF WorkerInv
<1>2. QED  BY <1>1, WorkerInvariant, PTL

(* A valid signal leaves the work queue only when a response to its         *)
(* operation is stored, on every topology a worker accepts.                 *)
THEOREM NothingRemovedUnanswered == Spec => []RemovedOnlyIfAnswered
<1>1. WorkerInv => RemovedOnlyIfAnswered
  BY DEF WorkerInv
<1>2. QED  BY <1>1, WorkerInvariant, PTL

(* An operation has one response per duplicate window, however often its    *)
(* signal is redelivered, and none unless somebody asked for it.            *)
THEOREM OneResponse == Spec => []OneResponsePerWindow
<1>1. ASSUME WorkerInv PROVE OneResponsePerWindow
  <2> SUFFICES ASSUME NEW o \in Operations PROVE stored[o] <= forgotten[o] + 1
    BY <1>1 DEF WorkerInv, Asked, OneResponsePerWindow
  <2>1. stored[o] \in Nat /\ forgotten[o] \in Nat
    BY <1>1, WorkerAssumption DEF WorkerInv, TypeOK
  <2>2. QED  BY <1>1, <2>1 DEF WorkerInv, Windows
<1>2. QED  BY <1>1, WorkerInvariant, PTL

(* Every delivery of an unanswered signal is with a worker, was dropped by  *)
(* one that ended or was lost on its way to one, and the broker gives up on *)
(* a signal after no less than two deliveries.                              *)
THEOREM NothingLostSilently == Spec => []LostOnlyToFailures
<1>1. WorkerInv => LostOnlyToFailures
  BY DEF WorkerInv, Traced, Known, GivenUp, LostOnlyToFailures
<1>2. QED  BY <1>1, WorkerInvariant, PTL
=============================================================================
