---------------------------- MODULE StatusWorker ----------------------------
(***************************************************************************)
(* The durable status avenue: transport::nats of src/transport.rs.  Status  *)
(* signals wait in a JetStream work-queue stream; every API process runs    *)
(* one worker, all workers share one durable pull consumer.  A process      *)
(* checks the topology it finds before it starts its worker.  A worker      *)
(* answers a signal by publishing a response under a message id made from   *)
(* its operation id, waits until the broker has stored it, and only then    *)
(* acknowledges.                                                            *)
(*                                                                         *)
(* The broker is external and does what its topology says: signals are      *)
(* pushed ahead into the buffer of a worker's pull subscription; one that   *)
(* is not acknowledged in time is delivered again, a bounded number of      *)
(* times in all; a response whose message id the broker remembers is not    *)
(* stored twice, and it forgets an id when the duplicate window has passed; *)
(* deliveries and acknowledgements are plain messages, which may arrive     *)
(* late or, when a connection is lost and made again, never.  Any error in  *)
(* handle ends the worker's task (the `?` in serve) and drops its buffer;   *)
(* nothing but a new process starts another.                                *)
(***************************************************************************)
EXTENDS Naturals, FiniteSets

CONSTANTS
  Signals,     \* messages of the request stream
  Operations,  \* operation ids
  Invalid,     \* decode_signal failed
  PayloadOf,   \* what each signal carries
  Topologies,  \* the topologies a broker may be provisioned with
  Workers,     \* one per API process
  NoDelivery,
  MaxExpiries, \* bound: how often the broker forgets a message id
  MaxStarts    \* bound: how often a process is started

(* The n-th delivery of a signal. *)
Deliveries == Signals \X Nat

(* What decode_signal looks at: the size, whether it is a StatusRequest and  *)
(* nothing else, its schema.                                                *)
Payloads ==
  [fits : BOOLEAN, parses : BOOLEAN, schema : BOOLEAN, operation : Operations]

(* The parts of stream and consumer configuration the service insists on.   *)
(* max_deliver 0 stands for "no limit".                                     *)
AllTopologies ==
  [request : [file : BOOLEAN, workQueue : BOOLEAN, owns : BOOLEAN, dedupe : BOOLEAN],
   response : [file : BOOLEAN, limits : BOOLEAN, direct : BOOLEAN, owns : BOOLEAN,
               dedupe : BOOLEAN],
   consumer : [pull : BOOLEAN, named : BOOLEAN, explicit : BOOLEAN, filter : BOOLEAN,
               max_deliver : Nat, max_ack_pending : Nat]]

ASSUME WorkerAssumption ==
  /\ Invalid \notin Operations /\ NoDelivery \notin Deliveries
  /\ PayloadOf \in [Signals -> Payloads]
  /\ Topologies \subseteq AllTopologies
  /\ MaxExpiries \in Nat /\ MaxStarts \in Nat

VARIABLES
  topology,   \* how the broker was provisioned
  queue,      \* the request stream: where each signal is
  deliveries, \* how often each signal was delivered
  acks,       \* acknowledgements on their way to the broker
  stored,     \* responses stored for each operation
  remembered, \* operations whose message id the broker remembers
  buffer,     \* deliveries each worker's subscription has not yielded yet
  stage,      \* what each worker's task is doing
  held,       \* the delivery it handles
  starts,
  \* history, read by no action
  dropped,    \* deliveries lost with a worker that ended
  missed,     \* deliveries lost on their way to a worker
  forgotten   \* how often the broker forgot an operation's message id

broker == <<topology, queue, deliveries, acks, stored, remembered, missed, forgotten>>
worker == <<buffer, stage, held, starts, dropped>>
vars == <<topology, queue, deliveries, acks, stored, remembered, buffer, stage, held,
          starts, dropped, missed, forgotten>>

Stages == {"stopped", "idle", "publish", "acknowledge", "terminate"}

(* The type invariant; a worker holds a delivery while it handles one. *)
TypeOK ==
  /\ topology \in Topologies
  /\ queue \in [Signals -> {"absent", "ready", "leased", "exhausted", "removed"}]
  /\ deliveries \in [Signals -> Nat]
  /\ acks \in SUBSET Signals
  /\ stored \in [Operations -> Nat]
  /\ remembered \in SUBSET Operations
  /\ buffer \in [Workers -> SUBSET Deliveries]
  /\ stage \in [Workers -> Stages]
  /\ held \in [Workers -> Deliveries \cup {NoDelivery}]
  /\ starts \in 0 .. MaxStarts
  /\ dropped \in SUBSET Deliveries
  /\ missed \in SUBSET Deliveries
  /\ forgotten \in [Operations -> 0 .. MaxExpiries]
  /\ \A w \in Workers : held[w] = NoDelivery <=> stage[w] \in {"stopped", "idle"}

Init ==
  /\ topology \in Topologies
  /\ queue = [m \in Signals |-> "absent"]
  /\ deliveries = [m \in Signals |-> 0]
  /\ acks = {}
  /\ stored = [o \in Operations |-> 0]
  /\ remembered = {}
  /\ buffer = [w \in Workers |-> {}]
  /\ stage = [w \in Workers |-> "stopped"]
  /\ held = [w \in Workers |-> NoDelivery]
  /\ starts = 0
  /\ dropped = {}
  /\ missed = {}
  /\ forgotten = [o \in Operations |-> 0]

(* decode_signal *)
DecodeSignal(m) ==
  LET p == PayloadOf[m] IN
  IF p.fits /\ p.parses /\ p.schema THEN p.operation ELSE Invalid

-----------------------------------------------------------------------------
(* Worker::connect. *)

ValidateRequestStream(s) == s.file /\ s.workQueue /\ s.owns /\ s.dedupe

(* Mutant of ValidateResponseStream: the duplicate window may be zero. *)
ValidateResponseStreamNoDedupe(s) == s.file /\ s.limits /\ s.direct /\ s.owns

ValidateResponseStream(s) == s.file /\ s.limits /\ s.direct /\ s.owns /\ s.dedupe

ConsumerFits(c, least) ==
  /\ c.pull /\ c.named /\ c.filter
  /\ c.max_deliver \in least .. 100
  /\ c.max_ack_pending \in 1 .. 4096

(* Mutants of ValidateConsumer: the ack policy is not looked at; a single   *)
(* delivery is enough.                                                      *)
ValidateConsumerAnyAck(c) == ConsumerFits(c, 2)
ValidateConsumerOneDelivery(c) == ConsumerFits(c, 1) /\ c.explicit

ValidateConsumer(c) == ConsumerFits(c, 2) /\ c.explicit

Validated ==
  /\ ValidateRequestStream(topology.request)
  /\ ValidateResponseStream(topology.response)
  /\ ValidateConsumer(topology.consumer)

(* A process starts: it connects and its worker begins, or the topology is  *)
(* not the one it needs and the process ends.                               *)
Connect(w) ==
  /\ stage[w] = "stopped"
  /\ starts < MaxStarts
  /\ starts' = starts + 1
  /\ stage' = [stage EXCEPT ![w] = IF Validated THEN "idle" ELSE "stopped"]
  /\ UNCHANGED <<broker, buffer, held, dropped>>

-----------------------------------------------------------------------------
(* The broker and its clients. *)

(* The web tier publishes a signal. *)
Send(m) ==
  /\ queue[m] = "absent"
  /\ queue' = [queue EXCEPT ![m] = "ready"]
  /\ UNCHANGED <<topology, deliveries, acks, stored, remembered, missed, forgotten, worker>>

(* The broker sends a signal to the pull subscription of a worker; no more  *)
(* than max_ack_pending may be unacknowledged.  Without explicit            *)
(* acknowledgement the sending is all it takes.                             *)
HandOut(w, m) ==
  /\ stage[w] # "stopped"
  /\ queue[m] = "ready" /\ topology.consumer.filter
  /\ Cardinality({n \in Signals : queue[n] = "leased"}) < topology.consumer.max_ack_pending
  /\ queue' = [queue EXCEPT ![m] = IF topology.consumer.explicit THEN "leased" ELSE "removed"]
  /\ deliveries' = [deliveries EXCEPT ![m] = @ + 1]
  /\ UNCHANGED <<topology, acks, stored, remembered, forgotten, stage, held, starts, dropped>>

(* It reaches the buffer of the subscription. *)
Deliver(w, m) ==
  /\ HandOut(w, m)
  /\ buffer' = [buffer EXCEPT ![w] = @ \cup {<<m, deliveries[m] + 1>>}]
  /\ UNCHANGED missed

(* The worker's connection breaks under it: the client makes another and    *)
(* the worker goes on, but this delivery is gone.                           *)
DeliveryLost(w, m) ==
  /\ HandOut(w, m)
  /\ missed' = missed \cup {<<m, deliveries[m] + 1>>}
  /\ UNCHANGED buffer

(* No acknowledgement within ack_wait.  The holder may still be working: it *)
(* is slow, stopped, or the signal sits in its buffer.                      *)
AckWaitExpires(m) ==
  /\ queue[m] = "leased"
  /\ queue' = [queue EXCEPT ![m] =
                 IF deliveries[m] = topology.consumer.max_deliver THEN "exhausted" ELSE "ready"]
  /\ UNCHANGED <<topology, deliveries, acks, stored, remembered, missed, forgotten, worker>>

(* An ack or term removes the signal, whichever delivery it answers. *)
AckArrives(m) ==
  /\ m \in acks
  /\ queue' = [queue EXCEPT ![m] = "removed"]
  /\ acks' = acks \ {m}
  /\ UNCHANGED <<topology, deliveries, stored, remembered, missed, forgotten, worker>>

AckLost(m) ==
  /\ m \in acks
  /\ acks' = acks \ {m}
  /\ UNCHANGED <<topology, queue, deliveries, stored, remembered, missed, forgotten, worker>>

(* duplicate_window passes: validate_response_stream asks that it is not    *)
(* zero, not that it outlasts the redeliveries.                             *)
ForgetId(o) ==
  /\ o \in remembered
  /\ forgotten[o] < MaxExpiries
  /\ remembered' = remembered \ {o}
  /\ forgotten' = [forgotten EXCEPT ![o] = @ + 1]
  /\ UNCHANGED <<topology, queue, deliveries, acks, stored, missed, worker>>

-----------------------------------------------------------------------------
(* Worker::serve and Worker::handle. *)

(* messages.next() yields a signal; decode_signal decides what follows. *)
Receive(w) ==
  /\ stage[w] = "idle"
  /\ \E d \in buffer[w] :
       /\ buffer' = [buffer EXCEPT ![w] = @ \ {d}]
       /\ held' = [held EXCEPT ![w] = d]
       /\ stage' = [stage EXCEPT ![w] =
                      IF DecodeSignal(d[1]) = Invalid THEN "terminate" ELSE "publish"]
  /\ UNCHANGED <<broker, starts, dropped>>

(* The broker takes a response: a duplicate is acknowledged, not stored. *)
Store(o) ==
  /\ remembered' = IF topology.response.dedupe THEN remembered \cup {o} ELSE {}
  /\ stored' = IF o \in remembered THEN stored ELSE [stored EXCEPT ![o] = @ + 1]

Drop(w) ==
  /\ stage' = [stage EXCEPT ![w] = "stopped"]
  /\ buffer' = [buffer EXCEPT ![w] = {}]
  /\ dropped' = dropped \cup ((buffer[w] \cup {held[w]}) \ {NoDelivery})

(* Mutant of Stop: the task ends, its state is taken for that of a live one. *)
StopHolding(w) == Drop(w) /\ UNCHANGED held

(* The worker's task ends, and with it every delivery it has. *)
Stop(w) == Drop(w) /\ held' = [held EXCEPT ![w] = NoDelivery]

(* send_publish, and the broker's acknowledgement of it. *)
PublishResponse(w) ==
  /\ stage[w] = "publish"
  /\ Store(DecodeSignal(held[w][1]))
  /\ stage' = [stage EXCEPT ![w] = "acknowledge"]
  /\ UNCHANGED <<topology, queue, deliveries, acks, missed, forgotten, buffer, held, starts,
                 dropped>>

(* The response is stored but the acknowledgement of it does not come back. *)
PublishUnconfirmed(w) ==
  /\ stage[w] = "publish"
  /\ Store(DecodeSignal(held[w][1]))
  /\ Stop(w)
  /\ UNCHANGED <<topology, queue, deliveries, acks, missed, forgotten, starts>>

PublishFails(w) ==
  /\ stage[w] = "publish"
  /\ Stop(w)
  /\ UNCHANGED <<broker, starts>>

SendAck(w) ==
  /\ acks' = acks \cup {held[w][1]}
  /\ stage' = [stage EXCEPT ![w] = "idle"]
  /\ held' = [held EXCEPT ![w] = NoDelivery]
  /\ UNCHANGED <<topology, queue, deliveries, stored, remembered, missed, forgotten, buffer,
                 starts, dropped>>

(* Mutant of Acknowledge: a Term waits for a confirmation that never comes. *)
AcknowledgeTermWaits(w) == stage[w] = "acknowledge" /\ SendAck(w)

(* message.ack() or ack_with(Term): sent, not confirmed. *)
Acknowledge(w) == stage[w] \in {"acknowledge", "terminate"} /\ SendAck(w)

AcknowledgeFails(w) ==
  /\ stage[w] \in {"acknowledge", "terminate"}
  /\ Stop(w)
  /\ UNCHANGED <<broker, starts>>

(* The shutdown signal is seen, the consumer ends, or its stream reports an *)
(* error: only between two signals, whatever the buffer holds.              *)
LeaveLoop(w) ==
  /\ stage[w] = "idle"
  /\ Stop(w)
  /\ UNCHANGED <<broker, starts>>

Crash(w) ==
  /\ stage[w] # "stopped"
  /\ Stop(w)
  /\ UNCHANGED <<broker, starts>>

-----------------------------------------------------------------------------
Work(w) ==
  \/ Receive(w)
  \/ PublishResponse(w)
  \/ Acknowledge(w)

Next ==
  \/ \E m \in Signals : Send(m) \/ AckWaitExpires(m) \/ AckArrives(m) \/ AckLost(m)
  \/ \E o \in Operations : ForgetId(o)
  \/ \E w \in Workers, m \in Signals : Deliver(w, m) \/ DeliveryLost(w, m)
  \/ \E w \in Workers :
       \/ Connect(w) \/ Work(w) \/ PublishUnconfirmed(w) \/ PublishFails(w)
       \/ AcknowledgeFails(w) \/ LeaveLoop(w) \/ Crash(w)

Spec == Init /\ [][Next]_vars

(* A running worker works, the broker sends what is ready, and ack_wait     *)
(* passes.  No fairness for clients, for starts, or for the arrival of      *)
(* acknowledgements; and what is sent may be lost every time.               *)
FairSpec ==
  /\ Spec
  /\ \A w \in Workers : WF_vars(Work(w))
  /\ \A m \in Signals :
       /\ WF_vars(\E w \in Workers : Deliver(w, m) \/ DeliveryLost(w, m))
       /\ WF_vars(AckWaitExpires(m))

-----------------------------------------------------------------------------
(* Properties. *)

(* What a well-formed signal asks for. *)
Valid(m) == PayloadOf[m].fits /\ PayloadOf[m].parses /\ PayloadOf[m].schema
Asks(m, o) == Valid(m) /\ PayloadOf[m].operation = o
Unanswered(m) == Valid(m) /\ stored[PayloadOf[m].operation] = 0

(* A valid signal leaves the work queue only when a response to its         *)
(* operation is stored: the ack follows the broker's confirmation, whatever *)
(* crashes, redeliveries and late acks of other workers happen, on every    *)
(* topology a worker accepts.                                               *)
RemovedOnlyIfAnswered ==
  \A m \in Signals : queue[m] = "removed" => ~Unanswered(m)

(* However often a signal is redelivered, sent twice or handled by two      *)
(* workers at once, an operation has one response for each time the broker  *)
(* forgot its message id, and one more; and it has none unless a            *)
(* well-formed signal asked for it.                                         *)
OneResponsePerWindow ==
  \A o \in Operations :
    /\ stored[o] <= forgotten[o] + 1
    /\ stored[o] > 0 => \E m \in Signals : Asks(m, o) /\ queue[m] # "absent"

(* While an operation has no response, every delivery of its signals is     *)
(* with a worker, was dropped by one that ended, or was lost on its way: no *)
(* worker that goes on loses a signal it was given.  The broker gives up on *)
(* one after no less than two deliveries, so that the end of one worker, or *)
(* one lost delivery, alone loses nothing.                                  *)
LostOnlyToFailures ==
  \A m \in Signals : Unanswered(m) =>
    /\ \A n \in 1 .. deliveries[m] :
         <<m, n>> \in dropped \cup missed \cup UNION {buffer[w] \cup {held[w]} : w \in Workers}
    /\ queue[m] = "exhausted" => deliveries[m] >= 2

(* A valid signal is answered, unless each of its max_deliver deliveries    *)
(* was lost, on its way or with a worker that ended, or no worker runs: an  *)
(* ack_wait shorter than the worker's backlog alone never costs an answer.  *)
AnsweredUnlessAllLost ==
  \A m \in Signals :
    queue[m] = "ready" /\ Unanswered(m)
      ~> \/ ~Unanswered(m)
         \/ \A n \in 1 .. topology.consumer.max_deliver : <<m, n>> \in dropped \cup missed
         \/ \A w \in Workers : stage[w] = "stopped"
=============================================================================
