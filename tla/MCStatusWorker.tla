--------------------------- MODULE MCStatusWorker ---------------------------
(* A small instance of StatusWorker: a signal, and one with another schema  *)
(* that names the operation a third would ask for; the topology the service *)
(* needs, in two sizes, and every way to get one part of it wrong.          *)
EXTENDS StatusWorker

CONSTANTS m1, m2, o1, o2

Payload ==
  [m \in {m1, m2} |->
     [fits |-> TRUE, parses |-> TRUE, schema |-> m = m1,
      operation |-> IF m = m1 THEN o1 ELSE o2]]

Needed(deliver, pending) ==
  [request |-> [file |-> TRUE, workQueue |-> TRUE, owns |-> TRUE, dedupe |-> TRUE],
   response |-> [file |-> TRUE, limits |-> TRUE, direct |-> TRUE, owns |-> TRUE,
                 dedupe |-> TRUE],
   consumer |-> [pull |-> TRUE, named |-> TRUE, explicit |-> TRUE, filter |-> TRUE,
                 max_deliver |-> deliver, max_ack_pending |-> pending]]

Good == {Needed(2, 2), Needed(2, 1)}
Wrong ==
  { [Needed(2, 2) EXCEPT !.request[f] = FALSE] : f \in DOMAIN Needed(2, 2).request }
  \cup
  { [Needed(2, 2) EXCEPT !.response[f] = FALSE] : f \in DOMAIN Needed(2, 2).response }
  \cup
  { [Needed(2, 2) EXCEPT !.consumer[f] = FALSE] : f \in {"pull", "named", "explicit", "filter"} }
  \cup {Needed(0, 2), Needed(1, 2), Needed(101, 2), Needed(2, 0), Needed(2, 4097)}

GoodAndWrong == Good \cup Wrong
=============================================================================
