----------------------------- MODULE CaseLedger -----------------------------
(***************************************************************************)
(* What the case API promises its clients about mutations, without HTTP,    *)
(* queries, roles or faults: a ledger in which every slot (a tenant and an  *)
(* idempotency key) is filled at most once.  A request asks for a slot; it  *)
(* may fill it if it is empty; it may be acknowledged with whatever entry   *)
(* fills it.  An entry is announced when, and only when, the request that   *)
(* wrote it is acknowledged.  Any request may be forgotten at any moment:   *)
(* nothing here has to happen.                                              *)
(***************************************************************************)
EXTENDS Naturals, Sequences

CONSTANTS
  Requests,
  Slots,
  NoSlot      \* what a request that does not mutate asks for

VARIABLES
  asked,      \* the slot of each request
  ledger,     \* entries in the order they were recorded
  acked,      \* index of the entry a request was acknowledged with, 0: none
  announced   \* indices of the entries announced, in order

ledgerVars == <<asked, ledger, acked, announced>>

Entries == [slot : Slots, owner : Requests]

LedgerInit ==
  /\ asked = [r \in Requests |-> NoSlot]
  /\ ledger = <<>>
  /\ acked = [r \in Requests |-> 0]
  /\ announced = <<>>

Ask(r) ==
  /\ asked[r] = NoSlot
  /\ \E s \in Slots : asked' = [asked EXCEPT ![r] = s]
  /\ UNCHANGED <<ledger, acked, announced>>

Record(r) ==
  /\ asked[r] \in Slots
  /\ acked[r] = 0
  /\ \A i \in DOMAIN ledger : ledger[i].slot # asked[r]
  /\ ledger' = Append(ledger, [slot |-> asked[r], owner |-> r])
  /\ UNCHANGED <<asked, acked, announced>>

Acknowledge(r) ==
  /\ acked[r] = 0
  /\ \E i \in DOMAIN ledger :
       /\ ledger[i].slot = asked[r]
       /\ acked' = [acked EXCEPT ![r] = i]
       /\ announced' = IF ledger[i].owner = r THEN Append(announced, i) ELSE announced
  /\ UNCHANGED <<asked, ledger>>

LedgerNext == \E r \in Requests : Ask(r) \/ Record(r) \/ Acknowledge(r)

LedgerSpec == LedgerInit /\ [][LedgerNext]_ledgerVars
=============================================================================
