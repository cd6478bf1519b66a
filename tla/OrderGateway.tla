---------------------------- MODULE OrderGateway ----------------------------
(***************************************************************************)
(* What the write path to the brokers promises, whatever fails:            *)
(*                                                                         *)
(*  - an order is placed at a broker only by a request that was cleared    *)
(*    for it, and a request is cleared only at an instant at which no kill *)
(*    switch covering it is armed;                                         *)
(*  - an order is in the durable journal before it is placed;              *)
(*  - the journal and the broker's books never forget, while a restart     *)
(*    drops every clearance and every switch.                              *)
(*                                                                         *)
(* The production execution service implements this (Execution!Gateway).   *)
(***************************************************************************)
CONSTANTS Requests,   \* the request threads that may hold a clearance
          Orders,     \* the child orders
          Switches,   \* the kill switches that can be armed
          Places      \* the slots of the brokers' books an order can take

VARIABLES armed,      \* the switches armed now
          scope,      \* scope[r]: the switches that cover the request of r
          cleared,    \* cleared[r]: the orders r may still place
          journal,    \* the orders in the durable journal
          placed      \* what the brokers took: a set of [order, place]

vars == <<armed, scope, cleared, journal, placed>>

Init ==
  /\ armed = {}
  /\ scope \in [Requests -> SUBSET Switches]
  /\ cleared = [r \in Requests |-> {}]
  /\ journal = {}
  /\ placed = {}

(* A new request replaces what r asked for before; it holds no clearance.  *)
Ask(r) ==
  /\ cleared[r] = {}
  /\ \E S \in SUBSET Switches : scope' = [scope EXCEPT ![r] = S]
  /\ UNCHANGED <<armed, cleared, journal, placed>>

Clear(r) ==
  /\ cleared[r] = {}
  /\ scope[r] \cap armed = {}
  /\ \E O \in SUBSET Orders : cleared' = [cleared EXCEPT ![r] = O]
  /\ UNCHANGED <<armed, scope, journal, placed>>

Write(r) ==
  /\ \E o \in cleared[r] : journal' = journal \cup {o}
  /\ UNCHANGED <<armed, scope, cleared, placed>>

Place(r) ==
  /\ \E o \in cleared[r] \cap journal, p \in Places :
       placed' = placed \cup {[order |-> o, place |-> p]}
  /\ UNCHANGED <<armed, scope, cleared, journal>>

(* r is done with some of its orders, or gives up; once it is done with    *)
(* all of them its request is over.  An order that could not be placed may *)
(* arm a switch on the way.                                                *)
Settle(r) ==
  /\ \E O \in SUBSET cleared[r], S \in SUBSET Switches :
       /\ O # {} => S = scope[r]
       /\ cleared' = [cleared EXCEPT ![r] = O]
       /\ scope' = [scope EXCEPT ![r] = S]
  /\ armed \subseteq armed' /\ armed' \subseteq Switches
  /\ UNCHANGED <<journal, placed>>

(* Operators arm and disarm, reconciliation arms.                          *)
Switch ==
  /\ armed' \subseteq Switches
  /\ UNCHANGED <<scope, cleared, journal, placed>>

Restart ==
  /\ armed' = {}
  /\ cleared' = [r \in Requests |-> {}]
  /\ scope' \in [Requests -> SUBSET Switches]
  /\ UNCHANGED <<journal, placed>>

Next ==
  \/ \E r \in Requests : Ask(r) \/ Clear(r) \/ Write(r) \/ Place(r) \/ Settle(r)
  \/ Switch
  \/ Restart

Spec == Init /\ [][Next]_vars
=============================================================================
