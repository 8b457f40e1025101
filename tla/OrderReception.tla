--------------------------- MODULE OrderReception ---------------------------
(***************************************************************************)
(* What the path of a customer order promises: a request of the storefront *)
(* is received once, with one content, whatever is retried or repeated,    *)
(* and becomes one local order at most.                                    *)
(***************************************************************************)
EXTENDS Naturals

CONSTANTS Requests, Payloads, NoPayload

VARIABLES
  received,  \* received[r]: the content of request r, or NoPayload
  orders     \* orders[r]: how many local orders request r has become

vars == <<received, orders>>

Init ==
  /\ received = [r \in Requests |-> NoPayload]
  /\ orders = [r \in Requests |-> 0]

Receive(r, p) ==
  /\ received[r] = NoPayload
  /\ received' = [received EXCEPT ![r] = p]
  /\ UNCHANGED orders

Import(r) ==
  /\ received[r] # NoPayload /\ orders[r] = 0
  /\ orders' = [orders EXCEPT ![r] = 1]
  /\ UNCHANGED received

Next == \E r \in Requests : Import(r) \/ \E p \in Payloads : Receive(r, p)

Spec == Init /\ [][Next]_vars
=============================================================================
