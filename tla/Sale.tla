-------------------------------- MODULE Sale --------------------------------
(***************************************************************************)
(* What the checkout promises a buyer, as docs/CHECKOUT.md puts it and as  *)
(* service.rs implements it, with no ledger, mint, backend or crash in     *)
(* sight.  Money accepted for an order leads to the allowance or to a debt, *)
(* never to both; a debt is paid back at most once; nothing is delivered   *)
(* or owed before money was received.                                      *)
(***************************************************************************)
CONSTANT Orders

VARIABLE stage

Init == stage = [o \in Orders |-> "open"]

Move(o, from, to) == stage[o] = from /\ stage' = [stage EXCEPT ![o] = to]

Pay(o) == Move(o, "open", "paid")
Deliver(o) == Move(o, "paid", "delivered")
Owe(o) == Move(o, "paid", "owed")
Return(o) == Move(o, "owed", "returned")

Next == \E o \in Orders : Pay(o) \/ Deliver(o) \/ Owe(o) \/ Return(o)

Spec == Init /\ [][Next]_stage
=============================================================================
