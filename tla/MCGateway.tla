------------------------------ MODULE MCGateway ------------------------------
(***************************************************************************)
(* Three parts of the gateway on small instances: the group grants           *)
(* (GroupGrants), the writes of one group's devices (GroupGate) and the      *)
(* publisher (Publisher), with one relay: with several, an announcement is   *)
(* delivered as soon as one has it, so that one relay is the hardest case.   *)
(***************************************************************************)
EXTENDS MCGroupGrants, GroupGate, Publisher, TLC

CONSTANTS d2, small, large, w1, accepting, full

VARIABLE which  \* the part that runs

\* Requests are alike.
Interchangeable == Permutations(Requests)

\* Two devices of a group.  Its ceiling admits the small blob twice, or the
\* large one, and not both.
SizeOf(h) == IF h = small THEN 1 ELSE 2

all == <<which, vars, gateVars, pubVars>>

\* The parts do not interact: in a behaviour of one the others stay where they
\* started.
OneInit ==
    /\ which \in {"grants", "gate", "publisher"}
    /\ Init /\ GateInit /\ PubInit
    /\ which # "grants" => signed = Versions
    /\ which # "gate" => others = {}
    /\ which # "publisher" => prompt = TRUE /\ node = full
OneNext ==
    \/ which = "grants" /\ Next /\ UNCHANGED <<which, gateVars, pubVars>>
    \/ which = "gate" /\ GateNext /\ UNCHANGED <<which, vars, pubVars>>
    \/ which = "publisher" /\ PubNext /\ UNCHANGED <<which, vars, gateVars>>
OneSpec == OneInit /\ [][OneNext]_all
=============================================================================
