----------------------------- MODULE MCGroupGate -----------------------------
(* Two devices of a group.  Its ceiling admits the small blob twice, or the  *)
(* large one, and not both.                                                  *)
EXTENDS GroupGate

CONSTANTS small, large

Blobs == {small, large}
SizeOf(h) == IF h = small THEN 1 ELSE 2
=============================================================================
