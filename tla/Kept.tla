-------------------------------- MODULE Kept --------------------------------
(***************************************************************************)
(* What Wildbloom Drop promises of a file: once it is kept it can be read  *)
(* back until its removal is asked for, and it is only forgotten then.     *)
(***************************************************************************)
CONSTANT Ids

VARIABLE status

Init == status \in [Ids -> {"new", "kept"}]

\* A file may be removed before it was kept.
Moves == {<<"new", "kept">>, <<"new", "asked">>, <<"kept", "asked">>, <<"asked", "gone">>}

\* Several files may move at once, as when the app starts again.
Next ==
    /\ DOMAIN status' = Ids
    /\ \A id \in Ids : status'[id] = status[id] \/ <<status[id], status'[id]>> \in Moves

Spec == Init /\ [][Next]_status
=============================================================================
