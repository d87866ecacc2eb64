--------------------------- MODULE GroupConstants ---------------------------
(***************************************************************************)
(* What the grants of groups (GroupGrants) and the writes under them       *)
(* (GroupGate) have in common.                                             *)
(***************************************************************************)
CONSTANTS
    Devices,  \* the device keys that grants name
    Requests, \* concurrent requests
    None
=============================================================================
