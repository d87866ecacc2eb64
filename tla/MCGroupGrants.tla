--------------------------- MODULE MCGroupGrants ---------------------------
(* Instances of GroupGrants: the versions of two grant ids of one device with *)
(* a reset, and one device named by two rooms.                                *)
EXTENDS GroupGrants

CONSTANTS k, r1, r2, g1, g2, d1

Version(room, grant, created, expires, bytes, revoked) ==
    [kind |-> "grant", keeper |-> k, room |-> room, grant |-> grant, device |-> d1,
     created |-> created, expires |-> expires, bytes |-> bytes, revoked |-> revoked,
     n |-> 0]
Reset(room, created) ==
    [kind |-> "reset", keeper |-> k, room |-> room, grant |-> g1, device |-> d1,
     created |-> created, expires |-> created + Lifetime, bytes |-> None,
     revoked |-> FALSE, n |-> 0]

\* A grant, its renewal with another ceiling, its renewal with the first one,
\* its revocation; a second grant id with and without upload; a reset.
Versions ==
    {Version(r1, g1, 1, 3, 5, FALSE), Version(r1, g1, 2, 4, 7, FALSE),
     Version(r1, g1, 3, 5, 5, FALSE), Version(r1, g1, 2, 5, 5, TRUE),
     Version(r1, g2, 2, 4, 5, FALSE), Version(r1, g2, 3, 5, None, FALSE),
     Reset(r1, 2)}

\* One device granted in two rooms, the second time after the row of the first
\* grant may have been pruned.
TwoRooms ==
    {Version(r1, g1, 1, 3, 5, FALSE), Version(r1, g1, 2, 4, None, FALSE),
     Version(r2, g2, 1, 4, 5, FALSE), Version(r2, g2, 6, 8, 5, FALSE),
     Version(r2, g2, 4, 8, None, TRUE), Reset(r1, 1), Reset(r2, 3)}

VersionsOrTwoRooms == {Versions, TwoRooms}
=============================================================================
