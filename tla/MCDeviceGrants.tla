--------------------------- MODULE MCDeviceGrants ---------------------------
(* Instances of DeviceGrants: two devices that share a recovery identity.     *)
EXTENDS DeviceGrants, TLC

CONSTANTS d1, d2, r1, r2, o

Signed(kind, device, recovery, limit, until, created) ==
    [kind |-> kind, device |-> device, recovery |-> recovery, owner |-> o,
     limit |-> limit, until |-> until, created |-> created, expires |-> created + 2]

\* A grant of one device, its revocation and its renewal; a larger grant of the
\* other device that names the same recovery identity.
Shared ==
    {Signed("grant", d1, r1, 1, 3, 0), Signed("revoke", d1, r1, 0, 0, 1),
     Signed("grant", d1, r1, 1, 4, 2), Signed("grant", d2, r1, 2, 2, 0)}

\* One device that changes its recovery identity, with revocations around.
Single ==
    {Signed("grant", d1, r1, 1, 4, 0), Signed("revoke", d1, r1, 0, 0, 1),
     Signed("grant", d1, r2, 2, 4, 1), Signed("grant", d1, r1, 1, 4, 2)}

SharedOrSingle == {Shared, Single}
RequestSymmetry == Permutations(Requests)
=============================================================================
