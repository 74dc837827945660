-------------------------------- MODULE Ownership --------------------------------
(* What the device registry promises about who owns a device: it is registered *)
(* once, changes hands only by way of being nobody's, and is never lost.       *)
CONSTANTS
    Devices, Users,
    NoUser,     \* the owner of a device nobody owns
    Absent      \* the owner of a device that was never registered

VARIABLE owner

Init == owner = [d \in Devices |-> Absent]

Register(d, u) ==
    /\ owner[d] = Absent
    /\ owner' = [owner EXCEPT ![d] = u]

Bind(d, u) ==
    /\ owner[d] = NoUser
    /\ owner' = [owner EXCEPT ![d] = u]

Release(d) ==
    /\ owner[d] \in Users
    /\ owner' = [owner EXCEPT ![d] = NoUser]

Next ==
    \E d \in Devices :
        \/ \E u \in Users : Register(d, u) \/ Bind(d, u)
        \/ Release(d)

Spec == Init /\ [][Next]_owner
===============================================================================
