------------------------------ MODULE MemberQueues ------------------------------
(* What the hub promises of its members, without goroutines, locks or sockets: *)
(* a connection joins once, is posted messages only while it is a member,      *)
(* leaves once, and what it was posted can be taken after it left but never    *)
(* grows again.  Hub implements this specification.                            *)
EXTENDS Naturals

CONSTANTS
    Conns,      \* connections
    Cap         \* messages a connection can have waiting

VARIABLES
    member,     \* connections that joined and did not leave
    left,       \* connections that left, not yet forgotten
    waiting     \* number of messages posted and not taken

mqVars == <<member, left, waiting>>

Init ==
    /\ member = {} /\ left = {}
    /\ waiting = [c \in Conns |-> 0]

Join(c) ==
    /\ c \notin member \cup left
    /\ waiting[c] = 0
    /\ member' = member \cup {c}
    /\ UNCHANGED <<left, waiting>>

Post(c) ==
    /\ c \in member
    /\ waiting[c] < Cap
    /\ waiting' = [waiting EXCEPT ![c] = @ + 1]
    /\ UNCHANGED <<member, left>>

Take(c) ==
    /\ waiting[c] > 0
    /\ waiting' = [waiting EXCEPT ![c] = @ - 1]
    /\ UNCHANGED <<member, left>>

Leave(c) ==
    /\ c \in member
    /\ member' = member \ {c}
    /\ left' = left \cup {c}
    /\ UNCHANGED waiting

(* What the connection had not taken is lost. *)
Forget(c) ==
    /\ c \in left
    /\ left' = left \ {c}
    /\ waiting' = [waiting EXCEPT ![c] = 0]
    /\ UNCHANGED member

(* The process stopped and was started again. *)
Reset ==
    /\ member' = {} /\ left' = {}
    /\ waiting' = [c \in Conns |-> 0]

Next ==
    \/ \E c \in Conns : Join(c) \/ Post(c) \/ Take(c) \/ Leave(c) \/ Forget(c)
    \/ Reset

Spec == Init /\ [][Next]_mqVars
===============================================================================
