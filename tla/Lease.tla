-------------------------------- MODULE Lease --------------------------------
(***************************************************************************)
(* What a client and the queue owe each other, seen by one client: it asks *)
(* for a machine, is lent one and uses it, and the machine is not taken    *)
(* from it as long as it stays connected to the queue.  The connection is  *)
(* the lease: nothing else tells the queue that a machine is in use.       *)
(***************************************************************************)
VARIABLES
    user,      \* what the client is doing with its machine
    tie,       \* its connection to the queue, as it really is
    machine    \* whether a machine is lent to it

lease == <<user, tie, machine>>

Init == user = "away" /\ tie = "none" /\ machine = "none"

\* A client connects to the queue; what an earlier one left has been settled.
Ask ==
    /\ user = "away" /\ machine = "none"
    /\ user' = "asking" /\ tie' = "intact"
    /\ UNCHANGED machine

\* The queue chooses a machine, whether its client is still there or not.
Lend ==
    /\ machine = "none" /\ user # "using"
    /\ machine' = "lent"
    /\ UNCHANGED <<user, tie>>

\* The client learns which machine it is lent; an answer that is on its way is
\* read even after the connection is lost.
Use ==
    /\ user = "asking"
    /\ tie = "intact" \/ machine = "lent"
    /\ user' = "using" /\ machine' = "lent"
    /\ UNCHANGED tie

\* The client has finished, or gives up; a machine may be on its way to it.
Finish ==
    /\ user \in {"asking", "using"}
    /\ user' = "leaving"
    /\ machine' = machine \/ (user = "asking" /\ machine' = "lent")
    /\ UNCHANGED tie

\* The client ends in order, or is killed.
Leave ==
    /\ user # "away"
    /\ user' = "away" /\ tie' = "none"
    /\ machine' = machine \/ (user = "asking" /\ machine' = "lent")

\* The connection to the queue is lost, or the queue itself.
Lose ==
    /\ tie = "intact"
    /\ tie' = "lost"
    /\ UNCHANGED <<user, machine>>

\* The queue takes the machine back.
Recall ==
    /\ machine = "lent"
    /\ user = "away" \/ tie = "lost"
    /\ machine' = "none"
    /\ UNCHANGED <<user, tie>>

Next == Ask \/ Lend \/ Use \/ Finish \/ Leave \/ Lose \/ Recall

Spec == Init /\ [][Next]_lease
=============================================================================
