---------------------------- MODULE BuilderPool -----------------------------
(***************************************************************************)
(* What the builder queue promises its clients, without the commands, the  *)
(* timers and the limits that keep the promise.  Clients are served in the *)
(* order of their requests; nobody waits while a builder is in stock; a    *)
(* builder serves one client and is then retired, never handed out again.  *)
(***************************************************************************)
EXTENDS Naturals, Sequences

CONSTANTS Clients, Machines, None

VARIABLES
    waiting,  \* clients that asked for a builder, the oldest first
    stock,    \* builders ready to be handed out
    grant,    \* the builder each client holds, or None
    retired   \* builders given back and not yet out of the pool's hands

pool == <<waiting, stock, grant, retired>>

Queued  == {waiting[i] : i \in 1..Len(waiting)}
Granted == {grant[c] : c \in Clients} \ {None}

Init ==
    /\ waiting = <<>>
    /\ stock = {}
    /\ grant = [c \in Clients |-> None]
    /\ retired = {}

\* A client asks while there is no stock, or is served at once.
Request(c) ==
    /\ c \notin Queued
    /\ grant[c] = None
    /\ \/ /\ stock = {}
          /\ waiting' = Append(waiting, c)
          /\ UNCHANGED <<stock, grant>>
       \/ \E m \in stock :
            /\ waiting = <<>>
            /\ stock' = stock \ {m}
            /\ grant' = [grant EXCEPT ![c] = m]
            /\ UNCHANGED waiting
    /\ UNCHANGED retired

\* A new machine goes to the oldest waiting client, or into stock.
Provide(m) ==
    /\ m \notin stock \cup Granted \cup retired
    /\ \/ /\ waiting = <<>>
          /\ stock' = stock \cup {m}
          /\ UNCHANGED <<waiting, grant>>
       \/ /\ waiting # <<>>
          /\ grant' = [grant EXCEPT ![Head(waiting)] = m]
          /\ waiting' = Tail(waiting)
          /\ UNCHANGED stock
    /\ UNCHANGED retired

\* A client gives its machine back.
Release(c) ==
    /\ grant[c] # None
    /\ grant' = [grant EXCEPT ![c] = None]
    /\ retired' = retired \cup {grant[c]}
    /\ UNCHANGED <<waiting, stock>>

\* The pool is done with a retired machine.
Dispose(m) ==
    /\ m \in retired
    /\ retired' = retired \ {m}
    /\ UNCHANGED <<waiting, stock, grant>>

Next ==
    \/ \E c \in Clients : Request(c) \/ Release(c)
    \/ \E m \in Machines : Provide(m) \/ Dispose(m)

Spec == Init /\ [][Next]_pool
=============================================================================
