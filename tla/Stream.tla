------------------------------- MODULE Stream -------------------------------
(***************************************************************************)
(* The WebSocket stream between a client and its builder, as the blocking  *)
(* calls of the two programs see it: Boost.Beast over TCP.  Frames arrive  *)
(* in order; how a connection ends decides what the other side still       *)
(* reads, and whether it learns of the end at all.                         *)
(***************************************************************************)
EXTENDS Integers, Sequences

CONSTANT Capacity  \* frames that fit into the socket buffers of one direction

ASSUME CapacityAssumption == Capacity \in Nat \ {0}

VARIABLES
    up,   \* frames from the client to the builder
    down, \* frames from the builder to the client
    link  \* state of the connection

stream == <<up, down, link>>

(***************************************************************************)
(* The client has sent the WebSocket close and reads on ("closing"); its   *)
(* process is gone ("left"); the builder's process is gone ("ended"); the  *)
(* connection was reset ("cut"); or the machine at one end has vanished    *)
(* without a word ("lost_client", "lost_builder").                         *)
(***************************************************************************)
LinkStates == {"none", "up", "closing", "left", "ended", "cut",
               "lost_client", "lost_builder"}

\* A reset throws away what was not read yet.
Reset == up' = <<>> /\ down' = <<>> /\ link' = "cut"

-----------------------------------------------------------------------------
\* A write puts a frame into the socket buffer, blocking while it is full.
\* The first write to a process that is gone succeeds, and is answered by a reset.
ClientSends(frame) ==
    \/ /\ link \in {"up", "lost_builder"}
       /\ Len(up) < Capacity
       /\ up' = Append(up, frame)
       /\ UNCHANGED <<down, link>>
    \/ link = "ended" /\ Reset

BuilderSends(frame) ==
    \/ /\ link \in {"up", "closing", "lost_client"}
       /\ Len(down) < Capacity
       /\ down' = Append(down, frame)
       /\ UNCHANGED <<up, link>>
    \/ link = "left" /\ Reset

ClientReceives == /\ down # <<>>
                  /\ down' = Tail(down)
                  /\ UNCHANGED <<up, link>>

BuilderReceives == /\ up # <<>>
                   /\ up' = Tail(up)
                   /\ UNCHANGED <<down, link>>

\* What was sent before an orderly end is read before the end is.
ClientReadFails   == link = "cut" \/ (link = "ended" /\ down = <<>>)
BuilderReadFails  == link = "cut" \/ (link \in {"left", "closing"} /\ up = <<>>)
ClientWriteFails  == link = "cut"
BuilderWriteFails == link = "cut"

-----------------------------------------------------------------------------
\* The sockets of a process are closed when it ends.  Unread data turns the
\* close into a reset.
ClientLeaves ==
    \/ /\ link \in {"up", "closing"}
       /\ IF down = <<>> THEN link' = "left" /\ UNCHANGED <<up, down>> ELSE Reset
    \/ link \in {"ended", "lost_builder"} /\ Reset
    \/ link \in {"none", "cut"} /\ UNCHANGED stream

BuilderLeaves ==
    \/ /\ link \in {"up", "closing"}
       /\ IF up = <<>> THEN link' = "ended" /\ UNCHANGED <<up, down>> ELSE Reset
    \/ link \in {"left", "lost_client"} /\ Reset
    \/ link = "cut" /\ UNCHANGED stream

\* websocket::stream::close: the close frame follows what was sent before.
\* Once the other end does not answer, the call returns with an error.
ClientCloses ==
    \/ link = "up" /\ link' = "closing" /\ UNCHANGED <<up, down>>
    \/ link \in {"ended", "lost_builder"} /\ Reset
    \/ link \in {"none", "cut"} /\ UNCHANGED stream

\* A machine vanishes: nothing it has not sent yet will be, and nothing tells
\* the other end, which may have been acknowledged what was never read.
ClientVanishes ==
    /\ link' = CASE link \in {"up", "closing"} -> "lost_client"
                 [] link = "ended"             -> "cut"
                 [] OTHER                      -> link
    /\ IF link = "ended" THEN up' = <<>> /\ down' = <<>>
                         ELSE UNCHANGED <<up, down>>

BuilderVanishes ==
    /\ link' = IF link \in {"up", "closing"} THEN "lost_builder" ELSE link
    /\ up' \in {up, <<>>}
    /\ UNCHANGED down

\* TCP gives up retransmitting to a machine that has vanished.
GivesUp ==
    /\ \/ link = "lost_client"  /\ down # <<>>
       \/ link = "lost_builder" /\ up # <<>>
    /\ Reset

\* The network, or something in it, resets the connection.
Cut == link \in {"up", "closing"} /\ Reset
=============================================================================
