---------------------------- MODULE QueueDaemon -----------------------------
(***************************************************************************)
(* The builder-queue daemon: Server accepts connections, each Connection   *)
(* reads one request and answers it, and BuilderQueue serves the checkout  *)
(* requests.  A Connection lives as long as a pending operation or a       *)
(* handler holds a shared pointer to it; its destructor gives the builder  *)
(* back.  Every action is one completion handler of the io_context, or a   *)
(* step of the client at the other end of the socket.                      *)
(***************************************************************************)
EXTENDS BuilderQueue

VARIABLES
    conn,    \* what each Connection object is waiting for
    builder, \* Connection::builder
    peer     \* the client's end of the socket

connection == <<conn, builder, peer>>
allVars    == <<vars, connection>>

(***************************************************************************)
(* A Connection waits for the WebSocket handshake, then for the request;   *)
(* for a builder ("pending"), for the write of the builder to complete     *)
(* ("writing"), and for the client to close ("holding"); or for the list   *)
(* of images ("listing"); or for the write of a reply ("replying").  When  *)
(* the command that lists the images was not launched, its handler runs    *)
(* twice and writes each time: both calls are owed ("listing_twice"), or   *)
(* one of them while the other's write is under way ("answering"), or both *)
(* writes are ("replying_twice").                                          *)
(***************************************************************************)
ConnStates == {"none", "handshake", "reading", "pending", "writing", "holding",
               "listing", "listing_twice", "answering", "replying", "replying_twice"}

\* Not there yet or any more; connected; has closed or reset the connection,
\* which the server's TCP stack knows; has vanished without a word, which only
\* the keepalive probes find out.
PeerStates == {"away", "open", "closed", "dead"}

\* The last shared pointer to the Connection goes: ~Connection.
EndConnection(c) ==
    /\ conn' = [conn EXCEPT ![c] = "none"]
    /\ builder' = [builder EXCEPT ![c] = NoBuilder]
    /\ peer' = [peer EXCEPT ![c] = "away"]
    /\ IF builder[c] # NoBuilder THEN ReturnBuilder(c) ELSE UNCHANGED vars

Advance(c, state) == /\ conn' = [conn EXCEPT ![c] = state]
                     /\ UNCHANGED <<builder, peer>>

-----------------------------------------------------------------------------
\* Server::accept_connection: a client connects, and the next accept is armed.
Accept(c) ==
    /\ daemon = "running"
    /\ conn[c] = "none"
    /\ conn' = [conn EXCEPT ![c] = "handshake"]
    /\ peer' = [peer EXCEPT ![c] = "open"]
    /\ UNCHANGED <<builder, vars>>

\* The handler of Connection::start.
Handshake(c) ==
    /\ daemon = "running"
    /\ conn[c] = "handshake"
    /\ peer[c] = "open"
    /\ Advance(c, "reading")
    /\ UNCHANGED vars

\* Mutant: the handler is queued without processing the queue.
RequestOnlyQueues(c) ==
    /\ conn[c] = "reading"
    /\ peer[c] = "open"
    /\ Advance(c, "pending")
    /\ pending_handlers' = Append(pending_handlers, c)
    /\ UNCHANGED <<reserve_builders, active_builders, leased, creates,
                   create_retries, destroying, vms, daemon>>

\* Connection::read_request_string reads a checkout request: request_builder.
request_builder(c) ==
    /\ conn[c] = "reading"
    /\ peer[c] = "open"
    /\ Advance(c, "pending")
    /\ checkout_builder(c)

\* It reads a status request: request_queue_stats.
request_queue_stats(c) ==
    /\ daemon = "running"
    /\ conn[c] = "reading"
    /\ peer[c] = "open"
    /\ Advance(c, "replying")
    /\ UNCHANGED vars

\* It reads an image list request: the command is launched, or its launch fails.
request_image_list(c) ==
    /\ daemon = "running"
    /\ conn[c] = "reading"
    /\ peer[c] = "open"
    /\ Advance(c, "listing") \/ Advance(c, "listing_twice")
    /\ UNCHANGED vars

\* The image list handler runs for the launch error, which the end of file follows:
\* it starts to write.
ImageListError(c) ==
    /\ daemon = "running"
    /\ conn[c] = "listing_twice"
    /\ Advance(c, "answering")
    /\ UNCHANGED vars

\* The image list handler runs for the end of file, and starts to write, whether
\* another write is under way on the stream or not.
ImageList(c) ==
    /\ daemon = "running"
    /\ \/ conn[c] = "listing" /\ Advance(c, "replying")
       \/ conn[c] = "answering" /\ Advance(c, "replying_twice")
    /\ UNCHANGED vars

\* One of the two writes completes, before the other is started or while it is under
\* way.  What becomes of the bytes of two writes that overlap is abstracted away.
FirstReplied(c) ==
    /\ daemon = "running"
    /\ \/ conn[c] = "answering" /\ Advance(c, "listing")
       \/ conn[c] = "replying_twice" /\ Advance(c, "replying")
    /\ UNCHANGED vars

\* The (last) write of a reply completes, with or without an error.
Replied(c) ==
    /\ daemon = "running"
    /\ conn[c] = "replying"
    /\ EndConnection(c)

\* Mutant: a connection that waits for its builder may end, too.
RequestFailsPending(c) ==
    /\ daemon = "running"
    /\ conn[c] \in {"handshake", "reading", "pending"}
    /\ EndConnection(c)

\* The handshake or the read of the request fails, or the request is a bad one.
RequestFails(c) ==
    /\ daemon = "running"
    /\ conn[c] \in {"handshake", "reading"}
    /\ EndConnection(c)

\* Mutant: the builder is written but not kept.
BuilderNotKept(c) ==
    /\ daemon = "running"
    /\ conn[c] = "pending"
    /\ leased[c] # NoBuilder
    /\ conn' = [conn EXCEPT ![c] = "writing"]
    /\ UNCHANGED <<builder, peer, vars>>

\* The handler that process_pending_handler posted runs: it stores the builder
\* in the connection and starts to write it, whoever is at the other end.
builder_ready(c) ==
    /\ daemon = "running"
    /\ conn[c] = "pending"
    /\ leased[c] # NoBuilder
    /\ builder' = [builder EXCEPT ![c] = leased[c]]
    /\ conn' = [conn EXCEPT ![c] = "writing"]
    /\ UNCHANGED <<peer, vars>>

\* The builder is written, if only to the socket's buffer: wait_for_close.
BuilderWritten(c) ==
    /\ daemon = "running"
    /\ conn[c] = "writing"
    /\ Advance(c, "holding")
    /\ UNCHANGED vars

\* The write fails, as it can once the client is not there.
BuilderNotWritten(c) ==
    /\ daemon = "running"
    /\ conn[c] = "writing"
    /\ peer[c] # "open"
    /\ EndConnection(c)

\* Mutant: nothing keeps the connection alive until its client closes.
ClosedAtOnce(c) ==
    /\ daemon = "running"
    /\ conn[c] = "holding"
    /\ EndConnection(c)

\* Mutant: after an error the connection is read again.
ClosedReadsAgain(c) ==
    /\ daemon = "running"
    /\ conn[c] = "holding"
    /\ peer[c] # "open"
    /\ IF peer[c] = "closed" THEN EndConnection(c) ELSE UNCHANGED allVars

\* The read of wait_for_close completes: the client closed, or it is found dead.
Closed(c) ==
    /\ daemon = "running"
    /\ conn[c] = "holding"
    /\ peer[c] # "open"
    /\ EndConnection(c)

\* The client closes its end, having got what it asked for or not.
PeerCloses(c) ==
    /\ peer[c] = "open"
    /\ peer' = [peer EXCEPT ![c] = "closed"]
    /\ UNCHANGED <<conn, builder, vars>>

\* The client's host or its network goes down.
PeerDies(c) ==
    /\ peer[c] = "open"
    /\ peer' = [peer EXCEPT ![c] = "dead"]
    /\ UNCHANGED <<conn, builder, vars>>

\* The handlers and timers of the commands the queue has launched.
Commands ==
    /\ \/ CreateFails
       \/ CreateLaunchError
       \/ retry_create_reserve_builders
       \/ \E b \in Builders : \/ CreateSucceeds(b)
                              \/ DestroyEnds(b)
                              \/ DestroyReadError(b)
                              \/ DestroyLaunchError(b)
                              \/ DestroyFalseSuccess(b)
                              \/ retry_return_builder(b)
    /\ UNCHANGED connection

DaemonInit ==
    /\ Init
    /\ conn = [c \in Handlers |-> "none"]
    /\ builder = [c \in Handlers |-> NoBuilder]
    /\ peer = [c \in Handlers |-> "away"]

Serve(c) ==
    \/ Handshake(c)
    \/ request_builder(c) \/ request_queue_stats(c) \/ request_image_list(c)
    \/ RequestFails(c)
    \/ ImageListError(c) \/ ImageList(c) \/ FirstReplied(c) \/ Replied(c)
    \/ builder_ready(c) \/ BuilderWritten(c) \/ BuilderNotWritten(c) \/ Closed(c)

DaemonNext ==
    \/ Commands
    \/ \E c \in Handlers : \/ Accept(c)
                           \/ Serve(c)
                           \/ PeerCloses(c)
                           \/ PeerDies(c)

DaemonSpec == DaemonInit /\ [][DaemonNext]_allVars

-----------------------------------------------------------------------------
DaemonTypeOK ==
    /\ TypeOK
    /\ conn \in [Handlers -> ConnStates]
    /\ builder \in [Handlers -> Builders \cup {NoBuilder}]
    /\ peer \in [Handlers -> PeerStates]

\* No builder is lost between the queue and the connections: whatever way a
\* connection ends, a builder is leased to it only while its object exists, and
\* from builder_ready on it is the one its destructor will return.
LeaseHasOwner ==
    \A c \in Handlers :
      /\ leased[c] # NoBuilder => conn[c] \in {"pending", "writing", "holding"}
      /\ conn[c] \in {"writing", "holding"} => builder[c] = leased[c]
      /\ builder[c] # NoBuilder => conn[c] \in {"writing", "holding"}

\* A connection waits for a builder exactly while its handler is queued or
\* posted, and a handler is never queued for a connection that is not waiting:
\* nobody is forgotten, and nobody is served twice.
PendingIsQueued ==
    \A c \in Handlers :
      conn[c] = "pending" <=> \/ c \in Elements(pending_handlers)
                              \/ leased[c] # NoBuilder /\ builder[c] = NoBuilder

TakenBack(c) == leased[c] # NoBuilder /\ leased'[c] # leased[c]

\* The builder of a client that is connected and waits for it, or has it, is
\* never destroyed under it.
ConnectedKeepsBuilder ==
    [][\A c \in Handlers : TakenBack(c) => peer[c] # "open"]_allVars

\* The daemon uses the queue only as BuilderQueue lets it be used.
QueueSpec == Spec
=============================================================================
