---------------------------- MODULE BuildSession ----------------------------
(***************************************************************************)
(* One build: the container-builder client and the builder-server on the   *)
(* machine the queue gave it.  Both are single-threaded programs of        *)
(* blocking calls, so their state is the call each is in, and one action   *)
(* is one frame written or read, or one step of local work.  The messages  *)
(* carry no type: what a frame means depends on who reads it when.         *)
(***************************************************************************)
EXTENDS Stream

CONSTANTS
    ContextChunks, \* chunks of cb-context.tar.gz
    ImageChunks,   \* chunks of the container image
    MaxOutput,     \* bound: reads of the build's output
    MaxFaults,     \* bound: failures of disks, commands, networks and machines
    MaxGarbled     \* bound: checksums read from a dangling buffer

ASSUME SessionAssumption ==
    /\ ContextChunks \in Nat \ {0}
    /\ ImageChunks \in Nat \ {0}
    /\ MaxOutput \in Nat
    /\ MaxFaults \in Nat
    /\ MaxGarbled \in Nat

VARIABLES
    client,    \* what the client is doing
    outcome,   \* what it told its user: "none", "completed" or "failed"
    c_sent,    \* chunks of the context it has written
    begun,     \* it has read a part of the message of the build's output
    container, \* its file container_path
    queue,     \* its connection to the queue
    builder,   \* what the builder is doing
    b_sent,    \* chunks of the image it has written
    context,   \* its file cb-context.tar.gz
    output,    \* pieces of the build's output it has read
    exit_code, \* exit code of the build
    faults,    \* failures so far
    garbled    \* checksums garbled so far

clientVars  == <<client, outcome, c_sent, begun, container, queue>>
builderVars == <<builder, b_sent, context, output, exit_code>>
sessionVars == <<stream, clientVars, builderVars, faults, garbled>>

(***************************************************************************)
(* A file is the sequence of its chunks, which are numbers above those of  *)
(* exit codes.  A frame holds a piece of data and whether it ends its      *)
(* message.  The checksum of a file is the file with a mark: different     *)
(* files have different checksums, collisions are ignored.                 *)
(***************************************************************************)
Context == [i \in 1..ContextChunks |-> 1 + i]
Image   == [i \in 1..ImageChunks |-> 1 + ContextChunks + i]

Frame(data, fin) == [data |-> data, fin |-> fin]

\* The chunk that write_file writes after the first n, the last one ending the message.
Chunk(file, n) == Frame(<<file[n + 1]>>, n + 1 = Len(file))

Checksum(file) == Append(file, -4)
Garbage        == <<>>

Untouched  == <<-1>>  \* container_path as it was before
Text       == <<-2>>  \* client data, or some output of the build
Altered    == <<-3>>  \* a chunk of a file after it was altered
NoExitCode == -1

ClientWrites == {"write_data", "write_context", "write_checksum"}
ClientReads  == {"stream_build", "read_exit_code", "read_image", "read_checksum", "draining"}
InSession    == ClientWrites \cup ClientReads \cup {"prepare", "open_image", "close_builder"}
Ended        == {"done", "killed", "dead"}

BuilderWrites == {"building", "flooding", "write_exit_code", "write_image", "write_checksum"}
BuilderReads  == {"read_data", "read_context", "read_checksum"}

\* The connection to the queue is lost, whether the client can learn of it or not.
TieLost == queue \in {"lost", "silent"}

Faulty == faults < MaxFaults /\ faults' = faults + 1

-----------------------------------------------------------------------------
(***************************************************************************)
(* The client.                                                             *)
(***************************************************************************)
\* main connects to the queue; one that falls silent in the handshake is one that
\* is silent from then on.
ConnectQueue ==
    /\ client = "connect_queue"
    /\ client' = "get_builder"
    /\ queue' = "open"
    /\ UNCHANGED <<stream, outcome, c_sent, begun, container, builderVars, faults, garbled>>

\* get_builder: the queue answers the request with a builder.
get_builder ==
    /\ client = "get_builder"
    /\ queue = "open"
    /\ client' = "connect_builder"
    /\ UNCHANGED <<stream, outcome, c_sent, begun, container, queue, builderVars,
                   faults, garbled>>

\* The client connects to the builder, which accepts: both are in main.
ConnectBuilder ==
    /\ client = "connect_builder"
    /\ builder = "listening"
    /\ link' = "up"
    /\ client' = "write_data"
    /\ builder' = "read_data"
    /\ UNCHANGED <<up, down, outcome, c_sent, begun, container, queue, b_sent,
                   context, output, exit_code, faults, garbled>>

\* write_client_data.
write_client_data ==
    /\ client = "write_data"
    /\ ClientSends(Frame(Text, TRUE))
    /\ client' = "prepare"
    /\ UNCHANGED <<outcome, c_sent, begun, container, queue, builderVars, faults, garbled>>

\* write_context packs the context into a temporary directory.
PrepareContext ==
    /\ client = "prepare"
    /\ client' = "write_context"
    /\ UNCHANGED <<stream, outcome, c_sent, begun, container, queue, builderVars,
                   faults, garbled>>

\* Mutant: whether a chunk is the last is decided before it is counted.
WriteContextNoFin ==
    /\ client = "write_context"
    /\ ClientSends(Frame(<<Context[c_sent + 1]>>, FALSE))
    /\ c_sent' = c_sent + 1
    /\ client' = IF c_sent' = ContextChunks THEN "write_checksum" ELSE client
    /\ UNCHANGED <<outcome, begun, container, queue, builderVars, faults, garbled>>

\* One turn of the loop of write_file.
WriteContext ==
    /\ client = "write_context"
    /\ ClientSends(Chunk(Context, c_sent))
    /\ c_sent' = c_sent + 1
    /\ client' = IF c_sent' = ContextChunks THEN "write_checksum" ELSE client
    /\ UNCHANGED <<outcome, begun, container, queue, builderVars, faults, garbled>>

\* The checksum is written from a string that no longer exists: it may be
\* intact still, or not.
WriteContextChecksum ==
    /\ client = "write_checksum"
    /\ \/ ClientSends(Frame(Checksum(Context), TRUE)) /\ UNCHANGED garbled
       \/ garbled < MaxGarbled /\ ClientSends(Frame(Garbage, TRUE)) /\ garbled' = garbled + 1
    /\ client' = "stream_build"
    /\ UNCHANGED <<outcome, c_sent, begun, container, queue, builderVars, faults>>

\* One turn of the loop of stream_build.  The library skips frames that are
\* empty and do not end the message.
stream_build ==
    /\ client = "stream_build"
    /\ ClientReceives
    /\ begun' = (~Head(down).fin /\ (begun \/ Head(down).data # <<>>))
    /\ client' = IF Head(down).fin THEN "read_exit_code" ELSE client
    /\ UNCHANGED <<outcome, c_sent, container, queue, builderVars, faults, garbled>>

\* read_some fails in that loop, which looks only at is_message_done: that is
\* true if no message has begun, and the loop ends.  If one has begun it is
\* false for ever: the loop spins, and no action of the client is enabled.
StreamFails ==
    /\ client = "stream_build"
    /\ ClientReadFails
    /\ ~begun
    /\ client' = "read_exit_code"
    /\ UNCHANGED <<stream, outcome, c_sent, begun, container, queue, builderVars,
                   faults, garbled>>

\* An exception leaves the client's try block.
Fail == client' = "close_builder" /\ outcome' = "failed"

\* Mutant: the exit code is read and ignored.
IgnoreExitCode ==
    /\ client = "read_exit_code"
    /\ ClientReceives
    /\ client' = "open_image"
    /\ UNCHANGED <<outcome, c_sent, begun, container, queue, builderVars, faults, garbled>>

\* The end of stream_build.
ReadExitCode ==
    /\ client = "read_exit_code"
    /\ ClientReceives
    /\ IF Head(down).data = <<0>> THEN client' = "open_image" /\ UNCHANGED outcome
                                  ELSE Fail
    /\ UNCHANGED <<c_sent, begun, container, queue, builderVars, faults, garbled>>

\* read_file truncates the container file.
OpenImage ==
    /\ client = "open_image"
    /\ container' = <<>>
    /\ client' = "read_image"
    /\ UNCHANGED <<stream, outcome, c_sent, begun, queue, builderVars, faults, garbled>>

\* One turn of the loop of read_file.
ReadImage ==
    /\ client = "read_image"
    /\ ClientReceives
    /\ container' = container \o Head(down).data
    /\ client' = IF Head(down).fin THEN "read_checksum" ELSE client
    /\ UNCHANGED <<outcome, c_sent, begun, queue, builderVars, faults, garbled>>

\* Mutant: the checksum is read and not compared.
IgnoreImageChecksum ==
    /\ client = "read_checksum"
    /\ ClientReceives
    /\ client' = "close_builder"
    /\ outcome' = "completed"
    /\ UNCHANGED <<c_sent, begun, container, queue, builderVars, faults, garbled>>

\* read_file compares the checksums.
VerifyImage ==
    /\ client = "read_checksum"
    /\ ClientReceives
    /\ IF Head(down).data = Checksum(container)
       THEN client' = "close_builder" /\ outcome' = "completed"
       ELSE Fail
    /\ UNCHANGED <<c_sent, begun, container, queue, builderVars, faults, garbled>>

\* Mutant: read_file ignores errors as stream_build does.
ErrorsIgnored ==
    /\ client \in ClientReads \ {"stream_build", "draining", "read_image"} /\ ClientReadFails
    /\ Fail
    /\ UNCHANGED <<stream, c_sent, begun, container, queue, builderVars, faults, garbled>>

\* Any other call on a connection that failed throws, and so does the one attempt
\* to connect to a machine whose service is not up yet: that is no failure of
\* anything, since the queue hands machines out before they listen.
ClientError ==
    /\ \/ client \in ClientReads \ {"stream_build", "draining"} /\ ClientReadFails
       \/ client \in ClientWrites /\ ClientWriteFails
       \/ client = "get_builder" /\ queue = "lost"
       \/ client = "connect_builder" /\ builder \in {"booting", "destroyed"}
    /\ Fail
    /\ UNCHANGED <<stream, c_sent, begun, container, queue, builderVars, faults, garbled>>

\* Mutant: the queue is closed before the builder.
CloseQueueFirst ==
    /\ client = "close_builder"
    /\ queue' = IF queue = "open" THEN "closed" ELSE queue
    /\ ClientCloses
    /\ client' = "draining"
    /\ UNCHANGED <<outcome, c_sent, begun, container, builderVars, faults, garbled>>

\* main closes the stream to the builder, and what still arrives is discarded
\* until the builder closes it, too.
CloseBuilder ==
    /\ client = "close_builder"
    /\ ClientCloses
    /\ client' = IF link' = "closing" THEN "draining" ELSE "close_queue"
    /\ UNCHANGED <<outcome, c_sent, begun, container, queue, builderVars, faults, garbled>>

Drain ==
    /\ client = "draining"
    /\ \/ ClientReceives /\ UNCHANGED client
       \/ ClientReadFails /\ client' = "close_queue" /\ UNCHANGED stream
    /\ UNCHANGED <<outcome, c_sent, begun, container, queue, builderVars, faults, garbled>>

\* It then closes the stream to the queue, and ends.
CloseQueue ==
    /\ client = "close_queue"
    /\ client' = "done"
    /\ queue' = IF queue = "open" THEN "closed" ELSE queue
    /\ ClientLeaves
    /\ UNCHANGED <<outcome, c_sent, begun, container, builderVars, faults, garbled>>

-----------------------------------------------------------------------------
(***************************************************************************)
(* The builder.                                                            *)
(***************************************************************************)
\* The machine is handed out once it is active; its service starts later.
Boot ==
    /\ builder = "booting"
    /\ builder' = "listening"
    /\ UNCHANGED <<stream, clientVars, b_sent, context, output, exit_code, faults, garbled>>

read_client_data ==
    /\ builder = "read_data"
    /\ BuilderReceives
    /\ builder' = "read_context"
    /\ UNCHANGED <<clientVars, b_sent, context, output, exit_code, faults, garbled>>

\* One turn of the loop of read_file.
ReadContext ==
    /\ builder = "read_context"
    /\ BuilderReceives
    /\ context' = context \o Head(up).data
    /\ builder' = IF Head(up).fin THEN "read_checksum" ELSE builder
    /\ UNCHANGED <<clientVars, b_sent, output, exit_code, faults, garbled>>

\* read_file compares the checksums.
VerifyContext ==
    /\ builder = "read_checksum"
    /\ BuilderReceives
    /\ builder' = IF Head(up).data = Checksum(context) THEN "untar" ELSE "leaving"
    /\ UNCHANGED <<clientVars, b_sent, context, output, exit_code, faults, garbled>>

\* read_context unpacks the context; stream_build launches the build.
StartBuild ==
    /\ builder = "untar"
    /\ builder' = "building"
    /\ UNCHANGED <<stream, clientVars, b_sent, context, output, exit_code, faults, garbled>>

\* The handler stream_output sends on a piece of output.  A read that fails
\* otherwise than by the end of the output is treated as one of no bytes.
StreamOutput ==
    /\ builder = "building"
    /\ output < MaxOutput
    /\ output' = output + 1
    /\ \E data \in {Text, <<>>} : BuilderSends(Frame(data, FALSE))
    /\ UNCHANGED <<clientVars, builder, b_sent, context, exit_code, faults, garbled>>

\* Every read fails: stream_output sends empty frames without end.
Flood ==
    /\ builder = "flooding"
    /\ BuilderSends(Frame(<<>>, FALSE))
    /\ UNCHANGED <<clientVars, builder, b_sent, context, output, exit_code, faults, garbled>>

\* Mutant: the exit code is taken before the process has ended.
BuildNotAwaited ==
    /\ builder = "building"
    /\ BuilderSends(Frame(<<>>, TRUE))
    /\ exit_code' \in {0, 1, 127}
    /\ builder' = "write_exit_code"
    /\ UNCHANGED <<clientVars, b_sent, context, output, faults, garbled>>

\* The output ends; stream_build then waits for the exit code.
BuildEnds ==
    /\ builder = "building"
    /\ BuilderSends(Frame(<<>>, TRUE))
    /\ exit_code' \in {0, 1}
    /\ builder' = "write_exit_code"
    /\ UNCHANGED <<clientVars, b_sent, context, output, faults, garbled>>

\* Mutant: the exit code is written only when the build failed.
WriteFailureOnly ==
    /\ builder = "write_exit_code"
    /\ IF exit_code = 0 THEN UNCHANGED stream ELSE BuilderSends(Frame(<<exit_code>>, TRUE))
    /\ builder' = IF exit_code = 0 THEN "write_image" ELSE "leaving"
    /\ UNCHANGED <<clientVars, b_sent, context, output, exit_code, faults, garbled>>

\* The exit code is written; unless it is zero an exception follows.
WriteExitCode ==
    /\ builder = "write_exit_code"
    /\ BuilderSends(Frame(<<exit_code>>, TRUE))
    /\ builder' = IF exit_code = 0 THEN "write_image" ELSE "leaving"
    /\ UNCHANGED <<clientVars, b_sent, context, output, exit_code, faults, garbled>>

\* One turn of the loop of write_file.
WriteImage ==
    /\ builder = "write_image"
    /\ BuilderSends(Chunk(Image, b_sent))
    /\ b_sent' = b_sent + 1
    /\ builder' = IF b_sent' = ImageChunks THEN "write_checksum" ELSE builder
    /\ UNCHANGED <<clientVars, context, output, exit_code, faults, garbled>>

\* As in the client, the checksum is written from a dangling buffer.
WriteImageChecksum ==
    /\ builder = "write_checksum"
    /\ \/ BuilderSends(Frame(Checksum(Image), TRUE)) /\ UNCHANGED garbled
       \/ garbled < MaxGarbled /\ BuilderSends(Frame(Garbage, TRUE)) /\ garbled' = garbled + 1
    /\ builder' = "leaving"
    /\ UNCHANGED <<clientVars, b_sent, context, output, exit_code, faults>>

\* main returns, and its locals close the socket.
Leave ==
    /\ builder = "leaving"
    /\ builder' = "exited"
    /\ BuilderLeaves
    /\ UNCHANGED <<clientVars, b_sent, context, output, exit_code, faults, garbled>>

\* Mutant: stream_output ignores that it cannot write.
WriteErrorsIgnored ==
    /\ \/ builder \in BuilderReads /\ BuilderReadFails
       \/ builder \in BuilderWrites \ {"building"} /\ BuilderWriteFails
    /\ builder' = "leaving"
    /\ UNCHANGED <<stream, clientVars, b_sent, context, output, exit_code, faults, garbled>>

\* A call on a connection that failed throws.
BuilderError ==
    /\ \/ builder \in BuilderReads /\ BuilderReadFails
       \/ builder \in BuilderWrites /\ BuilderWriteFails
    /\ builder' = "leaving"
    /\ UNCHANGED <<stream, clientVars, b_sent, context, output, exit_code, faults, garbled>>

-----------------------------------------------------------------------------
(***************************************************************************)
(* Failures, and the queue.                                                *)
(***************************************************************************)
\* Connecting to the queue, copying, packing, or a file operation fails.
ClientLocalFailure ==
    /\ client \in {"connect_queue", "prepare", "write_context", "open_image", "read_image"}
    /\ Faulty
    /\ Fail
    /\ UNCHANGED <<stream, c_sent, begun, container, queue, builderVars, garbled>>

\* Parsing, unpacking, launching the build, or a file operation fails.
BuilderLocalFailure ==
    /\ builder \in {"read_context", "untar", "write_image"}
    /\ Faulty
    /\ builder' = "leaving"
    /\ UNCHANGED <<stream, clientVars, b_sent, context, output, exit_code, garbled>>

\* The pipe of the build's output breaks.
PipeBreaks ==
    /\ builder = "building"
    /\ Faulty
    /\ builder' = "flooding"
    /\ UNCHANGED <<stream, clientVars, b_sent, context, output, exit_code, garbled>>

\* A chunk of a file is altered on its way.
Corrupt ==
    /\ Faulty
    /\ \/ \E i \in 1..Len(up) : /\ Len(up[i].data) = 1 /\ up[i].data[1] > 1
                                /\ up' = [up EXCEPT ![i].data = Altered]
                                /\ UNCHANGED down
       \/ \E i \in 1..Len(down) : /\ Len(down[i].data) = 1 /\ down[i].data[1] > 1
                                  /\ down' = [down EXCEPT ![i].data = Altered]
                                  /\ UNCHANGED up
    /\ UNCHANGED <<link, clientVars, builderVars, garbled>>

CutLink ==
    /\ Faulty
    /\ Cut
    /\ UNCHANGED <<clientVars, builderVars, garbled>>

\* SIGINT, or another end of the client's process: its sockets are closed.
ClientKilled ==
    /\ client \notin Ended
    /\ Faulty
    /\ client' = "killed"
    /\ queue' = IF queue = "open" THEN "closed" ELSE queue
    /\ ClientLeaves
    /\ UNCHANGED <<outcome, c_sent, begun, container, builderVars, garbled>>

\* The client's host or its network goes down.
ClientDies ==
    /\ client \notin Ended
    /\ Faulty
    /\ client' = "dead"
    /\ ClientVanishes
    /\ UNCHANGED <<outcome, c_sent, begun, container, queue, builderVars, garbled>>

\* The queue's keepalive probes find that out.
ProbesFail ==
    /\ client = "dead"
    /\ queue = "open"
    /\ queue' = "closed"
    /\ UNCHANGED <<stream, client, outcome, c_sent, begun, container, builderVars,
                   faults, garbled>>

\* The connection to the queue is lost, or the queue itself; the client may learn of
\* it, or hear nothing any more.
QueueLost ==
    /\ queue = "open"
    /\ client # "dead"
    /\ Faulty
    /\ queue' \in {"lost", "silent"}
    /\ UNCHANGED <<stream, client, outcome, c_sent, begun, container, builderVars, garbled>>

Vanish ==
    /\ builder # "destroyed"
    /\ builder' = "destroyed"
    /\ BuilderVanishes
    /\ UNCHANGED <<clientVars, b_sent, context, output, exit_code, faults, garbled>>

\* The queue destroys the builder when its connection to the client has ended;
\* if it is the connection that was lost, while the client builds on.
DestroyBuilder     == queue = "closed" /\ Vanish
DestroyBuilderLost == TieLost /\ Vanish

TcpGivesUp == GivesUp /\ UNCHANGED <<clientVars, builderVars, faults, garbled>>

-----------------------------------------------------------------------------
SessionInit ==
    /\ up = <<>> /\ down = <<>> /\ link = "none"
    /\ client = "connect_queue"
    /\ outcome = "none"
    /\ c_sent = 0
    /\ begun = FALSE
    /\ container = Untouched
    /\ queue = "none"
    /\ builder \in {"booting", "listening"}
    /\ b_sent = 0
    /\ context = <<>>
    /\ output = 0
    /\ exit_code = NoExitCode
    /\ faults = 0
    /\ garbled = 0

ClientStep ==
    \/ ConnectQueue \/ get_builder \/ write_client_data
    \/ PrepareContext \/ WriteContext \/ WriteContextChecksum
    \/ stream_build \/ StreamFails \/ ReadExitCode
    \/ OpenImage \/ ReadImage \/ VerifyImage
    \/ ClientError \/ CloseBuilder \/ Drain \/ CloseQueue

BuilderStep ==
    \/ Boot \/ read_client_data \/ ReadContext \/ VerifyContext
    \/ StartBuild \/ StreamOutput \/ Flood \/ BuildEnds \/ WriteExitCode
    \/ WriteImage \/ WriteImageChecksum \/ Leave \/ BuilderError

Failures ==
    \/ ClientLocalFailure \/ BuilderLocalFailure \/ PipeBreaks
    \/ Corrupt \/ CutLink \/ ClientKilled \/ ClientDies \/ QueueLost

SessionNext ==
    \/ ClientStep \/ BuilderStep \/ ConnectBuilder \/ Failures
    \/ ProbesFail \/ DestroyBuilder \/ DestroyBuilderLost \/ TcpGivesUp

SessionSpec == SessionInit /\ [][SessionNext]_sessionVars

(***************************************************************************)
(* Fairness.  Each program takes a step it can take; a build ends; the     *)
(* queue gives a waiting client a builder, and destroys the builder of one *)
(* that has gone (QueueDaemon); TCP and the keepalive probes time out.     *)
(***************************************************************************)
SessionLiveSpec ==
    /\ SessionSpec
    /\ WF_sessionVars(ClientStep)
    /\ WF_sessionVars(BuilderStep)
    /\ WF_sessionVars(ConnectBuilder)
    /\ WF_sessionVars(ProbesFail)
    /\ WF_sessionVars(DestroyBuilder)
    /\ WF_sessionVars(TcpGivesUp)

-----------------------------------------------------------------------------
Frames == [data : Seq(Int), fin : BOOLEAN]

SessionTypeOK ==
    /\ up \in Seq(Frames) /\ Len(up) <= Capacity
    /\ down \in Seq(Frames) /\ Len(down) <= Capacity
    /\ link \in LinkStates
    /\ client \in {"connect_queue", "get_builder", "connect_builder", "close_queue"}
                    \cup InSession \cup Ended
    /\ outcome \in {"none", "completed", "failed"}
    /\ c_sent \in 0..ContextChunks
    /\ begun \in BOOLEAN
    /\ container \in Seq(Int)
    /\ queue \in {"none", "open", "lost", "silent", "closed"}
    /\ builder \in {"booting", "listening", "untar", "leaving", "exited", "destroyed"}
                     \cup BuilderReads \cup BuilderWrites
    /\ b_sent \in 0..ImageChunks
    /\ context \in Seq(Int)
    /\ output \in 0..MaxOutput
    /\ exit_code \in {NoExitCode, 0, 1}
    /\ faults \in 0..MaxFaults
    /\ garbled \in 0..MaxGarbled

\* What the client calls completed is the whole image of a build that succeeded,
\* built from the whole context, whatever was altered, cut off or garbled: no
\* frame is ever taken for another, although nothing tells them apart.
DeliveredIntact ==
    outcome = "completed" => exit_code = 0 /\ context = Context /\ container = Image

\* The client waits for an answer of a queue that has fallen silent, spins in
\* stream_build, reads empty frames without end, or waits for a machine that has
\* vanished.
Stuck == \/ client = "get_builder" /\ queue = "silent"
         \/ client = "stream_build" /\ begun /\ ClientReadFails
         \/ client = "stream_build" /\ builder = "flooding"
         \/ client \in ClientReads /\ link = "lost_builder" /\ down = <<>>

\* Unless something failed, every frame is read by the call it was written for: the
\* client is never stuck, and fails only because the build did, or because it was
\* refused by a machine that did not listen yet and never had a link to it.
FaultFreeSucceeds ==
    faults = 0 /\ garbled = 0 =>
      ~Stuck /\ (outcome = "failed" => exit_code = 1 \/ link = "none")

ClientWaits == \/ client \in ClientReads /\ down = <<>>
               \/ client \in ClientWrites /\ Len(up) = Capacity
BuilderWaits == \/ builder \in BuilderReads /\ up = <<>>
                \/ builder \in BuilderWrites /\ Len(down) = Capacity

\* The two programs agree on whose turn it is: they never wait for each other.
NoMutualWait == link = "up" => ~(ClientWaits /\ BuilderWaits)

\* The builder is there for as long as the client uses it, unless the queue or
\* the connection to it is lost: the client leaves the builder before the queue.
BuilderOutlivesUse ==
    builder = "destroyed" /\ client \in InSession => TieLost

\* The file of an earlier build is touched only once the new one has succeeded.
OldImageSurvives == container # Untouched => exit_code = 0

\* The client ends, whatever fails: it disconnects from the builder and the
\* queue, or is killed.  Being stuck is the only way not to.
ClientEndsOrStuck == <>[](client \in Ended \/ Stuck)

\* A builder that was handed out does not run for ever, whether its client was
\* connected to it or refused, unless the tie to the queue, which would destroy it,
\* is lost and its client has not come or its host is lost, or it floods a client
\* that stays to read.
BuilderEnds ==
    client = "connect_builder" \/ builder = "read_data" ~>
      \/ builder \in {"exited", "destroyed"}
      \/ link \in {"none", "lost_client"} /\ TieLost
      \/ [](builder = "flooding" /\ client = "stream_build")

\* The client has the lease that Lease describes, as the clients of System do: it
\* uses its machine until the stream to it is closed, and only then lets go of the
\* queue; its machine is destroyed afterwards, or once the tie is lost.
Away == client \in Ended \/ queue = "none"
ClientLease == INSTANCE Lease WITH
    user    <- CASE Away -> "away"
                 [] ~Away /\ client = "get_builder" -> "asking"
                 [] ~Away /\ (client = "close_queue" \/ (client = "close_builder" /\ link = "none"))
                      -> "leaving"
                 [] OTHER -> "using",
    tie     <- CASE Away -> "none"
                 [] ~Away /\ queue = "open" -> "intact"
                 [] ~Away /\ queue = "closed" -> "none"
                 [] OTHER -> "lost",
    machine <- IF builder = "destroyed" \/ queue = "none" \/ client = "get_builder"
               THEN "none" ELSE "lent"
LeaseSpec == ClientLease!Spec

-----------------------------------------------------------------------------
\* "Attempt to disconnect from builder and queue" (Client main.cpp:406): when
\* the builder is gone the client ends.
ClientDisconnects == builder = "exited" ~> client \in Ended

\* "Send the checksum to the client" (Builder main.cpp:181): the checksum of a
\* file that arrived unaltered is the one that was computed for it.
ChecksumsAgree ==
    faults = 0 =>
      /\ client = "read_checksum" /\ down # <<>> => Head(down).data = Checksum(container)
      /\ builder = "read_checksum" /\ up # <<>> => Head(up).data = Checksum(context)
=============================================================================
