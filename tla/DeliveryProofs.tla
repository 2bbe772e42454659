--------------------------- MODULE DeliveryProofs ----------------------------
(***************************************************************************)
(* What a build delivers, for files of every length and every number and   *)
(* order of failures.  The frames of a session carry no type, so the proof *)
(* gives every frame in a buffer its place in the order in which the two   *)
(* programs write: what a call reads is what was written for it because    *)
(* the frame at the head of the buffer has the place that call reads at.   *)
(***************************************************************************)
EXTENDS BuildSessionProofs

-----------------------------------------------------------------------------
(***************************************************************************)
(* The invariant.                                                          *)
(***************************************************************************)
Writing == ClientWrites \cup {"prepare"}
Reading == {"stream_build", "read_exit_code", "open_image", "read_image", "read_checksum"}
Talking == Writing \cup Reading
Leaving == {"close_builder", "draining", "close_queue"} \cup Ended

\* Who is where when the connection has ended in which way.
LinkInv ==
    /\ client \in {"connect_queue", "get_builder", "connect_builder"} => link = "none"
    /\ client \in Talking => link \in {"up", "ended", "cut", "lost_builder"}
    /\ client = "draining" => link # "up"
    /\ link \in {"none", "cut"} => up = <<>> /\ down = <<>>
    /\ builder \in {"booting", "listening"} => link = "none"
    /\ link = "ended" => builder \in {"exited", "destroyed"}
    /\ link = "lost_builder" => builder = "destroyed"
    /\ client \in Writing =>
         down = <<>> /\ builder \in BuilderReads \cup {"leaving", "exited", "destroyed"}

\* A chunk of a file, as it was written or altered, and a part that is made of them.
IsChunk(data, file, n) == data \in {<<file[n]>>, Altered}
Pieces(part, file) ==
    Len(part) <= Len(file) /\ \A i \in 1..Len(part) : IsChunk(<<part[i]>>, file, i)

\* The frames of the client: its data, the context's chunks, and their checksum.
UpFrame(p, f) ==
    /\ p <= ContextChunks + 1
    /\ p \in 1..ContextChunks => IsChunk(f.data, Context, p) /\ (f.fin <=> p = ContextChunks)
    /\ p = ContextChunks + 1 => f.data \in {Checksum(Context), Garbage}

\* The place of the frame the builder reads next, and of the one the client writes next.
BuilderPos == IF builder = "read_data" THEN 0
              ELSE IF builder = "read_context" THEN 1 + Len(context)
              ELSE 1 + ContextChunks
ClientPos == IF client = "write_data" THEN 0
             ELSE IF client = "prepare" THEN 1
             ELSE IF client = "write_context" THEN 1 + c_sent
             ELSE IF client = "write_checksum" THEN 1 + ContextChunks
             ELSE 2 + ContextChunks

UpFollows(p) == \A i \in 1..Len(up) : UpFrame(p + i - 1, up[i])

UpInv ==
    builder \in BuilderReads =>
      /\ UpFollows(BuilderPos)
      /\ link = "up" /\ client \in Talking => BuilderPos + Len(up) = ClientPos
      /\ builder = "read_context" => Len(context) < ContextChunks

\* The frames of the builder: output, the end of the output (0), the exit code,
\* the image's chunks, and their checksum.
DownFrame(p, f, code) ==
    /\ p <= ImageChunks + 2
    /\ f.fin <=> p \in {0, 1} \/ p > ImageChunks
    /\ p = 1 => f.data = <<code>>
    /\ p \in 2..(ImageChunks + 1) => IsChunk(f.data, Image, p - 1)
    /\ p = ImageChunks + 2 => f.data \in {Checksum(Image), Garbage}

\* The place of the frame the builder writes next, and where the client reads.
BuilderDownPos == IF builder = "write_exit_code" THEN 1
                  ELSE IF builder = "write_image" THEN 2 + b_sent
                  ELSE IF builder = "write_checksum" THEN 2 + ImageChunks
                  ELSE 0
ReadsAt(p) ==
    /\ client = "stream_build"   => p <= 0
    /\ client = "read_exit_code" => p = 1
    /\ client = "open_image"     => p = 2
    /\ client = "read_image"     => p = 2 + Len(container)
    /\ client = "read_checksum"  => p = 2 + ImageChunks

DownFollows(p) == \A i \in 1..Len(down) : DownFrame(p + i - 1, down[i], exit_code)

DownAt(p) ==
    /\ ReadsAt(p)
    /\ DownFollows(p)
    /\ link = "up" /\ builder # "leaving" => p + Len(down) = BuilderDownPos

DownInv ==
    client \in Reading =>
      /\ \E p \in Int : p >= -Len(down) /\ p <= ImageChunks + 2 /\ DownAt(p)
      /\ client = "read_image" => Len(container) < ImageChunks

\* A build starts only from the whole context, and has an exit code from then on.
ContextInv ==
    /\ builder \in {"booting", "listening", "read_data"} => context = <<>>
    /\ builder \in {"booting", "listening", "untar", "building", "flooding"} \cup BuilderReads
         => exit_code = NoExitCode
    /\ builder \in {"untar", "building", "flooding"} \/ exit_code # NoExitCode
         => context = Context
    /\ builder \in {"write_image", "write_checksum"} => exit_code = 0
    /\ Pieces(context, Context)

\* The client takes the exit code for what it is, and the image for what it is.
OutcomeInv ==
    /\ client \in {"open_image", "read_image", "read_checksum"} \/ container # Untouched
         => exit_code = 0
    /\ client \in {"read_image", "read_checksum"} \/ container # Untouched
         => Pieces(container, Image)
    /\ outcome # "none" => client \in Leaving
    /\ outcome = "completed" => /\ exit_code = 0
                                /\ container = Image

DeliveryInv == TypeInv /\ LinkInv /\ UpInv /\ DownInv /\ ContextInv /\ OutcomeInv

-----------------------------------------------------------------------------
(***************************************************************************)
(* Frames and checksums.                                                   *)
(***************************************************************************)
\* Different files have different checksums, and garbage is none.
LEMMA ChecksumsDiffer ==
    ASSUME NEW f \in Seq(Int), NEW g \in Seq(Int)
    PROVE  /\ Checksum(f) = Checksum(g) => f = g
           /\ Checksum(f) # Garbage
           /\ Len(Checksum(f)) = Len(f) + 1
<1>1. -4 \in Int
  OBVIOUS
<1>2. Checksum(f) = Checksum(g) => f = g
  BY <1>1, AppendInjective DEF Checksum
<1>3. Checksum(f) # Garbage /\ Len(Checksum(f)) = Len(f) + 1
  BY <1>1, AppendProperties DEF Checksum, Garbage
<1> QED BY <1>2, <1>3

\* An altered chunk is still one chunk; nothing but chunks is altered.
LEMMA AlteredFrame ==
    ASSUME NEW f \in Frames, Len(f.data) = 1, f.data[1] > 1, NEW p \in Int
    PROVE  /\ UpFrame(p, f) => UpFrame(p, [f EXCEPT !.data = Altered])
           /\ exit_code \in {NoExitCode, 0, 1} /\ DownFrame(p, f, exit_code) =>
                DownFrame(p, [f EXCEPT !.data = Altered], exit_code)
<1>1. /\ [f EXCEPT !.data = Altered].data = Altered
      /\ [f EXCEPT !.data = Altered].fin = f.fin
  BY DEF Frames
<1>2. f.data \notin {Checksum(Context), Checksum(Image), Garbage}
  <2>1. Len(Checksum(Context)) = ContextChunks + 1 /\ Len(Checksum(Image)) = ImageChunks + 1
    BY ChecksumsDiffer, FilesType
  <2>2. Len(Garbage) = 0
    BY DEF Garbage
  <2>3. ContextChunks + 1 # 1 /\ ImageChunks + 1 # 1 /\ 0 # 1
    BY SessionAssumption
  <2> QED BY <2>1, <2>2, <2>3, Zenon
<1>3. exit_code \in {NoExitCode, 0, 1} => f.data # <<exit_code>>
  BY DEF NoExitCode
<1> QED BY <1>1, <1>2, <1>3 DEF UpFrame, DownFrame, IsChunk

\* A chunk holds one piece of its file, and ends its message if it is the last.
LEMMA ChunkFrame ==
    ASSUME NEW file \in Seq(Int), NEW n \in 0..(Len(file) - 1)
    PROVE  /\ IsChunk(Chunk(file, n).data, file, n + 1)
           /\ Chunk(file, n).data = <<file[n + 1]>>
           /\ Chunk(file, n).fin <=> n + 1 = Len(file)
BY DEF Chunk, Frame, IsChunk

\* The chunk that the builder writes after the first n has its place.
LEMMA ImageFrame ==
    ASSUME NEW f, NEW code, NEW n \in Nat, n < ImageChunks,
           IsChunk(f.data, Image, n + 1), f.fin <=> n + 1 = ImageChunks
    PROVE  DownFrame(2 + n, f, code)
<1>1. PICK p \in Int : p = 2 + n
  OBVIOUS
<1>2. /\ p <= ImageChunks + 2 /\ p # 0 /\ p # 1 /\ p # ImageChunks + 2
      /\ p > ImageChunks <=> n + 1 = ImageChunks
  BY <1>1, SessionAssumption
<1>3. p - 1 = n + 1
  BY <1>1
<1>4. DownFrame(p, f, code)
  BY <1>2, <1>3 DEF DownFrame
<1> QED BY <1>1, <1>4

\* A part of a file that is followed by its next chunk.
LEMMA PieceAdded ==
    ASSUME NEW part \in Seq(Int), NEW file \in Seq(Int), NEW data \in Seq(Int),
           Len(part) < Len(file), IsChunk(data, file, Len(part) + 1)
    PROVE  /\ Len(data) = 1 /\ Len(part \o data) = Len(part) + 1
           /\ Pieces(part, file) => Pieces(part \o data, file)
<1>1. Len(part) \in Nat /\ Len(file) \in Nat
  BY LenProperties
<1>2. Len(data) = 1 /\ <<data[1]>> = data
  BY DEF IsChunk, Altered
<1>3. Len(part \o data) = Len(part) + 1
  BY <1>2, ConcatProperties
<1>4. \A i \in 1..Len(part \o data) :
        (part \o data)[i] = IF i <= Len(part) THEN part[i] ELSE data[i - Len(part)]
  BY ConcatProperties
<1>5. ASSUME Pieces(part, file), NEW i \in 1..Len(part \o data)
      PROVE  IsChunk(<<(part \o data)[i]>>, file, i)
  <2>1. CASE i <= Len(part)
    <3>1. i \in 1..Len(part) /\ (part \o data)[i] = part[i]
      BY <1>1, <1>3, <1>4, <2>1
    <3> QED BY <1>5, <3>1 DEF Pieces
  <2>2. CASE i = Len(part) + 1
    <3>1. ~(i <= Len(part)) /\ i - Len(part) = 1
      BY <1>1, <2>2
    <3>2. (part \o data)[i] = data[1]
      BY <1>4, <3>1
    <3> QED BY <1>2, <2>2, <3>2
  <2>3. i \in 1..(Len(part) + 1)
    BY <1>3
  <2>4. i <= Len(part) \/ i = Len(part) + 1
    BY <1>1, <2>3
  <2> QED BY <2>1, <2>2, <2>4
<1>6. Len(part \o data) <= Len(file)
  BY <1>1, <1>3
<1> QED BY <1>2, <1>3, <1>5, <1>6 DEF Pieces

\* The first frame, and the others, move up when one is read.
LEMMA Received ==
    ASSUME NEW s \in Seq(Frames), s # <<>>
    PROVE  /\ Head(s) = s[1] /\ Head(s) \in Frames /\ Len(s) > 0
           /\ Len(Tail(s)) = Len(s) - 1
           /\ \A i \in 1..Len(Tail(s)) : Tail(s)[i] = s[i + 1]
<1>1. Head(s) = s[1]
  OBVIOUS
<1>2. Len(s) \in Nat /\ Len(s) # 0
  BY EmptySeq, LenProperties
<1> QED BY <1>1, <1>2, HeadTailProperties

-----------------------------------------------------------------------------
(***************************************************************************)
(* The connection.                                                         *)
(***************************************************************************)
LEMMA LinkStep ==
    ASSUME DeliveryInv, SessionNext
    PROVE  LinkInv'
<1>0. /\ LinkInv /\ StreamOK /\ ProgramsOK
      /\ client = "draining" => client \notin Talking
  BY TypeParts DEF DeliveryInv, Talking, Writing, Reading, ClientWrites
<1> USE DEF LinkInv, Talking, Writing, Reading, ClientWrites, BuilderReads, stream, clientVars,
            builderVars
<1>1. CASE ClientStep
  <2>1. CASE \/ ConnectQueue \/ get_builder \/ PrepareContext \/ StreamFails \/ OpenImage
             \/ ClientError
    BY <1>0, <2>1 DEF ConnectQueue, get_builder, PrepareContext, StreamFails, OpenImage, ClientError,
         ClientReads, Fail
  <2>2. CASE write_client_data \/ WriteContext \/ WriteContextChecksum
    BY <1>0, <2>2 DEF write_client_data, WriteContext, WriteContextChecksum, ClientSends, Reset
  <2>3. CASE stream_build \/ ReadExitCode \/ ReadImage \/ VerifyImage \/ Drain
    BY <1>0, <2>3 DEF stream_build, ReadExitCode, ReadImage, VerifyImage, Drain, ClientReceives, Fail
  <2>4. CASE CloseBuilder \/ CloseQueue
    BY <1>0, <2>4 DEF CloseBuilder, CloseQueue, ClientCloses, ClientLeaves, Reset
  <2> QED BY <1>1, <2>1, <2>2, <2>3, <2>4 DEF ClientStep
<1>2. CASE BuilderStep
  <2>1. CASE VerifyContext
    \* The checksum is there to be read only once the client has written it.
    <3>1. client \notin Writing
      <4> SUFFICES ASSUME client \in Writing PROVE FALSE
        OBVIOUS
      <4>1. builder = "read_checksum" /\ up # <<>> /\ link = "up"
        BY <1>0, <2>1 DEF VerifyContext, BuilderReceives
      <4>2. BuilderPos = 1 + ContextChunks /\ BuilderPos + Len(up) = ClientPos
        BY <4>1 DEF DeliveryInv, UpInv, BuilderPos
      <4>3. ClientPos \in Int /\ ClientPos <= 1 + ContextChunks
        BY <1>0, SessionAssumption DEF ClientPos, ProgramsOK
      <4>4. Len(up) \in Nat /\ Len(up) > 0
        BY <1>0, <4>1, Received DEF StreamOK
      <4> QED BY <4>2, <4>3, <4>4, SessionAssumption
    <3> QED BY <1>0, <2>1, <3>1 DEF VerifyContext, BuilderReceives
  <2>2. CASE read_client_data \/ ReadContext
    BY <1>0, <2>2 DEF read_client_data, ReadContext, BuilderReceives
  <2>3. CASE Boot \/ StartBuild \/ BuilderError
    BY <1>0, <2>3 DEF Boot, StartBuild, BuilderError, BuilderWrites
  <2>4. CASE StreamOutput \/ Flood \/ BuildEnds \/ WriteExitCode \/ WriteImage \/ WriteImageChecksum
    BY <1>0, <2>4 DEF StreamOutput, Flood, BuildEnds, WriteExitCode, WriteImage, WriteImageChecksum,
         BuilderSends, Reset
  <2>5. CASE Leave
    BY <1>0, <2>5 DEF Leave, BuilderLeaves, Reset
  <2> QED BY <1>2, <2>1, <2>2, <2>3, <2>4, <2>5 DEF BuilderStep
<1>3. CASE ConnectBuilder
  BY <1>0, <1>3 DEF ConnectBuilder
<1>4. CASE ClientLocalFailure \/ BuilderLocalFailure \/ PipeBreaks \/ QueueLost
           \/ ProbesFail
  BY <1>0, <1>4 DEF ClientLocalFailure, BuilderLocalFailure, PipeBreaks, QueueLost,
       ProbesFail, Fail
<1>5. CASE Corrupt
  <2>1. /\ up # <<>> \/ up' = up
        /\ down # <<>> \/ down' = down
        /\ UNCHANGED <<link, client, builder>>
    BY <1>5 DEF Corrupt
  <2> QED BY <1>0, <2>1
<1>6. CASE CutLink \/ TcpGivesUp
  BY <1>0, <1>6 DEF CutLink, Cut, TcpGivesUp, GivesUp, Reset
<1>7. CASE ClientKilled \/ ClientDies
  BY <1>0, <1>7 DEF ClientKilled, ClientDies, ClientLeaves, ClientVanishes, Reset
<1>8. CASE DestroyBuilder \/ DestroyBuilderLost
  BY <1>0, <1>8 DEF DestroyBuilder, DestroyBuilderLost, TieLost, Vanish, BuilderVanishes
<1> QED BY <1>1, <1>2, <1>3, <1>4, <1>5, <1>6, <1>7, <1>8 DEF SessionNext, Failures

-----------------------------------------------------------------------------
(***************************************************************************)
(* From the client to the builder.                                         *)
(***************************************************************************)
LEMMA Positions ==
    ASSUME ProgramsOK
    PROVE  /\ BuilderPos \in Nat /\ ClientPos \in Nat
           /\ BuilderDownPos \in Nat
BY SessionAssumption, LenProperties DEF ProgramsOK, BuilderPos, ClientPos, BuilderDownPos

\* Steps that neither read nor write, or that throw the frames away.
LEMMA UpQuiet ==
    ASSUME UpInv, UNCHANGED <<builder, context>>, up' \in {up, <<>>},
           link' = "up" => link = "up" /\ up' = up,
           client' \in Talking => client \in Talking /\ ClientPos' = ClientPos
    PROVE  UpInv'
<1>1. UNCHANGED BuilderPos
  BY DEF BuilderPos
<1>2. UpFollows(BuilderPos) => UpFollows(BuilderPos)'
  BY <1>1 DEF UpFollows
<1> QED BY <1>1, <1>2 DEF UpInv

\* The client writes the frame that has its place.
LEMMA UpWrite ==
    ASSUME StreamOK, ProgramsOK, LinkInv, UpInv, NEW f \in Frames, ClientSends(f),
           client \in Writing, client' \in Talking, UpFrame(ClientPos, f),
           ClientPos' = ClientPos + 1, UNCHANGED <<builder, context>>
    PROVE  UpInv'
<1> SUFFICES ASSUME builder \in BuilderReads PROVE UpInv'
  BY DEF UpInv
<1>1. link = "up" /\ up' = Append(up, f) /\ link' = link
  BY DEF LinkInv, Talking, ClientSends, BuilderReads
<1>2. UNCHANGED BuilderPos /\ BuilderPos + Len(up) = ClientPos /\ UpFollows(BuilderPos)
  BY <1>1 DEF BuilderPos, UpInv, Talking
<1>3. /\ Len(up) \in Nat /\ Len(up') = Len(up) + 1 /\ up'[Len(up) + 1] = f
      /\ \A i \in 1..Len(up) : up'[i] = up[i]
  BY <1>1, AppendProperties, LenProperties DEF StreamOK
<1>4. BuilderPos \in Nat /\ ClientPos \in Nat
  BY Positions
<1>5. ASSUME NEW i \in 1..Len(up') PROVE UpFrame(BuilderPos + i - 1, up'[i])
  <2>1. CASE i \in 1..Len(up)
    BY <1>2, <1>3, <2>1 DEF UpFollows
  <2>2. CASE i = Len(up) + 1
    <3>1. BuilderPos + i - 1 = ClientPos
      BY <1>2, <1>3, <1>4, <2>2
    <3> QED BY <1>3, <2>2, <3>1
  <2> QED BY <1>3, <2>1, <2>2
<1>6. BuilderPos' + Len(up') = ClientPos'
  BY <1>2, <1>3, <1>4
<1> QED BY <1>2, <1>5, <1>6 DEF UpInv, UpFollows

\* The builder reads the frame that has its place; it may read the next one.
LEMMA UpRead ==
    ASSUME StreamOK, ProgramsOK, LinkInv, UpInv, builder \in BuilderReads, BuilderReceives
    PROVE  /\ UpFrame(BuilderPos, Head(up)) /\ Head(up) \in Frames
           /\ BuilderPos' = BuilderPos + 1 /\ UNCHANGED <<client, c_sent>> =>
                /\ UpFollows(BuilderPos)'
                /\ link' = "up" /\ client' \in Talking =>
                     BuilderPos' + Len(up') = ClientPos'
<1>1. /\ up # <<>> /\ up' = Tail(up) /\ link' = link
      /\ Head(up) = up[1] /\ Head(up) \in Frames /\ Len(up) > 0 /\ Len(up) \in Nat
      /\ Len(up') = Len(up) - 1
      /\ \A i \in 1..Len(up') : up'[i] = up[i + 1]
  BY Received, LenProperties DEF StreamOK, BuilderReceives
<1>2. BuilderPos \in Nat /\ UpFollows(BuilderPos) /\ ClientPos \in Nat
  BY Positions DEF UpInv
<1>3. UpFrame(BuilderPos, Head(up))
  <2>1. UpFrame(BuilderPos + 1 - 1, up[1])
    BY <1>1, <1>2 DEF UpFollows
  <2> QED BY <1>1, <1>2, <2>1
<1>4. ASSUME BuilderPos' = BuilderPos + 1, NEW i \in 1..Len(up')
      PROVE  UpFrame(BuilderPos' + i - 1, up'[i])
  <2>1. UpFrame(BuilderPos + (i + 1) - 1, up[i + 1])
    BY <1>1, <1>2 DEF UpFollows
  <2>2. BuilderPos + (i + 1) - 1 = BuilderPos' + i - 1
    BY <1>2, <1>4
  <2> QED BY <1>1, <2>1, <2>2
<1>5. ASSUME BuilderPos' = BuilderPos + 1, UNCHANGED <<client, c_sent>>, link' = "up",
             client' \in Talking
      PROVE  BuilderPos' + Len(up') = ClientPos'
  <2>1. BuilderPos + Len(up) = ClientPos /\ ClientPos' = ClientPos
    BY <1>1, <1>5 DEF UpInv, ClientPos
  <2> QED BY <1>1, <1>2, <1>5, <2>1
<1> QED BY <1>1, <1>3, <1>4, <1>5 DEF UpFollows

LEMMA UpStep ==
    ASSUME DeliveryInv, SessionNext
    PROVE  UpInv'
<1>0. /\ StreamOK /\ ProgramsOK /\ LinkInv /\ UpInv /\ ContextInv
      /\ BuilderPos \in Nat /\ ClientPos \in Nat
  BY TypeParts, Positions DEF DeliveryInv
<1>a. ASSUME builder' \notin BuilderReads PROVE UpInv'
  BY <1>a DEF UpInv
<1> USE DEF Talking, Writing, Reading, ClientWrites, stream, clientVars, builderVars
<1>1. CASE ClientStep
  <2>1. CASE write_client_data
    <3>1. 0 <= ContextChunks + 1 /\ 0 \notin 1..ContextChunks /\ 0 # ContextChunks + 1
      BY SessionAssumption
    <3>2. UpFrame(0, Frame(Text, TRUE)) /\ Frame(Text, TRUE) \in Frames
      BY <3>1, FrameType, PieceType DEF UpFrame
    <3>3. /\ client = "write_data" /\ client' = "prepare" /\ ClientSends(Frame(Text, TRUE))
          /\ UNCHANGED <<builder, context>>
      BY <2>1 DEF write_client_data
    <3>4. ClientPos = 0 /\ ClientPos' = ClientPos + 1
      BY <3>3 DEF ClientPos
    <3> QED BY <1>0, <3>2, <3>3, <3>4, UpWrite
  <2>2. CASE WriteContext
    <3>1. /\ c_sent \in 0..(Len(Context) - 1) /\ c_sent \in Nat
          /\ Len(Context) = ContextChunks /\ Context \in Seq(Int)
      BY <1>0, <2>2, FilesType, SessionAssumption DEF WriteContext, ProgramsOK, ChunksLeft
    <3>2. UpFrame(1 + c_sent, Chunk(Context, c_sent)) /\ Chunk(Context, c_sent) \in Frames
      <4>1. 1 + c_sent = c_sent + 1
        BY <3>1
      <4> QED BY <3>1, <4>1, ChunkType, ChunkFrame, SessionAssumption DEF UpFrame
    <3>3. /\ client = "write_context" /\ ClientSends(Chunk(Context, c_sent))
          /\ c_sent' = c_sent + 1 /\ UNCHANGED <<builder, context>>
          /\ client' = IF c_sent' = ContextChunks THEN "write_checksum" ELSE client
      BY <2>2 DEF WriteContext
    <3>4. ClientPos = 1 + c_sent /\ ClientPos' = ClientPos + 1
      BY <3>1, <3>3 DEF ClientPos
    <3> QED BY <1>0, <3>2, <3>3, <3>4, UpWrite
  <2>3. CASE WriteContextChecksum
    <3>1. PICK data \in {Checksum(Context), Garbage} : ClientSends(Frame(data, TRUE))
      BY <2>3 DEF WriteContextChecksum
    <3>2. Frame(data, TRUE) \in Frames
      BY <3>1, ChecksumType, FilesType
    <3>3. UpFrame(1 + ContextChunks, Frame(data, TRUE))
      BY <3>1, SessionAssumption DEF UpFrame, Frame
    <3>4. /\ client = "write_checksum" /\ client' = "stream_build"
          /\ UNCHANGED <<builder, context, c_sent>>
      BY <2>3 DEF WriteContextChecksum
    <3>5. ClientPos = 1 + ContextChunks /\ ClientPos' = ClientPos + 1
      BY <3>4, SessionAssumption DEF ClientPos
    <3> QED BY <1>0, <3>1, <3>2, <3>3, <3>4, <3>5, UpWrite
  <2>4. CASE ConnectQueue \/ get_builder \/ StreamFails \/ OpenImage \/ ClientError
    BY <1>0, <2>4, UpQuiet DEF ConnectQueue, get_builder, StreamFails, OpenImage, ClientError, Fail,
       ClientPos
  <2>5. CASE PrepareContext
    BY <1>0, <2>5, UpQuiet DEF PrepareContext, ClientPos, ProgramsOK, ChunksLeft, BeforeContext
  <2>6. CASE stream_build \/ ReadExitCode \/ ReadImage \/ VerifyImage \/ Drain
    BY <1>0, <2>6, UpQuiet DEF stream_build, ReadExitCode, ReadImage, VerifyImage, Drain,
       ClientReceives, Fail, ClientPos
  <2>7. CASE CloseBuilder \/ CloseQueue
    BY <1>0, <2>7, UpQuiet DEF CloseBuilder, CloseQueue, ClientCloses, ClientLeaves, Reset
  <2> QED BY <1>1, <2>1, <2>2, <2>3, <2>4, <2>5, <2>6, <2>7 DEF ClientStep
<1>2. CASE BuilderStep
  <2>1. CASE read_client_data
    <3>1. context = <<>> /\ Len(context) = 0 /\ context' = context
      BY <1>0, <2>1 DEF read_client_data, ContextInv
    <3>2. /\ builder = "read_data" /\ builder' = "read_context" /\ BuilderReceives
          /\ UNCHANGED <<client, c_sent>>
      BY <2>1 DEF read_client_data
    <3>3. BuilderPos' = BuilderPos + 1
      BY <3>1, <3>2 DEF BuilderPos
    <3>4. Len(context') < ContextChunks
      BY <3>1, SessionAssumption
    <3> QED BY <1>0, <3>2, <3>3, <3>4, UpRead DEF UpInv, BuilderReads
  <2>2. CASE ReadContext
    <3>1. /\ builder = "read_context" /\ BuilderReceives /\ UNCHANGED <<client, c_sent>>
          /\ context' = context \o Head(up).data
          /\ builder' = IF Head(up).fin THEN "read_checksum" ELSE builder
      BY <2>2 DEF ReadContext
    <3>2. /\ UpFrame(BuilderPos, Head(up)) /\ Head(up) \in Frames
          /\ Len(context) < ContextChunks /\ Len(context) \in Nat /\ context \in Seq(Int)
      BY <1>0, <3>1, UpRead, LenProperties DEF UpInv, BuilderReads, ProgramsOK
    <3>3. BuilderPos = 1 + Len(context) /\ BuilderPos \in 1..ContextChunks
      BY <3>1, <3>2, SessionAssumption DEF BuilderPos
    <3>4. /\ IsChunk(Head(up).data, Context, Len(context) + 1) /\ Head(up).data \in Seq(Int)
          /\ Head(up).fin <=> 1 + Len(context) = ContextChunks
      <4>1. 1 + Len(context) = Len(context) + 1
        BY <3>2
      <4> QED BY <3>2, <3>3, <4>1 DEF UpFrame, Frames
    <3>5. Len(context') = Len(context) + 1
      BY <3>1, <3>2, <3>4, FilesType, PieceAdded
    <3>6. BuilderPos' = BuilderPos + 1
      BY <3>1, <3>3, <3>4, <3>5, SessionAssumption DEF BuilderPos
    <3>7. builder' = "read_context" => Len(context') < ContextChunks
      BY <3>1, <3>2, <3>4, <3>5, SessionAssumption
    <3> QED BY <1>0, <3>1, <3>6, <3>7, UpRead DEF UpInv, BuilderReads
  <2>3. CASE \/ Boot \/ VerifyContext \/ StartBuild \/ StreamOutput \/ Flood \/ BuildEnds
             \/ WriteExitCode \/ WriteImage \/ WriteImageChecksum \/ Leave \/ BuilderError
    BY <1>a, <2>3 DEF Boot, VerifyContext, StartBuild, StreamOutput, Flood, BuildEnds, WriteExitCode,
       WriteImage, WriteImageChecksum, Leave, BuilderError, BuilderReads
  <2> QED BY <1>2, <2>1, <2>2, <2>3 DEF BuilderStep
<1>3. CASE ConnectBuilder
  <2>1. /\ up' = <<>> /\ Len(up') = 0 /\ BuilderPos' = 0 /\ ClientPos' = 0
        /\ builder' = "read_data"
    BY <1>0, <1>3 DEF ConnectBuilder, LinkInv, BuilderPos, ClientPos
  <2> QED BY <2>1 DEF UpInv, UpFollows
<1>4. CASE Corrupt
  <2>1. UNCHANGED <<link, client, c_sent, builder, context>>
    BY <1>4 DEF Corrupt
  <2>2. CASE up' = up
    BY <1>0, <2>1, <2>2, UpQuiet DEF ClientPos
  <2>3. CASE up' # up
    <3>1. PICK i \in 1..Len(up) : /\ Len(up[i].data) = 1 /\ up[i].data[1] > 1
                                 /\ up' = [up EXCEPT ![i].data = Altered]
      BY <1>4, <2>3 DEF Corrupt
    <3>2. /\ Len(up) \in Nat /\ Len(up') = Len(up) /\ \A j \in 1..Len(up) : up[j] \in Frames
          /\ \A j \in 1..Len(up) : up'[j] = IF j = i THEN [up[i] EXCEPT !.data = Altered] ELSE up[j]
      BY <1>0, <3>1, LenProperties, ElementOfSeq DEF StreamOK
    <3>3. ASSUME UpFollows(BuilderPos), NEW j \in 1..Len(up)
          PROVE  UpFrame(BuilderPos + j - 1, up'[j])
      <4>1. UpFrame(BuilderPos + j - 1, up[j]) /\ BuilderPos + j - 1 \in Int
        BY <1>0, <3>2, <3>3 DEF UpFollows
      <4> QED BY <3>1, <3>2, <4>1, AlteredFrame
    <3>4. BuilderPos' = BuilderPos /\ ClientPos' = ClientPos
      BY <2>1 DEF BuilderPos, ClientPos
    <3> QED BY <1>0, <2>1, <3>2, <3>3, <3>4 DEF UpInv, UpFollows
  <2> QED BY <2>2, <2>3
<1>5. CASE ClientLocalFailure \/ QueueLost \/ ProbesFail
  BY <1>0, <1>5, UpQuiet DEF ClientLocalFailure, QueueLost, ProbesFail, Fail, ClientPos
<1>6. CASE CutLink \/ TcpGivesUp
  <2>1. up' = <<>> /\ link' = "cut" /\ UNCHANGED <<builder, context, client, c_sent>>
    BY <1>6 DEF CutLink, Cut, TcpGivesUp, GivesUp, Reset
  <2> QED BY <1>0, <2>1, UpQuiet DEF ClientPos
<1>7. CASE ClientKilled \/ ClientDies
  <2>1. UNCHANGED <<builder, context>> /\ client' \notin Talking
    BY <1>7 DEF ClientKilled, ClientDies
  <2>2. up' \in {up, <<>>} /\ (link' = "up" => FALSE)
    BY <1>0, <1>7 DEF ClientKilled, ClientDies, ClientLeaves, ClientVanishes, Reset, LinkInv
  <2> QED BY <1>0, <2>1, <2>2, UpQuiet
<1>8. CASE BuilderLocalFailure \/ PipeBreaks \/ DestroyBuilder \/ DestroyBuilderLost
  BY <1>a, <1>8 DEF BuilderLocalFailure, PipeBreaks, DestroyBuilder, DestroyBuilderLost, TieLost, Vanish,
     BuilderReads
<1> QED BY <1>1, <1>2, <1>3, <1>4, <1>5, <1>6, <1>7, <1>8 DEF SessionNext, Failures

-----------------------------------------------------------------------------
(***************************************************************************)
(* From the builder to the client.                                         *)
(***************************************************************************)
\* Steps that neither read nor write, or that throw the frames away.
LEMMA DownQuiet ==
    ASSUME StreamOK, ProgramsOK, DownInv, UNCHANGED <<container, exit_code>>,
           client' \in Reading => client' = client, down' \in {down, <<>>},
           link' = "up" => /\ link = "up" /\ down' = down
                           /\ builder' # "leaving" =>
                                builder # "leaving" /\ BuilderDownPos' = BuilderDownPos
    PROVE  DownInv'
<1> SUFFICES ASSUME client' \in Reading
             PROVE  /\ \E p \in Int : p >= -Len(down') /\ p <= ImageChunks + 2 /\ DownAt(p)'
                    /\ client' = "read_image" => Len(container') < ImageChunks
  BY DEF DownInv
<1>1. client' = client /\ client \in Reading
  OBVIOUS
<1>2. PICK p \in Int : p >= -Len(down) /\ p <= ImageChunks + 2 /\ DownAt(p)
  BY <1>1 DEF DownInv
<1>3. client = "read_image" => Len(container) < ImageChunks
  BY <1>1 DEF DownInv
<1>4. CASE down' = down
  <2>1. DownAt(p)'
    BY <1>1, <1>2, <1>4 DEF DownAt, ReadsAt, DownFollows
  <2> QED BY <1>1, <1>2, <1>3, <1>4, <2>1
<1>5. CASE down' # down
  <2>1. down' = <<>> /\ Len(down') = 0 /\ link' # "up"
    BY <1>5
  <2> DEFINE q == IF client = "stream_build" THEN 0 ELSE p
  <2>2. q \in Int /\ q <= ImageChunks + 2 /\ q >= 0
    BY <1>1, <1>2, SessionAssumption, LenProperties DEF DownAt, ReadsAt, Reading, ProgramsOK
  <2>3. ReadsAt(q)'
    BY <1>1, <1>2 DEF DownAt, ReadsAt
  <2>4. DownAt(q)'
    BY <2>1, <2>3 DEF DownAt, DownFollows
  <2> QED BY <1>1, <1>3, <2>1, <2>2, <2>4
<1> QED BY <1>4, <1>5

\* The builder writes the frame that has its place.  When it is output, of which
\* there is no saying how much, what was written before moves back by one.
LEMMA DownWrite ==
    ASSUME StreamOK, ProgramsOK, LinkInv, DownInv, builder \in BuilderWrites,
           NEW f \in Frames, BuilderSends(f), UNCHANGED <<client, container>>,
           \/ /\ exit_code' = exit_code /\ DownFrame(BuilderDownPos, f, exit_code)
              /\ builder' # "leaving" => BuilderDownPos' = BuilderDownPos + 1
           \/ /\ BuilderDownPos = 0 /\ DownFrame(0, f, exit_code')
              /\ builder' # "leaving" => BuilderDownPos' = 1
           \/ /\ exit_code' = exit_code /\ BuilderDownPos = 0 /\ ~f.fin
              /\ BuilderDownPos' = 0
    PROVE  DownInv'
<1> SUFFICES ASSUME client \in Reading
             PROVE  /\ \E p \in Int : p >= -Len(down') /\ p <= ImageChunks + 2 /\ DownAt(p)'
                    /\ client' = "read_image" => Len(container') < ImageChunks
  BY DEF DownInv
<1>1. PICK p \in Int : p >= -Len(down) /\ p <= ImageChunks + 2 /\ DownAt(p)
  BY DEF DownInv
<1>2. client = "read_image" => Len(container) < ImageChunks
  BY DEF DownInv
<1>3. link = "up" /\ link' = "up" /\ down' = Append(down, f)
  BY DEF LinkInv, Talking, Reading, BuilderSends, BuilderWrites
<1>4. /\ Len(down) \in Nat /\ Len(down') = Len(down) + 1 /\ down'[Len(down) + 1] = f
      /\ \A i \in 1..Len(down) : down'[i] = down[i]
  BY <1>3, AppendProperties, LenProperties DEF StreamOK
<1>5. p + Len(down) = BuilderDownPos /\ BuilderDownPos \in Nat
  BY <1>1, <1>3, Positions DEF DownAt, BuilderWrites
<1>6. CASE \/ /\ exit_code' = exit_code /\ DownFrame(BuilderDownPos, f, exit_code)
              /\ builder' # "leaving" => BuilderDownPos' = BuilderDownPos + 1
           \/ /\ BuilderDownPos = 0 /\ DownFrame(0, f, exit_code')
              /\ builder' # "leaving" => BuilderDownPos' = 1
  <2>1. DownFrame(BuilderDownPos, f, exit_code')
    BY <1>6
  <2>2. ASSUME NEW i \in 1..Len(down) PROVE DownFrame(p + i - 1, down[i], exit_code')
    <3>1. DownFrame(p + i - 1, down[i], exit_code)
      BY <1>1 DEF DownAt, DownFollows
    <3>2. exit_code' = exit_code \/ p + i - 1 # 1
      BY <1>4, <1>5, <1>6
    <3> QED BY <3>1, <3>2 DEF DownFrame
  <2>3. ASSUME NEW i \in 1..Len(down') PROVE DownFrame(p + i - 1, down'[i], exit_code')
    <3>1. CASE i \in 1..Len(down)
      BY <1>4, <2>2, <3>1
    <3>2. CASE i = Len(down) + 1
      <4>1. p + i - 1 = BuilderDownPos
        BY <1>4, <1>5, <3>2
      <4> QED BY <1>4, <2>1, <3>2, <4>1
    <3> QED BY <1>4, <3>1, <3>2
  <2>4. builder' # "leaving" => p + Len(down') = BuilderDownPos'
    BY <1>4, <1>5, <1>6
  <2>5. DownAt(p)'
    BY <1>1, <2>3, <2>4 DEF DownAt, DownFollows, ReadsAt
  <2> QED BY <1>1, <1>2, <1>4, <2>5
<1>7. CASE exit_code' = exit_code /\ BuilderDownPos = 0 /\ ~f.fin /\ BuilderDownPos' = 0
  <2> DEFINE q == p - 1
  <2>1. q \in Int /\ q >= -Len(down') /\ q <= ImageChunks + 2
    BY <1>1, <1>4, SessionAssumption
  <2>2. ASSUME NEW i \in 1..Len(down') PROVE DownFrame(q + i - 1, down'[i], exit_code)
    <3>1. CASE i \in 1..Len(down)
      <4>1. DownFrame(p + i - 1, down[i], exit_code)
        BY <1>1, <3>1 DEF DownAt, DownFollows
      <4>2. p + i - 1 < 0 /\ q + i - 1 < 0 /\ p + i - 1 \in Int /\ q + i - 1 \in Int
        BY <1>4, <1>5, <1>7, <3>1
      <4>3. ~down[i].fin
        BY <4>1, <4>2, SessionAssumption DEF DownFrame
      <4> QED BY <1>4, <3>1, <4>2, <4>3, SessionAssumption DEF DownFrame
    <3>2. CASE i = Len(down) + 1
      <4>1. q + i - 1 = -1
        BY <1>4, <1>5, <1>7, <3>2
      <4> QED BY <1>4, <1>7, <3>2, <4>1, SessionAssumption DEF DownFrame
    <3> QED BY <1>4, <3>1, <3>2
  <2>3. ReadsAt(q)'
    <3>1. client = "stream_build"
      BY <1>1, <1>4, <1>5, <1>7, SessionAssumption, LenProperties DEF DownAt, ReadsAt, Reading, ProgramsOK
    <3> QED BY <1>1, <3>1 DEF DownAt, ReadsAt
  <2>4. q + Len(down') = BuilderDownPos'
    BY <1>4, <1>5, <1>7
  <2>5. DownAt(q)'
    BY <1>7, <2>2, <2>3, <2>4 DEF DownAt, DownFollows
  <2> QED BY <1>2, <2>1, <2>5
<1> QED BY <1>6, <1>7

\* The client reads the frame that has its place; it may read the next one.
LEMMA DownRead ==
    ASSUME StreamOK, ProgramsOK, ClientReceives, NEW p \in Int,
           p >= -Len(down), p <= ImageChunks + 2, DownAt(p)
    PROVE  /\ DownFrame(p, Head(down), exit_code) /\ Head(down) \in Frames
           /\ p + 1 >= -Len(down')
           /\ ReadsAt(p + 1)' /\ UNCHANGED <<exit_code, builder, b_sent>> => DownAt(p + 1)'
<1>1. /\ down # <<>> /\ down' = Tail(down) /\ link' = link
      /\ Head(down) = down[1] /\ Head(down) \in Frames /\ Len(down) > 0 /\ Len(down) \in Nat
      /\ Len(down') = Len(down) - 1
      /\ \A i \in 1..Len(down') : down'[i] = down[i + 1]
  BY Received, LenProperties DEF StreamOK, ClientReceives
<1>2. DownFrame(p, Head(down), exit_code)
  <2>1. DownFrame(p + 1 - 1, down[1], exit_code)
    BY <1>1 DEF DownAt, DownFollows
  <2> QED BY <1>1, <2>1
<1>3. ASSUME NEW i \in 1..Len(down') PROVE DownFrame(p + 1 + i - 1, down'[i], exit_code)
  <2>1. DownFrame(p + (i + 1) - 1, down[i + 1], exit_code)
    BY <1>1 DEF DownAt, DownFollows
  <2>2. p + (i + 1) - 1 = p + 1 + i - 1
    OBVIOUS
  <2> QED BY <1>1, <2>1, <2>2
<1>4. ASSUME ReadsAt(p + 1)', UNCHANGED <<exit_code, builder, b_sent>> PROVE DownAt(p + 1)'
  <2>1. BuilderDownPos' = BuilderDownPos /\ BuilderDownPos \in Nat
    BY <1>4, Positions DEF BuilderDownPos
  <2>2. link' = "up" /\ builder' # "leaving" => p + 1 + Len(down') = BuilderDownPos'
    BY <1>1, <1>4, <2>1 DEF DownAt
  <2> QED BY <1>3, <1>4, <2>2 DEF DownAt, DownFollows
<1> QED BY <1>1, <1>2, <1>4

LEMMA DownStep ==
    ASSUME DeliveryInv, SessionNext
    PROVE  DownInv'
<1>0. StreamOK /\ ProgramsOK /\ LinkInv /\ DownInv /\ ContextInv
  BY TypeParts DEF DeliveryInv
<1>a. ASSUME client' \notin Reading PROVE DownInv'
  BY <1>a DEF DownInv
<1>b. ASSUME client \in Reading
      PROVE  \E p \in Int : p >= -Len(down) /\ p <= ImageChunks + 2 /\ DownAt(p)
  BY <1>0, <1>b DEF DownInv
<1>c. Len(down) \in Nat /\ Len(container) \in Nat /\ container \in Seq(Int)
  BY <1>0, LenProperties DEF StreamOK, ProgramsOK
<1> USE DEF stream, clientVars, builderVars
<1>1. CASE ClientStep
  <2>1. CASE ConnectQueue \/ get_builder \/ write_client_data \/ PrepareContext \/ WriteContext
             \/ VerifyImage \/ ClientError \/ CloseBuilder \/ Drain \/ CloseQueue
    BY <1>a, <2>1 DEF ConnectQueue, get_builder, write_client_data, PrepareContext, WriteContext,
       VerifyImage, ClientError, CloseBuilder, Drain, CloseQueue, Fail, Reading
  <2>2. CASE WriteContextChecksum
    <3>1. /\ client = "write_checksum" /\ client' = "stream_build" /\ builder' = builder
          /\ down' \in {down, <<>>}
      BY <2>2 DEF WriteContextChecksum, ClientSends, Reset
    <3>2. down' = <<>> /\ Len(down') = 0
      BY <1>0, <3>1 DEF LinkInv, Writing, ClientWrites
    <3>3. BuilderDownPos' = 0 \/ link' # "up" \/ builder' = "leaving"
      BY <1>0, <3>1 DEF LinkInv, BuilderReads, BuilderDownPos, Writing, ClientWrites
    <3>4. DownAt(0)'
      BY <3>1, <3>2, <3>3 DEF DownAt, ReadsAt, DownFollows
    <3> QED BY <3>1, <3>2, <3>4, SessionAssumption DEF DownInv, Reading
  <2>3. CASE stream_build
    <3>1. /\ client = "stream_build" /\ ClientReceives /\ UNCHANGED <<exit_code, builder, b_sent>>
          /\ client' = IF Head(down).fin THEN "read_exit_code" ELSE client
      BY <2>3 DEF stream_build
    <3>2. PICK p \in Int : p >= -Len(down) /\ p <= ImageChunks + 2 /\ DownAt(p)
      BY <1>b, <3>1 DEF Reading
    <3>3. p <= 0 /\ (Head(down).fin <=> p = 0)
      BY <1>0, <3>1, <3>2, DownRead, SessionAssumption DEF DownAt, ReadsAt, DownFrame
    <3>4. ReadsAt(p + 1)'
      BY <3>1, <3>2, <3>3 DEF ReadsAt
    <3>5. DownAt(p + 1)' /\ p + 1 >= -Len(down')
      BY <1>0, <3>1, <3>2, <3>4, DownRead
    <3>6. p + 1 \in Int /\ p + 1 <= ImageChunks + 2 /\ client' # "read_image"
      BY <3>1, <3>2, <3>3, SessionAssumption
    <3> QED BY <3>5, <3>6 DEF DownInv
  <2>4. CASE StreamFails
    <3>1. /\ client' = "read_exit_code" /\ down' = <<>> /\ Len(down') = 0 /\ link' # "up"
      BY <1>0, <2>4 DEF StreamFails, ClientReadFails, LinkInv
    <3>2. DownAt(1)'
      BY <3>1 DEF DownAt, ReadsAt, DownFollows
    <3> QED BY <3>1, <3>2, SessionAssumption DEF DownInv
  <2>5. CASE ReadExitCode
    <3>1. /\ client = "read_exit_code" /\ ClientReceives /\ UNCHANGED <<exit_code, builder, b_sent>>
          /\ client' \in {"open_image", "close_builder"}
      BY <2>5 DEF ReadExitCode, Fail
    <3>2. PICK p \in Int : p >= -Len(down) /\ p <= ImageChunks + 2 /\ DownAt(p)
      BY <1>b, <3>1 DEF Reading
    <3>3. p = 1 /\ p + 1 = 2
      BY <3>1, <3>2 DEF DownAt, ReadsAt
    <3>4. ReadsAt(2)'
      BY <3>1 DEF ReadsAt
    <3>5. DownAt(2)' /\ 2 >= -Len(down')
      BY <1>0, <3>1, <3>2, <3>3, <3>4, DownRead
    <3> QED BY <3>1, <3>5, SessionAssumption DEF DownInv
  <2>6. CASE OpenImage
    <3>1. /\ client = "open_image" /\ client' = "read_image" /\ container' = <<>>
          /\ UNCHANGED <<down, link, exit_code, builder, b_sent>>
          /\ Len(container') = 0
      BY <2>6 DEF OpenImage
    <3>2. PICK p \in Int : p >= -Len(down) /\ p <= ImageChunks + 2 /\ DownAt(p)
      BY <1>b, <3>1 DEF Reading
    <3>3. p = 2 /\ ReadsAt(2)'
      BY <3>1, <3>2 DEF DownAt, ReadsAt
    <3>4. BuilderDownPos' = BuilderDownPos
      BY <3>1 DEF BuilderDownPos
    <3>5. DownAt(2)' /\ 2 >= -Len(down')
      BY <3>1, <3>2, <3>3, <3>4 DEF DownAt, DownFollows
    <3> QED BY <3>1, <3>5, SessionAssumption DEF DownInv
  <2>7. CASE ReadImage
    <3>1. /\ client = "read_image" /\ ClientReceives /\ UNCHANGED <<exit_code, builder, b_sent>>
          /\ container' = container \o Head(down).data
          /\ client' = IF Head(down).fin THEN "read_checksum" ELSE client
      BY <2>7 DEF ReadImage
    <3>2. PICK p \in Int : p >= -Len(down) /\ p <= ImageChunks + 2 /\ DownAt(p)
      BY <1>b, <3>1 DEF Reading
    <3>3. p = 2 + Len(container) /\ Len(container) < ImageChunks
      BY <1>0, <3>1, <3>2 DEF DownAt, ReadsAt, DownInv, Reading
    <3>4. DownFrame(p, Head(down), exit_code) /\ Head(down) \in Frames
      BY <1>0, <3>1, <3>2, DownRead
    <3>5. p \in 2..(ImageChunks + 1)
      BY <1>c, <3>3, SessionAssumption
    <3>6. /\ IsChunk(Head(down).data, Image, Len(container) + 1) /\ Head(down).data \in Seq(Int)
          /\ Head(down).fin <=> p > ImageChunks
      <4>1. p - 1 = Len(container) + 1 /\ p # 1 /\ p # 0
        BY <1>c, <3>3
      <4> QED BY <3>4, <3>5, <4>1 DEF DownFrame, Frames
    <3>7. Len(container') = Len(container) + 1
      BY <1>c, <3>1, <3>3, <3>6, FilesType, PieceAdded
    <3>8. ReadsAt(p + 1)' /\ (client' = "read_image" => Len(container') < ImageChunks)
      <4>1. CASE Head(down).fin
        <5>1. client' = "read_checksum" /\ p + 1 = 2 + ImageChunks
          BY <3>1, <3>5, <3>6, <4>1, SessionAssumption
        <5> QED BY <5>1 DEF ReadsAt
      <4>2. CASE ~Head(down).fin
        <5>1. client' = "read_image" /\ p + 1 = 2 + Len(container') /\ Len(container') < ImageChunks
          BY <1>c, <3>1, <3>3, <3>6, <3>7, <4>2, SessionAssumption
        <5> QED BY <5>1 DEF ReadsAt
      <4> QED BY <4>1, <4>2
    <3>9. DownAt(p + 1)' /\ p + 1 >= -Len(down')
      BY <1>0, <3>1, <3>2, <3>8, DownRead
    <3>10. p + 1 \in Int /\ p + 1 <= ImageChunks + 2
      BY <3>5, SessionAssumption
    <3> QED BY <3>8, <3>9, <3>10 DEF DownInv
  <2> QED BY <1>1, <2>1, <2>2, <2>3, <2>4, <2>5, <2>6, <2>7 DEF ClientStep
<1>2. CASE BuilderStep
  <2>1. CASE Boot \/ read_client_data \/ ReadContext \/ VerifyContext \/ StartBuild \/ BuilderError
    <3>1. UNCHANGED <<client, container, exit_code, b_sent, down, link>>
      BY <2>1 DEF Boot, read_client_data, ReadContext, VerifyContext, StartBuild, BuilderError,
         BuilderReceives
    <3>2. builder' # "leaving" => builder # "leaving" /\ BuilderDownPos' = BuilderDownPos
      BY <2>1 DEF Boot, read_client_data, ReadContext, VerifyContext, StartBuild, BuilderError,
         BuilderDownPos
    <3> QED BY <1>0, <3>1, <3>2, DownQuiet
  <2>2. CASE Leave
    <3>1. /\ UNCHANGED <<client, container, exit_code>>
          /\ down' \in {down, <<>>} /\ link' # "up"
      BY <2>2 DEF Leave, BuilderLeaves, Reset
    <3> QED BY <1>0, <3>1, DownQuiet
  <2>3. CASE StreamOutput \/ Flood
    <3>1. PICK data \in {Text, <<>>} : BuilderSends(Frame(data, FALSE))
      BY <2>3 DEF StreamOutput, Flood
    <3>2. Frame(data, FALSE) \in Frames /\ ~Frame(data, FALSE).fin
      BY <3>1, FrameType, PieceType
    <3>3. /\ builder \in {"building", "flooding"} /\ builder' = builder
          /\ UNCHANGED <<client, container, exit_code>>
      BY <2>3 DEF StreamOutput, Flood
    <3>4. BuilderDownPos = 0 /\ BuilderDownPos' = 0 /\ builder \in BuilderWrites
      BY <3>3 DEF BuilderDownPos, BuilderWrites
    <3> QED BY <1>0, <3>1, <3>2, <3>3, <3>4, DownWrite
  <2>4. CASE BuildEnds
    <3>1. /\ builder = "building" /\ builder' = "write_exit_code" /\ BuilderSends(Frame(<<>>, TRUE))
          /\ UNCHANGED <<client, container>>
      BY <2>4 DEF BuildEnds
    <3>2. Frame(<<>>, TRUE) \in Frames /\ Frame(<<>>, TRUE).fin
      BY FrameType, PieceType
    <3>3. DownFrame(0, Frame(<<>>, TRUE), exit_code')
      <4>1. 0 <= ImageChunks + 2 /\ 0 # 1 /\ 0 \notin 2..(ImageChunks + 1) /\ 0 # ImageChunks + 2
        BY SessionAssumption
      <4> QED BY <3>2, <4>1 DEF DownFrame
    <3>4. BuilderDownPos = 0 /\ BuilderDownPos' = 1 /\ builder \in BuilderWrites
      BY <3>1 DEF BuilderDownPos, BuilderWrites
    <3> QED BY <1>0, <3>1, <3>2, <3>3, <3>4, DownWrite
  <2>5. CASE WriteExitCode
    <3>1. /\ builder = "write_exit_code" /\ BuilderSends(Frame(<<exit_code>>, TRUE))
          /\ builder' \in {"write_image", "leaving"} /\ b_sent' = b_sent
          /\ UNCHANGED <<client, container, exit_code>>
      BY <2>5 DEF WriteExitCode
    <3>2. <<exit_code>> \in Seq(Int) /\ b_sent = 0
      BY <1>0, <3>1 DEF ProgramsOK, NoExitCode, ChunksLeft, BeforeImage
    <3>3. /\ Frame(<<exit_code>>, TRUE) \in Frames /\ Frame(<<exit_code>>, TRUE).fin
          /\ Frame(<<exit_code>>, TRUE).data = <<exit_code>>
      BY <3>2, FrameType
    <3>4. DownFrame(1, Frame(<<exit_code>>, TRUE), exit_code)
      <4>1. 1 <= ImageChunks + 2 /\ 1 \notin 2..(ImageChunks + 1) /\ 1 # ImageChunks + 2
        BY SessionAssumption
      <4> QED BY <3>3, <4>1 DEF DownFrame
    <3>5. BuilderDownPos = 1 /\ builder \in BuilderWrites
      BY <3>1 DEF BuilderDownPos, BuilderWrites
    <3>6. builder' # "leaving" => BuilderDownPos' = BuilderDownPos + 1
      BY <3>1, <3>2, <3>5 DEF BuilderDownPos
    <3> QED BY <1>0, <3>1, <3>3, <3>4, <3>5, <3>6, DownWrite
  <2>6. CASE WriteImage
    <3>1. /\ builder = "write_image" /\ BuilderSends(Chunk(Image, b_sent)) /\ b_sent' = b_sent + 1
          /\ builder' = IF b_sent' = ImageChunks THEN "write_checksum" ELSE builder
          /\ UNCHANGED <<client, container, exit_code>>
      BY <2>6 DEF WriteImage
    <3>2. /\ b_sent \in 0..(Len(Image) - 1) /\ b_sent \in Nat
          /\ Len(Image) = ImageChunks /\ Image \in Seq(Int)
      BY <1>0, <3>1, FilesType, SessionAssumption DEF ProgramsOK, ChunksLeft
    <3>3. Chunk(Image, b_sent) \in Frames /\ IsChunk(Chunk(Image, b_sent).data, Image, b_sent + 1)
          /\ (Chunk(Image, b_sent).fin <=> b_sent + 1 = ImageChunks)
      BY <3>2, ChunkType, ChunkFrame
    <3>4. DownFrame(2 + b_sent, Chunk(Image, b_sent), exit_code)
      BY <3>2, <3>3, ImageFrame
    <3>5. BuilderDownPos = 2 + b_sent /\ BuilderDownPos' = BuilderDownPos + 1
          /\ builder \in BuilderWrites
      BY <3>1, <3>2, SessionAssumption DEF BuilderDownPos, BuilderWrites
    <3> QED BY <1>0, <3>1, <3>3, <3>4, <3>5, DownWrite
  <2>7. CASE WriteImageChecksum
    <3>1. PICK data \in {Checksum(Image), Garbage} : BuilderSends(Frame(data, TRUE))
      BY <2>7 DEF WriteImageChecksum
    <3>2. /\ Frame(data, TRUE) \in Frames /\ Frame(data, TRUE).fin
          /\ Frame(data, TRUE).data = data
      BY <3>1, ChecksumType, FilesType DEF Frame
    <3>3. DownFrame(2 + ImageChunks, Frame(data, TRUE), exit_code)
      <4>1. /\ 2 + ImageChunks <= ImageChunks + 2 /\ 2 + ImageChunks > ImageChunks
            /\ 2 + ImageChunks # 1 /\ 2 + ImageChunks \notin 2..(ImageChunks + 1)
        BY SessionAssumption
      <4> QED BY <3>1, <3>2, <4>1 DEF DownFrame
    <3>4. /\ builder = "write_checksum" /\ builder' = "leaving"
          /\ UNCHANGED <<client, container, exit_code>>
      BY <2>7 DEF WriteImageChecksum
    <3>5. BuilderDownPos = 2 + ImageChunks /\ builder \in BuilderWrites
      BY <3>4 DEF BuilderDownPos, BuilderWrites
    <3> QED BY <1>0, <3>1, <3>2, <3>3, <3>4, <3>5, DownWrite
  <2> QED BY <1>2, <2>1, <2>2, <2>3, <2>4, <2>5, <2>6, <2>7 DEF BuilderStep
<1>3. CASE ConnectBuilder
  BY <1>a, <1>3 DEF ConnectBuilder, Reading
<1>4. CASE Corrupt
  <2>1. UNCHANGED <<link, client, container, builder, b_sent, exit_code>>
    BY <1>4 DEF Corrupt
  <2>2. BuilderDownPos' = BuilderDownPos
    BY <2>1 DEF BuilderDownPos
  <2>3. CASE down' = down
    BY <1>0, <2>1, <2>2, <2>3, DownQuiet
  <2>4. CASE down' # down
    <3>1. PICK i \in 1..Len(down) : /\ Len(down[i].data) = 1 /\ down[i].data[1] > 1
                                   /\ down' = [down EXCEPT ![i].data = Altered]
      BY <1>4, <2>4 DEF Corrupt
    <3>2. /\ Len(down) \in Nat /\ Len(down') = Len(down) /\ \A j \in 1..Len(down) : down[j] \in Frames
          /\ \A j \in 1..Len(down) :
               down'[j] = IF j = i THEN [down[i] EXCEPT !.data = Altered] ELSE down[j]
      BY <1>0, <3>1, LenProperties, ElementOfSeq DEF StreamOK
    <3>3. ASSUME NEW p \in Int, DownFollows(p), NEW j \in 1..Len(down)
          PROVE  DownFrame(p + j - 1, down'[j], exit_code)
      <4>1. DownFrame(p + j - 1, down[j], exit_code) /\ p + j - 1 \in Int
        BY <3>2, <3>3 DEF DownFollows
      <4>2. exit_code \in {NoExitCode, 0, 1}
        BY <1>0 DEF ProgramsOK
      <4> QED BY <3>1, <3>2, <4>1, <4>2, AlteredFrame
    <3> SUFFICES ASSUME client \in Reading PROVE DownInv'
      BY <1>a, <2>1
    <3>4. PICK p \in Int : p >= -Len(down) /\ p <= ImageChunks + 2 /\ DownAt(p)
      BY <1>b
    <3>5. DownFollows(p)' /\ ReadsAt(p)'
      BY <2>1, <3>2, <3>3, <3>4 DEF DownAt, DownFollows, ReadsAt
    <3>6. DownAt(p)'
      BY <2>1, <2>2, <3>2, <3>4, <3>5 DEF DownAt
    <3> QED BY <1>0, <2>1, <3>2, <3>4, <3>6 DEF DownInv
  <2> QED BY <2>3, <2>4
<1>5. CASE QueueLost \/ ProbesFail \/ BuilderLocalFailure \/ PipeBreaks
  <2>1. /\ UNCHANGED <<client, container, exit_code, down, link>>
        /\ builder' # "leaving" => builder # "leaving" /\ BuilderDownPos' = BuilderDownPos
    BY <1>5 DEF QueueLost, ProbesFail, BuilderLocalFailure, PipeBreaks, BuilderDownPos
  <2> QED BY <1>0, <2>1, DownQuiet
<1>6. CASE ClientLocalFailure \/ ClientKilled \/ ClientDies
  BY <1>a, <1>6 DEF ClientLocalFailure, ClientKilled, ClientDies, Fail, Reading
<1>7. CASE CutLink \/ TcpGivesUp
  <2>1. down' = <<>> /\ link' = "cut" /\ UNCHANGED <<client, container, exit_code>>
    BY <1>7 DEF CutLink, Cut, TcpGivesUp, GivesUp, Reset
  <2> QED BY <1>0, <2>1, DownQuiet
<1>8. CASE DestroyBuilder \/ DestroyBuilderLost
  <2>1. /\ down' = down /\ link' # "up" /\ UNCHANGED <<client, container, exit_code>>
    BY <1>8 DEF DestroyBuilder, DestroyBuilderLost, TieLost, Vanish, BuilderVanishes
  <2> QED BY <1>0, <2>1, DownQuiet
<1> QED BY <1>1, <1>2, <1>3, <1>4, <1>5, <1>6, <1>7, <1>8 DEF SessionNext, Failures

-----------------------------------------------------------------------------
(***************************************************************************)
(* What the two sides conclude from what they read.                        *)
(***************************************************************************)
LEMMA ContextStep ==
    ASSUME DeliveryInv, SessionNext
    PROVE  ContextInv'
<1>0. StreamOK /\ ProgramsOK /\ LinkInv /\ UpInv /\ ContextInv
  BY TypeParts DEF DeliveryInv
<1>a. ASSUME UNCHANGED <<builder, context, exit_code>> PROVE ContextInv'
  BY <1>0, <1>a DEF ContextInv
<1> USE DEF stream, clientVars, builderVars
<1>1. CASE ClientStep
  <2>1. UNCHANGED <<builder, context, exit_code>>
    BY <1>1 DEF ClientStep, ConnectQueue, get_builder, write_client_data, PrepareContext, WriteContext,
       WriteContextChecksum, stream_build, StreamFails, ReadExitCode, OpenImage, ReadImage,
       VerifyImage, ClientError, CloseBuilder, Drain, CloseQueue
  <2> QED BY <1>a, <2>1
<1>2. CASE BuilderStep
  <2>1. CASE VerifyContext
    <3>1. /\ builder = "read_checksum" /\ BuilderReceives /\ UNCHANGED <<context, exit_code>>
          /\ builder' = IF Head(up).data = Checksum(context) THEN "untar" ELSE "leaving"
      BY <2>1 DEF VerifyContext
    <3>2. UpFrame(1 + ContextChunks, Head(up))
      BY <1>0, <3>1, UpRead DEF BuilderReads, BuilderPos
    <3>3. Head(up).data \in {Checksum(Context), Garbage}
      BY <3>2, SessionAssumption DEF UpFrame
    <3>4. builder' = "untar" => context = Context
      BY <1>0, <3>1, <3>3, ChecksumsDiffer, FilesType DEF ProgramsOK
    <3> QED BY <1>0, <3>1, <3>4 DEF ContextInv, BuilderReads
  <2>2. CASE Boot \/ read_client_data \/ StartBuild \/ BuilderError \/ Leave
    BY <1>0, <2>2 DEF Boot, read_client_data, StartBuild, BuilderError, Leave,
       ContextInv, BuilderReads, BuilderWrites
  <2>4. CASE ReadContext
    <3>1. /\ builder = "read_context" /\ builder' \in {"read_context", "read_checksum"}
          /\ BuilderReceives /\ context' = context \o Head(up).data /\ UNCHANGED exit_code
      BY <2>4 DEF ReadContext
    <3>2. /\ UpFrame(1 + Len(context), Head(up)) /\ Head(up).data \in Seq(Int)
          /\ context \in Seq(Int) /\ Len(context) \in Nat /\ Len(context) < ContextChunks
      BY <1>0, <3>1, UpRead, LenProperties DEF UpInv, BuilderReads, BuilderPos, ProgramsOK, Frames
    <3>3. 1 + Len(context) = Len(context) + 1 /\ Len(context) + 1 \in 1..ContextChunks
      BY <3>2, SessionAssumption
    <3>4. Pieces(context', Context)
      BY <1>0, <3>1, <3>2, <3>3, FilesType, PieceAdded DEF ContextInv, UpFrame
    <3> QED BY <1>0, <3>1, <3>4 DEF ContextInv, BuilderReads
  <2>3. CASE StreamOutput \/ Flood \/ BuildEnds \/ WriteExitCode \/ WriteImage \/ WriteImageChecksum
    BY <1>0, <2>3 DEF StreamOutput, Flood, BuildEnds, WriteExitCode, WriteImage, WriteImageChecksum,
       ContextInv, BuilderReads
  <2> QED BY <1>2, <2>1, <2>2, <2>3, <2>4 DEF BuilderStep
<1>3. CASE ConnectBuilder
  BY <1>0, <1>3 DEF ConnectBuilder, ContextInv, BuilderReads
<1>4. CASE \/ Corrupt \/ CutLink \/ TcpGivesUp \/ ClientKilled \/ ClientDies \/ QueueLost \/ ProbesFail
           \/ ClientLocalFailure
  BY <1>a, <1>4 DEF Corrupt, CutLink, TcpGivesUp, ClientKilled, ClientDies, QueueLost, ProbesFail,
     ClientLocalFailure
<1>5. CASE BuilderLocalFailure \/ PipeBreaks \/ DestroyBuilder \/ DestroyBuilderLost
  BY <1>0, <1>5 DEF BuilderLocalFailure, PipeBreaks, DestroyBuilder, DestroyBuilderLost, TieLost, Vanish,
     ContextInv, BuilderReads
<1> QED BY <1>1, <1>2, <1>3, <1>4, <1>5 DEF SessionNext, Failures

LEMMA OutcomeStep ==
    ASSUME DeliveryInv, SessionNext
    PROVE  OutcomeInv'
<1>0. StreamOK /\ ProgramsOK /\ LinkInv /\ DownInv /\ ContextInv /\ OutcomeInv
  BY TypeParts DEF DeliveryInv
<1>b. ASSUME client \in Reading
      PROVE  \E p \in Int : p >= -Len(down) /\ p <= ImageChunks + 2 /\ DownAt(p)
  BY <1>0, <1>b DEF DownInv
<1> USE DEF stream, clientVars, builderVars, Talking, Writing, Reading, ClientWrites, Leaving, Ended
<1>1. CASE ClientStep
  <2>1. CASE ReadExitCode
    <3>1. /\ client = "read_exit_code" /\ ClientReceives /\ UNCHANGED <<exit_code, container>>
          /\ \/ Head(down).data = <<0>> /\ client' = "open_image" /\ outcome' = outcome
             \/ client' = "close_builder" /\ outcome' = "failed"
      BY <2>1 DEF ReadExitCode, Fail
    <3>2. PICK p \in Int : p >= -Len(down) /\ p <= ImageChunks + 2 /\ DownAt(p)
      BY <1>b, <3>1
    <3>3. p = 1
      BY <3>1, <3>2 DEF DownAt, ReadsAt
    <3>4. Head(down).data = <<exit_code>>
      BY <1>0, <3>1, <3>2, <3>3, DownRead DEF DownFrame
    <3>5. client' = "open_image" => exit_code = 0
      BY <3>1, <3>4
    <3> QED BY <1>0, <3>1, <3>5 DEF OutcomeInv
  <2>2. CASE VerifyImage
    <3>1. /\ client = "read_checksum" /\ ClientReceives /\ UNCHANGED <<exit_code, container>>
          /\ client' = "close_builder"
          /\ outcome' = "completed" => Head(down).data = Checksum(container)
      BY <2>2 DEF VerifyImage, Fail
    <3>2. PICK p \in Int : p >= -Len(down) /\ p <= ImageChunks + 2 /\ DownAt(p)
      BY <1>b, <3>1
    <3>3. p = 2 + ImageChunks
      BY <3>1, <3>2 DEF DownAt, ReadsAt
    <3>4. DownFrame(p, Head(down), exit_code)
      BY <1>0, <3>1, <3>2, DownRead
    <3>5. Head(down).data \in {Checksum(Image), Garbage}
      BY <3>3, <3>4, SessionAssumption DEF DownFrame
    <3>6. outcome' = "completed" => container = Image
      BY <1>0, <3>1, <3>5, ChecksumsDiffer, FilesType DEF ProgramsOK
    <3> QED BY <1>0, <3>1, <3>6 DEF OutcomeInv
  <2>3. CASE \/ ConnectQueue \/ get_builder \/ write_client_data \/ PrepareContext \/ WriteContext
             \/ WriteContextChecksum \/ stream_build \/ StreamFails
    BY <1>0, <2>3 DEF ConnectQueue, get_builder, write_client_data, PrepareContext, WriteContext,
       WriteContextChecksum, stream_build, StreamFails, OutcomeInv
  <2>4. CASE OpenImage
    <3>1. container' = <<>> /\ Pieces(<<>>, Image)
      BY <2>4, FilesType, SessionAssumption DEF OpenImage, Pieces
    <3> QED BY <1>0, <2>4, <3>1 DEF OpenImage, OutcomeInv
  <2>6. CASE ReadImage
    <3>1. /\ client = "read_image" /\ client' \in {"read_image", "read_checksum"} /\ ClientReceives
          /\ container' = container \o Head(down).data /\ UNCHANGED <<exit_code, outcome>>
      BY <2>6 DEF ReadImage
    <3>2. PICK p \in Int : p >= -Len(down) /\ p <= ImageChunks + 2 /\ DownAt(p)
      BY <1>b, <3>1
    <3>3. /\ p = 2 + Len(container) /\ Len(container) < ImageChunks /\ Len(container) \in Nat
          /\ container \in Seq(Int)
      BY <1>0, <3>1, <3>2, LenProperties DEF DownAt, ReadsAt, DownInv, ProgramsOK
    <3>4. DownFrame(p, Head(down), exit_code) /\ Head(down).data \in Seq(Int)
      BY <1>0, <3>1, <3>2, DownRead DEF Frames
    <3>5. p \in 2..(ImageChunks + 1) /\ p - 1 = Len(container) + 1
      BY <3>3, SessionAssumption
    <3>6. Pieces(container', Image)
      BY <1>0, <3>1, <3>3, <3>4, <3>5, FilesType, PieceAdded DEF OutcomeInv, DownFrame
    <3> QED BY <1>0, <3>1, <3>6 DEF OutcomeInv
  <2>7. CASE CloseBuilder \/ Drain \/ CloseQueue
    BY <1>0, <2>7 DEF CloseBuilder, Drain, CloseQueue, OutcomeInv
  <2>5. CASE ClientError
    BY <1>0, <2>5 DEF ClientError, Fail, OutcomeInv
  <2> QED BY <1>1, <2>1, <2>2, <2>3, <2>4, <2>5, <2>6, <2>7 DEF ClientStep
<1>2. CASE BuilderStep
  <2>1. CASE BuildEnds
    <3>1. exit_code = NoExitCode /\ UNCHANGED <<client, container, outcome>>
      BY <1>0, <2>1 DEF BuildEnds, ContextInv
    <3>2. NoExitCode # 0
      BY DEF NoExitCode
    <3> QED BY <1>0, <3>1, <3>2 DEF OutcomeInv
  <2>2. CASE ~BuildEnds
    <3>1. UNCHANGED <<client, container, outcome, exit_code>>
      BY <1>2, <2>2 DEF BuilderStep, Boot, read_client_data, ReadContext, VerifyContext, StartBuild,
         StreamOutput, Flood, WriteExitCode, WriteImage, WriteImageChecksum, Leave, BuilderError
    <3> QED BY <1>0, <3>1 DEF OutcomeInv
  <2> QED BY <2>1, <2>2
<1>3. CASE ConnectBuilder \/ ClientLocalFailure \/ ClientKilled \/ ClientDies
  BY <1>0, <1>3 DEF ConnectBuilder, ClientLocalFailure, ClientKilled, ClientDies,
     Fail, OutcomeInv
<1>4. CASE \/ Corrupt \/ CutLink \/ TcpGivesUp \/ QueueLost \/ ProbesFail \/ BuilderLocalFailure
           \/ PipeBreaks \/ DestroyBuilder \/ DestroyBuilderLost
  <2>1. UNCHANGED <<client, container, outcome, exit_code>>
    BY <1>4 DEF Corrupt, CutLink, TcpGivesUp, QueueLost, ProbesFail, BuilderLocalFailure, PipeBreaks,
       DestroyBuilder, DestroyBuilderLost, TieLost, Vanish
  <2> QED BY <1>0, <2>1 DEF OutcomeInv
<1> QED BY <1>1, <1>2, <1>3, <1>4 DEF SessionNext, Failures

-----------------------------------------------------------------------------
LEMMA DeliveryInit == SessionInit => DeliveryInv
<1> SUFFICES ASSUME SessionInit PROVE DeliveryInv
  OBVIOUS
<1>1. TypeInv
  BY TypeInit
<1>2. LinkInv
  BY DEF SessionInit, LinkInv, Talking, Writing, Reading, ClientWrites
<1>3. UpInv /\ DownInv
  BY DEF SessionInit, UpInv, DownInv, BuilderReads, Reading
<1>4. ContextInv
  <2>1. Pieces(<<>>, Context)
    BY FilesType, SessionAssumption DEF Pieces
  <2> QED BY <2>1 DEF SessionInit, ContextInv, BuilderReads
<1>5. OutcomeInv
  BY DEF SessionInit, OutcomeInv
<1> QED BY <1>1, <1>2, <1>3, <1>4, <1>5 DEF DeliveryInv

\* A step of the session, or none, keeps every frame in its place.
LEMMA DeliveryKept == DeliveryInv /\ [SessionNext]_sessionVars => DeliveryInv'
<1>1. ASSUME DeliveryInv, SessionNext PROVE DeliveryInv'
  <2>1. TypeInv'
    BY <1>1, TypeStep DEF DeliveryInv
  <2>2. LinkInv' /\ UpInv' /\ DownInv' /\ ContextInv' /\ OutcomeInv'
    BY <1>1, LinkStep, UpStep, DownStep, ContextStep, OutcomeStep
  <2> QED BY <2>1, <2>2 DEF DeliveryInv
<1>2. ASSUME DeliveryInv, UNCHANGED sessionVars PROVE DeliveryInv'
  <2>0. UNCHANGED <<up, down, link, client, c_sent, begun, container, queue, outcome, builder,
                    b_sent, context, output, exit_code, faults, garbled>>
    BY <1>2 DEF sessionVars, stream, clientVars, builderVars
  <2>1. TypeInv'
    BY <1>2, TypeStep DEF DeliveryInv
  <2>2. LinkInv'
    BY <1>2, <2>0 DEF DeliveryInv, LinkInv
  <2>3. UpInv'
    BY <1>2, <2>0 DEF DeliveryInv, UpInv, UpFollows, BuilderPos, ClientPos
  <2>4. DownInv'
    BY <1>2, <2>0 DEF DeliveryInv, DownInv, DownAt, DownFollows, ReadsAt, BuilderDownPos
  <2>5. ContextInv' /\ OutcomeInv'
    BY <1>2, <2>0 DEF DeliveryInv, ContextInv, OutcomeInv
  <2> QED BY <2>1, <2>2, <2>3, <2>4, <2>5 DEF DeliveryInv
<1> QED BY <1>1, <1>2

THEOREM InPlace == SessionSpec => []DeliveryInv
<1> QED BY DeliveryInit, DeliveryKept, PTL DEF SessionSpec

\* What the client calls completed is the whole image of a build that succeeded, built
\* from the whole context, for files of every length and any number of failures: the
\* checksum it compares was computed for the image, and nothing else takes its place.
THEOREM Delivered == SessionSpec => []DeliveredIntact
<1>1. DeliveryInv => DeliveredIntact
  BY DEF DeliveryInv, DeliveredIntact, OutcomeInv, ContextInv, NoExitCode
<1> QED BY <1>1, InPlace, PTL

\* read_file truncates the image of an earlier build only after an exit code of zero.
THEOREM OldImageKept == SessionSpec => []OldImageSurvives
<1>1. DeliveryInv => OldImageSurvives
  BY DEF DeliveryInv, OldImageSurvives, OutcomeInv
<1> QED BY <1>1, InPlace, PTL

\* Whoever waits for the other to read or to write, the other does not wait for it.
LEMMA TurnsAgree == DeliveryInv => NoMutualWait
<1> SUFFICES ASSUME DeliveryInv, link = "up", ClientWaits, BuilderWaits PROVE FALSE
  BY DEF NoMutualWait
<1>0. StreamOK /\ ProgramsOK /\ LinkInv /\ UpInv /\ DownInv
  BY TypeParts DEF DeliveryInv
<1>1. client \in Talking
  BY <1>0 DEF ClientWaits, Talking, Writing, Reading, ClientReads, ClientWrites, LinkInv
<1>2. CASE client \in ClientReads
  \* What the builder waits for was written, or the client reads what it waits to write.
  <2>1. down = <<>> /\ Len(down) = 0 /\ Capacity # 0
    BY <1>2, CapacityAssumption DEF ClientWaits, ClientReads, ClientWrites
  <2>2. builder \in BuilderReads /\ up = <<>> /\ Len(up) = 0
    BY <2>1 DEF BuilderWaits
  <2>3. BuilderPos + Len(up) = ClientPos
    BY <1>0, <1>1, <2>2 DEF UpInv
  <2>4. ClientPos = 2 + ContextChunks
    BY <1>2 DEF ClientPos, ClientReads
  <2>5. BuilderPos <= 1 + ContextChunks /\ BuilderPos \in Nat
    BY <1>0, <2>2, Positions, SessionAssumption, LenProperties
       DEF UpInv, BuilderPos, BuilderReads, ProgramsOK
  <2> QED BY <2>2, <2>3, <2>4, <2>5, SessionAssumption
<1>3. CASE client \in ClientWrites
  <2>1. down = <<>> /\ Len(down) = 0 /\ builder \in BuilderReads \cup {"leaving", "exited", "destroyed"}
    BY <1>0, <1>3 DEF LinkInv, Writing
  <2>2. Len(up) = Capacity /\ Capacity # 0
    BY <1>3, CapacityAssumption DEF ClientWaits, ClientReads, ClientWrites
  <2> QED BY <2>1, <2>2 DEF BuilderWaits, BuilderReads, BuilderWrites
<1> QED BY <1>2, <1>3 DEF ClientWaits

\* The client and the builder never wait for each other, whatever fits into the
\* buffers of the connection.
THEOREM NeverBothWaiting == SessionSpec => []NoMutualWait
<1> QED BY TurnsAgree, InPlace, PTL

\* What is in the files on either side is, chunk by chunk and in its place, what the
\* other side sent, or what was made of it on its way: no piece of the output, of an
\* exit code or of a checksum ever gets into them, in the middle of a transfer, after
\* one that was cut off, or in a build that fails (write_file, read_file).
THEOREM OnlyItsPieces ==
    SessionSpec => [](/\ Pieces(context, Context)
                      /\ container # Untouched => Pieces(container, Image))
<1>1. DeliveryInv => /\ Pieces(context, Context)
                     /\ container # Untouched => Pieces(container, Image)
  BY DEF DeliveryInv, ContextInv, OutcomeInv
<1> QED BY <1>1, InPlace, PTL

\* A client that leaves changes neither what it told its user nor the image.
LEMMA LeavingStep ==
    ASSUME client \in Leaving, SessionNext
    PROVE  UNCHANGED <<outcome, container>>
<1> USE DEF Leaving, Ended, clientVars
<1>1. CASE ClientStep
  <2>1. CloseBuilder \/ Drain \/ CloseQueue
    BY <1>1 DEF ClientStep, ConnectQueue, get_builder, write_client_data, PrepareContext, WriteContext,
       WriteContextChecksum, stream_build, StreamFails, ReadExitCode, OpenImage, ReadImage, VerifyImage,
       ClientError, ClientReads, ClientWrites
  <2> QED BY <2>1 DEF CloseBuilder, Drain, CloseQueue
<1>2. CASE BuilderStep \/ ConnectBuilder
  BY <1>2 DEF BuilderStep, ConnectBuilder, Boot, read_client_data, ReadContext, VerifyContext, StartBuild,
     StreamOutput, Flood, BuildEnds, WriteExitCode, WriteImage, WriteImageChecksum, Leave, BuilderError
<1>3. CASE Failures
  BY <1>3 DEF Failures, ClientLocalFailure, BuilderLocalFailure, PipeBreaks, Corrupt,
     CutLink, ClientKilled, ClientDies, QueueLost
<1>4. CASE ProbesFail \/ DestroyBuilder \/ DestroyBuilderLost \/ TcpGivesUp
  BY <1>4 DEF ProbesFail, DestroyBuilder, DestroyBuilderLost, TieLost, Vanish, TcpGivesUp
<1> QED BY <1>1, <1>2, <1>3, <1>4 DEF SessionNext

\* What the client told its user stands, and the image it spoke of is not touched
\* again, whatever happens while it disconnects (Client main.cpp).
THEOREM VerdictStands ==
    SessionSpec => [][outcome # "none" => UNCHANGED <<outcome, container>>]_sessionVars
<1>1. DeliveryInv /\ [SessionNext]_sessionVars =>
        [outcome # "none" => UNCHANGED <<outcome, container>>]_sessionVars
  BY LeavingStep DEF DeliveryInv, OutcomeInv
<1> QED BY <1>1, DeliveryInit, DeliveryKept, PTL DEF SessionSpec
=============================================================================
