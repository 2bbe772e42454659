-------------------------- MODULE FaultFreeProofs --------------------------
(***************************************************************************)
(* A build without failures, for files and buffers of every size: the      *)
(* client reports a failure only if the build failed or if it was refused  *)
(* by a machine that did not listen yet, and is never stuck.               *)
(* DeliveryProofs shows that every frame has its place; here nothing is    *)
(* altered, lost or garbled, so that every frame has its content, too, and *)
(* every call its frame.                                                   *)
(***************************************************************************)
EXTENDS DeliveryProofs

NoFault == faults = 0 /\ garbled = 0

-----------------------------------------------------------------------------
(***************************************************************************)
(* The invariant.                                                          *)
(***************************************************************************)
\* Neither side leaves the other alone before it has what it came for; a client that
\* was refused has no link to its builder.
SidesInv ==
    /\ client \notin {"killed", "dead"} /\ ~TieLost
    /\ queue = "closed" => client = "done"
    /\ builder = "destroyed" => client = "done"
    /\ builder # "flooding"
    /\ link = "none" => builder \in {"booting", "listening", "destroyed"}
    /\ client \in {"connect_queue", "get_builder", "connect_builder"} =>
         builder \in {"booting", "listening"}
    /\ client \in Talking => link = IF builder = "exited" THEN "ended" ELSE "up"
    /\ client \in Talking /\ builder \notin BuilderReads => up = <<>> /\ client \notin Writing
    /\ client \in Leaving => link = "none" \/ builder \in {"leaving", "exited", "destroyed"}
    /\ builder \in {"write_exit_code", "leaving", "exited"} => exit_code \in {0, 1}
    /\ outcome = "failed" => exit_code = 1 \/ link = "none"

Prefix(part, file) == Len(part) <= Len(file) /\ \A i \in 1..Len(part) : part[i] = file[i]

ExactUp(p, f) ==
    /\ p \in 1..ContextChunks => f.data = <<Context[p]>>
    /\ p = ContextChunks + 1 => f.data = Checksum(Context)

AllUp(p) == \A i \in 1..Len(up) : ExactUp(p + i - 1, up[i])

UpExact ==
    builder \in BuilderReads =>
      /\ AllUp(BuilderPos)
      /\ Prefix(context, Context)
      /\ builder = "read_checksum" => Len(context) = ContextChunks

ExactDown(p, f, code) ==
    /\ DownFrame(p, f, code)
    /\ p \in 2..(ImageChunks + 1) => f.data = <<Image[p - 1]>>
    /\ p = ImageChunks + 2 => f.data = Checksum(Image)

AllDown(p) == \A i \in 1..Len(down) : ExactDown(p + i - 1, down[i], exit_code)

\* A builder that has written all that it has to write stays where it is.
DownEnd == IF builder \in {"leaving", "exited"}
           THEN IF exit_code = 1 THEN 2 ELSE ImageChunks + 3
           ELSE BuilderDownPos

\* The place of the frame that the client reads next.
Place == DownEnd - Len(down)

DownExact ==
    client \in Reading =>
      /\ ReadsAt(Place)
      /\ AllDown(Place)
      /\ client \in {"read_image", "read_checksum"} => Prefix(container, Image)
      /\ client = "read_checksum" => Len(container) = ImageChunks

ExactInv == SidesInv /\ UpExact /\ DownExact

-----------------------------------------------------------------------------
(***************************************************************************)
(* Steps without failures.                                                 *)
(***************************************************************************)
LEMMA StillFaultFree ==
    ASSUME DeliveryInv, SessionNext, NoFault'
    PROVE  NoFault /\ ~Failures
<1>1. faults \in Nat /\ garbled \in Nat
  BY TypeParts, SessionAssumption DEF DeliveryInv, ProgramsOK
<1>2. ~Faulty
  BY <1>1 DEF Faulty, NoFault
<1>3. ~Failures
  BY <1>2 DEF Failures, ClientLocalFailure, BuilderLocalFailure, PipeBreaks, Corrupt,
     CutLink, ClientKilled, ClientDies, QueueLost
<1>4. SUFFICES faults' = faults /\ garbled' \in {garbled, garbled + 1}
  BY <1>1, <1>3 DEF NoFault
<1>5. CASE ClientStep
  BY <1>5 DEF ClientStep, ConnectQueue, get_builder, write_client_data, PrepareContext,
     WriteContext, WriteContextChecksum, stream_build, StreamFails, ReadExitCode, OpenImage,
     ReadImage, VerifyImage, ClientError, CloseBuilder, Drain, CloseQueue
<1>6. CASE BuilderStep
  BY <1>6 DEF BuilderStep, Boot, read_client_data, ReadContext, VerifyContext, StartBuild,
     StreamOutput, Flood, BuildEnds, WriteExitCode, WriteImage, WriteImageChecksum, Leave,
     BuilderError
<1>7. CASE ConnectBuilder \/ ProbesFail \/ DestroyBuilder \/ DestroyBuilderLost \/ TcpGivesUp
  BY <1>7 DEF ConnectBuilder, ProbesFail, DestroyBuilder, DestroyBuilderLost, TieLost, Vanish, TcpGivesUp
<1> QED BY <1>3, <1>5, <1>6, <1>7 DEF SessionNext

\* While the builder has work to do, the client is there.
LEMMA BothThere ==
    ASSUME DeliveryInv, SidesInv,
           builder \in BuilderReads \cup BuilderWrites \cup {"untar"}
    PROVE  client \in Talking /\ link = "up"
<1>1. /\ builder \notin {"leaving", "exited", "destroyed", "booting", "listening"}
  BY DEF BuilderReads, BuilderWrites
<1>2. client \in Talking
  BY <1>1, TypeParts DEF SidesInv, DeliveryInv, ProgramsOK, Leaving, Talking, Writing, Reading,
     InSession, ClientReads, ClientWrites, Ended
<1> QED BY <1>1, <1>2 DEF SidesInv

LEMMA PlaceType ==
    ASSUME StreamOK, ProgramsOK
    PROVE  DownEnd \in Nat /\ Place \in Int /\ Place <= DownEnd
<1>1. DownEnd \in Nat
  BY Positions, SessionAssumption DEF DownEnd
<1> QED BY <1>1, LenProperties DEF StreamOK, Place

\* What a client waits for in a read is still to come.
LEMMA NoReadFails ==
    ASSUME DeliveryInv, ExactInv, client \in Reading \ {"open_image"}, ClientReadFails
    PROVE  FALSE
<1>0. /\ StreamOK /\ ProgramsOK /\ LinkInv /\ OutcomeInv /\ SidesInv /\ DownExact
      /\ Place \in Int
  BY TypeParts, PlaceType DEF DeliveryInv, ExactInv
<1>1. client \in Talking /\ (link = "up" \/ builder = "exited")
  BY <1>0 DEF SidesInv, Talking
<1>2. builder = "exited" /\ down = <<>> /\ Len(down) = 0 /\ link = "ended"
  BY <1>0, <1>1 DEF SidesInv, ClientReadFails
<1>3. Place = IF exit_code = 1 THEN 2 ELSE ImageChunks + 3
  BY <1>2, SessionAssumption DEF Place, DownEnd
<1>4. ReadsAt(Place)
  BY <1>0 DEF DownExact
<1>5. CASE client \in {"stream_build", "read_exit_code"}
  BY <1>3, <1>4, <1>5, SessionAssumption DEF ReadsAt
<1>6. CASE client = "read_image"
  <2>1. exit_code # 1 /\ Len(container) \in Nat
    BY <1>0, <1>6, LenProperties DEF OutcomeInv, ProgramsOK
  <2>2. Len(container) <= ImageChunks
    BY <1>0, <1>6, FilesType DEF DownExact, Prefix
  <2> QED BY <1>3, <1>4, <1>6, <2>1, <2>2, SessionAssumption DEF ReadsAt
<1>7. CASE client = "read_checksum"
  <2>1. exit_code # 1
    BY <1>0, <1>7 DEF OutcomeInv
  <2> QED BY <1>3, <1>4, <1>7, <2>1, SessionAssumption DEF ReadsAt
<1> QED BY <1>5, <1>6, <1>7 DEF Reading

\* No call of a client fails that has not left yet, but for the attempt to connect to
\* a builder that does not listen yet, and none of a builder.
LEMMA NoCallFails ==
    ASSUME DeliveryInv, ExactInv
    PROVE  /\ ~StreamFails /\ ~BuilderError
           /\ ClientError => client = "connect_builder" /\ builder = "booting" /\ link = "none"
<1>0. LinkInv /\ SidesInv
  BY DEF DeliveryInv, ExactInv
<1>1. client \notin Reading \ {"open_image"} \/ ~ClientReadFails
  BY NoReadFails
<1>2. ClientError => client = "connect_builder" /\ builder = "booting" /\ link = "none"
  <2> SUFFICES ASSUME ClientError
               PROVE  client = "connect_builder" /\ builder = "booting" /\ link = "none"
    OBVIOUS
  <2>1. CASE client \in ClientReads \ {"stream_build", "draining"} /\ ClientReadFails
    BY <1>1, <2>1 DEF ClientReads, Reading
  <2>2. CASE client \in ClientWrites /\ ClientWriteFails
    BY <1>0, <2>2 DEF ClientWriteFails, SidesInv, Talking, Writing
  <2>3. CASE \/ client = "get_builder" /\ queue = "lost"
             \/ client = "connect_builder" /\ builder \in {"booting", "destroyed"}
    BY <1>0, <2>3 DEF SidesInv, LinkInv, TieLost
  <2> QED BY <2>1, <2>2, <2>3 DEF ClientError
<1>3. ~StreamFails
  BY <1>1 DEF StreamFails, Reading
<1>4. ~BuilderError
  BY <1>0, BothThere DEF BuilderError, BuilderReadFails, BuilderWriteFails
<1> QED BY <1>2, <1>3, <1>4

-----------------------------------------------------------------------------
(***************************************************************************)
(* From the client to the builder.                                         *)
(***************************************************************************)
\* The client writes what belongs at the place it writes at.
LEMMA ExactUpWrite ==
    ASSUME DeliveryInv, ExactInv, NEW f \in Frames, ClientSends(f), client \in Writing,
           ExactUp(ClientPos, f), UNCHANGED <<builder, context>>
    PROVE  UpExact' /\ UNCHANGED <<link, down>>
<1>1. /\ StreamOK /\ ProgramsOK /\ UpInv /\ UpExact
      /\ builder \in BuilderReads /\ link = "up" /\ client \in Talking
  <2>1. client \in Talking /\ builder \in BuilderReads /\ builder # "exited"
    BY TypeParts DEF DeliveryInv, ExactInv, SidesInv, Talking, BuilderReads
  <2> QED BY <2>1, TypeParts DEF DeliveryInv, ExactInv, SidesInv
<1>2. up' = Append(up, f) /\ UNCHANGED <<link, down>>
  BY <1>1 DEF ClientSends
<1>3. /\ Len(up) \in Nat /\ Len(up') = Len(up) + 1 /\ up'[Len(up) + 1] = f
      /\ \A i \in 1..Len(up) : up'[i] = up[i]
  BY <1>1, <1>2, AppendProperties, LenProperties DEF StreamOK
<1>4. BuilderPos + Len(up) = ClientPos /\ BuilderPos' = BuilderPos /\ BuilderPos \in Nat
  BY <1>1, Positions DEF UpInv, BuilderPos
<1>5. ASSUME NEW i \in 1..Len(up') PROVE ExactUp(BuilderPos + i - 1, up'[i])
  <2>1. CASE i \in 1..Len(up)
    BY <1>1, <1>3, <2>1 DEF UpExact, AllUp
  <2>2. CASE i = Len(up) + 1
    <3>1. BuilderPos + i - 1 = ClientPos
      BY <1>3, <1>4, <2>2
    <3> QED BY <1>3, <2>2, <3>1
  <2> QED BY <1>3, <2>1, <2>2
<1> QED BY <1>1, <1>2, <1>4, <1>5 DEF UpExact, AllUp

\* The builder reads what belongs at the place it reads at.
LEMMA ExactUpRead ==
    ASSUME StreamOK, ProgramsOK, UpExact, builder \in BuilderReads, BuilderReceives
    PROVE  /\ ExactUp(BuilderPos, Head(up))
           /\ BuilderPos' = BuilderPos + 1 => AllUp(BuilderPos)'
<1>1. /\ up # <<>> /\ up' = Tail(up) /\ Head(up) = up[1] /\ Len(up) > 0 /\ Len(up) \in Nat
      /\ Len(up') = Len(up) - 1
      /\ \A i \in 1..Len(up') : up'[i] = up[i + 1]
  BY Received, LenProperties DEF StreamOK, BuilderReceives
<1>2. BuilderPos \in Nat /\ AllUp(BuilderPos)
  BY Positions DEF UpExact
<1>3. ExactUp(BuilderPos, Head(up))
  <2>1. ExactUp(BuilderPos + 1 - 1, up[1])
    BY <1>1, <1>2 DEF AllUp
  <2> QED BY <1>1, <1>2, <2>1
<1>4. ASSUME BuilderPos' = BuilderPos + 1, NEW i \in 1..Len(up')
      PROVE  ExactUp(BuilderPos' + i - 1, up'[i])
  <2>1. ExactUp(BuilderPos + (i + 1) - 1, up[i + 1])
    BY <1>1, <1>2 DEF AllUp
  <2>2. BuilderPos + (i + 1) - 1 = BuilderPos' + i - 1
    BY <1>2, <1>4
  <2> QED BY <1>1, <2>1, <2>2
<1> QED BY <1>3, <1>4 DEF AllUp

\* A part of a file, and the next chunk of it.
LEMMA PrefixGrows ==
    ASSUME NEW part \in Seq(Int), NEW file \in Seq(Int), Prefix(part, file), Len(part) < Len(file)
    PROVE  LET longer == part \o <<file[Len(part) + 1]>>
           IN  Prefix(longer, file) /\ Len(longer) = Len(part) + 1
<1> DEFINE next == file[Len(part) + 1]
           longer == part \o <<next>>
<1>1. Len(part) \in Nat /\ Len(file) \in Nat
  BY LenProperties
<1>2. next \in Int
  BY <1>1, ElementOfSeq
<1>3. <<next>> \in Seq(Int) /\ Len(<<next>>) = 1 /\ <<next>>[1] = next
  BY <1>2
<1>4. Len(longer) = Len(part) + 1
  BY <1>3, ConcatProperties
<1>5. \A i \in 1..Len(longer) : longer[i] = IF i <= Len(part) THEN part[i] ELSE <<next>>[i - Len(part)]
  BY <1>3, <1>4, ConcatProperties
<1>6. ASSUME NEW i \in 1..Len(longer) PROVE longer[i] = file[i]
  <2>1. CASE i <= Len(part)
    BY <1>1, <1>4, <1>5, <2>1 DEF Prefix
  <2>2. CASE i = Len(part) + 1
    <3>1. i - Len(part) = 1 /\ ~(i <= Len(part))
      BY <1>1, <2>2
    <3> QED BY <1>3, <1>5, <2>2, <3>1
  <2> QED BY <1>1, <1>4, <2>1, <2>2
<1>7. Len(longer) <= Len(file)
  BY <1>1, <1>4
<1> QED BY <1>4, <1>6, <1>7 DEF Prefix

\* A part of a file that is as long as the file is the file.
LEMMA WholePrefix ==
    ASSUME NEW part \in Seq(Int), NEW file \in Seq(Int), Prefix(part, file), Len(part) = Len(file)
    PROVE  part = file
BY SeqEqual DEF Prefix

\* The builder finds the checksum of the whole context, and nothing behind it.
LEMMA ContextVerified ==
    ASSUME DeliveryInv, ExactInv, VerifyContext
    PROVE  builder' = "untar" /\ up' = <<>>
<1>0. /\ StreamOK /\ ProgramsOK /\ UpInv /\ UpExact /\ builder = "read_checksum" /\ BuilderReceives
      /\ builder \in BuilderReads
  BY TypeParts DEF DeliveryInv, ExactInv, VerifyContext, BuilderReads
<1>1. client \in Talking /\ link = "up"
  BY <1>0, BothThere DEF ExactInv
<1>2. BuilderPos = 1 + ContextChunks
  BY <1>0 DEF BuilderPos
<1>3. Head(up).data = Checksum(Context)
  <2>1. ExactUp(1 + ContextChunks, Head(up))
    BY <1>0, <1>2, ExactUpRead
  <2>2. 1 + ContextChunks = ContextChunks + 1
    BY SessionAssumption
  <2> QED BY <2>1, <2>2 DEF ExactUp
<1>4. context = Context
  BY <1>0, WholePrefix, FilesType DEF UpExact, ProgramsOK
<1>5. Len(up) <= 1
  <2>1. BuilderPos + Len(up) = ClientPos
    BY <1>0, <1>1 DEF UpInv
  <2>2. ClientPos <= 2 + ContextChunks
    BY <1>0, SessionAssumption DEF ClientPos, ProgramsOK
  <2> QED BY <1>0, <1>2, <2>1, <2>2, SessionAssumption, LenProperties DEF StreamOK
<1>6. up' = <<>>
  <2>1. up' = Tail(up) /\ up # <<>> /\ up \in Seq(Frames)
    BY <1>0 DEF BuilderReceives, StreamOK
  <2>2. Tail(up) \in Seq(Frames) /\ Len(Tail(up)) = Len(up) - 1 /\ Len(up) > 0 /\ Len(up) \in Nat
    BY <2>1, Received, HeadTailProperties, LenProperties
  <2>3. Len(Tail(up)) = 0
    BY <1>5, <2>2
  <2> QED BY <2>1, <2>2, <2>3, EmptySeq
<1> QED BY <1>3, <1>4, <1>6 DEF VerifyContext

\* The frame that the client reads next.
LEMMA ExactDownRead ==
    ASSUME StreamOK, ProgramsOK, DownExact, client \in Reading, ClientReceives
    PROVE  /\ ReadsAt(Place) /\ Place \in Int
           /\ ExactDown(Place, Head(down), exit_code) /\ Head(down) \in Frames
           /\ DownEnd >= Place + 1
           /\ UNCHANGED <<exit_code, builder, b_sent>> =>
                Place' = Place + 1 /\ AllDown(Place)'
<1>1. /\ down # <<>> /\ down' = Tail(down)
      /\ Head(down) = down[1] /\ Head(down) \in Frames /\ Len(down) > 0 /\ Len(down) \in Nat
      /\ Len(down') = Len(down) - 1
      /\ \A i \in 1..Len(down') : down'[i] = down[i + 1]
  BY Received, LenProperties DEF StreamOK, ClientReceives
<1>2. ReadsAt(Place) /\ AllDown(Place) /\ Place \in Int /\ DownEnd \in Nat
  BY PlaceType DEF DownExact
<1>3. DownEnd >= Place + 1
  BY <1>1, <1>2 DEF Place
<1>4. ExactDown(Place, Head(down), exit_code)
  <2>1. ExactDown(Place + 1 - 1, down[1], exit_code)
    BY <1>1, <1>2 DEF AllDown
  <2> QED BY <1>1, <1>2, <2>1
<1>5. ASSUME UNCHANGED <<exit_code, builder, b_sent>> PROVE Place' = Place + 1 /\ AllDown(Place)'
  <2>1. DownEnd' = DownEnd
    BY <1>5 DEF DownEnd, BuilderDownPos
  <2>2. Place' = Place + 1
    BY <1>1, <1>2, <2>1 DEF Place
  <2>3. ASSUME NEW i \in 1..Len(down') PROVE ExactDown(Place' + i - 1, down'[i], exit_code')
    <3>1. ExactDown(Place + (i + 1) - 1, down[i + 1], exit_code)
      BY <1>1, <1>2 DEF AllDown
    <3>2. Place + (i + 1) - 1 = Place' + i - 1
      BY <1>2, <2>2
    <3> QED BY <1>1, <1>5, <3>1, <3>2
  <2> QED BY <2>2, <2>3 DEF AllDown
<1> QED BY <1>2, <1>3, <1>4, <1>5, <1>1

\* The exit code that the client reads is that of the build, and the builder has
\* written it; if it is not zero the builder leaves.
LEMMA ExitCodeRead ==
    ASSUME DeliveryInv, ExactInv, ReadExitCode
    PROVE  \/ client' = "open_image" /\ outcome' = outcome
           \/ /\ client' = "close_builder" /\ outcome' = "failed"
              /\ exit_code = 1 /\ builder \in {"leaving", "exited"}
<1>0. /\ StreamOK /\ ProgramsOK /\ ContextInv /\ SidesInv /\ DownExact
      /\ client = "read_exit_code" /\ client \in Reading /\ ClientReceives
  BY TypeParts DEF DeliveryInv, ExactInv, ReadExitCode, Reading
<1>1. Place = 1 /\ ExactDown(1, Head(down), exit_code) /\ DownEnd >= 2
  BY <1>0, ExactDownRead DEF ReadsAt
<1>2. Head(down).data = <<exit_code>>
  BY <1>1 DEF ExactDown, DownFrame
<1>3. builder \in {"leaving", "exited", "write_image", "write_checksum"}
  BY <1>1 DEF DownEnd, BuilderDownPos
<1>4. exit_code \in {0, 1} /\ (exit_code = 1 => builder \in {"leaving", "exited"})
  BY <1>0, <1>3 DEF ContextInv, SidesInv
<1>5. exit_code = 0 => Head(down).data = <<0>>
  BY <1>2
<1> QED BY <1>4, <1>5 DEF ReadExitCode, Fail

\* The client finds the checksum of the whole image, the last that the builder writes.
LEMMA ImageVerified ==
    ASSUME DeliveryInv, ExactInv, VerifyImage
    PROVE  client' = "close_builder" /\ outcome' = "completed" /\ builder \in {"leaving", "exited"}
<1>0. /\ StreamOK /\ ProgramsOK /\ DownExact
      /\ client = "read_checksum" /\ client \in Reading /\ ClientReceives
  BY TypeParts DEF DeliveryInv, ExactInv, VerifyImage, Reading
<1>1. Place = ImageChunks + 2 /\ ExactDown(Place, Head(down), exit_code) /\ DownEnd >= ImageChunks + 3
  BY <1>0, ExactDownRead, SessionAssumption DEF ReadsAt
<1>2. Head(down).data = Checksum(Image)
  BY <1>1 DEF ExactDown
<1>3. container = Image
  BY <1>0, WholePrefix, FilesType DEF DownExact, ProgramsOK
<1>4. builder \in {"leaving", "exited"}
  <2>1. BuilderDownPos \in Nat /\ BuilderDownPos <= ImageChunks + 2
    BY <1>0, SessionAssumption DEF BuilderDownPos, ProgramsOK
  <2>2. DownEnd # BuilderDownPos
    BY <1>1, <2>1, SessionAssumption
  <2> QED BY <2>2 DEF DownEnd
<1> QED BY <1>2, <1>3, <1>4 DEF VerifyImage

-----------------------------------------------------------------------------
LEMMA SidesStep ==
    ASSUME DeliveryInv, ExactInv, SessionNext, NoFault, ~Failures
    PROVE  SidesInv'
<1>0. /\ StreamOK /\ ProgramsOK /\ LinkInv /\ ContextInv /\ OutcomeInv /\ SidesInv
      /\ ~StreamFails /\ ~BuilderError
      /\ ClientError => client = "connect_builder" /\ builder = "booting" /\ link = "none"
  BY TypeParts, NoCallFails DEF DeliveryInv, ExactInv
<1> USE DEF SidesInv, TieLost, stream, clientVars, builderVars
<1>1. CASE ClientStep
  <2>1. CASE ConnectQueue \/ get_builder \/ PrepareContext \/ OpenImage
    BY <1>0, <2>1 DEF ConnectQueue, get_builder, PrepareContext, OpenImage,
       Talking, Writing, Reading, ClientWrites, Leaving, Ended
  <2>2. CASE write_client_data \/ WriteContext \/ WriteContextChecksum
    <3>1. client \in Writing /\ client' \in Talking /\ client \in Talking
      BY <2>2 DEF write_client_data, WriteContext, WriteContextChecksum, Writing, ClientWrites,
         Talking, Reading
    <3>2. builder \in BuilderReads /\ link = "up"
      BY <1>0, <3>1 DEF BuilderReads
    <3>3. /\ link' = "up" /\ client' \notin Leaving
          /\ client' \notin {"connect_queue", "get_builder", "connect_builder", "killed", "dead", "done"}
          /\ UNCHANGED <<builder, exit_code, queue, outcome>>
      BY <2>2, <3>2 DEF write_client_data, WriteContext, WriteContextChecksum, ClientSends, Leaving,
         Ended
    <3>4. builder \notin {"booting", "listening", "exited", "leaving", "destroyed"}
      BY <3>2 DEF BuilderReads
    <3>5. queue # "closed" /\ client # "done"
      BY <1>0, <3>1 DEF Writing, ClientWrites
    <3> QED BY <1>0, <3>2, <3>3, <3>4, <3>5
  <2>3. CASE stream_build \/ ReadImage
    BY <1>0, <2>3 DEF stream_build, ReadImage, ClientReceives, Talking, Writing, Reading, ClientWrites,
       Leaving, Ended
  <2>4. CASE ReadExitCode
    <3>1. /\ \/ client' = "open_image" /\ outcome' = outcome
             \/ /\ client' = "close_builder" /\ outcome' = "failed"
                /\ exit_code = 1 /\ builder \in {"leaving", "exited"}
          /\ client = "read_exit_code" /\ UNCHANGED <<link, up, queue, builder, exit_code>>
      BY <2>4, ExitCodeRead DEF ReadExitCode, ClientReceives
    <3> QED BY <1>0, <3>1 DEF Talking, Writing, Reading, ClientWrites, Leaving, Ended
  <2>5. CASE VerifyImage
    <3>1. /\ client' = "close_builder" /\ outcome' = "completed" /\ builder \in {"leaving", "exited"}
          /\ client = "read_checksum" /\ UNCHANGED <<link, queue, builder, exit_code>>
      BY <2>5, ImageVerified DEF VerifyImage, ClientReceives
    <3> QED BY <1>0, <3>1 DEF Talking, Writing, Reading, ClientWrites, Leaving, Ended
  <2>6. CASE CloseBuilder \/ Drain \/ CloseQueue
    <3>1. /\ client \in {"close_builder", "draining", "close_queue"}
          /\ client' \in {"draining", "close_queue", "done"}
          /\ queue' = queue \/ (client' = "done" /\ queue' = "closed")
          /\ UNCHANGED <<builder, exit_code, outcome>>
      BY <2>6 DEF CloseBuilder, Drain, CloseQueue
    <3>2. link' = "none" <=> link = "none"
      BY <2>6 DEF CloseBuilder, Drain, CloseQueue, ClientCloses, ClientReceives, ClientLeaves, Reset
    <3>3. queue = "closed" => client = "done"
      BY <1>0
    <3> QED BY <1>0, <3>1, <3>2, <3>3 DEF Talking, Writing, Reading, ClientWrites, Leaving, Ended
  <2>7. CASE ClientError
    <3>1. /\ client = "connect_builder" /\ builder = "booting" /\ link = "none"
          /\ client' = "close_builder" /\ outcome' = "failed"
          /\ UNCHANGED <<stream, queue, builder, exit_code>>
      BY <1>0, <2>7 DEF ClientError, Fail
    <3> QED BY <1>0, <3>1 DEF Talking, Writing, Reading, ClientWrites, Leaving, Ended
  <2> QED BY <1>0, <1>1, <2>1, <2>2, <2>3, <2>4, <2>5, <2>6, <2>7 DEF ClientStep
<1>2. CASE BuilderStep
  <2>1. CASE Boot \/ StartBuild
    BY <1>0, <2>1 DEF Boot, StartBuild, BuilderReads, Leaving, Ended
  <2>2. CASE read_client_data \/ ReadContext
    BY <1>0, <2>2 DEF read_client_data, ReadContext, BuilderReceives, BuilderReads
  <2>3. CASE VerifyContext
    <3>1. builder' = "untar" /\ up' = <<>>
      BY <2>3, ContextVerified
    <3>2. client' \notin Writing
      BY <3>1, LinkStep DEF LinkInv, BuilderReads
    <3>3. builder = "read_checksum" /\ UNCHANGED <<client, link, queue, outcome, exit_code>>
      BY <2>3 DEF VerifyContext, BuilderReceives
    <3> QED BY <1>0, <3>1, <3>2, <3>3
  <2>4. CASE StreamOutput \/ BuildEnds \/ WriteExitCode \/ WriteImage \/ WriteImageChecksum
    <3>1. builder \in BuilderWrites /\ client \in Talking /\ link = "up"
      BY <1>0, <2>4, BothThere DEF StreamOutput, BuildEnds, WriteExitCode, WriteImage,
         WriteImageChecksum, BuilderWrites
    <3>2. UNCHANGED <<up, link, client, queue, outcome>>
      BY <2>4, <3>1 DEF StreamOutput, BuildEnds, WriteExitCode, WriteImage, WriteImageChecksum,
         BuilderSends
    <3>3. /\ builder' \in {"building", "write_exit_code", "write_image", "write_checksum", "leaving"}
          /\ builder \in {"building", "write_exit_code", "write_image", "write_checksum"}
          /\ builder' \in {"write_exit_code", "leaving"} => exit_code' \in {0, 1}
      BY <1>0, <2>4 DEF StreamOutput, BuildEnds, WriteExitCode, WriteImage, WriteImageChecksum,
         ContextInv
    <3>4. outcome = "failed" => exit_code' = 1
      <4>1. BuildEnds => outcome # "failed"
        BY <1>0 DEF BuildEnds, ContextInv, NoExitCode
      <4>2. ~BuildEnds => exit_code' = exit_code
        BY <2>4 DEF StreamOutput, WriteExitCode, WriteImage, WriteImageChecksum
      <4> QED BY <1>0, <3>1, <4>1, <4>2
    <3>5. client \notin Leaving
      BY <1>0, <3>3
    <3> QED BY <1>0, <3>1, <3>2, <3>3, <3>4, <3>5 DEF BuilderReads
  <2>5. CASE Leave
    <3>1. /\ builder = "leaving" /\ builder' = "exited"
          /\ UNCHANGED <<client, queue, outcome, exit_code>>
      BY <2>5 DEF Leave
    <3>2. client \in Talking => link' = "ended" /\ up' = <<>> /\ client \notin Writing
      BY <1>0, <2>5, <3>1 DEF Leave, BuilderLeaves, BuilderReads
    <3>3. link # "none" /\ link' # "none"
      BY <1>0, <2>5, <3>1 DEF Leave, BuilderLeaves, Reset
    <3> QED BY <1>0, <3>1, <3>2, <3>3
  <2>6. ~Flood
    BY <1>0 DEF Flood
  <2> QED BY <1>0, <1>2, <2>1, <2>2, <2>3, <2>4, <2>5, <2>6 DEF BuilderStep
<1>3. CASE ConnectBuilder
  <2>1. /\ client = "connect_builder" /\ client' = "write_data"
        /\ builder' = "read_data" /\ link' = "up"
        /\ UNCHANGED <<queue, outcome, exit_code>>
    BY <1>3 DEF ConnectBuilder
  <2>2. outcome = "none"
    BY <1>0, <2>1 DEF OutcomeInv, Leaving, Ended, ProgramsOK
  <2> QED BY <1>0, <2>1, <2>2 DEF BuilderReads, Leaving, Ended
<1>4. ~ProbesFail /\ ~DestroyBuilderLost
  BY <1>0 DEF ProbesFail, DestroyBuilderLost
<1>5. CASE DestroyBuilder
  <2>1. client = "done" /\ builder' = "destroyed" /\ UNCHANGED <<client, queue, outcome, exit_code>>
    BY <1>0, <1>5 DEF DestroyBuilder, Vanish
  <2>2. link' = "none" <=> link = "none"
    BY <1>5 DEF DestroyBuilder, Vanish, BuilderVanishes
  <2> QED BY <1>0, <2>1, <2>2 DEF Talking, Writing, Reading, ClientWrites
<1>6. CASE TcpGivesUp
  <2>1. /\ link \notin {"up", "ended", "none"} /\ link' = "cut"
        /\ UNCHANGED <<client, queue, outcome, exit_code, builder>>
    BY <1>6 DEF TcpGivesUp, GivesUp, Reset
  <2>2. client \notin Talking
    BY <1>0, <2>1
  <2> QED BY <1>0, <2>1, <2>2
<1> QED BY <1>1, <1>2, <1>3, <1>4, <1>5, <1>6 DEF SessionNext

LEMMA UpExactStep ==
    ASSUME DeliveryInv, ExactInv, SessionNext, NoFault, NoFault', ~Failures
    PROVE  UpExact'
<1>0. /\ StreamOK /\ ProgramsOK /\ LinkInv /\ UpInv /\ ContextInv /\ SidesInv /\ UpExact
      /\ ~StreamFails /\ ~BuilderError
      /\ ClientError => client = "connect_builder" /\ builder = "booting" /\ link = "none"
  BY TypeParts, NoCallFails DEF DeliveryInv, ExactInv
<1>a. ASSUME builder' \notin BuilderReads PROVE UpExact'
  BY <1>a DEF UpExact
<1>b. ASSUME UNCHANGED <<up, builder, context>> PROVE UpExact'
  BY <1>0, <1>b DEF UpExact, AllUp, BuilderPos
<1> USE DEF stream, clientVars, builderVars
<1>1. CASE ClientStep
  <2>1. CASE write_client_data
    <3>1. 0 \notin 1..ContextChunks /\ 0 # ContextChunks + 1
      BY SessionAssumption
    <3>2. ExactUp(0, Frame(Text, TRUE)) /\ Frame(Text, TRUE) \in Frames
      BY <3>1, FrameType, PieceType DEF ExactUp
    <3>3. /\ client = "write_data" /\ ClientSends(Frame(Text, TRUE)) /\ UNCHANGED <<builder, context>>
      BY <2>1 DEF write_client_data
    <3>4. ClientPos = 0 /\ client \in Writing
      BY <3>3 DEF ClientPos, Writing, ClientWrites
    <3> QED BY <3>2, <3>3, <3>4, ExactUpWrite
  <2>2. CASE WriteContext
    <3>1. /\ c_sent \in 0..(Len(Context) - 1) /\ c_sent \in Nat
          /\ Len(Context) = ContextChunks /\ Context \in Seq(Int)
      BY <1>0, <2>2, FilesType, SessionAssumption
         DEF WriteContext, ProgramsOK, ChunksLeft, DeliveryInv, TypeInv
    <3>2. Chunk(Context, c_sent) \in Frames /\ Chunk(Context, c_sent).data = <<Context[c_sent + 1]>>
      BY <3>1, ChunkType DEF Chunk, Frame
    <3>3. 1 + c_sent = c_sent + 1 /\ 1 + c_sent # ContextChunks + 1
      BY <3>1, SessionAssumption
    <3>4. ExactUp(1 + c_sent, Chunk(Context, c_sent))
      BY <3>2, <3>3 DEF ExactUp
    <3>5. /\ client = "write_context" /\ ClientSends(Chunk(Context, c_sent))
          /\ UNCHANGED <<builder, context>>
      BY <2>2 DEF WriteContext
    <3>6. ClientPos = 1 + c_sent /\ client \in Writing
      BY <3>5 DEF ClientPos, Writing, ClientWrites
    <3> QED BY <3>2, <3>4, <3>5, <3>6, ExactUpWrite
  <2>3. CASE WriteContextChecksum
    <3>1. ClientSends(Frame(Checksum(Context), TRUE))
      <4>1. garbled' # garbled + 1
        BY DEF NoFault
      <4> QED BY <2>3, <4>1 DEF WriteContextChecksum
    <3>2. Frame(Checksum(Context), TRUE) \in Frames
      BY ChecksumType, FilesType
    <3>3. 1 + ContextChunks \notin 1..ContextChunks
      BY SessionAssumption
    <3>4. ExactUp(1 + ContextChunks, Frame(Checksum(Context), TRUE))
      BY <3>3 DEF ExactUp, Frame
    <3>5. client = "write_checksum" /\ UNCHANGED <<builder, context>>
      BY <2>3 DEF WriteContextChecksum
    <3>6. ClientPos = 1 + ContextChunks /\ client \in Writing
      BY <3>5 DEF ClientPos, Writing, ClientWrites
    <3> QED BY <3>1, <3>2, <3>4, <3>5, <3>6, ExactUpWrite
  <2>4. CASE ConnectQueue \/ get_builder \/ PrepareContext \/ OpenImage
    BY <1>b, <2>4 DEF ConnectQueue, get_builder, PrepareContext, OpenImage
  <2>5. CASE stream_build \/ ReadExitCode \/ ReadImage \/ VerifyImage \/ Drain
    BY <1>b, <2>5 DEF stream_build, ReadExitCode, ReadImage, VerifyImage, Drain, ClientReceives
  <2>6. CASE CloseBuilder \/ CloseQueue
    <3>1. client \in Leaving /\ builder' = builder
      BY <2>6 DEF CloseBuilder, CloseQueue, Leaving
    <3>2. builder' \notin BuilderReads
      BY <1>0, <3>1 DEF SidesInv, BuilderReads
    <3> QED BY <1>a, <3>2
  <2>7. CASE ClientError
    BY <1>b, <2>7 DEF ClientError
  <2> QED BY <1>0, <1>1, <2>1, <2>2, <2>3, <2>4, <2>5, <2>6, <2>7 DEF ClientStep
<1>2. CASE BuilderStep
  <2>1. CASE read_client_data
    <3>1. /\ builder = "read_data" /\ builder' = "read_context" /\ BuilderReceives
          /\ context' = context /\ context = <<>> /\ Len(context) = 0 /\ builder \in BuilderReads
      BY <1>0, <2>1 DEF read_client_data, ContextInv, BuilderReads
    <3>2. BuilderPos' = BuilderPos + 1
      BY <3>1 DEF BuilderPos
    <3>3. AllUp(BuilderPos)'
      BY <1>0, <3>1, <3>2, ExactUpRead
    <3>4. Prefix(context', Context)
      BY <1>0, <3>1 DEF UpExact
    <3> QED BY <3>1, <3>3, <3>4 DEF UpExact
  <2>2. CASE ReadContext
    <3>1. /\ builder = "read_context" /\ builder \in BuilderReads /\ BuilderReceives
          /\ UNCHANGED <<client, c_sent>>
          /\ context' = context \o Head(up).data
          /\ builder' = IF Head(up).fin THEN "read_checksum" ELSE builder
      BY <2>2 DEF ReadContext, BuilderReads
    <3>2. /\ UpFrame(BuilderPos, Head(up))
          /\ Len(context) < ContextChunks /\ Len(context) \in Nat /\ context \in Seq(Int)
      BY <1>0, <3>1, UpRead, LenProperties DEF UpInv, ProgramsOK
    <3>3. BuilderPos = 1 + Len(context) /\ BuilderPos \in 1..ContextChunks
      BY <3>1, <3>2, SessionAssumption DEF BuilderPos
    <3>4. Head(up).fin <=> 1 + Len(context) = ContextChunks
      BY <3>2, <3>3 DEF UpFrame
    <3>5. Head(up).data = <<Context[Len(context) + 1]>>
      <4>1. Head(up).data = <<Context[BuilderPos]>>
        BY <1>0, <3>1, <3>3, ExactUpRead DEF ExactUp
      <4>2. BuilderPos = Len(context) + 1
        BY <3>2, <3>3
      <4> QED BY <4>1, <4>2
    <3>6. Prefix(context', Context) /\ Len(context') = Len(context) + 1
      BY <1>0, <3>1, <3>2, <3>5, PrefixGrows, FilesType DEF UpExact
    <3>7. BuilderPos' = BuilderPos + 1
      BY <3>1, <3>3, <3>4, <3>6, SessionAssumption, <3>2 DEF BuilderPos
    <3>8. AllUp(BuilderPos)'
      BY <1>0, <3>1, <3>7, ExactUpRead
    <3>9. builder' = "read_checksum" => Len(context') = ContextChunks
      BY <3>1, <3>2, <3>4, <3>6, SessionAssumption
    <3> QED BY <3>6, <3>8, <3>9 DEF UpExact
  <2>3. CASE VerifyContext
    <3>1. builder' = "untar"
      BY <2>3, ContextVerified
    <3> QED BY <1>a, <3>1 DEF BuilderReads
  <2>4. CASE \/ Boot \/ StartBuild \/ StreamOutput \/ Flood \/ BuildEnds
             \/ WriteExitCode \/ WriteImage \/ WriteImageChecksum \/ Leave
    BY <1>a, <2>4 DEF Boot, StartBuild, StreamOutput, Flood, BuildEnds, WriteExitCode, WriteImage,
       WriteImageChecksum, Leave, BuilderReads
  <2> QED BY <1>0, <1>2, <2>1, <2>2, <2>3, <2>4 DEF BuilderStep
<1>3. CASE ConnectBuilder
  <2>1. /\ up' = <<>> /\ Len(up') = 0 /\ builder' = "read_data"
        /\ context' = <<>> /\ Len(context') = 0
    BY <1>0, <1>3 DEF ConnectBuilder, LinkInv, ContextInv
  <2>2. AllUp(BuilderPos)'
    BY <2>1 DEF AllUp
  <2>3. Prefix(context', Context)
    BY <2>1, FilesType, SessionAssumption DEF Prefix
  <2> QED BY <2>1, <2>2, <2>3 DEF UpExact
<1>4. CASE ProbesFail
  BY <1>b, <1>4 DEF ProbesFail
<1>5. CASE DestroyBuilder \/ DestroyBuilderLost
  BY <1>a, <1>5 DEF DestroyBuilder, DestroyBuilderLost, TieLost, Vanish, BuilderReads
<1>6. CASE TcpGivesUp
  <2>1. link \notin {"up", "ended"} /\ builder' = builder
    BY <1>6 DEF TcpGivesUp, GivesUp
  <2>2. builder' \notin BuilderReads
    BY <2>1, BothThere DEF ExactInv
  <2> QED BY <1>a, <2>2
<1> QED BY <1>1, <1>2, <1>3, <1>4, <1>5, <1>6 DEF SessionNext

-----------------------------------------------------------------------------
(***************************************************************************)
(* From the builder to the client.                                         *)
(***************************************************************************)
\* The builder writes what belongs at the place it writes at.  When it is output,
\* what was written before moves back by one.
LEMMA ExactDownWrite ==
    ASSUME StreamOK, ProgramsOK, DownExact, link = "up", NEW f \in Frames, BuilderSends(f),
           UNCHANGED <<client, container>>,
           \/ /\ exit_code' = exit_code /\ ExactDown(DownEnd, f, exit_code)
              /\ DownEnd' = DownEnd + 1
           \/ DownEnd = 0 /\ ExactDown(0, f, exit_code') /\ DownEnd' = 1
           \/ exit_code' = exit_code /\ DownEnd = 0 /\ ~f.fin /\ DownEnd' = 0
    PROVE  DownExact'
<1> SUFFICES ASSUME client \in Reading PROVE DownExact'
  BY DEF DownExact
<1>1. /\ ReadsAt(Place) /\ AllDown(Place) /\ Place \in Int /\ DownEnd \in Nat
      /\ client \in {"read_image", "read_checksum"} => Prefix(container, Image)
      /\ client = "read_checksum" => Len(container) = ImageChunks
  BY PlaceType DEF DownExact
<1>2. down' = Append(down, f)
  BY DEF BuilderSends
<1>3. /\ Len(down) \in Nat /\ Len(down') = Len(down) + 1 /\ down'[Len(down) + 1] = f
      /\ \A i \in 1..Len(down) : down'[i] = down[i]
  BY <1>2, AppendProperties, LenProperties DEF StreamOK
<1>4. DownEnd = Place + Len(down) /\ Place' = DownEnd' - (Len(down) + 1)
  BY <1>1, <1>3 DEF Place
<1>5. SUFFICES ReadsAt(Place)' /\ AllDown(Place)'
  BY <1>1 DEF DownExact
<1>6. CASE \/ /\ exit_code' = exit_code /\ ExactDown(DownEnd, f, exit_code)
              /\ DownEnd' = DownEnd + 1
           \/ DownEnd = 0 /\ ExactDown(0, f, exit_code') /\ DownEnd' = 1
  <2>1. Place' = Place /\ ExactDown(DownEnd, f, exit_code')
    BY <1>1, <1>3, <1>4, <1>6
  <2>2. ASSUME NEW i \in 1..Len(down) PROVE ExactDown(Place + i - 1, down[i], exit_code')
    <3>1. ExactDown(Place + i - 1, down[i], exit_code)
      BY <1>1 DEF AllDown
    <3>2. exit_code' = exit_code \/ Place + i - 1 # 1
      BY <1>1, <1>3, <1>4, <1>6
    <3> QED BY <3>1, <3>2 DEF ExactDown, DownFrame
  <2>3. ASSUME NEW i \in 1..Len(down') PROVE ExactDown(Place' + i - 1, down'[i], exit_code')
    <3>1. CASE i \in 1..Len(down)
      BY <1>3, <2>1, <2>2, <3>1
    <3>2. CASE i = Len(down) + 1
      <4>1. Place' + i - 1 = DownEnd
        BY <1>1, <1>3, <1>4, <2>1, <3>2
      <4> QED BY <1>3, <2>1, <3>2, <4>1
    <3> QED BY <1>3, <3>1, <3>2
  <2> QED BY <1>1, <2>1, <2>3 DEF AllDown, ReadsAt
<1>7. CASE exit_code' = exit_code /\ DownEnd = 0 /\ ~f.fin /\ DownEnd' = 0
  <2>1. Place' = Place - 1 /\ Place <= 0 /\ Place' \in Int
    BY <1>1, <1>3, <1>4, <1>7
  <2>2. ASSUME NEW i \in 1..Len(down') PROVE ExactDown(Place' + i - 1, down'[i], exit_code)
    <3>1. CASE i \in 1..Len(down)
      <4>1. ExactDown(Place + i - 1, down[i], exit_code)
        BY <1>1, <3>1 DEF AllDown
      <4>2. Place + i - 1 < 0 /\ Place' + i - 1 < 0 /\ Place + i - 1 \in Int /\ Place' + i - 1 \in Int
        BY <1>1, <1>3, <1>4, <1>7, <2>1, <3>1
      <4>3. ~down[i].fin
        BY <4>1, <4>2, SessionAssumption DEF ExactDown, DownFrame
      <4> QED BY <1>3, <3>1, <4>2, <4>3, SessionAssumption DEF ExactDown, DownFrame
    <3>2. CASE i = Len(down) + 1
      <4>1. Place' + i - 1 = -1
        BY <1>1, <1>3, <1>4, <1>7, <2>1, <3>2
      <4> QED BY <1>3, <1>7, <3>2, <4>1, SessionAssumption DEF ExactDown, DownFrame
    <3> QED BY <1>3, <3>1, <3>2
  <2>3. ReadsAt(Place)'
    <3>1. client = "stream_build"
      BY <1>1, <2>1, SessionAssumption, LenProperties DEF ReadsAt, Reading, ProgramsOK
    <3> QED BY <1>1, <2>1, <3>1 DEF ReadsAt
  <2> QED BY <1>7, <2>2, <2>3 DEF AllDown
<1> QED BY <1>6, <1>7

LEMMA DownExactStep ==
    ASSUME DeliveryInv, ExactInv, SessionNext, NoFault, NoFault', ~Failures
    PROVE  DownExact'
<1>0. /\ StreamOK /\ ProgramsOK /\ LinkInv /\ DownInv /\ ContextInv /\ SidesInv /\ DownExact
      /\ ~StreamFails /\ ~BuilderError
      /\ ClientError => client = "connect_builder" /\ builder = "booting" /\ link = "none"
  BY TypeParts, NoCallFails DEF DeliveryInv, ExactInv
<1>a. ASSUME client' \notin Reading PROVE DownExact'
  BY <1>a DEF DownExact
<1>b. ASSUME UNCHANGED <<down, client, container, exit_code>>, DownEnd' = DownEnd PROVE DownExact'
  <2>1. Place' = Place
    BY <1>b DEF Place
  <2> QED BY <1>0, <1>b, <2>1 DEF DownExact, AllDown, ReadsAt
<1>c. Len(container) \in Nat /\ container \in Seq(Int)
  BY <1>0, LenProperties DEF ProgramsOK
<1> USE DEF stream, clientVars, builderVars
<1>1. CASE ClientStep
  <2>1. CASE ConnectQueue \/ get_builder \/ write_client_data \/ PrepareContext \/ WriteContext
             \/ ClientError \/ CloseBuilder \/ Drain \/ CloseQueue
    BY <1>a, <2>1 DEF ConnectQueue, get_builder, write_client_data, PrepareContext, WriteContext,
       ClientError, Fail, CloseBuilder, Drain, CloseQueue, Reading
  <2>2. CASE VerifyImage
    <3>1. client' = "close_builder"
      BY <2>2, ImageVerified
    <3> QED BY <1>a, <3>1 DEF Reading
  <2>3. CASE WriteContextChecksum
    <3>1. /\ client = "write_checksum" /\ client \in Writing /\ client \in Talking
          /\ client' = "stream_build" /\ builder' = builder
      BY <2>3 DEF WriteContextChecksum, Writing, ClientWrites, Talking
    <3>2. builder \in BuilderReads /\ link = "up"
      BY <1>0, <3>1 DEF SidesInv, BuilderReads
    <3>3. down' = <<>> /\ Len(down') = 0
      <4>1. down = <<>> /\ Len(<<>>) = 0
        BY <1>0, <3>1 DEF LinkInv
      <4>2. down' = down
        BY <2>3, <3>2 DEF WriteContextChecksum, ClientSends
      <4> QED BY <4>1, <4>2
    <3>4. Place' = 0
      BY <3>1, <3>2, <3>3 DEF Place, DownEnd, BuilderDownPos, BuilderReads
    <3> QED BY <3>1, <3>3, <3>4 DEF DownExact, ReadsAt, AllDown
  <2>4. CASE stream_build
    <3>1. /\ client = "stream_build" /\ client \in Reading /\ ClientReceives
          /\ UNCHANGED <<exit_code, builder, b_sent, container>>
          /\ client' = IF Head(down).fin THEN "read_exit_code" ELSE client
      BY <2>4 DEF stream_build, Reading
    <3>2. /\ ReadsAt(Place) /\ Place \in Int /\ ExactDown(Place, Head(down), exit_code)
          /\ Place' = Place + 1 /\ AllDown(Place)'
      BY <1>0, <3>1, ExactDownRead
    <3>3. Place <= 0 /\ (Head(down).fin <=> Place = 0)
      BY <3>1, <3>2, SessionAssumption DEF ReadsAt, ExactDown, DownFrame
    <3>4. ReadsAt(Place)'
      BY <3>1, <3>2, <3>3 DEF ReadsAt
    <3> QED BY <3>1, <3>2, <3>4 DEF DownExact
  <2>5. CASE ReadExitCode
    <3>1. /\ client = "read_exit_code" /\ client \in Reading /\ ClientReceives
          /\ UNCHANGED <<exit_code, builder, b_sent>>
          /\ client' \in {"open_image", "close_builder"}
      BY <2>5 DEF ReadExitCode, Fail, Reading
    <3>2. /\ ReadsAt(Place) /\ Place' = Place + 1 /\ AllDown(Place)'
      BY <1>0, <3>1, ExactDownRead
    <3>3. Place' = 2
      BY <3>1, <3>2 DEF ReadsAt
    <3>4. ReadsAt(Place)'
      BY <3>1, <3>3 DEF ReadsAt
    <3> QED BY <3>1, <3>2, <3>4 DEF DownExact
  <2>6. CASE OpenImage
    <3>1. /\ client = "open_image" /\ client \in Reading /\ client' = "read_image"
          /\ container' = <<>> /\ Len(container') = 0
          /\ UNCHANGED <<down, exit_code, builder, b_sent>>
      BY <2>6 DEF OpenImage, Reading
    <3>2. DownEnd' = DownEnd
      BY <3>1 DEF DownEnd, BuilderDownPos
    <3>3. Place' = Place /\ ReadsAt(Place) /\ AllDown(Place)
      BY <1>0, <3>1, <3>2 DEF Place, DownExact
    <3>4. Place = 2 /\ ReadsAt(Place)' /\ AllDown(Place)'
      BY <3>1, <3>3 DEF ReadsAt, AllDown
    <3>5. Prefix(container', Image)
      BY <3>1, FilesType, SessionAssumption DEF Prefix
    <3> QED BY <3>1, <3>4, <3>5 DEF DownExact
  <2>7. CASE ReadImage
    <3>1. /\ client = "read_image" /\ client \in Reading /\ ClientReceives
          /\ UNCHANGED <<exit_code, builder, b_sent>>
          /\ container' = container \o Head(down).data
          /\ client' = IF Head(down).fin THEN "read_checksum" ELSE client
      BY <2>7 DEF ReadImage, Reading
    <3>2. /\ ReadsAt(Place) /\ Place \in Int /\ ExactDown(Place, Head(down), exit_code)
          /\ Place' = Place + 1 /\ AllDown(Place)'
      BY <1>0, <3>1, ExactDownRead
    <3>3. Place = 2 + Len(container) /\ Len(container) < ImageChunks
      BY <1>0, <3>1, <3>2 DEF ReadsAt, DownInv
    <3>4. Place \in 2..(ImageChunks + 1) /\ Place - 1 = Len(container) + 1
      BY <1>c, <3>3, SessionAssumption
    <3>5. /\ Head(down).fin <=> Place > ImageChunks
          /\ Head(down).data = <<Image[Len(container) + 1]>>
      BY <3>2, <3>4 DEF ExactDown, DownFrame
    <3>6. Prefix(container', Image) /\ Len(container') = Len(container) + 1
      BY <1>0, <1>c, <3>1, <3>3, <3>5, PrefixGrows, FilesType DEF DownExact
    <3>7. ReadsAt(Place)' /\ (client' = "read_checksum" => Len(container') = ImageChunks)
      <4>1. CASE Head(down).fin
        <5>1. client' = "read_checksum" /\ Place' = 2 + ImageChunks /\ Len(container') = ImageChunks
          BY <1>c, <3>1, <3>2, <3>3, <3>4, <3>5, <3>6, <4>1, SessionAssumption
        <5> QED BY <5>1 DEF ReadsAt
      <4>2. CASE ~Head(down).fin
        <5>1. client' = "read_image" /\ Place' = 2 + Len(container')
          BY <1>c, <3>1, <3>2, <3>3, <3>6, <4>2
        <5> QED BY <5>1 DEF ReadsAt
      <4> QED BY <4>1, <4>2
    <3> QED BY <3>2, <3>6, <3>7 DEF DownExact
  <2> QED BY <1>0, <1>1, <2>1, <2>2, <2>3, <2>4, <2>5, <2>6, <2>7 DEF ClientStep
<1>2. CASE BuilderStep
  <2>0. ASSUME builder \in BuilderWrites PROVE link = "up"
    BY <2>0, BothThere DEF ExactInv
  <2>1. CASE Boot \/ read_client_data \/ ReadContext \/ StartBuild
    <3>1. UNCHANGED <<down, client, container, exit_code>>
      BY <2>1 DEF Boot, read_client_data, ReadContext, StartBuild, BuilderReceives
    <3>2. DownEnd' = 0 /\ DownEnd = 0
      BY <2>1 DEF Boot, read_client_data, ReadContext, StartBuild, DownEnd, BuilderDownPos
    <3> QED BY <1>b, <3>1, <3>2
  <2>2. CASE VerifyContext
    <3>1. builder' = "untar"
      BY <2>2, ContextVerified
    <3>2. UNCHANGED <<down, client, container, exit_code>> /\ builder = "read_checksum"
      BY <2>2 DEF VerifyContext, BuilderReceives
    <3>3. DownEnd = 0 /\ DownEnd' = 0
      BY <3>1, <3>2 DEF DownEnd, BuilderDownPos
    <3> QED BY <1>b, <3>2, <3>3
  <2>3. CASE Leave
    <3>1. /\ builder = "leaving" /\ builder' = "exited" /\ UNCHANGED <<client, container, exit_code>>
      BY <2>3 DEF Leave
    <3>2. client \in Reading => down' = down
      BY <1>0, <2>3, <3>1 DEF Leave, BuilderLeaves, SidesInv, Talking, BuilderReads
    <3>3. DownEnd' = DownEnd
      BY <3>1 DEF DownEnd
    <3> QED BY <1>a, <1>b, <3>1, <3>2, <3>3
  <2>4. CASE StreamOutput
    <3>1. PICK data \in {Text, <<>>} : BuilderSends(Frame(data, FALSE))
      BY <2>4 DEF StreamOutput
    <3>2. Frame(data, FALSE) \in Frames /\ ~Frame(data, FALSE).fin
      BY <3>1, FrameType, PieceType
    <3>3. builder = "building" /\ builder' = builder /\ UNCHANGED <<client, container, exit_code>>
      BY <2>4 DEF StreamOutput
    <3>4. DownEnd = 0 /\ DownEnd' = 0 /\ builder \in BuilderWrites
      BY <3>3 DEF DownEnd, BuilderDownPos, BuilderWrites
    <3> QED BY <1>0, <2>0, <3>1, <3>2, <3>3, <3>4, ExactDownWrite
  <2>5. CASE BuildEnds
    <3>1. /\ builder = "building" /\ builder' = "write_exit_code" /\ BuilderSends(Frame(<<>>, TRUE))
          /\ UNCHANGED <<client, container>>
      BY <2>5 DEF BuildEnds
    <3>2. Frame(<<>>, TRUE) \in Frames /\ Frame(<<>>, TRUE).fin
      BY FrameType, PieceType
    <3>3. ExactDown(0, Frame(<<>>, TRUE), exit_code')
      <4>1. 0 <= ImageChunks + 2 /\ 0 # 1 /\ 0 \notin 2..(ImageChunks + 1) /\ 0 # ImageChunks + 2
        BY SessionAssumption
      <4> QED BY <3>2, <4>1 DEF ExactDown, DownFrame
    <3>4. DownEnd = 0 /\ DownEnd' = 1 /\ builder \in BuilderWrites
      BY <3>1 DEF DownEnd, BuilderDownPos, BuilderWrites
    <3> QED BY <1>0, <2>0, <3>1, <3>2, <3>3, <3>4, ExactDownWrite
  <2>6. CASE WriteExitCode
    <3>1. /\ builder = "write_exit_code" /\ BuilderSends(Frame(<<exit_code>>, TRUE))
          /\ builder' = IF exit_code = 0 THEN "write_image" ELSE "leaving"
          /\ b_sent' = b_sent /\ UNCHANGED <<client, container, exit_code>>
      BY <2>6 DEF WriteExitCode
    <3>2. <<exit_code>> \in Seq(Int) /\ b_sent = 0 /\ exit_code \in {0, 1}
      BY <1>0, <3>1 DEF ProgramsOK, SidesInv, NoExitCode, ChunksLeft, BeforeImage, DeliveryInv, TypeInv
    <3>3. /\ Frame(<<exit_code>>, TRUE) \in Frames /\ Frame(<<exit_code>>, TRUE).fin
          /\ Frame(<<exit_code>>, TRUE).data = <<exit_code>>
      BY <3>2, FrameType
    <3>4. ExactDown(1, Frame(<<exit_code>>, TRUE), exit_code)
      <4>1. 1 <= ImageChunks + 2 /\ 1 \notin 2..(ImageChunks + 1) /\ 1 # ImageChunks + 2
        BY SessionAssumption
      <4> QED BY <3>3, <4>1 DEF ExactDown, DownFrame
    <3>5. DownEnd = 1 /\ builder \in BuilderWrites
      BY <3>1 DEF DownEnd, BuilderDownPos, BuilderWrites
    <3>6. DownEnd' = DownEnd + 1
      BY <3>1, <3>2, <3>5 DEF DownEnd, BuilderDownPos
    <3> QED BY <1>0, <2>0, <3>1, <3>3, <3>4, <3>5, <3>6, ExactDownWrite
  <2>7. CASE WriteImage
    <3>1. /\ builder = "write_image" /\ BuilderSends(Chunk(Image, b_sent)) /\ b_sent' = b_sent + 1
          /\ builder' = IF b_sent' = ImageChunks THEN "write_checksum" ELSE builder
          /\ UNCHANGED <<client, container, exit_code>>
      BY <2>7 DEF WriteImage
    <3>2. /\ b_sent \in 0..(Len(Image) - 1) /\ b_sent \in Nat
          /\ Len(Image) = ImageChunks /\ Image \in Seq(Int)
      BY <1>0, <3>1, FilesType, SessionAssumption DEF ProgramsOK, ChunksLeft, DeliveryInv, TypeInv
    <3>3. /\ Chunk(Image, b_sent) \in Frames
          /\ IsChunk(Chunk(Image, b_sent).data, Image, b_sent + 1)
          /\ (Chunk(Image, b_sent).fin <=> b_sent + 1 = ImageChunks)
          /\ Chunk(Image, b_sent).data = <<Image[b_sent + 1]>>
      BY <3>2, ChunkType, ChunkFrame
    <3>4. DownFrame(2 + b_sent, Chunk(Image, b_sent), exit_code)
      BY <3>2, <3>3, ImageFrame
    <3>5. ExactDown(2 + b_sent, Chunk(Image, b_sent), exit_code)
      <4>1. PICK p \in Nat : p = 2 + b_sent
        BY <3>2
      <4>2. p # ImageChunks + 2 /\ p - 1 = b_sent + 1
        BY <3>2, <4>1
      <4>3. Chunk(Image, b_sent).data = <<Image[p - 1]>>
        BY <3>3, <4>2
      <4>4. ExactDown(p, Chunk(Image, b_sent), exit_code)
        BY <3>4, <4>1, <4>2, <4>3 DEF ExactDown
      <4> QED BY <4>1, <4>4
    <3>6. DownEnd = 2 + b_sent /\ DownEnd' = DownEnd + 1
      BY <3>1, <3>2, SessionAssumption DEF DownEnd, BuilderDownPos
    <3>7. link = "up"
      BY <2>0, <3>1 DEF BuilderWrites
    <3> QED BY <1>0, <3>1, <3>3, <3>5, <3>6, <3>7, ExactDownWrite
  <2>8. CASE WriteImageChecksum
    <3>1. BuilderSends(Frame(Checksum(Image), TRUE))
      <4>1. garbled' # garbled + 1
        BY DEF NoFault
      <4> QED BY <2>8, <4>1 DEF WriteImageChecksum
    <3>2. /\ Frame(Checksum(Image), TRUE) \in Frames /\ Frame(Checksum(Image), TRUE).fin
          /\ Frame(Checksum(Image), TRUE).data = Checksum(Image)
      BY ChecksumType, FilesType DEF Frame
    <3>3. ExactDown(2 + ImageChunks, Frame(Checksum(Image), TRUE), exit_code)
      <4>1. /\ 2 + ImageChunks <= ImageChunks + 2 /\ 2 + ImageChunks > ImageChunks
            /\ 2 + ImageChunks # 1 /\ 2 + ImageChunks \notin 2..(ImageChunks + 1)
        BY SessionAssumption
      <4> QED BY <3>2, <4>1 DEF ExactDown, DownFrame
    <3>4. /\ builder = "write_checksum" /\ builder' = "leaving" /\ exit_code = 0
          /\ UNCHANGED <<client, container, exit_code>>
      BY <1>0, <2>8 DEF WriteImageChecksum, ContextInv
    <3>5. DownEnd = 2 + ImageChunks /\ DownEnd' = DownEnd + 1
      BY <3>4, SessionAssumption DEF DownEnd, BuilderDownPos
    <3>6. link = "up"
      BY <2>0, <3>4 DEF BuilderWrites
    <3> QED BY <1>0, <3>1, <3>2, <3>3, <3>4, <3>5, <3>6, ExactDownWrite
  <2>9. ~Flood
    BY <1>0 DEF Flood, SidesInv
  <2> QED BY <1>0, <1>2, <2>1, <2>2, <2>3, <2>4, <2>5, <2>6, <2>7, <2>8, <2>9 DEF BuilderStep
<1>3. CASE ConnectBuilder
  BY <1>a, <1>3 DEF ConnectBuilder, Reading
<1>4. CASE ProbesFail
  <2>1. DownEnd' = DownEnd /\ UNCHANGED <<down, client, container, exit_code>>
    BY <1>4 DEF ProbesFail, DownEnd, BuilderDownPos
  <2> QED BY <1>b, <2>1
<1>5. CASE DestroyBuilder \/ DestroyBuilderLost
  <2>1. client' = "done"
    BY <1>0, <1>5 DEF DestroyBuilder, DestroyBuilderLost, TieLost, Vanish, SidesInv
  <2> QED BY <1>a, <2>1 DEF Reading
<1>6. CASE TcpGivesUp
  <2>1. link \notin {"up", "ended"} /\ client' = client
    BY <1>6 DEF TcpGivesUp, GivesUp
  <2>2. client \notin Reading
    BY <1>0, <2>1 DEF SidesInv, Talking
  <2> QED BY <1>a, <2>1, <2>2
<1> QED BY <1>1, <1>2, <1>3, <1>4, <1>5, <1>6 DEF SessionNext

-----------------------------------------------------------------------------
FaultFreeInv == DeliveryInv /\ (NoFault => ExactInv)

LEMMA ExactInit == SessionInit => FaultFreeInv
<1> SUFFICES ASSUME SessionInit PROVE ExactInv
  BY DeliveryInit DEF FaultFreeInv
<1>1. SidesInv
  BY DEF SessionInit, SidesInv, TieLost, Talking, Writing, Reading, ClientWrites, Leaving, Ended
<1>2. UpExact /\ DownExact
  BY DEF SessionInit, UpExact, DownExact, BuilderReads, Reading
<1> QED BY <1>1, <1>2 DEF ExactInv

LEMMA ExactKept == FaultFreeInv /\ [SessionNext]_sessionVars => FaultFreeInv'
<1> SUFFICES ASSUME FaultFreeInv, [SessionNext]_sessionVars, NoFault' PROVE ExactInv'
  BY DeliveryKept DEF FaultFreeInv
<1>1. CASE SessionNext
  <2>1. DeliveryInv /\ NoFault /\ ~Failures
    BY <1>1, StillFaultFree DEF FaultFreeInv
  <2>2. ExactInv
    BY <2>1 DEF FaultFreeInv
  <2> QED BY <1>1, <2>1, <2>2, SidesStep, UpExactStep, DownExactStep DEF ExactInv
<1>2. CASE UNCHANGED sessionVars
  <2>1. UNCHANGED <<up, down, link, client, c_sent, begun, container, queue, outcome, builder,
                    b_sent, context, output, exit_code, faults, garbled>>
    BY <1>2 DEF sessionVars, stream, clientVars, builderVars
  <2>2. ExactInv
    BY <2>1 DEF FaultFreeInv, NoFault
  <2>3. SidesInv'
    BY <2>1, <2>2 DEF ExactInv, SidesInv, TieLost
  <2>4. UpExact'
    BY <2>1, <2>2 DEF ExactInv, UpExact, AllUp, BuilderPos
  <2>5. DownExact'
    BY <2>1, <2>2 DEF ExactInv, DownExact, AllDown, ReadsAt, Place, DownEnd, BuilderDownPos
  <2> QED BY <2>3, <2>4, <2>5 DEF ExactInv
<1> QED BY <1>1, <1>2

\* Without failures the client is never stuck, and fails only because the build did or
\* because it was refused by a machine that did not listen yet and has no link to it,
\* for files and buffers of every size: from the connection on, every frame is there,
\* intact, for the call that reads it.
THEOREM FaultFree == SessionSpec => []FaultFreeSucceeds
<1>1. FaultFreeInv => FaultFreeSucceeds
  <2> SUFFICES ASSUME FaultFreeInv, faults = 0, garbled = 0
               PROVE  ~Stuck /\ (outcome = "failed" => exit_code = 1 \/ link = "none")
    BY DEF FaultFreeSucceeds
  <2>1. DeliveryInv /\ ExactInv /\ SidesInv /\ LinkInv
    BY DEF FaultFreeInv, NoFault, ExactInv, DeliveryInv
  <2>2. ~(client = "stream_build" /\ begun /\ ClientReadFails)
    BY <2>1, NoReadFails DEF Reading
  <2>3. ~(client = "stream_build" /\ builder = "flooding")
    BY <2>1 DEF SidesInv
  <2>4. ~(client \in ClientReads /\ link = "lost_builder" /\ down = <<>>)
    BY <2>1 DEF SidesInv, LinkInv, ClientReads
  <2>5. ~(client = "get_builder" /\ queue = "silent")
    BY <2>1 DEF SidesInv, TieLost
  <2>6. outcome = "failed" => exit_code = 1 \/ link = "none"
    BY <2>1 DEF SidesInv
  <2> QED BY <2>2, <2>3, <2>4, <2>5, <2>6 DEF Stuck
<1> QED BY <1>1, ExactInit, ExactKept, PTL DEF SessionSpec, FaultFreeInv

\* What becomes of the checksum is the dangling buffer's doing, and nothing else's:
\* as long as it has garbled none, the checksum of a file that arrived unaltered is
\* the one that was computed for it ("Send the checksum to the client", Builder
\* main.cpp:181).
THEOREM ChecksumsUngarbled == SessionSpec => [](garbled = 0 => ChecksumsAgree)
<1>1. FaultFreeInv => (garbled = 0 => ChecksumsAgree)
  <2> SUFFICES ASSUME FaultFreeInv, garbled = 0, faults = 0
               PROVE  /\ client = "read_checksum" /\ down # <<>> =>
                           Head(down).data = Checksum(container)
                      /\ builder = "read_checksum" /\ up # <<>> =>
                           Head(up).data = Checksum(context)
    BY DEF ChecksumsAgree
  <2>1. StreamOK /\ ProgramsOK /\ UpExact /\ DownExact
    BY TypeParts DEF FaultFreeInv, NoFault, ExactInv, DeliveryInv
  <2>2. ASSUME client = "read_checksum", down # <<>>
        PROVE  Head(down).data = Checksum(container)
    <3>1. container = Image
      BY <2>1, <2>2, WholePrefix, FilesType DEF DownExact, Reading, ProgramsOK
    <3>2. ReadsAt(Place) /\ AllDown(Place) /\ Place = 2 + ImageChunks
      BY <2>1, <2>2 DEF DownExact, ReadsAt, Reading
    <3>3. Len(down) \in Nat /\ Len(down) > 0 /\ Head(down) = down[1]
      BY <2>1, <2>2, Received, LenProperties DEF StreamOK
    <3>4. ExactDown(2 + ImageChunks + 1 - 1, down[1], exit_code)
      BY <3>2, <3>3 DEF AllDown
    <3>5. 2 + ImageChunks + 1 - 1 = ImageChunks + 2
      BY SessionAssumption
    <3> QED BY <3>1, <3>3, <3>4, <3>5 DEF ExactDown
  <2>3. ASSUME builder = "read_checksum", up # <<>>
        PROVE  Head(up).data = Checksum(context)
    <3>1. builder \in BuilderReads
      BY <2>3 DEF BuilderReads
    <3>2. context = Context
      BY <2>1, <2>3, <3>1, WholePrefix, FilesType DEF UpExact, ProgramsOK
    <3>3. AllUp(BuilderPos) /\ BuilderPos = 1 + ContextChunks
      BY <2>1, <2>3, <3>1 DEF UpExact, BuilderPos
    <3>4. Len(up) \in Nat /\ Len(up) > 0 /\ Head(up) = up[1]
      BY <2>1, <2>3, Received, LenProperties DEF StreamOK
    <3>5. ExactUp(1 + ContextChunks + 1 - 1, up[1])
      BY <3>3, <3>4 DEF AllUp
    <3>6. 1 + ContextChunks + 1 - 1 = ContextChunks + 1
      BY SessionAssumption
    <3> QED BY <3>2, <3>4, <3>5, <3>6 DEF ExactUp
  <2> QED BY <2>2, <2>3
<1> QED BY <1>1, ExactInit, ExactKept, PTL DEF SessionSpec
=============================================================================
