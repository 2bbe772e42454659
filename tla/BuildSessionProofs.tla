------------------------- MODULE BuildSessionProofs -------------------------
(***************************************************************************)
(* Theorems about BuildSession, for every value of its constants.          *)
(***************************************************************************)
EXTENDS BuildSession, SequenceTheorems, TLAPS

-----------------------------------------------------------------------------
(***************************************************************************)
(* The stream.                                                             *)
(***************************************************************************)
StreamOK ==
    /\ up \in Seq(Frames) /\ Len(up) <= Capacity
    /\ down \in Seq(Frames) /\ Len(down) <= Capacity
    /\ link \in LinkStates

\* A frame carries a sequence of numbers.
LEMMA FrameType ==
    ASSUME NEW data \in Seq(Int), NEW fin \in BOOLEAN
    PROVE  /\ Frame(data, fin) \in Frames
           /\ Frame(data, fin).data = data
           /\ Frame(data, fin).fin = fin
BY DEF Frame, Frames

LEMMA PieceType ==
    /\ Text \in Seq(Int) /\ Altered \in Seq(Int)
    /\ Untouched \in Seq(Int) /\ <<>> \in Seq(Int)
<1>1. \A n \in Int : <<n>> \in Seq(Int)
  OBVIOUS
<1>2. -1 \in Int /\ -2 \in Int /\ -3 \in Int
  OBVIOUS
<1> QED BY <1>1, <1>2, EmptySeq DEF Text, Altered, Untouched

\* The files are sequences of chunks, and so are the frames that are cut from them.
LEMMA FilesType ==
    /\ Context \in Seq(Int) /\ Len(Context) = ContextChunks
    /\ Image \in Seq(Int) /\ Len(Image) = ImageChunks
BY SessionAssumption DEF Context, Image

LEMMA ChunkType ==
    ASSUME NEW file \in Seq(Int), NEW n \in 0..(Len(file) - 1)
    PROVE  Chunk(file, n) \in Frames
<1>1. n + 1 \in 1..Len(file)
  OBVIOUS
<1>2. <<file[n + 1]>> \in Seq(Int)
  BY <1>1, ElementOfSeq
<1> QED BY <1>2, FrameType DEF Chunk

LEMMA ChecksumType ==
    ASSUME NEW file \in Seq(Int)
    PROVE  /\ Frame(Checksum(file), TRUE) \in Frames
           /\ Frame(Garbage, TRUE) \in Frames
<1>1. Append(file, -4) \in Seq(Int) /\ <<>> \in Seq(Int)
  BY AppendProperties, EmptySeq
<1> QED BY <1>1, FrameType DEF Checksum, Garbage

LEMMA ResetType == ASSUME Reset PROVE StreamOK'
<1>1. <<>> \in Seq(Frames) /\ Len(<<>>) = 0
  BY EmptySeq
<1> QED BY <1>1, CapacityAssumption DEF Reset, StreamOK, LinkStates

\* A write keeps the buffers within their capacity.
LEMMA SendType ==
    ASSUME StreamOK, NEW frame \in Frames, ClientSends(frame) \/ BuilderSends(frame)
    PROVE  StreamOK'
<1>1. ASSUME NEW s \in Seq(Frames), Len(s) < Capacity
      PROVE  Append(s, frame) \in Seq(Frames) /\ Len(Append(s, frame)) <= Capacity
  BY <1>1, AppendProperties, LenProperties, CapacityAssumption
<1>2. CASE Reset
  BY <1>2, ResetType
<1>3. CASE ~Reset
  BY <1>1, <1>3 DEF StreamOK, ClientSends, BuilderSends
<1> QED BY <1>2, <1>3

\* A read takes a frame from a buffer.
LEMMA ReceiveType ==
    ASSUME StreamOK, ClientReceives \/ BuilderReceives
    PROVE  /\ StreamOK'
           /\ ClientReceives => Head(down) \in Frames
           /\ BuilderReceives => Head(up) \in Frames
<1>1. ASSUME NEW s \in Seq(Frames), s # <<>>, Len(s) <= Capacity
      PROVE  Head(s) \in Frames /\ Tail(s) \in Seq(Frames) /\ Len(Tail(s)) <= Capacity
  BY <1>1, HeadTailProperties, LenProperties, CapacityAssumption
<1> QED BY <1>1 DEF StreamOK, ClientReceives, BuilderReceives

\* So does every other operation on the connection.
LEMMA EndsType ==
    ASSUME StreamOK,
           \/ ClientLeaves \/ BuilderLeaves \/ ClientCloses
           \/ ClientVanishes \/ BuilderVanishes \/ GivesUp \/ Cut
    PROVE  StreamOK'
<1>0. <<>> \in Seq(Frames) /\ Len(<<>>) <= Capacity
  BY EmptySeq, CapacityAssumption
<1>1. CASE Reset
  BY <1>1, ResetType
<1>2. CASE ~Reset /\ (ClientLeaves \/ BuilderLeaves \/ ClientCloses \/ GivesUp \/ Cut)
  BY <1>2 DEF StreamOK, ClientLeaves, BuilderLeaves, ClientCloses, GivesUp, Cut, stream,
       LinkStates
<1>3. CASE ClientVanishes
  <2>1. link' \in LinkStates
    BY <1>3 DEF StreamOK, ClientVanishes, LinkStates
  <2>2. up' \in {up, <<>>} /\ down' \in {down, <<>>}
    BY <1>3 DEF ClientVanishes
  <2> QED BY <1>0, <2>1, <2>2, Zenon DEF StreamOK
<1>4. CASE BuilderVanishes
  <2>1. link' \in LinkStates
    BY <1>4 DEF StreamOK, BuilderVanishes, LinkStates
  <2>2. up' \in {up, <<>>} /\ down' = down
    BY <1>4 DEF BuilderVanishes
  <2> QED BY <1>0, <2>1, <2>2, Zenon DEF StreamOK
<1> QED BY <1>1, <1>2, <1>3, <1>4

LEMMA StreamUnchangedType ==
    ASSUME StreamOK, UNCHANGED stream
    PROVE  StreamOK'
BY DEF StreamOK, stream

-----------------------------------------------------------------------------
(***************************************************************************)
(* Types.  A chunk is written only while there is one left, which needs    *)
(* where in its program each side still has all of them.                   *)
(***************************************************************************)
BeforeContext == {"connect_queue", "get_builder", "connect_builder", "write_data", "prepare"}
BeforeImage   == {"booting", "listening", "untar", "building", "write_exit_code"}
                   \cup BuilderReads

ChunksLeft ==
    /\ client \in BeforeContext => c_sent = 0
    /\ client = "write_context" => c_sent < ContextChunks
    /\ builder \in BeforeImage => b_sent = 0
    /\ builder = "write_image" => b_sent < ImageChunks

TypeInv == SessionTypeOK /\ ChunksLeft

\* The part of the types that is not about the stream.
ProgramsOK ==
    /\ client \in {"connect_queue", "get_builder", "connect_builder", "close_queue"}
                    \cup InSession \cup Ended
    /\ outcome \in {"none", "completed", "failed"}
    /\ c_sent \in 0..ContextChunks
    /\ begun \in BOOLEAN
    /\ container \in Seq(Int)
    /\ queue \in {"none", "open", "lost", "silent", "closed"}
    /\ builder \in {"booting", "listening", "untar", "leaving", "exited", "destroyed"}
                     \cup BuilderReads \cup BuilderWrites
    /\ b_sent \in 0..ImageChunks
    /\ context \in Seq(Int)
    /\ output \in 0..MaxOutput
    /\ exit_code \in {NoExitCode, 0, 1}
    /\ faults \in 0..MaxFaults
    /\ garbled \in 0..MaxGarbled
    /\ ChunksLeft

LEMMA TypeParts == TypeInv <=> StreamOK /\ ProgramsOK
BY DEF TypeInv, SessionTypeOK, StreamOK, ProgramsOK

LEMMA TypeInit == SessionInit => TypeInv
<1> SUFFICES ASSUME SessionInit PROVE StreamOK /\ ProgramsOK
  BY TypeParts
<1>1. StreamOK
  BY EmptySeq, CapacityAssumption DEF SessionInit, StreamOK, LinkStates
<1>2. container \in Seq(Int) /\ context \in Seq(Int)
  BY PieceType DEF SessionInit
<1>3. /\ c_sent \in 0..ContextChunks /\ b_sent \in 0..ImageChunks /\ output \in 0..MaxOutput
      /\ faults \in 0..MaxFaults /\ garbled \in 0..MaxGarbled
  BY SessionAssumption DEF SessionInit
<1>4. ChunksLeft
  BY DEF SessionInit, ChunksLeft, BeforeContext, BeforeImage, BuilderReads
<1> QED BY <1>1, <1>2, <1>3, <1>4 DEF SessionInit, ProgramsOK

\* What a step does to the stream.
LEMMA StreamStepType ==
    ASSUME TypeInv, SessionNext
    PROVE  StreamOK'
<1> USE TypeParts
<1>1. CASE ClientStep
  <2>1. CASE write_client_data
    BY <2>1, SendType, FrameType, PieceType DEF write_client_data
  <2>2. CASE WriteContext
    <3>1. c_sent \in 0..(Len(Context) - 1)
      BY <2>2, FilesType, SessionAssumption DEF WriteContext, ProgramsOK, ChunksLeft
    <3> QED BY <2>2, <3>1, SendType, ChunkType, FilesType DEF WriteContext
  <2>3. CASE WriteContextChecksum
    BY <2>3, SendType, ChecksumType, FilesType DEF WriteContextChecksum
  <2>4. CASE stream_build \/ ReadExitCode \/ ReadImage \/ VerifyImage
    BY <2>4, ReceiveType DEF stream_build, ReadExitCode, ReadImage, VerifyImage
  <2>5. CASE CloseBuilder \/ CloseQueue
    BY <2>5, EndsType DEF CloseBuilder, CloseQueue
  <2>6. CASE Drain
    BY <2>6, ReceiveType, StreamUnchangedType DEF Drain
  <2>7. CASE ConnectQueue \/ get_builder \/ PrepareContext \/ StreamFails \/ OpenImage
              \/ ClientError
    BY <2>7, StreamUnchangedType DEF ConnectQueue, get_builder, PrepareContext,
         StreamFails, OpenImage, ClientError
  <2> QED BY <1>1, <2>1, <2>2, <2>3, <2>4, <2>5, <2>6, <2>7 DEF ClientStep
<1>2. CASE BuilderStep
  <2>1. CASE StreamOutput \/ Flood
    BY <2>1, SendType, FrameType, PieceType DEF StreamOutput, Flood
  <2>2. CASE BuildEnds
    BY <2>2, SendType, FrameType, PieceType DEF BuildEnds
  <2>3. CASE WriteExitCode
    <3>1. <<exit_code>> \in Seq(Int)
      BY DEF ProgramsOK, NoExitCode
    <3> QED BY <2>3, <3>1, SendType, FrameType DEF WriteExitCode
  <2>4. CASE WriteImage
    <3>1. b_sent \in 0..(Len(Image) - 1)
      BY <2>4, FilesType, SessionAssumption DEF WriteImage, ProgramsOK, ChunksLeft
    <3> QED BY <2>4, <3>1, SendType, ChunkType, FilesType DEF WriteImage
  <2>5. CASE WriteImageChecksum
    BY <2>5, SendType, ChecksumType, FilesType DEF WriteImageChecksum
  <2>6. CASE read_client_data \/ ReadContext \/ VerifyContext
    BY <2>6, ReceiveType DEF read_client_data, ReadContext, VerifyContext
  <2>7. CASE Leave
    BY <2>7, EndsType DEF Leave
  <2>8. CASE Boot \/ StartBuild \/ BuilderError
    BY <2>8, StreamUnchangedType DEF Boot, StartBuild, BuilderError
  <2> QED BY <1>2, <2>1, <2>2, <2>3, <2>4, <2>5, <2>6, <2>7, <2>8 DEF BuilderStep
<1>3. CASE ConnectBuilder
  BY <1>3 DEF ConnectBuilder, StreamOK, LinkStates
<1>4. CASE Corrupt
  <2>1. ASSUME NEW s \in Seq(Frames), NEW i \in 1..Len(s), Len(s) <= Capacity
        PROVE  LET t == [s EXCEPT ![i].data = Altered]
               IN  t \in Seq(Frames) /\ Len(t) <= Capacity
    <3>0. s[i] \in Frames
      BY <2>1, ElementOfSeq
    <3>1. [s[i] EXCEPT !.data = Altered] \in Frames
      BY <3>0, PieceType DEF Frames
    <3> QED BY <2>1, <3>1, ExceptSeq
  <2> QED BY <1>4, <2>1 DEF Corrupt, StreamOK
<1>5. CASE CutLink \/ ClientKilled \/ ClientDies
  BY <1>5, EndsType DEF CutLink, ClientKilled, ClientDies
<1>6. CASE DestroyBuilder \/ DestroyBuilderLost \/ TcpGivesUp
  BY <1>6, EndsType DEF DestroyBuilder, DestroyBuilderLost, TieLost, Vanish, TcpGivesUp
<1>7. CASE ClientLocalFailure \/ BuilderLocalFailure \/ PipeBreaks
            \/ QueueLost \/ ProbesFail
  BY <1>7, StreamUnchangedType DEF ClientLocalFailure,
       BuilderLocalFailure, PipeBreaks, QueueLost, ProbesFail
<1> QED BY <1>1, <1>2, <1>3, <1>4, <1>5, <1>6, <1>7 DEF SessionNext, Failures

\* What a step does to the two programs.
LEMMA ProgramStepType ==
    ASSUME TypeInv, SessionNext
    PROVE  ProgramsOK'
<1> USE TypeParts, SessionAssumption
    DEF ProgramsOK, ChunksLeft, BeforeContext, BeforeImage, InSession, Ended,
        ClientWrites, ClientReads, BuilderReads, BuilderWrites, clientVars, builderVars
<1>1. CASE ClientStep
  <2>1. CASE WriteContext
    BY <2>1 DEF WriteContext
  <2>2. CASE WriteContextChecksum
    <3>1. garbled' \in 0..MaxGarbled
      <4>1. garbled' = garbled \/ (garbled < MaxGarbled /\ garbled' = garbled + 1)
        BY <2>2, Zenon DEF WriteContextChecksum
      <4> QED BY <4>1
    <3>2. /\ client' = "stream_build"
          /\ UNCHANGED <<outcome, c_sent, begun, container, queue, faults>>
          /\ UNCHANGED builderVars
      BY <2>2 DEF WriteContextChecksum
    <3> QED BY <2>2, <3>1, <3>2
  <2>3. CASE ReadImage
    <3>1. Head(down).data \in Seq(Int)
      BY <2>3, ReceiveType DEF ReadImage, Frames
    <3> QED BY <2>3, <3>1, ConcatProperties DEF ReadImage
  <2>4. CASE stream_build
    <3>1. Head(down).fin \in BOOLEAN
      BY <2>4, ReceiveType DEF stream_build, Frames
    <3> QED BY <2>4, <3>1 DEF stream_build
  <2>5. CASE StreamFails
    BY <2>5 DEF StreamFails
  <2>6. CASE ReadExitCode
    BY <2>6 DEF ReadExitCode, Fail
  <2>7. CASE VerifyImage
    BY <2>7 DEF VerifyImage, Fail
  <2>8. CASE OpenImage
    BY <2>8 DEF OpenImage
  <2>9. CASE ClientError
    BY <2>9 DEF ClientError, Fail
  <2>10. CASE ConnectQueue
    BY <2>10 DEF ConnectQueue
  <2>11. CASE get_builder
    BY <2>11 DEF get_builder
  <2>12. CASE write_client_data
    BY <2>12 DEF write_client_data
  <2>13. CASE PrepareContext
    BY <2>13 DEF PrepareContext
  <2>14. CASE CloseBuilder
    BY <2>14 DEF CloseBuilder
  <2>15. CASE Drain
    BY <2>15 DEF Drain
  <2>16. CASE CloseQueue
    BY <2>16 DEF CloseQueue
  <2> QED BY <1>1, <2>1, <2>2, <2>3, <2>4, <2>5, <2>6, <2>7, <2>8, <2>9, <2>10, <2>11, <2>12,
                <2>13, <2>14, <2>15, <2>16 DEF ClientStep
<1>2. CASE BuilderStep
  <2>1. CASE WriteImage
    BY <2>1 DEF WriteImage
  <2>2. CASE WriteImageChecksum
    <3>1. garbled' \in 0..MaxGarbled
      <4>1. garbled' = garbled \/ (garbled < MaxGarbled /\ garbled' = garbled + 1)
        BY <2>2, Zenon DEF WriteImageChecksum
      <4> QED BY <4>1
    <3>2. /\ builder' = "leaving"
          /\ UNCHANGED <<b_sent, context, output, exit_code, faults>>
          /\ UNCHANGED clientVars
      BY <2>2 DEF WriteImageChecksum
    <3> QED BY <2>2, <3>1, <3>2
  <2>3. CASE ReadContext
    <3>1. Head(up).data \in Seq(Int)
      BY <2>3, ReceiveType DEF ReadContext, Frames
    <3> QED BY <2>3, <3>1, ConcatProperties DEF ReadContext
  <2>4. CASE StreamOutput
    BY <2>4 DEF StreamOutput
  <2>5. CASE BuildEnds
    BY <2>5 DEF BuildEnds
  <2>6. CASE WriteExitCode
    BY <2>6 DEF WriteExitCode
  <2>7. CASE Boot
    BY <2>7 DEF Boot
  <2>8. CASE read_client_data
    BY <2>8 DEF read_client_data
  <2>9. CASE VerifyContext
    BY <2>9 DEF VerifyContext
  <2>10. CASE StartBuild
    BY <2>10 DEF StartBuild
  <2>11. CASE Leave
    BY <2>11 DEF Leave
  <2>12. CASE BuilderError
    BY <2>12 DEF BuilderError
  <2>13. CASE Flood
    BY <2>13 DEF Flood
  <2> QED BY <1>2, <2>1, <2>2, <2>3, <2>4, <2>5, <2>6, <2>7, <2>8, <2>9, <2>10, <2>11, <2>12, <2>13
       DEF BuilderStep
<1>3. CASE ConnectBuilder
  BY <1>3 DEF ConnectBuilder
<1>4. CASE Failures
  <2>2. CASE ClientLocalFailure
    BY <2>2 DEF ClientLocalFailure, Faulty, Fail
  <2>3. CASE BuilderLocalFailure
    BY <2>3 DEF BuilderLocalFailure, Faulty
  <2>4. CASE QueueLost
    BY <2>4 DEF QueueLost, Faulty
  <2>5. CASE Corrupt
    BY <2>5 DEF Corrupt, Faulty
  <2>6. CASE CutLink
    BY <2>6 DEF CutLink, Faulty
  <2>7. CASE ClientKilled
    BY <2>7 DEF ClientKilled, Faulty
  <2>8. CASE ClientDies
    BY <2>8 DEF ClientDies, Faulty
  <2>9. CASE PipeBreaks
    BY <2>9 DEF PipeBreaks, Faulty
  <2> QED BY <1>4, <2>2, <2>3, <2>4, <2>5, <2>6, <2>7, <2>8, <2>9 DEF Failures
<1>5. CASE ProbesFail
  BY <1>5 DEF ProbesFail
<1>6. CASE DestroyBuilder \/ DestroyBuilderLost
  BY <1>6 DEF DestroyBuilder, DestroyBuilderLost, TieLost, Vanish
<1>7. CASE TcpGivesUp
  BY <1>7 DEF TcpGivesUp
<1> QED BY <1>1, <1>2, <1>3, <1>4, <1>5, <1>6, <1>7 DEF SessionNext

LEMMA TypeStep ==
    ASSUME TypeInv, [SessionNext]_sessionVars
    PROVE  TypeInv'
<1>1. CASE SessionNext
  BY <1>1, StreamStepType, ProgramStepType, TypeParts
     DEF TypeInv, SessionTypeOK, StreamOK, ProgramsOK
<1>2. CASE UNCHANGED sessionVars
  BY <1>2 DEF TypeInv, SessionTypeOK, ChunksLeft, sessionVars, stream, clientVars,
       builderVars
<1> QED BY <1>1, <1>2

\* The variables keep their types: neither the socket buffers nor the counts of
\* chunks exceed what there is (write_file, read_file).
THEOREM SessionTypes == SessionSpec => []SessionTypeOK
<1>1. SessionInit => TypeInv
  BY TypeInit
<1>2. TypeInv /\ [SessionNext]_sessionVars => TypeInv'
  BY TypeStep
<1>3. TypeInv => SessionTypeOK
  BY DEF TypeInv
<1> QED BY <1>1, <1>2, <1>3, PTL DEF SessionSpec

-----------------------------------------------------------------------------
(***************************************************************************)
(* The builder's life.  The queue destroys a builder when its connection   *)
(* to the client has ended; the client ends that connection last, and when *)
(* it is lost, that is seen at the queue but not at the client.            *)
(***************************************************************************)
LeaseInv ==
    /\ client = "connect_queue" => queue = "none"
    /\ client \notin Ended => queue # "closed"
    /\ builder = "destroyed" /\ client \notin Ended => TieLost

LEMMA LeaseStep ==
    ASSUME LeaseInv, [SessionNext]_sessionVars
    PROVE  LeaseInv'
<1> USE DEF LeaseInv, TieLost, Ended, clientVars, builderVars
<1>1. CASE ClientStep
  <2>1. CASE ConnectQueue
    BY <2>1 DEF ConnectQueue
  <2>2. CASE ClientStep /\ ~ConnectQueue /\ ~CloseQueue
    BY <2>2 DEF ClientStep, ClientReads, ClientWrites, get_builder, write_client_data, PrepareContext, WriteContext,
         WriteContextChecksum, stream_build, StreamFails, ReadExitCode, OpenImage,
         ReadImage, VerifyImage, ClientError, CloseBuilder, Drain, Fail
  <2>3. CASE CloseQueue
    BY <2>3 DEF CloseQueue
  <2> QED BY <1>1, <2>1, <2>2, <2>3
<1>2. CASE BuilderStep \/ ConnectBuilder
  BY <1>2 DEF BuilderStep, ConnectBuilder, Boot, read_client_data, ReadContext,
       VerifyContext, StartBuild, StreamOutput, Flood, BuildEnds, WriteExitCode,
       WriteImage, WriteImageChecksum, Leave, BuilderError
<1>3. CASE Failures
  BY <1>3 DEF Failures, ClientLocalFailure, BuilderLocalFailure, PipeBreaks,
       Corrupt, CutLink, ClientKilled, ClientDies, QueueLost, Fail
<1>4. CASE ProbesFail \/ DestroyBuilder \/ DestroyBuilderLost \/ TcpGivesUp
  BY <1>4 DEF ProbesFail, DestroyBuilder, DestroyBuilderLost, TieLost, Vanish, TcpGivesUp
<1>5. CASE UNCHANGED sessionVars
  BY <1>5 DEF sessionVars
<1> QED BY <1>1, <1>2, <1>3, <1>4, <1>5 DEF SessionNext

\* No builder is destroyed under a client that still uses it, unless the queue or
\* the connection to it is lost: main closes the builder before the queue, and an
\* exception on the way does not change that order (Client main.cpp).
THEOREM BuilderOutlives == SessionSpec => []BuilderOutlivesUse
<1>1. SessionInit => LeaseInv
  BY DEF SessionInit, LeaseInv, Ended
<1>2. LeaseInv /\ [SessionNext]_sessionVars => LeaseInv'
  BY LeaseStep
<1>3. LeaseInv => BuilderOutlivesUse
  BY DEF LeaseInv, BuilderOutlivesUse, InSession, Ended, ClientWrites, ClientReads
<1> QED BY <1>1, <1>2, <1>3, PTL DEF SessionSpec

-----------------------------------------------------------------------------
(***************************************************************************)
(* The client's lease.                                                     *)
(***************************************************************************)
\* Before it knows its machine, a client has no stream to it; one that has been
\* opened is never again as if it had not been.
UnopenedInv ==
    client \in {"connect_queue", "get_builder", "connect_builder"} => link = "none"

LEMMA UnopenedStep ==
    ASSUME TypeInv, UnopenedInv, [SessionNext]_sessionVars
    PROVE  /\ UnopenedInv'
           /\ link # "none" => link' # "none"
           /\ link = "none" => link' = "none" \/ client = "connect_builder"
<1> USE DEF UnopenedInv, stream, clientVars, builderVars
<1>1. CASE ClientStep
  <2>1. CASE ConnectQueue \/ get_builder \/ PrepareContext \/ StreamFails \/ OpenImage \/ ClientError
    BY <2>1 DEF ConnectQueue, get_builder, PrepareContext, StreamFails, OpenImage, ClientError, Fail
  <2>2. CASE \/ write_client_data \/ WriteContext \/ WriteContextChecksum
    BY <2>2 DEF write_client_data, WriteContext, WriteContextChecksum, ClientSends, Reset
  <2>3. CASE stream_build \/ ReadExitCode \/ ReadImage \/ VerifyImage \/ Drain
    BY <2>3 DEF stream_build, ReadExitCode, ReadImage, VerifyImage, Drain, ClientReceives, Fail
  <2>4. CASE CloseBuilder \/ CloseQueue
    BY <2>4 DEF CloseBuilder, CloseQueue, ClientCloses, ClientLeaves, Reset
  <2> QED BY <1>1, <2>1, <2>2, <2>3, <2>4 DEF ClientStep
<1>2. CASE BuilderStep \/ ConnectBuilder
  BY <1>2 DEF BuilderStep, ConnectBuilder, Boot, read_client_data, ReadContext, VerifyContext,
       StartBuild, StreamOutput, Flood, BuildEnds, WriteExitCode, WriteImage, WriteImageChecksum,
       Leave, BuilderError, BuilderReceives, BuilderSends, BuilderLeaves, Reset
<1>3. CASE Failures
  BY <1>3 DEF Failures, ClientLocalFailure, BuilderLocalFailure, PipeBreaks, Corrupt,
       CutLink, Cut, ClientKilled, ClientDies, QueueLost, Fail, ClientLeaves, ClientVanishes, Reset
<1>4. CASE ProbesFail \/ DestroyBuilder \/ DestroyBuilderLost \/ TcpGivesUp
  BY <1>4 DEF ProbesFail, DestroyBuilder, DestroyBuilderLost, TieLost, Vanish, BuilderVanishes, TcpGivesUp,
       GivesUp, Reset
<1>5. CASE UNCHANGED sessionVars
  BY <1>5 DEF sessionVars
<1> QED BY <1>1, <1>2, <1>3, <1>4, <1>5 DEF SessionNext

\* What Lease sees of the session.
UserAs == IF Away THEN "away"
          ELSE IF client = "get_builder" THEN "asking"
          ELSE IF client = "close_queue" \/ (client = "close_builder" /\ link = "none")
               THEN "leaving" ELSE "using"
Lent == ~(builder = "destroyed" \/ queue = "none" \/ client = "get_builder")
TieAs == IF Away \/ queue = "closed" THEN "none"
         ELSE IF queue = "open" THEN "intact" ELSE "lost"

\* A step of Lease, in those terms.
LEMMA ClientLeaseStep ==
    ASSUME \/ \* Ask
              /\ UserAs = "away" /\ TieAs = "none" /\ ~Lent
              /\ UserAs' = "asking" /\ TieAs' = "intact" /\ ~Lent'
           \/ \* Use
              /\ UserAs = "asking" /\ TieAs = "intact"
              /\ UserAs' = "using" /\ Lent' /\ TieAs' = TieAs
           \/ \* Finish
              /\ UserAs \in {"asking", "using"} /\ UserAs' = "leaving" /\ TieAs' = TieAs
              /\ (Lent' <=> Lent) \/ (UserAs = "asking" /\ Lent')
           \/ \* Leave
              /\ UserAs # "away" /\ UserAs' = "away"
              /\ (Lent' <=> Lent) \/ (UserAs = "asking" /\ Lent')
           \/ \* Lose
              /\ TieAs = "intact" /\ TieAs' = "lost" /\ UserAs' = UserAs /\ (Lent' <=> Lent)
           \/ \* Recall
              /\ Lent /\ ~Lent' /\ (UserAs = "away" \/ TieAs = "lost")
              /\ UserAs' = UserAs /\ TieAs' = TieAs
           \/ \* nothing
              /\ UserAs' = UserAs /\ TieAs' = TieAs /\ (Lent' <=> Lent)
    PROVE  [ClientLease!Next]_(ClientLease!lease)
  BY DEF ClientLease!Next, ClientLease!lease, ClientLease!Ask, ClientLease!Use, ClientLease!Finish,
       ClientLease!Leave, ClientLease!Lose, ClientLease!Recall, UserAs, TieAs, Lent, Away, Ended

\* Every step of the session is one that Lease allows.
LEMMA SessionLeaseStep ==
    ASSUME TypeInv, LeaseInv, UnopenedInv, [SessionNext]_sessionVars
    PROVE  [ClientLease!Next]_(ClientLease!lease)
<1>0. /\ link # "none" => link' # "none"
      /\ link = "none" => link' = "none" \/ client = "connect_builder"
      /\ client \in {"connect_queue", "get_builder", "connect_builder", "close_queue"}
                     \cup InSession \cup Ended
      /\ queue \in {"none", "open", "lost", "silent", "closed"}
  BY UnopenedStep, TypeParts DEF ProgramsOK
<1> USE DEF UserAs, TieAs, Lent, Away, Ended, LeaseInv, TieLost, clientVars, builderVars
\* Steps that stay within the use of the machine change nothing that Lease sees.
<1>a. ASSUME UNCHANGED <<queue, builder>>,
             client \in (InSession \cup {"connect_builder"}) \ {"close_builder"},
             client' \in InSession \cup {"close_queue"}
      PROVE  [ClientLease!Next]_(ClientLease!lease)
  BY <1>0, <1>a, ClientLeaseStep DEF InSession, ClientReads, ClientWrites
<1>1. CASE ClientStep
  <2>1. CASE ConnectQueue
    BY <1>0, <2>1, ClientLeaseStep DEF ConnectQueue
  <2>2. CASE get_builder
    BY <1>0, <2>2, ClientLeaseStep DEF get_builder
  <2>3. CASE ClientError
    <3>1. UNCHANGED <<queue, builder, link>> /\ client' = "close_builder"
          /\ (client \in (InSession \cup {"connect_builder"}) \ {"close_builder"} \/ client = "get_builder")
      BY <2>3 DEF ClientError, Fail, stream, InSession, ClientReads, ClientWrites
    <3>2. CASE client = "get_builder"
      BY <1>0, <3>1, <3>2, ClientLeaseStep DEF UnopenedInv
    <3> QED BY <1>a, <3>1, <3>2 DEF InSession
  <2>4. CASE CloseBuilder
    <3>1. /\ UNCHANGED <<queue, builder>> /\ client = "close_builder"
          /\ client' \in {"draining", "close_queue"}
          /\ link = "none" => client' = "close_queue"
      BY <2>4 DEF CloseBuilder, ClientCloses, stream, Reset
    <3> QED BY <1>0, <3>1, ClientLeaseStep
  <2>5. CASE CloseQueue
    BY <1>0, <2>5, ClientLeaseStep DEF CloseQueue
  <2>6. CASE \/ write_client_data \/ PrepareContext \/ WriteContext \/ WriteContextChecksum
             \/ stream_build \/ StreamFails \/ ReadExitCode \/ OpenImage \/ ReadImage
             \/ VerifyImage \/ Drain
    <3>1. /\ UNCHANGED <<queue, builder>>
          /\ client \in InSession \ {"close_builder"} /\ client' \in InSession \cup {"close_queue"}
      BY <2>6 DEF write_client_data, PrepareContext, WriteContext, WriteContextChecksum, stream_build,
           StreamFails, ReadExitCode, OpenImage, ReadImage, VerifyImage, Drain, Fail, InSession,
           ClientReads, ClientWrites
    <3> QED BY <1>a, <3>1
  <2> QED BY <1>1, <2>1, <2>2, <2>3, <2>4, <2>5, <2>6 DEF ClientStep
<1>2. CASE BuilderStep
  <2>1. /\ UNCHANGED <<client, queue>>
        /\ builder # "destroyed" /\ builder' # "destroyed"
    BY <1>2 DEF BuilderStep, Boot, read_client_data, ReadContext, VerifyContext, StartBuild,
         StreamOutput, Flood, BuildEnds, WriteExitCode, WriteImage, WriteImageChecksum, Leave,
         BuilderError, BuilderReads, BuilderWrites
  <2> QED BY <1>0, <2>1, ClientLeaseStep
<1>3. CASE ConnectBuilder
  BY <1>0, <1>3, ClientLeaseStep DEF ConnectBuilder
<1>4. CASE ClientLocalFailure
  <2>1. /\ UNCHANGED <<queue, builder, link>> /\ client' = "close_builder"
        /\ client \in {"connect_queue", "prepare", "write_context", "open_image",
                       "read_image"}
    BY <1>4 DEF ClientLocalFailure, Fail, stream
  <2> QED BY <1>0, <2>1, ClientLeaseStep
<1>5. CASE ClientKilled \/ ClientDies
  <2>1. /\ client \notin Ended /\ client' \in Ended /\ builder' = builder
        /\ queue' = queue \/ (queue = "open" /\ queue' = "closed")
    BY <1>5 DEF ClientKilled, ClientDies
  <2> QED BY <1>0, <2>1, ClientLeaseStep
<1>6. CASE QueueLost
  BY <1>0, <1>6, ClientLeaseStep DEF QueueLost, stream
<1>7. CASE BuilderLocalFailure \/ PipeBreaks \/ Corrupt \/ CutLink \/ TcpGivesUp
  <2>1. UNCHANGED <<client, queue>> /\ (builder = "destroyed" <=> builder' = "destroyed")
    BY <1>7 DEF BuilderLocalFailure, PipeBreaks, Corrupt, CutLink, TcpGivesUp
  <2> QED BY <1>0, <2>1, ClientLeaseStep
<1>8. CASE ProbesFail
  BY <1>0, <1>8, ClientLeaseStep DEF ProbesFail, stream
<1>9. CASE DestroyBuilder \/ DestroyBuilderLost
  <2>1. /\ UNCHANGED <<client, queue>> /\ builder # "destroyed" /\ builder' = "destroyed"
        /\ queue \in {"closed", "lost", "silent"} /\ (link = "none" => link' = "none")
    BY <1>9 DEF DestroyBuilder, DestroyBuilderLost, TieLost, Vanish, BuilderVanishes
  <2> QED BY <1>0, <2>1, ClientLeaseStep
<1>10. CASE UNCHANGED sessionVars
  BY <1>10, ClientLeaseStep DEF sessionVars, stream
<1> QED BY <1>1, <1>2, <1>3, <1>4, <1>5, <1>6, <1>7, <1>8, <1>9, <1>10 DEF SessionNext, Failures

\* The session is one client's part in Lease, whatever fails.
THEOREM SessionLease == SessionSpec => LeaseSpec
<1>1. SessionInit => TypeInv /\ LeaseInv /\ UnopenedInv /\ ClientLease!Init
  BY TypeInit DEF SessionInit, LeaseInv, Ended, UnopenedInv, ClientLease!Init, Away
<1>2. TypeInv /\ LeaseInv /\ UnopenedInv /\ [SessionNext]_sessionVars =>
        TypeInv' /\ LeaseInv' /\ UnopenedInv' /\ [ClientLease!Next]_(ClientLease!lease)
  BY TypeStep, LeaseStep, UnopenedStep, SessionLeaseStep
<1> QED BY <1>1, <1>2, PTL DEF SessionSpec, LeaseSpec, ClientLease!Spec
=============================================================================
