-------------------------- MODULE SessionEndProofs --------------------------
(***************************************************************************)
(* A build ends, for files, buffers and numbers of failures of every size: *)
(* every step of the session leaves fewer steps to be taken, but for those *)
(* of a builder that floods.  Two things make this hard to see: a write    *)
(* adds a frame that is still to be read, and the two programs are         *)
(* cut off from each other, or leave, wherever they happen to be.          *)
(***************************************************************************)
EXTENDS DeliveryProofs

-----------------------------------------------------------------------------
(***************************************************************************)
(* What is left to be done.                                                *)
(***************************************************************************)
\* The calls that a program still has before it.
ClientRank ==
    CASE client = "connect_queue"   -> 16
      [] client = "get_builder"     -> 15
      [] client = "connect_builder" -> 14
      [] client = "write_data"      -> 13
      [] client = "prepare"         -> 12
      [] client = "write_context"   -> 11
      [] client = "write_checksum"  -> 10
      [] client = "stream_build"    -> 9
      [] client = "read_exit_code"  -> 8
      [] client = "open_image"      -> 7
      [] client = "read_image"      -> 6
      [] client = "read_checksum"   -> 5
      [] client = "close_builder"   -> 4
      [] client = "draining"        -> 3
      [] client = "close_queue"     -> 2
      [] OTHER                      -> 0

BuilderRank ==
    CASE builder = "booting"         -> 13
      [] builder = "listening"       -> 12
      [] builder = "read_data"       -> 11
      [] builder = "read_context"    -> 10
      [] builder = "read_checksum"   -> 9
      [] builder = "untar"           -> 8
      [] builder = "building"        -> 7
      [] builder = "flooding"        -> 6
      [] builder = "write_exit_code" -> 5
      [] builder = "write_image"     -> 4
      [] builder = "write_checksum"  -> 3
      [] builder = "leaving"         -> 2
      [] builder = "exited"          -> 1
      [] OTHER                       -> 0

LinkRank == CASE link = "up"                        -> 3
              [] link = "closing"                   -> 2
              [] link \notin {"up", "closing", "none", "cut"} -> 1
              [] OTHER                              -> 0

ClientLeft  == ClientRank + (ContextChunks - c_sent)
BuilderLeft == BuilderRank + (ImageChunks - b_sent) + (MaxOutput - output)
StreamLeft  == Len(up) + Len(down) + LinkRank
OtherLeft   == (IF queue = "open" THEN 1 ELSE 0) + (MaxFaults - faults)

\* A step of a program counts twice: it may add a frame that is then to be read.
StepsLeft == 2 * (ClientLeft + BuilderLeft) + StreamLeft + OtherLeft

\* None of these numbers is ever negative.
CountsOK ==
    /\ ClientRank \in Nat /\ BuilderRank \in Nat /\ LinkRank \in Nat
    /\ Len(up) \in Nat /\ Len(down) \in Nat
    /\ ClientLeft \in Nat /\ BuilderLeft \in Nat /\ StreamLeft \in Nat /\ OtherLeft \in Nat
    /\ StepsLeft \in Nat

LEMMA CountsType == TypeInv => CountsOK
<1> SUFFICES ASSUME TypeInv PROVE CountsOK
  OBVIOUS
<1>1. /\ c_sent \in 0..ContextChunks /\ b_sent \in 0..ImageChunks
      /\ output \in 0..MaxOutput /\ faults \in 0..MaxFaults
      /\ up \in Seq(Frames) /\ down \in Seq(Frames)
  BY TypeParts DEF StreamOK, ProgramsOK
<1>2. Len(up) \in Nat /\ Len(down) \in Nat
  BY <1>1, LenProperties
<1>3. ClientRank \in Nat
  BY DEF ClientRank
<1>4. BuilderRank \in Nat
  BY DEF BuilderRank
<1>5. LinkRank \in Nat
  BY DEF LinkRank
<1>6. ClientLeft \in Nat
  BY <1>1, <1>3, SessionAssumption DEF ClientLeft
<1>7. BuilderLeft \in Nat
  BY <1>1, <1>4, SessionAssumption DEF BuilderLeft
<1>8. StreamLeft \in Nat
  BY <1>2, <1>5 DEF StreamLeft
<1>9. OtherLeft \in Nat
  BY <1>1, SessionAssumption DEF OtherLeft
<1>10. StepsLeft \in Nat
  BY <1>6, <1>7, <1>8, <1>9 DEF StepsLeft
<1> QED BY <1>2, <1>3, <1>4, <1>5, <1>6, <1>7, <1>8, <1>9, <1>10 DEF CountsOK

LEMMA CountsNext == TypeInv' => CountsOK'
BY CountsType, PTL

-----------------------------------------------------------------------------
(***************************************************************************)
(* The stream.                                                             *)
(***************************************************************************)
\* A connection that is reset has nothing left.
LEMMA ResetLeft ==
    ASSUME TypeInv, TypeInv', Reset
    PROVE  /\ StreamLeft' = 0
           /\ link # "none" /\ link # "cut" => StreamLeft' < StreamLeft
<1>1. /\ up' = <<>> /\ down' = <<>> /\ LinkRank' = 0
      /\ link # "none" /\ link # "cut" => LinkRank > 0
  BY DEF Reset, LinkRank
<1>2. Len(up') = 0 /\ Len(down') = 0
  BY <1>1
<1> QED BY <1>1, <1>2, CountsType DEF CountsOK, StreamLeft

LEMMA SendLeft ==
    ASSUME TypeInv, TypeInv', NEW frame, ClientSends(frame) \/ BuilderSends(frame)
    PROVE  StreamLeft' = StreamLeft + 1 \/ StreamLeft' < StreamLeft
<1>1. CASE Reset /\ link \in {"ended", "left"}
  BY <1>1, ResetLeft
<1>2. CASE UNCHANGED link /\ \/ up' = Append(up, frame) /\ UNCHANGED down
                             \/ down' = Append(down, frame) /\ UNCHANGED up
  <2>1. up \in Seq(Frames) /\ down \in Seq(Frames)
    BY TypeParts DEF StreamOK
  <2>2. up' = Append(up, frame) => Len(up') = Len(up) + 1
    BY <2>1
  <2>3. down' = Append(down, frame) => Len(down') = Len(down) + 1
    BY <2>1
  <2>4. LinkRank' = LinkRank
    BY <1>2 DEF LinkRank
  <2>5. CASE up' = Append(up, frame) /\ UNCHANGED down
    BY <2>2, <2>4, <2>5, CountsType DEF CountsOK, StreamLeft
  <2>6. CASE down' = Append(down, frame) /\ UNCHANGED up
    BY <2>3, <2>4, <2>6, CountsType DEF CountsOK, StreamLeft
  <2> QED BY <1>2, <2>5, <2>6
<1> QED BY <1>1, <1>2 DEF ClientSends, BuilderSends

LEMMA ReceiveLeft ==
    ASSUME TypeInv, TypeInv', ClientReceives \/ BuilderReceives
    PROVE  StreamLeft' < StreamLeft
<1>1. ASSUME NEW s \in Seq(Frames), s # <<>> PROVE Len(Tail(s)) = Len(s) - 1
  BY <1>1, HeadTailProperties
<1>2. /\ up \in Seq(Frames) /\ down \in Seq(Frames)
  BY TypeParts DEF StreamOK
<1>3. LinkRank' = LinkRank
  BY DEF ClientReceives, BuilderReceives, LinkRank
<1>4. CASE ClientReceives
  <2>1. Len(down') = Len(down) - 1 /\ Len(up') = Len(up)
    BY <1>1, <1>2, <1>4 DEF ClientReceives
  <2> QED BY <1>3, <2>1, CountsType DEF CountsOK, StreamLeft
<1>5. CASE BuilderReceives
  <2>1. Len(up') = Len(up) - 1 /\ Len(down') = Len(down)
    BY <1>1, <1>2, <1>5 DEF BuilderReceives
  <2> QED BY <1>3, <2>1, CountsType DEF CountsOK, StreamLeft
<1> QED BY <1>4, <1>5

\* Whatever else happens to the connection, nothing is added to it.
LEMMA EndsLeft ==
    ASSUME TypeInv, TypeInv',
           \/ ClientLeaves \/ BuilderLeaves \/ ClientCloses
           \/ ClientVanishes \/ BuilderVanishes \/ GivesUp \/ Cut \/ UNCHANGED stream
    PROVE  /\ StreamLeft' <= StreamLeft
           /\ GivesUp => StreamLeft' < StreamLeft
<1>0. /\ StreamLeft \in Nat /\ StreamLeft' \in Nat /\ Len(up) \in Nat /\ Len(down) \in Nat
      /\ Len(up') \in Nat /\ Len(down') \in Nat /\ LinkRank \in Nat /\ LinkRank' \in Nat
      /\ Len(<<>>) = 0
  BY CountsType, CountsNext DEF CountsOK
<1>1. CASE Reset
  <2>1. GivesUp => link # "none" /\ link # "cut"
    BY DEF GivesUp
  <2> QED BY <1>0, <1>1, <2>1, ResetLeft
<1>2. CASE ~Reset
  <2>1. ~GivesUp
    BY <1>2 DEF GivesUp
  <2>2. LinkRank' <= LinkRank
    BY <1>2 DEF ClientLeaves, BuilderLeaves, ClientCloses, ClientVanishes, BuilderVanishes, GivesUp,
         Cut, stream, LinkRank
  <2>3. up' \in {up, <<>>} /\ down' \in {down, <<>>}
    BY <1>2 DEF ClientLeaves, BuilderLeaves, ClientCloses, ClientVanishes, BuilderVanishes, GivesUp,
         Cut, stream
  <2>4. Len(up') <= Len(up) /\ Len(down') <= Len(down)
    BY <1>0, <2>3
  <2> QED BY <1>0, <2>1, <2>2, <2>4 DEF StreamLeft
<1> QED BY <1>1, <1>2

-----------------------------------------------------------------------------
(***************************************************************************)
(* The steps.                                                              *)
(***************************************************************************)

LEMMA FewerOf ==
    ASSUME NEW c \in Nat, NEW b \in Nat, NEW s \in Nat, NEW o \in Nat,
           NEW c2 \in Nat, NEW b2 \in Nat, NEW s2 \in Nat, NEW o2 \in Nat,
           c2 <= c, b2 <= b,
           \/ (c2 < c \/ b2 < b) /\ s2 <= s + 1 /\ o2 <= o
           \/ c2 < c /\ s2 <= s /\ o2 <= o + 1
           \/ c2 < c /\ b2 < b /\ s2 <= s + 3 /\ o2 <= o
           \/ s2 < s /\ o2 <= o
           \/ s2 <= s /\ o2 < o
    PROVE  2 * (c2 + b2) + s2 + o2 < 2 * (c + b) + s + o
OBVIOUS

\* How the parts of the count add up: a program takes a step, and may write a
\* frame; the client finds the queue; the programs are connected; a frame is read;
\* something fails.
LEMMA FewerSteps ==
    ASSUME CountsOK, CountsOK',
           ClientLeft' <= ClientLeft, BuilderLeft' <= BuilderLeft,
           \/ /\ ClientLeft' < ClientLeft \/ BuilderLeft' < BuilderLeft
              /\ StreamLeft' <= StreamLeft + 1 /\ OtherLeft' <= OtherLeft
           \/ /\ ClientLeft' < ClientLeft
              /\ StreamLeft' <= StreamLeft /\ OtherLeft' <= OtherLeft + 1
           \/ /\ ClientLeft' < ClientLeft /\ BuilderLeft' < BuilderLeft
              /\ StreamLeft' <= StreamLeft + 3 /\ OtherLeft' <= OtherLeft
           \/ StreamLeft' < StreamLeft /\ OtherLeft' <= OtherLeft
           \/ StreamLeft' <= StreamLeft /\ OtherLeft' < OtherLeft
    PROVE  StepsLeft' < StepsLeft
<1>1. /\ ClientLeft \in Nat /\ BuilderLeft \in Nat /\ StreamLeft \in Nat /\ OtherLeft \in Nat
      /\ ClientLeft' \in Nat /\ BuilderLeft' \in Nat /\ StreamLeft' \in Nat /\ OtherLeft' \in Nat
  BY DEF CountsOK
<1>2. /\ StepsLeft = 2 * (ClientLeft + BuilderLeft) + StreamLeft + OtherLeft
      /\ StepsLeft' = 2 * (ClientLeft' + BuilderLeft') + StreamLeft' + OtherLeft'
  BY DEF StepsLeft
<1> QED BY <1>1, <1>2, FewerOf

\* What is left for a program or a fault does not change with what they are made of.
LEMMA LeftUnchanged ==
    /\ UNCHANGED <<client, c_sent>> => UNCHANGED ClientLeft
    /\ UNCHANGED <<builder, b_sent, output>> => UNCHANGED BuilderLeft
    /\ UNCHANGED <<queue, faults>> => UNCHANGED OtherLeft
BY DEF ClientLeft, ClientRank, BuilderLeft, BuilderRank, OtherLeft

\* Nothing but a step of its program changes what is left for it.
LEMMA RankLower ==
    ASSUME TypeInv, TypeInv'
    PROVE  /\ ClientRank' < ClientRank /\ UNCHANGED c_sent => ClientLeft' < ClientLeft
           /\ ClientRank' <= ClientRank /\ UNCHANGED c_sent => ClientLeft' <= ClientLeft
           /\ ClientRank' <= ClientRank /\ c_sent' = c_sent + 1 => ClientLeft' < ClientLeft
           /\ BuilderRank' < BuilderRank /\ UNCHANGED <<b_sent, output>> =>
                BuilderLeft' < BuilderLeft
           /\ BuilderRank' <= BuilderRank /\ UNCHANGED <<b_sent, output>> =>
                BuilderLeft' <= BuilderLeft
           /\ BuilderRank' <= BuilderRank /\ b_sent' = b_sent + 1 /\ output' = output =>
                BuilderLeft' < BuilderLeft
           /\ BuilderRank' <= BuilderRank /\ b_sent' = b_sent /\ output' = output + 1 =>
                BuilderLeft' < BuilderLeft
           /\ faults' = faults + 1 /\ (queue' = "open" => queue = "open") => OtherLeft' < OtherLeft
           /\ UNCHANGED faults /\ queue = "open" /\ queue' # "open" => OtherLeft' < OtherLeft
           /\ UNCHANGED faults /\ (queue' = "open" => queue = "open") => OtherLeft' <= OtherLeft
<1>1. /\ c_sent \in Nat /\ b_sent \in Nat /\ output \in Nat /\ faults \in Nat
      /\ ContextChunks \in Nat /\ ImageChunks \in Nat /\ MaxOutput \in Nat /\ MaxFaults \in Nat
      /\ ClientRank \in Nat /\ BuilderRank \in Nat /\ ClientRank' \in Nat /\ BuilderRank' \in Nat
  BY TypeParts, SessionAssumption, CountsType, CountsNext DEF ProgramsOK, CountsOK
<1> QED BY <1>1 DEF ClientLeft, BuilderLeft, OtherLeft

LEMMA ClientStepLeft ==
    ASSUME TypeInv, TypeInv', ClientStep
    PROVE  StepsLeft' < StepsLeft
<1>0. /\ CountsOK /\ CountsOK'
      /\ StreamLeft \in Nat /\ StreamLeft' \in Nat /\ OtherLeft \in Nat /\ OtherLeft' \in Nat
      /\ ClientLeft \in Nat /\ ClientLeft' \in Nat /\ BuilderLeft \in Nat
  BY CountsType, CountsNext DEF CountsOK
<1>b. UNCHANGED BuilderLeft
  <2>1. UNCHANGED builderVars
    BY DEF ClientStep, ConnectQueue, get_builder, write_client_data, PrepareContext, WriteContext,
         WriteContextChecksum, stream_build, StreamFails, ReadExitCode, OpenImage, ReadImage, VerifyImage,
         ClientError, CloseBuilder, Drain, CloseQueue
  <2> QED BY <2>1, LeftUnchanged DEF builderVars
\* A call that is done, with at most one frame written.
<1>1. ASSUME ClientLeft' < ClientLeft, StreamLeft' <= StreamLeft + 1, OtherLeft' <= OtherLeft
      PROVE  StepsLeft' < StepsLeft
  BY <1>0, <1>b, <1>1, FewerSteps
\* A call that goes on, or is done, with a frame read.
<1>2. ASSUME ClientLeft' <= ClientLeft, StreamLeft' < StreamLeft, OtherLeft' = OtherLeft
      PROVE  StepsLeft' < StepsLeft
  BY <1>0, <1>b, <1>2, FewerSteps
<1>3. CASE ConnectQueue
  <2>1. ClientRank = 16 /\ ClientRank' = 15 /\ UNCHANGED <<c_sent, stream, faults>>
    BY <1>3 DEF ConnectQueue, ClientRank
  <2>2. ClientLeft' < ClientLeft
    BY <2>1, RankLower
  <2>3. StreamLeft' <= StreamLeft
    BY <2>1, EndsLeft
  <2>4. OtherLeft' <= OtherLeft + 1
    <3>1. faults \in Nat /\ MaxFaults \in Nat
      BY TypeParts, SessionAssumption DEF ProgramsOK
    <3> QED BY <2>1, <3>1 DEF OtherLeft
  <2> QED BY <1>0, <1>b, <2>2, <2>3, <2>4, FewerSteps
<1>4. CASE get_builder \/ PrepareContext \/ StreamFails \/ OpenImage \/ ClientError
  <2>1. UNCHANGED <<c_sent, stream, queue, faults>> /\ ClientRank' < ClientRank
    BY <1>4 DEF get_builder, PrepareContext, StreamFails, OpenImage, ClientError, Fail, ClientReads,
         ClientWrites, ClientRank
  <2> QED BY <1>0, <1>1, <2>1, RankLower, EndsLeft, LeftUnchanged
<1>5. CASE write_client_data \/ WriteContextChecksum
  <2>1. \E frame : ClientSends(frame)
    BY <1>5 DEF write_client_data, WriteContextChecksum
  <2>2. /\ UNCHANGED <<c_sent, queue, faults>>
        /\ \/ client = "write_data" /\ client' = "prepare"
           \/ client = "write_checksum" /\ client' = "stream_build"
    BY <1>5 DEF write_client_data, WriteContextChecksum
  <2>3. ClientRank' < ClientRank
    BY <2>2 DEF ClientRank
  <2>4. StreamLeft' <= StreamLeft + 1
    BY <1>0, <2>1, SendLeft
  <2> QED BY <1>0, <1>1, <2>2, <2>3, <2>4, RankLower, LeftUnchanged
<1>6. CASE WriteContext
  <2>1. StreamLeft' <= StreamLeft + 1
    BY <1>0, <1>6, SendLeft DEF WriteContext
  <2>2. UNCHANGED <<queue, faults>> /\ c_sent' = c_sent + 1 /\ ClientRank' <= ClientRank
    BY <1>6 DEF WriteContext, ClientRank
  <2> QED BY <1>0, <1>1, <2>1, <2>2, RankLower, LeftUnchanged
<1>7. CASE stream_build \/ ReadExitCode \/ ReadImage \/ VerifyImage
  <2>1. UNCHANGED <<c_sent, queue, faults>> /\ ClientRank' <= ClientRank /\ ClientReceives
    BY <1>7 DEF stream_build, ReadExitCode, ReadImage, VerifyImage, Fail, ClientRank
  <2> QED BY <1>2, <2>1, RankLower, LeftUnchanged, ReceiveLeft
<1>8. CASE Drain
  <2>1. UNCHANGED <<c_sent, queue, faults>>
    BY <1>8 DEF Drain
  <2>2. CASE ClientReceives /\ UNCHANGED client
    <3>1. UNCHANGED ClientLeft
      BY <2>1, <2>2, LeftUnchanged
    <3> QED BY <1>0, <1>2, <2>1, <2>2, <3>1, LeftUnchanged, ReceiveLeft
  <2>3. CASE client = "draining" /\ client' = "close_queue" /\ UNCHANGED stream
    <3>1. ClientRank' < ClientRank
      BY <2>3 DEF ClientRank
    <3> QED BY <1>0, <1>1, <2>1, <2>3, <3>1, RankLower, EndsLeft, LeftUnchanged
  <2> QED BY <1>8, <2>2, <2>3 DEF Drain
<1>9. CASE CloseBuilder \/ CloseQueue
  <2>1. /\ UNCHANGED <<c_sent, faults>> /\ (queue' = "open" => queue = "open")
        /\ ClientRank' < ClientRank
    BY <1>9 DEF CloseBuilder, CloseQueue, ClientRank
  <2>2. StreamLeft' <= StreamLeft
    BY <1>9, EndsLeft DEF CloseBuilder, CloseQueue
  <2> QED BY <1>0, <1>1, <2>1, <2>2, RankLower
<1> QED BY <1>3, <1>4, <1>5, <1>6, <1>7, <1>8, <1>9 DEF ClientStep

LEMMA BuilderStepLeft ==
    ASSUME TypeInv, TypeInv', BuilderStep
    PROVE  StepsLeft' < StepsLeft \/ (Flood /\ StepsLeft' = StepsLeft + 1)
<1>0. /\ CountsOK /\ CountsOK'
      /\ StreamLeft \in Nat /\ StreamLeft' \in Nat /\ OtherLeft \in Nat /\ OtherLeft' \in Nat
      /\ ClientLeft \in Nat /\ BuilderLeft \in Nat /\ BuilderLeft' \in Nat
  BY CountsType, CountsNext DEF CountsOK
<1>b. UNCHANGED <<ClientLeft, OtherLeft>>
  <2>1. UNCHANGED <<clientVars, faults>>
    BY DEF BuilderStep, Boot, read_client_data, ReadContext, VerifyContext, StartBuild, StreamOutput,
         Flood, BuildEnds, WriteExitCode, WriteImage, WriteImageChecksum, Leave, BuilderError
  <2> QED BY <2>1, LeftUnchanged DEF clientVars
<1>1. ASSUME BuilderLeft' < BuilderLeft, StreamLeft' <= StreamLeft + 1
      PROVE  StepsLeft' < StepsLeft
  BY <1>0, <1>b, <1>1, FewerSteps
<1>2. ASSUME BuilderLeft' <= BuilderLeft, StreamLeft' < StreamLeft
      PROVE  StepsLeft' < StepsLeft
  BY <1>0, <1>b, <1>2, FewerSteps
<1>3. CASE Boot \/ StartBuild \/ BuilderError \/ Leave
  <2>1. UNCHANGED <<b_sent, output>> /\ BuilderRank' < BuilderRank
    BY <1>3 DEF Boot, StartBuild, BuilderError, Leave, BuilderReads, BuilderWrites, BuilderRank
  <2>2. StreamLeft' <= StreamLeft
    BY <1>3, EndsLeft DEF Boot, StartBuild, BuilderError, Leave
  <2> QED BY <1>0, <1>1, <2>1, <2>2, RankLower
<1>4. CASE read_client_data \/ ReadContext \/ VerifyContext
  <2>1. UNCHANGED <<b_sent, output>> /\ BuilderRank' <= BuilderRank /\ BuilderReceives
    BY <1>4 DEF read_client_data, ReadContext, VerifyContext, BuilderRank
  <2> QED BY <1>2, <2>1, RankLower, ReceiveLeft
<1>5. CASE StreamOutput
  <2>1. b_sent' = b_sent /\ output' = output + 1 /\ BuilderRank' <= BuilderRank
    BY <1>5 DEF StreamOutput, BuilderRank
  <2>2. \E frame : BuilderSends(frame)
    BY <1>5 DEF StreamOutput
  <2>3. StreamLeft' <= StreamLeft + 1
    BY <1>0, <2>2, SendLeft
  <2> QED BY <1>1, <2>1, <2>3, RankLower
<1>6. CASE BuildEnds \/ WriteExitCode \/ WriteImageChecksum
  <2>1. /\ UNCHANGED <<b_sent, output>>
        /\ \/ builder = "building" /\ builder' = "write_exit_code"
           \/ builder = "write_exit_code" /\ builder' \in {"write_image", "leaving"}
           \/ builder = "write_checksum" /\ builder' = "leaving"
    BY <1>6 DEF BuildEnds, WriteExitCode, WriteImageChecksum
  <2>2. BuilderRank' < BuilderRank
    BY <2>1 DEF BuilderRank
  <2>3. \E frame : BuilderSends(frame)
    BY <1>6 DEF BuildEnds, WriteExitCode, WriteImageChecksum
  <2>4. StreamLeft' <= StreamLeft + 1
    BY <1>0, <2>3, SendLeft
  <2> QED BY <1>1, <2>1, <2>2, <2>4, RankLower
<1>7. CASE WriteImage
  <2>1. b_sent' = b_sent + 1 /\ output' = output /\ BuilderRank' <= BuilderRank
    BY <1>7 DEF WriteImage, BuilderRank
  <2>2. StreamLeft' <= StreamLeft + 1
    BY <1>0, <1>7, SendLeft DEF WriteImage
  <2> QED BY <1>1, <2>1, <2>2, RankLower
\* The flood is the only step that nothing pays for.
<1>8. CASE Flood
  <2>1. UNCHANGED BuilderLeft
    BY <1>8, LeftUnchanged DEF Flood
  <2>2. CASE StreamLeft' < StreamLeft
    BY <1>0, <1>2, <2>1, <2>2
  <2>3. CASE StreamLeft' = StreamLeft + 1
    <3>1. StepsLeft' = StepsLeft + 1
      BY <1>0, <1>b, <2>1, <2>3 DEF StepsLeft
    <3> QED BY <1>8, <3>1
  <2> QED BY <1>8, <2>2, <2>3, SendLeft DEF Flood
<1> QED BY <1>3, <1>4, <1>5, <1>6, <1>7, <1>8 DEF BuilderStep

\* Nothing fails for ever, and what fails leaves less to be done.
LEMMA FaultLeft ==
    ASSUME TypeInv, TypeInv', Failures
    PROVE  StepsLeft' < StepsLeft
<1>0. CountsOK /\ CountsOK'
  BY CountsType, CountsNext
<1>1. faults' = faults + 1 /\ (queue' = "open" => queue = "open")
  BY DEF Failures, Faulty, ClientLocalFailure, BuilderLocalFailure, PipeBreaks, Corrupt,
     CutLink, ClientKilled, ClientDies, QueueLost, clientVars
<1>2. OtherLeft' < OtherLeft
  BY <1>1, RankLower
<1>3. UNCHANGED <<c_sent, b_sent, output>>
  BY DEF Failures, ClientLocalFailure, BuilderLocalFailure, PipeBreaks, Corrupt,
     CutLink, ClientKilled, ClientDies, QueueLost, clientVars, builderVars
<1>4. ClientLeft' <= ClientLeft
  <2>1. \/ UNCHANGED client
        \/ client' = "close_builder" /\ client \in {"connect_queue", "connect_builder", "prepare",
                                                    "write_context", "open_image", "read_image"}
        \/ client' \in {"killed", "dead"}
    BY DEF Failures, ClientLocalFailure, BuilderLocalFailure, PipeBreaks, Corrupt,
       CutLink, ClientKilled, ClientDies, QueueLost, clientVars, Fail
  <2>2. ClientRank \in Nat /\ ClientRank' \in Nat
    BY <1>0 DEF CountsOK
  <2>3. ClientRank' <= ClientRank
    BY <2>1, <2>2 DEF ClientRank
  <2> QED BY <1>3, <2>3, RankLower
<1>5. BuilderLeft' <= BuilderLeft
  <2>1. \/ UNCHANGED builder
        \/ builder' = "leaving" /\ builder \in {"read_context", "untar", "write_image"}
        \/ builder' = "flooding" /\ builder = "building"
    BY DEF Failures, ClientLocalFailure, BuilderLocalFailure, PipeBreaks, Corrupt,
       CutLink, ClientKilled, ClientDies, QueueLost, builderVars
  <2>2. BuilderRank \in Nat /\ BuilderRank' \in Nat
    BY <1>0 DEF CountsOK
  <2>3. BuilderRank' <= BuilderRank
    BY <2>1, <2>2 DEF BuilderRank
  <2> QED BY <1>3, <2>3, RankLower
<1>6. StreamLeft' <= StreamLeft
  <2>1. CASE Corrupt
    <3>1. Len(up') = Len(up) /\ Len(down') = Len(down) /\ UNCHANGED link
      BY <2>1, TypeParts DEF Corrupt, StreamOK
    <3>2. UNCHANGED StreamLeft
      BY <3>1 DEF StreamLeft, LinkRank
    <3> QED BY <1>0, <3>2 DEF CountsOK
  <2>2. CASE ~Corrupt
    <3>1. ClientLeaves \/ ClientVanishes \/ Cut \/ UNCHANGED stream
      BY <2>2 DEF Failures, ClientLocalFailure, BuilderLocalFailure, PipeBreaks,
         CutLink, ClientKilled, ClientDies, QueueLost
    <3> QED BY <3>1, EndsLeft
  <2> QED BY <2>1, <2>2
<1> QED BY <1>0, <1>2, <1>4, <1>5, <1>6, FewerSteps

\* Every step but a flood leaves less to be done.
LEMMA SessionStepLeft ==
    ASSUME TypeInv, TypeInv', SessionNext
    PROVE  StepsLeft' < StepsLeft \/ (Flood /\ StepsLeft' = StepsLeft + 1)
<1>0. /\ CountsOK /\ CountsOK'
      /\ ClientLeft \in Nat /\ BuilderLeft \in Nat /\ OtherLeft \in Nat /\ StreamLeft \in Nat
  BY CountsType, CountsNext DEF CountsOK
<1>1. CASE ConnectBuilder
  <2>1. /\ client = "connect_builder" /\ client' = "write_data"
        /\ builder = "listening" /\ builder' = "read_data" /\ link' = "up"
        /\ UNCHANGED <<up, down, c_sent, b_sent, output, queue, faults>>
    BY <1>1 DEF ConnectBuilder
  <2>2. ClientRank' < ClientRank /\ BuilderRank' < BuilderRank
    BY <2>1 DEF ClientRank, BuilderRank
  <2>3. StreamLeft' <= StreamLeft + 3
    <3>1. LinkRank \in Nat /\ Len(up) \in Nat /\ Len(down) \in Nat
      BY <1>0 DEF CountsOK
    <3>2. StreamLeft = Len(up) + Len(down) + LinkRank /\ StreamLeft' = Len(up) + Len(down) + 3
      BY <2>1 DEF StreamLeft, LinkRank
    <3> QED BY <3>1, <3>2
  <2>4. OtherLeft' <= OtherLeft
    BY <1>0, <2>1, LeftUnchanged
  <2>5. ClientLeft' < ClientLeft /\ BuilderLeft' < BuilderLeft
    BY <2>1, <2>2, RankLower
  <2>6. ClientLeft' <= ClientLeft /\ BuilderLeft' <= BuilderLeft
    BY <1>0, <2>5 DEF CountsOK
  <2> QED BY <1>0, <2>3, <2>4, <2>5, <2>6, FewerSteps
<1>2. CASE ProbesFail
  <2>1. UNCHANGED <<stream, client, c_sent, builderVars, faults>> /\ queue = "open" /\ queue' = "closed"
    BY <1>2 DEF ProbesFail
  <2>2. UNCHANGED <<ClientLeft, BuilderLeft>> /\ StreamLeft' <= StreamLeft
    BY <2>1, LeftUnchanged, EndsLeft DEF builderVars
  <2>3. OtherLeft' < OtherLeft
    BY <2>1, RankLower
  <2> QED BY <1>0, <2>2, <2>3, FewerSteps
<1>3. CASE DestroyBuilder \/ DestroyBuilderLost
  <2>1. /\ builder # "destroyed" /\ builder' = "destroyed" /\ BuilderVanishes
        /\ UNCHANGED <<clientVars, b_sent, output, faults>>
    BY <1>3 DEF DestroyBuilder, DestroyBuilderLost, TieLost, Vanish
  <2>2. UNCHANGED <<ClientLeft, OtherLeft>> /\ StreamLeft' <= StreamLeft
    BY <2>1, LeftUnchanged, EndsLeft DEF clientVars
  <2>3. BuilderRank' < BuilderRank
    BY <2>1, TypeParts DEF ProgramsOK, BuilderReads, BuilderWrites, BuilderRank
  <2>4. BuilderLeft' < BuilderLeft
    BY <2>1, <2>3, RankLower
  <2>5. ClientLeft' <= ClientLeft /\ OtherLeft' <= OtherLeft /\ StreamLeft' <= StreamLeft + 1
        /\ BuilderLeft' <= BuilderLeft
    BY <1>0, <2>2, <2>4 DEF CountsOK
  <2> QED BY <1>0, <2>4, <2>5, FewerSteps
<1>4. CASE TcpGivesUp
  <2>1. UNCHANGED <<ClientLeft, BuilderLeft, OtherLeft>>
    BY <1>4, LeftUnchanged DEF TcpGivesUp, clientVars, builderVars
  <2>2. StreamLeft' < StreamLeft
    BY <1>4, EndsLeft DEF TcpGivesUp
  <2> QED BY <1>0, <2>1, <2>2, FewerSteps
<1> QED BY <1>1, <1>2, <1>3, <1>4, ClientStepLeft, BuilderStepLeft, FaultLeft DEF SessionNext

-----------------------------------------------------------------------------
\* A session has an end, in the largest files and after any number of failures:
\* every step that either program, the queue, the network or the system below them
\* takes leaves fewer steps to be taken, and no session has more than it starts
\* with.  The one exception is a builder whose pipe is broken, which sends empty
\* frames for as long as they are read (stream_output, Builder main.cpp).
THEOREM SessionsEnd ==
    SessionSpec => /\ [](StepsLeft \in Nat)
                   /\ [][StepsLeft' < StepsLeft \/ (Flood /\ StepsLeft' = StepsLeft + 1)]_sessionVars
<1>1. TypeInv => StepsLeft \in Nat
  BY CountsType DEF CountsOK
<1>2. TypeInv /\ [SessionNext]_sessionVars =>
        [StepsLeft' < StepsLeft \/ (Flood /\ StepsLeft' = StepsLeft + 1)]_sessionVars
  <2> SUFFICES ASSUME TypeInv, [SessionNext]_sessionVars
               PROVE  [StepsLeft' < StepsLeft \/ (Flood /\ StepsLeft' = StepsLeft + 1)]_sessionVars
    OBVIOUS
  <2>1. TypeInv'
    BY TypeStep
  <2>2. CASE SessionNext
    BY <2>1, <2>2, SessionStepLeft
  <2> QED BY <2>2
<1>3. TypeInv /\ [SessionNext]_sessionVars => TypeInv'
  BY TypeStep
<1> QED BY <1>1, <1>2, <1>3, TypeInit, PTL DEF SessionSpec

-----------------------------------------------------------------------------
(***************************************************************************)
(* Where a session comes to rest.  The guards of the steps that the        *)
(* fairness of SessionLiveSpec is about, in terms of the state alone.      *)
(***************************************************************************)
ClientCan ==
    \/ client \in {"connect_queue", "prepare", "open_image", "close_builder", "close_queue"}
    \/ client = "get_builder" /\ queue \in {"open", "lost"}
    \/ client = "connect_builder" /\ builder \in {"booting", "destroyed"}
    \/ client \in ClientWrites /\ ~(link \in {"up", "lost_builder"} /\ Len(up) = Capacity)
    \/ client \in ClientReads /\ down # <<>>
    \/ client \in ClientReads /\ ClientReadFails /\ ~(client = "stream_build" /\ begun)

BuilderCan ==
    \/ builder \in {"booting", "untar", "leaving"}
    \/ builder \in BuilderReads /\ (up # <<>> \/ BuilderReadFails)
    \/ builder \in BuilderWrites /\ ~(link \in {"up", "closing", "lost_client"} /\ Len(down) = Capacity)

ConnectCan == client = "connect_builder" /\ builder = "listening"

QueueCan == \/ client = "dead" /\ queue = "open"
            \/ queue = "closed" /\ builder # "destroyed"

TcpCan == \/ link = "lost_client"  /\ down # <<>>
          \/ link = "lost_builder" /\ up # <<>>

AtRest == ~(ClientCan \/ BuilderCan \/ ConnectCan \/ QueueCan \/ TcpCan)

\* A program is at work from the connection on, and the client has the queue until
\* it lets go of it.
AtWork == BuilderReads \cup BuilderWrites \cup {"untar", "leaving"}

TiesInv ==
    /\ client \in {"get_builder", "connect_builder"} => queue = "open" \/ TieLost
    /\ client \in {"done", "killed"} => queue # "open"
    /\ queue = "none" => link = "none"
    /\ link = "none" => builder \in {"booting", "listening", "destroyed"}
    /\ link \in {"up", "closing"} => builder \in AtWork /\ client \notin Ended
    /\ link = "left" => client \in Ended
    /\ link = "lost_client" => client = "dead"
    /\ client = "draining" => link # "none"

RestInv == DeliveryInv /\ LeaseInv /\ TiesInv

LEMMA TiesStep ==
    ASSUME RestInv, SessionNext
    PROVE  TiesInv'
<1>0. /\ TiesInv /\ LeaseInv /\ LinkInv
      /\ client \in {"connect_queue", "get_builder", "connect_builder"} => link = "none"
      /\ client \in ClientReads \cup ClientWrites \cup {"prepare", "open_image"} => client \in Talking \cup {"draining"}
  BY DEF RestInv, DeliveryInv, LinkInv, Talking, Writing, Reading, ClientReads, ClientWrites
<1> USE DEF TiesInv, TieLost, LeaseInv, AtWork, Ended, BuilderReads, BuilderWrites, stream, clientVars, builderVars
<1>1. CASE ClientStep
  <2>1. CASE ConnectQueue \/ get_builder \/ PrepareContext \/ StreamFails \/ OpenImage
    BY <1>0, <2>1 DEF ConnectQueue, get_builder, PrepareContext, StreamFails, OpenImage
  <2>2. CASE ClientError
    BY <1>0, <2>2 DEF ClientError, Fail, ClientReads, ClientWrites
  <2>3. CASE write_client_data \/ WriteContext \/ WriteContextChecksum
    BY <1>0, <2>3 DEF write_client_data, WriteContext, WriteContextChecksum, ClientSends, Reset
  <2>4. CASE stream_build \/ ReadExitCode \/ ReadImage \/ VerifyImage
    BY <1>0, <2>4 DEF stream_build, ReadExitCode, ReadImage, VerifyImage, ClientReceives, Fail
  <2>5. CASE Drain
    BY <1>0, <2>5 DEF Drain, ClientReceives
  <2>6. CASE CloseBuilder
    BY <1>0, <2>6 DEF CloseBuilder, ClientCloses, Reset
  <2>7. CASE CloseQueue
    BY <1>0, <2>7 DEF CloseQueue, ClientLeaves, Reset
  <2> QED BY <1>1, <2>1, <2>2, <2>3, <2>4, <2>5, <2>6, <2>7 DEF ClientStep
<1>2. CASE BuilderStep
  <2>1. CASE Boot \/ StartBuild \/ BuilderError
    BY <1>0, <2>1 DEF Boot, StartBuild, BuilderError
  <2>2. CASE read_client_data \/ ReadContext \/ VerifyContext
    BY <1>0, <2>2 DEF read_client_data, ReadContext, VerifyContext, BuilderReceives
  <2>3. CASE StreamOutput \/ Flood \/ BuildEnds \/ WriteExitCode \/ WriteImage \/ WriteImageChecksum
    <3>1. /\ UNCHANGED clientVars /\ builder \in BuilderWrites /\ builder' \in AtWork
          /\ UNCHANGED link \/ link' = "cut"
      BY <2>3 DEF StreamOutput, Flood, BuildEnds, WriteExitCode, WriteImage, WriteImageChecksum,
         BuilderSends, Reset
    <3> QED BY <1>0, <3>1
  <2>4. CASE Leave
    BY <1>0, <2>4 DEF Leave, BuilderLeaves, Reset
  <2> QED BY <1>2, <2>1, <2>2, <2>3, <2>4 DEF BuilderStep
<1>3. CASE ConnectBuilder
  BY <1>0, <1>3 DEF ConnectBuilder
<1>4. CASE ClientLocalFailure \/ BuilderLocalFailure \/ PipeBreaks \/ Corrupt
  BY <1>0, <1>4 DEF ClientLocalFailure, BuilderLocalFailure, PipeBreaks, Corrupt, Fail
<1>5. CASE CutLink \/ TcpGivesUp
  BY <1>0, <1>5 DEF CutLink, Cut, TcpGivesUp, GivesUp, Reset
<1>6. CASE ClientKilled \/ ClientDies
  BY <1>0, <1>6 DEF ClientKilled, ClientDies, ClientLeaves, ClientVanishes, Reset
<1>7. CASE QueueLost \/ ProbesFail
  BY <1>0, <1>7 DEF QueueLost, ProbesFail
<1>8. CASE DestroyBuilder \/ DestroyBuilderLost
  BY <1>0, <1>8 DEF DestroyBuilder, DestroyBuilderLost, TieLost, Vanish, BuilderVanishes
<1> QED BY <1>1, <1>2, <1>3, <1>4, <1>5, <1>6, <1>7, <1>8 DEF SessionNext, Failures

\* A client that is neither through nor stuck has a step to take, or waits for one
\* that someone else can take.
LEMMA ClientNotLeft ==
    ASSUME RestInv, client \notin Ended, ~Stuck
    PROVE  ~AtRest
<1>0. /\ StreamOK /\ ProgramsOK /\ LinkInv /\ LeaseInv /\ TiesInv /\ NoMutualWait
  BY TypeParts, TurnsAgree DEF RestInv, DeliveryInv
<1> SUFFICES ASSUME ~ClientCan, ~BuilderCan, ~ConnectCan, ~TcpCan PROVE FALSE
  BY DEF AtRest
<1>1. client \in {"connect_builder"} \cup ClientWrites \cup ClientReads
  BY <1>0 DEF ClientCan, ProgramsOK, InSession, TiesInv, TieLost, Stuck
<1>2. CASE client = "connect_builder"
  BY <1>0, <1>2 DEF ClientCan, BuilderCan, ConnectCan, LinkInv, TiesInv
<1>3. CASE client \in ClientWrites
  \* The buffer is full, so that the builder is not waiting for it to be written.
  <2>1. link \in {"up", "lost_builder"} /\ Len(up) = Capacity
    BY <1>3 DEF ClientCan
  <2>2. up # <<>>
    BY <2>1, CapacityAssumption
  <2>3. link = "up" /\ builder \in AtWork \ BuilderWrites
    <3>1. link = "up"
      BY <2>1, <2>2 DEF TcpCan
    <3>2. builder \in BuilderReads \cup {"leaving", "exited", "destroyed"}
      BY <1>0, <1>3 DEF LinkInv, Writing
    <3> QED BY <1>0, <3>1, <3>2 DEF TiesInv, AtWork, BuilderReads, BuilderWrites
  <2> QED BY <2>2, <2>3 DEF BuilderCan, AtWork
<1>4. CASE client \in ClientReads
  <2>1. down = <<>>
    BY <1>4 DEF ClientCan
  <2>2. link \in {"up", "closing", "ended", "cut", "lost_builder"}
    <3>1. client \in Talking \/ client = "draining"
      BY <1>4 DEF ClientReads, Talking, Reading
    <3>2. CASE client \in Talking
      BY <1>0, <3>2 DEF LinkInv
    <3>3. CASE client = "draining"
      BY <1>0, <3>3 DEF TiesInv, LinkInv, StreamOK, LinkStates, Ended
    <3> QED BY <3>1, <3>2, <3>3
  <2>3. link \in {"up", "closing"}
    BY <1>4, <2>1, <2>2 DEF Stuck, ClientCan, ClientReadFails
  <2>4. builder \in AtWork
    BY <1>0, <2>3 DEF TiesInv
  <2>5. builder \in BuilderReads \cup BuilderWrites
    BY <2>4 DEF BuilderCan, AtWork
  <2>6. Len(down) # Capacity
    BY <2>1, CapacityAssumption
  <2>7. builder \in BuilderReads /\ up = <<>> /\ link = "up"
    BY <2>3, <2>5, <2>6 DEF BuilderCan, BuilderReadFails
  <2> QED BY <1>0, <1>4, <2>1, <2>7 DEF NoMutualWait, ClientWaits, BuilderWaits
<1> QED BY <1>1, <1>2, <1>3, <1>4

\* A builder runs on only for a client whose host and queue are both lost, or if
\* nobody ever came.
BuilderLost == \/ TieLost /\ link = "lost_client"
               \/ (TieLost \/ queue = "none") /\ link = "none" /\ builder = "listening"

LEMMA BuilderNotLeft ==
    ASSUME RestInv, builder \notin {"exited", "destroyed"}, AtRest
    PROVE  BuilderLost
<1>0. /\ StreamOK /\ ProgramsOK /\ LinkInv /\ LeaseInv /\ TiesInv
      /\ ~ClientCan /\ ~BuilderCan /\ ~ConnectCan /\ ~QueueCan /\ ~TcpCan
      /\ client \in Ended \/ Stuck
  BY TypeParts, ClientNotLeft DEF RestInv, DeliveryInv, AtRest
<1>1. Stuck => /\ \/ client \in ClientReads /\ down = <<>>
                  \/ client = "get_builder" /\ TieLost /\ link = "none"
  <2>1. Stuck => client \in ClientReads \/ (client = "get_builder" /\ TieLost)
    BY DEF Stuck, ClientReads, TieLost
  <2> QED BY <1>0, <2>1 DEF ClientCan, LinkInv
<1>2. builder \in {"listening"} \cup BuilderReads \cup BuilderWrites
  BY <1>0 DEF BuilderCan, ProgramsOK
<1>3. CASE builder = "listening"
  <2>1. link = "none"
    BY <1>0, <1>3 DEF LinkInv
  <2>2. client \in Ended \/ TieLost
    BY <1>0, <1>1, <2>1 DEF LinkInv, TiesInv, ClientReads, Talking, Reading
  <2>3. TieLost \/ queue = "none"
    BY <1>0, <1>3, <2>2 DEF QueueCan, TiesInv, TieLost, ProgramsOK, Ended
  <2> QED BY <1>3, <2>1, <2>3 DEF BuilderLost
<1>4. CASE builder \in BuilderReads \cup BuilderWrites
  <2>1. link \notin {"none", "ended", "lost_builder", "cut", "left"}
    <3>1. link \notin {"none", "ended", "lost_builder"}
      BY <1>0, <1>4 DEF TiesInv, LinkInv, BuilderReads, BuilderWrites
    <3>2. link # "cut"
      BY <1>0, <1>4 DEF BuilderCan, BuilderReadFails
    <3>3. link # "left"
      BY <1>0, <1>4 DEF BuilderCan, BuilderReadFails
    <3> QED BY <3>1, <3>2, <3>3
  <2>2. link = "lost_client"
    <3> SUFFICES ASSUME link \in {"up", "closing"} PROVE FALSE
      BY <1>0, <2>1 DEF StreamOK, LinkStates
    <3>1. Stuck /\ down = <<>>
      BY <1>0, <1>1 DEF TiesInv
    <3>2. client = "stream_build" /\ builder = "flooding"
      BY <1>0, <3>1 DEF Stuck, ClientReadFails, LinkInv
    <3>3. Len(down) # Capacity
      BY <3>1, CapacityAssumption
    <3> QED BY <1>0, <3>2, <3>3 DEF BuilderCan, BuilderWrites
  <2>3. client = "dead" /\ queue # "none"
    BY <1>0, <2>2 DEF TiesInv
  <2>4. TieLost
    BY <1>0, <1>4, <2>3 DEF QueueCan, TieLost, ProgramsOK, BuilderReads, BuilderWrites
  <2> QED BY <2>2, <2>4 DEF BuilderLost
<1> QED BY <1>2, <1>3, <1>4

\* A session that has come to rest is over: the client has ended, unless it is
\* stuck, and its builder is gone, unless there is nobody left to destroy it.  With
\* SessionsEnd and the fairness of SessionLiveSpec this is why ClientEndsOrStuck
\* and BuilderEnds hold, for files and buffers of every size.
THEOREM RestsWhenOver ==
    SessionSpec => [](AtRest => /\ client \in Ended \/ Stuck
                                /\ builder \in {"exited", "destroyed"} \/ BuilderLost)
<1>1. SessionInit => RestInv
  <2> SUFFICES ASSUME SessionInit PROVE LeaseInv /\ TiesInv
    BY DeliveryInit DEF RestInv
  <2> QED BY DEF SessionInit, LeaseInv, TiesInv, TieLost, Ended
<1>2. RestInv /\ [SessionNext]_sessionVars => RestInv'
  <2> SUFFICES ASSUME RestInv, [SessionNext]_sessionVars PROVE RestInv'
    OBVIOUS
  <2>1. DeliveryInv' /\ LeaseInv'
    BY DeliveryKept, LeaseStep DEF RestInv
  <2>2. TiesInv'
    <3>1. CASE UNCHANGED sessionVars
      BY <3>1 DEF RestInv, TiesInv, TieLost, sessionVars, stream, clientVars, builderVars
    <3> QED BY <3>1, TiesStep
  <2> QED BY <2>1, <2>2 DEF RestInv
<1>3. RestInv => (AtRest => /\ client \in Ended \/ Stuck
                            /\ builder \in {"exited", "destroyed"} \/ BuilderLost)
  BY ClientNotLeft, BuilderNotLeft
<1> QED BY <1>1, <1>2, <1>3, PTL DEF SessionSpec
=============================================================================
