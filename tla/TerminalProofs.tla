--------------------------- MODULE TerminalProofs ----------------------------
(***************************************************************************)
(* Theorems about Terminal, for every program that keeps the discipline    *)
(* of ScriptAssumption: where its waits and its messages are is all that   *)
(* the proofs know of a script.                                            *)
(***************************************************************************)
EXTENDS Terminal, TLAPS

-----------------------------------------------------------------------------
(***************************************************************************)
(* Scripts.                                                                *)
(***************************************************************************)
\* The operations of a line are told apart by their names.
LEMMA LinesDiffer ==
    /\ \A m, n : Wait(m)[1] = "wait" /\ Wait(m)[2] = m /\ (Wait(m) = Wait(n) => m = n)
    /\ \A m, n : Stop(m)[1] = "stop" /\ Stop(m)[2] = m /\ (Stop(m) = Stop(n) => m = n)
    /\ \A m, n : Wait(m) # Stop(n)
    /\ \A o : Does(o)[1] = o
BY DEF Wait, Stop, Does

\* How the waits around a line change from one line to the next.
LEMMA AroundStep ==
    ASSUME NEW p, NEW i \in Nat \ {0}
    PROVE  /\ Around(p, 1) = {}
           /\ \A m \in Messages :
                m \in Around(p, i + 1) <=>
                  \/ Script[p][i] = Wait(m)
                  \/ m \in Around(p, i) /\ Script[p][i] # Stop(m)
<1>1. Around(p, 1) = {}
  BY DEF Around
<1>2. ASSUME NEW m \in Messages
      PROVE  m \in Around(p, i + 1) <=>
                  \/ Script[p][i] = Wait(m)
                  \/ m \in Around(p, i) /\ Script[p][i] # Stop(m)
  <2>1. ASSUME Script[p][i] = Wait(m) PROVE m \in Around(p, i + 1)
    BY <2>1 DEF Around
  <2>2. ASSUME m \in Around(p, i), Script[p][i] # Stop(m) PROVE m \in Around(p, i + 1)
    <3>1. PICK j \in 1..(i - 1) : /\ Script[p][j] = Wait(m)
                                  /\ \A k \in (j + 1)..(i - 1) : Script[p][k] # Stop(m)
      BY <2>2 DEF Around
    <3>2. \A k \in (j + 1)..(i + 1 - 1) : Script[p][k] # Stop(m)
      BY <2>2, <3>1
    <3>3. j \in 1..(i + 1 - 1)
      OBVIOUS
    <3> QED BY <3>1, <3>2, <3>3 DEF Around
  <2>3. ASSUME m \in Around(p, i + 1), Script[p][i] # Wait(m)
        PROVE  m \in Around(p, i) /\ Script[p][i] # Stop(m)
    <3>1. PICK j \in 1..i : /\ Script[p][j] = Wait(m)
                            /\ \A k \in (j + 1)..i : Script[p][k] # Stop(m)
      BY <2>3 DEF Around
    <3>2. j \in 1..(i - 1) /\ i \in (j + 1)..i
      BY <2>3, <3>1
    <3> QED BY <3>1, <3>2 DEF Around
  <2> QED BY <2>1, <2>2, <2>3
<1> QED BY <1>1, <1>2

LineOK(op, p, i) ==
    /\ i \in 1..Len(Script[p]) /\ 1 \in DOMAIN Script[p] /\ Len(Script[p]) \in DOMAIN Script[p]
    /\ op[1] = "close" <=> i = Len(Script[p])
    /\ i # Len(Script[p]) => i + 1 \in DOMAIN Script[p]
    /\ op[1] = "wait" => op[2] \in Messages /\ Around(p, i) = {} /\ Around(p, i + 1) = {op[2]}
    /\ op[1] = "stop" => op[2] \in Messages /\ Around(p, i) = {op[2]} /\ Around(p, i + 1) = {}
    /\ op[1] \notin {"wait", "stop"} => Around(p, i + 1) = Around(p, i)
    /\ op[1] \in {"close", "parse"} => Around(p, i) = {}
    /\ op[1] \in Printed => Around(p, i) \subseteq Noisy

\* What the discipline says of a line, and of the line after it.
LEMMA LineFacts ==
    ASSUME NEW p \in DOMAIN Script, NEW i \in DOMAIN Script[p]
    PROVE  LineOK(Script[p][i], p, i)
<1> DEFINE op == Script[p][i]
<1>1. /\ Len(Script[p]) \in Nat \ {0} /\ DOMAIN Script[p] = 1..Len(Script[p])
      /\ \/ op \in {Wait(m) : m \in Messages} /\ Around(p, i) = {}
         \/ op \in {Stop(m) : m \in Messages} /\ Around(p, i) = {op[2]}
         \/ op = Does("parse") /\ Around(p, i) = {}
         \/ op = Does("close") /\ Around(p, i) = {}
         \/ op \in {Does(o) : o \in Printed} /\ Around(p, i) \subseteq Noisy
         \/ op \in {Does("call"), Does("debug")}
      /\ op = Does("close") <=> i = Len(Script[p])
  BY Disciplined DEF ScriptAssumption
<1>2. /\ i \in Nat \ {0} /\ i \in 1..Len(Script[p])
      /\ 1 \in DOMAIN Script[p] /\ Len(Script[p]) \in DOMAIN Script[p]
      /\ i # Len(Script[p]) => i + 1 \in DOMAIN Script[p]
  BY <1>1
<1>3. \A m \in Messages :
        m \in Around(p, i + 1) <=> \/ op = Wait(m)
                                   \/ m \in Around(p, i) /\ op # Stop(m)
  BY <1>2, AroundStep
<1>4. Around(p, i) \subseteq Messages /\ Around(p, i + 1) \subseteq Messages
  BY DEF Around
<1> SUFFICES LineOK(op, p, i)
  OBVIOUS
<1> HIDE DEF op
<1>5. CASE op \in {Wait(m) : m \in Messages} /\ Around(p, i) = {}
  <2>1. PICK m \in Messages : op = Wait(m)
    BY <1>5
  <2>2. op[1] = "wait" /\ op[2] = m /\ op # Does("close")
    BY <2>1, LinesDiffer
  <2>3. Around(p, i + 1) = {m}
    <3>1. \A n \in Messages : n \in Around(p, i + 1) <=> n = m
      BY <1>3, <1>5, <2>1, LinesDiffer
    <3> QED BY <1>4, <3>1
  <2> QED BY <1>1, <1>2, <1>5, <2>2, <2>3 DEF LineOK, Printed
<1>6. CASE op \in {Stop(m) : m \in Messages} /\ Around(p, i) = {op[2]}
  <2>1. PICK m \in Messages : op = Stop(m)
    BY <1>6
  <2>2. op[1] = "stop" /\ op[2] = m /\ op # Does("close")
    BY <2>1, LinesDiffer
  <2>3. Around(p, i + 1) = {}
    <3>1. \A n \in Messages : n \notin Around(p, i + 1)
      BY <1>3, <1>6, <2>1, <2>2, LinesDiffer
    <3> QED BY <1>4, <3>1
  <2> QED BY <1>1, <1>2, <1>6, <2>2, <2>3 DEF LineOK, Printed
<1>7. ASSUME NEW o \in {"parse", "close", "call", "debug"} \cup Printed, op = Does(o),
             o \in {"parse", "close"} => Around(p, i) = {},
             o \in Printed => Around(p, i) \subseteq Noisy
      PROVE  /\ op[1] = o /\ o \notin {"wait", "stop"}
             /\ Around(p, i + 1) = Around(p, i)
             /\ op = Does("close") <=> op[1] = "close"
  <2>1. op[1] = o /\ o \notin {"wait", "stop"}
    BY <1>7, LinesDiffer DEF Printed
  <2>2. \A m : op # Wait(m) /\ op # Stop(m)
    BY <2>1, LinesDiffer
  <2> QED BY <1>3, <1>4, <1>7, <2>1, <2>2, LinesDiffer
<1>8. \/ op \in {Wait(m) : m \in Messages} /\ Around(p, i) = {}
      \/ op \in {Stop(m) : m \in Messages} /\ Around(p, i) = {op[2]}
      \/ \E o \in {"parse", "close", "call", "debug"} \cup Printed :
           /\ op = Does(o)
           /\ o \in {"parse", "close"} => Around(p, i) = {}
           /\ o \in Printed => Around(p, i) \subseteq Noisy
  BY <1>1 DEF Printed
<1>9. CASE \E o \in {"parse", "close", "call", "debug"} \cup Printed :
             /\ op = Does(o)
             /\ o \in {"parse", "close"} => Around(p, i) = {}
             /\ o \in Printed => Around(p, i) \subseteq Noisy
  <2>1. PICK o \in {"parse", "close", "call", "debug"} \cup Printed :
               /\ op = Does(o)
               /\ o \in {"parse", "close"} => Around(p, i) = {}
               /\ o \in Printed => Around(p, i) \subseteq Noisy
    BY <1>9
  <2>2. /\ op[1] = o /\ o \notin {"wait", "stop"}
        /\ Around(p, i + 1) = Around(p, i)
        /\ op = Does("close") <=> op[1] = "close"
    BY <1>7, <2>1
  <2> QED BY <1>1, <1>2, <2>1, <2>2 DEF LineOK
<1> QED BY <1>5, <1>6, <1>8, <1>9

-----------------------------------------------------------------------------
(***************************************************************************)
(* The inductive invariant.                                                *)
(***************************************************************************)
\* The waits that have begun are those that the script says, until an exception is
\* thrown; after that, main is on its way through the destructor to the last line.
PositionInv ==
    /\ ~failed => (IF message = "none" THEN {} ELSE {message}) = Around(program, pc)
    /\ phase \in {"join", "report"} => message # "none" /\ (failed \/ Op[1] = "stop")
    /\ phase = "unwind" => failed
    /\ phase \in {"init", "run", "print"} /\ failed =>
         message = "none" /\ pc = Len(Script[program])
    /\ phase = "init" => pc = 1 /\ ~failed

\* The thread runs from the constructor to the join.
ThreadInv ==
    /\ active <=> message # "none" /\ phase \notin {"join", "report"}
    /\ thread # Idle => message # "none" /\ phase # "report" /\ ~debug

\* What is on the screen.
ScreenInv ==
    /\ message \notin {"none"} \cup Noisy /\ ~debug /\ signal = "none" => place = "dots"
    /\ signal # "none" => ~hidden /\ (phase = "init" => signal = "main")
    /\ ending \in {"return", "exit"} => ~hidden
    /\ ending = "return" => message = "none"
    /\ LogsUndisturbed

TerminalInv == TerminalTypeOK /\ PositionInv /\ ThreadInv /\ ScreenInv
\* The line that main has reached.
LEMMA AtLine ==
    ASSUME TerminalInv
    PROVE  /\ LineOK(Op, program, pc)
           /\ program \in DOMAIN Script /\ pc \in DOMAIN Script[program]
           /\ pc = 1 => Around(program, pc) = {}
           /\ Op[1] # "close" /\ phase = "run" => ~failed
           /\ ~failed => (IF message = "none" THEN {} ELSE {message}) = Around(program, pc)
<1>1. /\ LineOK(Op, program, pc)
      /\ program \in DOMAIN Script /\ pc \in DOMAIN Script[program]
      /\ pc = 1 => Around(program, pc) = {}
  BY LineFacts, AroundStep DEF TerminalInv, TerminalTypeOK, Op
<1>2. Op[1] # "close" /\ phase = "run" => ~failed
  BY <1>1 DEF TerminalInv, PositionInv, LineOK
<1> QED BY <1>1, <1>2 DEF TerminalInv, PositionInv

\* The stages of the animation's thread.
LEMMA ThreadStages ==
    /\ Idle[1] = "idle"
    /\ \A i \in 1..3 : /\ <<"check", i>> # Idle /\ <<"draw", i>> # Idle
                        /\ {<<"check", i>>, <<"draw", i>>} \subseteq {"check", "draw"} \X (1..3)
                        /\ (i % 3) + 1 \in 1..3
    /\ \A t \in ({"check", "draw"} \X (1..3)) \cup {Idle} :
         t # Idle => t[1] \in {"check", "draw"} /\ t[2] \in 1..3
<1>1. \A i \in 1..3 : (i % 3) + 1 \in 1..3
  <2> SUFFICES ASSUME NEW i \in 1..3 PROVE (i % 3) + 1 \in 1..3
    OBVIOUS
  <2>1. i = 1 \/ i = 2 \/ i = 3
    OBVIOUS
  <2> QED BY <2>1
<1>2. Idle[1] = "idle"
  BY DEF Idle
<1>3. ASSUME NEW i \in 1..3
      PROVE  /\ <<"check", i>> # Idle /\ <<"draw", i>> # Idle
             /\ {<<"check", i>>, <<"draw", i>>} \subseteq {"check", "draw"} \X (1..3)
  BY DEF Idle
<1>4. \A t \in ({"check", "draw"} \X (1..3)) \cup {Idle} :
         t # Idle => t[1] \in {"check", "draw"} /\ t[2] \in 1..3
  OBVIOUS
<1> QED BY <1>1, <1>2, <1>3, <1>4

\* Every step keeps the invariant.
LEMMA TerminalStep == TerminalInv /\ [Next]_terminal => TerminalInv'
<1> SUFFICES ASSUME TerminalInv, [Next]_terminal PROVE TerminalInv'
  OBVIOUS
<1> USE AtLine DEF mode, main, object, screen, process, MainRuns, At, Proceed, Begins
<1>0. TerminalTypeOK /\ PositionInv /\ ThreadInv /\ ScreenInv
  BY DEF TerminalInv
<1>1. CASE StartAnimation
  <2>1. /\ Op[2] \in Messages /\ Op[2] # "none" /\ ~failed
        /\ Around(program, pc + 1) = {Op[2]} /\ pc + 1 \in DOMAIN Script[program]
        /\ program' = program /\ debug' = debug /\ failed' = failed /\ hidden' = hidden
        /\ signal' = signal /\ ending' = ending
        /\ message' = Op[2] /\ active' = TRUE /\ place' = "dots" /\ pc' = pc + 1
        /\ phase' = "run" /\ phase = "run" /\ ending = "not"
        /\ thread' = IF debug THEN Idle ELSE <<"check", 1>>
    BY <1>1, Disciplined DEF StartAnimation, LineOK, ScriptAssumption
  <2>2. TerminalTypeOK'
    BY <1>0, <2>1, ThreadStages DEF TerminalTypeOK
  <2>3. PositionInv'
    BY <2>1 DEF PositionInv
  <2>4. ThreadInv'
    BY <2>1 DEF ThreadInv
  <2>5. ScreenInv'
    BY <1>0, <2>1 DEF ScreenInv, LogsUndisturbed
  <2> QED BY <2>2, <2>3, <2>4, <2>5 DEF TerminalInv
<1>2. CASE CheckActive
  <2>1. /\ UNCHANGED <<program, debug, pc, phase, failed, message, active, hidden, signal, ending>>
        /\ thread # Idle
        /\ thread' \in ({"check", "draw"} \X (1..3)) \cup {Idle}
        /\ place' \in {"dots", place}
    BY <1>0, <1>2, ThreadStages DEF CheckActive, TerminalTypeOK
  <2>2. TerminalTypeOK'
    BY <1>0, <2>1 DEF TerminalTypeOK
  <2>3. PositionInv'
    BY <1>0, <2>1 DEF PositionInv, Op
  <2>4. ThreadInv'
    BY <1>0, <2>1 DEF ThreadInv
  <2>5. ScreenInv'
    BY <1>0, <2>1 DEF ScreenInv, LogsUndisturbed
  <2> QED BY <2>2, <2>3, <2>4, <2>5 DEF TerminalInv
<1>3. CASE DrawFrame
  <2>1. /\ UNCHANGED <<program, debug, pc, phase, failed, message, active, hidden, signal, ending>>
        /\ thread # Idle
        /\ thread' \in ({"check", "draw"} \X (1..3)) \cup {Idle}
        /\ place' \in {"dots", place}
    BY <1>0, <1>3, ThreadStages DEF DrawFrame, TerminalTypeOK
  <2>2. TerminalTypeOK'
    BY <1>0, <2>1 DEF TerminalTypeOK
  <2>3. PositionInv'
    BY <1>0, <2>1 DEF PositionInv, Op
  <2>4. ThreadInv'
    BY <1>0, <2>1 DEF ThreadInv
  <2>5. ScreenInv'
    BY <1>0, <2>1 DEF ScreenInv, LogsUndisturbed
  <2> QED BY <2>2, <2>3, <2>4, <2>5 DEF TerminalInv
<1>4. CASE ClearActive
  <2>1. TerminalTypeOK'
    BY <1>4 DEF ClearActive, TerminalInv, TerminalTypeOK, PositionInv, LineOK
  <2>2. PositionInv'
    BY <1>4 DEF ClearActive, TerminalInv, TerminalTypeOK, PositionInv, ThreadInv, LineOK, Op
  <2>3. ThreadInv'
    BY <1>4 DEF ClearActive, TerminalInv, TerminalTypeOK, PositionInv, ThreadInv, LineOK, Idle
  <2>4. ScreenInv'
    BY <1>4 DEF ClearActive, TerminalInv, TerminalTypeOK, PositionInv, ThreadInv, ScreenInv, LineOK, LogsUndisturbed
  <2> QED BY <2>1, <2>2, <2>3, <2>4 DEF TerminalInv
<1>5. CASE JoinThread
  <2>1. TerminalTypeOK'
    BY <1>5 DEF JoinThread, TerminalInv, TerminalTypeOK, PositionInv, LineOK
  <2>2. PositionInv'
    BY <1>5 DEF JoinThread, TerminalInv, TerminalTypeOK, PositionInv, ThreadInv, LineOK, Op
  <2>3. ThreadInv'
    BY <1>5 DEF JoinThread, TerminalInv, TerminalTypeOK, PositionInv, ThreadInv, LineOK, Idle
  <2>4. ScreenInv'
    BY <1>5 DEF JoinThread, TerminalInv, TerminalTypeOK, PositionInv, ThreadInv, ScreenInv, LineOK, LogsUndisturbed
  <2> QED BY <2>1, <2>2, <2>3, <2>4 DEF TerminalInv
<1>6. CASE Report
  <2>1. TerminalTypeOK'
    BY <1>6 DEF Report, TerminalInv, TerminalTypeOK, PositionInv, LineOK
  <2>2. PositionInv'
    BY <1>6 DEF Report, TerminalInv, TerminalTypeOK, PositionInv, ThreadInv, LineOK, Op
  <2>3. ThreadInv'
    BY <1>6 DEF Report, TerminalInv, TerminalTypeOK, PositionInv, ThreadInv, LineOK, Idle
  <2>4. ScreenInv'
    BY <1>6 DEF Report, TerminalInv, TerminalTypeOK, PositionInv, ThreadInv, ScreenInv, LineOK, LogsUndisturbed
  <2> QED BY <2>1, <2>2, <2>3, <2>4 DEF TerminalInv
<1>7. CASE LogDebug
  <2>1. TerminalTypeOK'
    BY <1>7 DEF LogDebug, TerminalInv, TerminalTypeOK, PositionInv, LineOK
  <2>2. PositionInv'
    BY <1>7 DEF LogDebug, TerminalInv, TerminalTypeOK, PositionInv, ThreadInv, LineOK, Op
  <2>3. ThreadInv'
    BY <1>7 DEF LogDebug, TerminalInv, TerminalTypeOK, PositionInv, ThreadInv, LineOK, Idle
  <2>4. ScreenInv'
    BY <1>7 DEF LogDebug, TerminalInv, TerminalTypeOK, PositionInv, ThreadInv, ScreenInv, LineOK, LogsUndisturbed
  <2> QED BY <2>1, <2>2, <2>3, <2>4 DEF TerminalInv
<1>8. CASE LogNote
  <2>1. TerminalTypeOK'
    BY <1>8 DEF LogNote, TerminalInv, TerminalTypeOK, PositionInv, LineOK
  <2>2. PositionInv'
    BY <1>8 DEF LogNote, TerminalInv, TerminalTypeOK, PositionInv, ThreadInv, LineOK, Op
  <2>3. ThreadInv'
    BY <1>8 DEF LogNote, TerminalInv, TerminalTypeOK, PositionInv, ThreadInv, LineOK, Idle
  <2>4. ScreenInv'
    <3>1. message = "none" \/ message \in Noisy
      BY <1>8 DEF LogNote, Printed, LineOK
    <3>2. /\ UNCHANGED <<debug, message, thread, failed, hidden, signal, ending>>
          /\ ~failed /\ phase' # "init" /\ ending = "not"
      BY <1>8 DEF LogNote
    <3> QED BY <1>0, <3>1, <3>2 DEF ScreenInv, ThreadInv, LogsUndisturbed
  <2> QED BY <2>1, <2>2, <2>3, <2>4 DEF TerminalInv
<1>9. CASE EndOfLine
  <2>1. TerminalTypeOK'
    BY <1>9 DEF EndOfLine, TerminalInv, TerminalTypeOK, PositionInv, LineOK
  <2>2. PositionInv'
    BY <1>9 DEF EndOfLine, TerminalInv, TerminalTypeOK, PositionInv, ThreadInv, LineOK, Op
  <2>3. ThreadInv'
    BY <1>9 DEF EndOfLine, TerminalInv, TerminalTypeOK, PositionInv, ThreadInv, LineOK, Idle
  <2>4. ScreenInv'
    BY <1>9 DEF EndOfLine, TerminalInv, TerminalTypeOK, PositionInv, ThreadInv, ScreenInv, LineOK, LogsUndisturbed
  <2> QED BY <2>1, <2>2, <2>3, <2>4 DEF TerminalInv
<1>10. CASE WriteOutput
  <2>1. TerminalTypeOK'
    BY <1>10 DEF WriteOutput, TerminalInv, TerminalTypeOK, PositionInv, LineOK
  <2>2. PositionInv'
    BY <1>10 DEF WriteOutput, TerminalInv, TerminalTypeOK, PositionInv, ThreadInv, LineOK, Op
  <2>3. ThreadInv'
    BY <1>10 DEF WriteOutput, TerminalInv, TerminalTypeOK, PositionInv, ThreadInv, LineOK, Idle
  <2>4. ScreenInv'
    <3>1. message = "none" \/ message \in Noisy
      BY <1>10 DEF WriteOutput, Printed, LineOK
    <3>2. /\ UNCHANGED <<debug, message, thread, failed, hidden, signal, ending>>
          /\ ~failed /\ phase' # "init" /\ ending = "not"
      BY <1>10 DEF WriteOutput
    <3> QED BY <1>0, <3>1, <3>2 DEF ScreenInv, ThreadInv, LogsUndisturbed
  <2> QED BY <2>1, <2>2, <2>3, <2>4 DEF TerminalInv
<1>11. CASE SkipLog
  <2>1. TerminalTypeOK'
    BY <1>11 DEF SkipLog, TerminalInv, TerminalTypeOK, PositionInv, LineOK
  <2>2. PositionInv'
    BY <1>11 DEF SkipLog, TerminalInv, TerminalTypeOK, PositionInv, ThreadInv, LineOK, Op
  <2>3. ThreadInv'
    BY <1>11 DEF SkipLog, TerminalInv, TerminalTypeOK, PositionInv, ThreadInv, LineOK, Idle
  <2>4. ScreenInv'
    BY <1>11 DEF SkipLog, TerminalInv, TerminalTypeOK, PositionInv, ThreadInv, ScreenInv, LineOK, LogsUndisturbed
  <2> QED BY <2>1, <2>2, <2>3, <2>4 DEF TerminalInv
<1>12. CASE ParseArguments
  <2>1. TerminalTypeOK'
    BY <1>12 DEF ParseArguments, TerminalInv, TerminalTypeOK, PositionInv, LineOK
  <2>2. PositionInv'
    BY <1>12 DEF ParseArguments, TerminalInv, TerminalTypeOK, PositionInv, ThreadInv, LineOK, Op
  <2>3. ThreadInv'
    BY <1>12 DEF ParseArguments, TerminalInv, TerminalTypeOK, PositionInv, ThreadInv, LineOK, Idle
  <2>4. ScreenInv'
    BY <1>12 DEF ParseArguments, TerminalInv, TerminalTypeOK, PositionInv, ThreadInv, ScreenInv, LineOK, LogsUndisturbed
  <2> QED BY <2>1, <2>2, <2>3, <2>4 DEF TerminalInv
<1>13. CASE CallReturns
  <2>1. TerminalTypeOK'
    BY <1>13 DEF CallReturns, TerminalInv, TerminalTypeOK, PositionInv, LineOK
  <2>2. PositionInv'
    BY <1>13 DEF CallReturns, TerminalInv, TerminalTypeOK, PositionInv, ThreadInv, LineOK, Op
  <2>3. ThreadInv'
    BY <1>13 DEF CallReturns, TerminalInv, TerminalTypeOK, PositionInv, ThreadInv, LineOK, Idle
  <2>4. ScreenInv'
    BY <1>13 DEF CallReturns, TerminalInv, TerminalTypeOK, PositionInv, ThreadInv, ScreenInv, LineOK, LogsUndisturbed
  <2> QED BY <2>1, <2>2, <2>3, <2>4 DEF TerminalInv
<1>14. CASE Throw
  <2>1. TerminalTypeOK'
    BY <1>14 DEF Throw, TerminalInv, TerminalTypeOK, PositionInv, LineOK
  <2>2. PositionInv'
    BY <1>14 DEF Throw, TerminalInv, TerminalTypeOK, PositionInv, ThreadInv, LineOK, Op
  <2>3. ThreadInv'
    BY <1>14 DEF Throw, TerminalInv, TerminalTypeOK, PositionInv, ThreadInv, LineOK, Idle
  <2>4. ScreenInv'
    BY <1>14 DEF Throw, TerminalInv, TerminalTypeOK, PositionInv, ThreadInv, ScreenInv, LineOK, LogsUndisturbed
  <2> QED BY <2>1, <2>2, <2>3, <2>4 DEF TerminalInv
<1>15. CASE LogError
  <2>1. TerminalTypeOK'
    BY <1>15 DEF LogError, TerminalInv, TerminalTypeOK, PositionInv, LineOK
  <2>2. PositionInv'
    BY <1>15 DEF LogError, TerminalInv, TerminalTypeOK, PositionInv, ThreadInv, LineOK, Op
  <2>3. ThreadInv'
    BY <1>15 DEF LogError, TerminalInv, TerminalTypeOK, PositionInv, ThreadInv, LineOK, Idle
  <2>4. ScreenInv'
    BY <1>15 DEF LogError, TerminalInv, TerminalTypeOK, PositionInv, ThreadInv, ScreenInv, LineOK, LogsUndisturbed
  <2> QED BY <2>1, <2>2, <2>3, <2>4 DEF TerminalInv
<1>16. CASE HideCursor
  <2>1. TerminalTypeOK'
    BY <1>16 DEF HideCursor, TerminalInv, TerminalTypeOK, PositionInv, LineOK
  <2>2. PositionInv'
    BY <1>16 DEF HideCursor, TerminalInv, TerminalTypeOK, PositionInv, ThreadInv, LineOK, Op
  <2>3. ThreadInv'
    BY <1>16 DEF HideCursor, TerminalInv, TerminalTypeOK, PositionInv, ThreadInv, LineOK, Idle
  <2>4. ScreenInv'
    BY <1>16 DEF HideCursor, TerminalInv, TerminalTypeOK, PositionInv, ThreadInv, ScreenInv, LineOK, LogsUndisturbed
  <2> QED BY <2>1, <2>2, <2>3, <2>4 DEF TerminalInv
<1>17. CASE Return
  <2>1. TerminalTypeOK'
    BY <1>17 DEF Return, TerminalInv, TerminalTypeOK, PositionInv, LineOK
  <2>2. PositionInv'
    BY <1>17 DEF Return, TerminalInv, TerminalTypeOK, PositionInv, ThreadInv, LineOK, Op
  <2>3. ThreadInv'
    BY <1>17 DEF Return, TerminalInv, TerminalTypeOK, PositionInv, ThreadInv, LineOK, Idle
  <2>4. ScreenInv'
    BY <1>17 DEF Return, TerminalInv, TerminalTypeOK, PositionInv, ThreadInv, ScreenInv, LineOK, LogsUndisturbed
  <2> QED BY <2>1, <2>2, <2>3, <2>4 DEF TerminalInv
<1>18. CASE Interrupt
  <2>1. TerminalTypeOK'
    BY <1>18 DEF Interrupt, TerminalInv, TerminalTypeOK, PositionInv, LineOK
  <2>2. PositionInv'
    BY <1>18 DEF Interrupt, TerminalInv, TerminalTypeOK, PositionInv, ThreadInv, LineOK, Op
  <2>3. ThreadInv'
    BY <1>18 DEF Interrupt, TerminalInv, TerminalTypeOK, PositionInv, ThreadInv, LineOK, Idle
  <2>4. ScreenInv'
    BY <1>18 DEF Interrupt, TerminalInv, TerminalTypeOK, PositionInv, ThreadInv, ScreenInv, LineOK, LogsUndisturbed
  <2> QED BY <2>1, <2>2, <2>3, <2>4 DEF TerminalInv
<1>19. CASE Exit
  <2>1. TerminalTypeOK'
    BY <1>19 DEF Exit, TerminalInv, TerminalTypeOK, PositionInv, LineOK
  <2>2. PositionInv'
    BY <1>19 DEF Exit, TerminalInv, TerminalTypeOK, PositionInv, ThreadInv, LineOK, Op
  <2>3. ThreadInv'
    BY <1>19 DEF Exit, TerminalInv, TerminalTypeOK, PositionInv, ThreadInv, LineOK, Idle
  <2>4. ScreenInv'
    BY <1>19 DEF Exit, TerminalInv, TerminalTypeOK, PositionInv, ThreadInv, ScreenInv, LineOK, LogsUndisturbed
  <2> QED BY <2>1, <2>2, <2>3, <2>4 DEF TerminalInv
<1>20. CASE Killed
  <2>1. TerminalTypeOK'
    BY <1>20 DEF Killed, TerminalInv, TerminalTypeOK, PositionInv, LineOK
  <2>2. PositionInv'
    BY <1>20 DEF Killed, TerminalInv, TerminalTypeOK, PositionInv, ThreadInv, LineOK, Op
  <2>3. ThreadInv'
    BY <1>20 DEF Killed, TerminalInv, TerminalTypeOK, PositionInv, ThreadInv, LineOK, Idle
  <2>4. ScreenInv'
    BY <1>20 DEF Killed, TerminalInv, TerminalTypeOK, PositionInv, ThreadInv, ScreenInv, LineOK, LogsUndisturbed
  <2> QED BY <2>1, <2>2, <2>3, <2>4 DEF TerminalInv
<1>21. CASE UNCHANGED terminal
  <2>1. UNCHANGED <<program, debug, pc, phase, failed, message, active, thread, place, hidden,
                    signal, ending>>
    BY <1>21 DEF terminal
  <2> QED BY <1>0, <2>1 DEF TerminalInv, TerminalTypeOK, PositionInv, ThreadInv, ScreenInv,
                            LogsUndisturbed, Op
<1> QED BY <1>1, <1>2, <1>3, <1>4, <1>5, <1>6, <1>7, <1>8, <1>9, <1>10, <1>11, <1>12, <1>13,
           <1>14, <1>15, <1>16, <1>17, <1>18, <1>19, <1>20, <1>21 DEF Next, Main, Animation

\* The invariant holds in every reachable state.
LEMMA TerminalInvariant == Spec => []TerminalInv
<1>1. Init => TerminalInv
  <2> SUFFICES ASSUME Init PROVE TerminalInv
    OBVIOUS
  <2>1. program \in DOMAIN Script /\ pc = 1 /\ Around(program, 1) = {}
    BY AroundStep DEF Init
  <2>2. pc \in DOMAIN Script[program]
    BY <2>1, Disciplined DEF ScriptAssumption
  <2> QED BY <2>1, <2>2 DEF Init, TerminalInv, TerminalTypeOK, PositionInv, ThreadInv,
                            ScreenInv, LogsUndisturbed
<1> QED BY <1>1, TerminalStep, PTL DEF Spec

-----------------------------------------------------------------------------
\* The variables of Terminal always have their types.
THEOREM TerminalTypeCorrect == Spec => []TerminalTypeOK
<1>1. TerminalInv => TerminalTypeOK
  BY DEF TerminalInv
<1> QED BY <1>1, TerminalInvariant, PTL

\* The cursor is visible after every end but by a signal without a handler.
THEOREM CursorComesBack == Spec => []CursorRestored
<1>1. TerminalInv => CursorRestored
  BY DEF TerminalInv, ScreenInv, CursorRestored
<1> QED BY <1>1, TerminalInvariant, PTL

\* The animation's thread does not outlive its object, nor a wait without outcome main.
THEOREM ThreadContained == Spec => []ThreadWithinAnimation
<1>1. TerminalInv => ThreadWithinAnimation
  BY DEF TerminalInv, ThreadInv, ScreenInv, ThreadWithinAnimation
<1> QED BY <1>1, TerminalInvariant, PTL

\* No line is printed while dots are drawn, but for the noisy waits.
THEOREM LogsKeptApart == Spec => []LogsUndisturbed
<1>1. TerminalInv => LogsUndisturbed
  BY DEF TerminalInv, ScreenInv
<1> QED BY <1>1, TerminalInvariant, PTL

\* An outcome is printed where the dots of its message are.
THEOREM OutcomesInPlace == Spec => []OutcomeInPlace
<1>1. TerminalInv => OutcomeInPlace
  BY DEF TerminalInv, PositionInv, ScreenInv, OutcomeInPlace
<1> QED BY <1>1, TerminalInvariant, PTL

-----------------------------------------------------------------------------
(***************************************************************************)
(* The program ends.  A line of the script takes main at most five steps   *)
(* (a wait is stopped in three), and an exception lets it skip the rest.   *)
(***************************************************************************)
\* The steps of main on the line where it is, and after an exception.
PhaseRank ==
    CASE phase = "init"   -> 5
      [] phase = "print"  -> 4
      [] phase = "run"    -> 3
      [] phase = "join"   -> IF failed THEN 7 ELSE 2
      [] phase = "report" -> IF failed THEN 6 ELSE 1
      [] OTHER            -> IF active THEN 8 ELSE 5

LinesLeft == Len(Script[program]) - pc
EndLeft   == (IF failed THEN 0 ELSE 8) + (IF signal = "none" THEN 1 ELSE 0)
                                        + (IF ending = "not" THEN 1 ELSE 0)
Total(lines, phases, ends) == 5 * lines + phases + ends
WorkLeft   == Total(LinesLeft, PhaseRank, EndLeft)
ThreadLeft == CASE thread[1] = "draw" -> 2 [] thread[1] = "check" -> 1 [] OTHER -> 0

\* When main, the thread and std::exit have a step to take.
MainCan == \/ program \in Hiding /\ MainRuns("init")
           \/ \E op \in {"wait", "stop", "parse", "call", "close", "debug"} \cup Printed : At(op)
           \/ MainRuns("join") /\ thread = Idle
           \/ MainRuns("report") \/ MainRuns("print") \/ MainRuns("unwind")
ThreadCan == ThreadRuns /\ thread[1] \in {"check", "draw"}
ExitCan   == signal # "none" /\ ending = "not"

\* The first line of container-builder is the only one with something before it.
InitInv == phase = "init" => program \in Hiding

LeftOK == LinesLeft \in Nat /\ PhaseRank \in Nat /\ EndLeft \in Nat /\ ThreadLeft \in Nat

\* None of these numbers is ever negative.
LEMMA LeftTypes == TerminalInv => LeftOK
<1> SUFFICES ASSUME TerminalInv PROVE LeftOK
  OBVIOUS
<1>1. LinesLeft \in Nat
  <2>1. pc \in 1..Len(Script[program]) /\ Len(Script[program]) \in Nat
    BY AtLine, Disciplined DEF LineOK, ScriptAssumption
  <2> QED BY <2>1 DEF LinesLeft
<1>2. PhaseRank \in Nat
  BY DEF PhaseRank
<1>3. EndLeft \in Nat
  BY DEF EndLeft
<1>4. ThreadLeft \in Nat
  BY DEF ThreadLeft
<1> QED BY <1>1, <1>2, <1>3, <1>4 DEF LeftOK

LEMMA LeftTypesNext == TerminalInv' => LeftOK'
BY LeftTypes, PTL

\* A line that is not the last is followed by another.
LEMMA NextLine ==
    ASSUME TerminalInv, Op[1] # "close", pc' = pc + 1, UNCHANGED program
    PROVE  LinesLeft' + 1 = LinesLeft
<1>1. /\ pc \in 1..Len(Script[program]) /\ Len(Script[program]) \in Nat
  BY AtLine, Disciplined DEF LineOK, ScriptAssumption
<1> QED BY <1>1 DEF LinesLeft

\* What a step leaves: less for main, or the same and, but for the animation of a
\* wait that goes on, less for the thread.
LessLeft == \/ WorkLeft' < WorkLeft
            \/ WorkLeft' = WorkLeft /\ (active \/ ThreadLeft' < ThreadLeft)

LEMMA TotalLess ==
    ASSUME NEW l \in Nat, NEW l2 \in Nat, NEW p \in Nat, NEW p2 \in Nat,
           NEW e \in Nat, NEW e2 \in Nat,
           \/ l2 + 1 = l /\ e2 = e /\ p2 < p + 5
           \/ (l2 = l \/ l2 = 0) /\ e2 = e /\ p2 < p
           \/ l2 = l /\ p2 = p /\ e2 < e
           \/ l2 = l /\ e2 = e - 8 /\ p2 < p + 6
    PROVE  Total(l2, p2, e2) < Total(l, p, e)
BY DEF Total

\* Every step of main leaves less, and so does each of the signals.
LEMMA StepLeft == TerminalInv /\ TerminalInv' /\ Next => LessLeft
<1> SUFFICES ASSUME TerminalInv, TerminalInv', Next PROVE LessLeft
  OBVIOUS
<1> USE DEF mode, main, object, screen, process, MainRuns, At, Proceed, Begins
<1>0. /\ LeftOK /\ LeftOK'
      /\ TerminalTypeOK /\ PositionInv /\ ThreadInv
  BY LeftTypes, LeftTypesNext DEF TerminalInv
<1>1. ASSUME pc' = pc + 1, UNCHANGED <<program, failed, signal, ending>>, Op[1] # "close",
             PhaseRank' < PhaseRank + 5
      PROVE  LessLeft
  <2>1. LinesLeft' + 1 = LinesLeft
    BY <1>1, NextLine
  <2>2. EndLeft' = EndLeft
    BY <1>1 DEF EndLeft
  <2> QED BY <1>0, <2>1, <2>2, <1>1, TotalLess DEF LeftOK, WorkLeft, LessLeft
<1>2. CASE StartAnimation \/ WriteOutput \/ SkipLog \/ CallReturns
  <2>1. /\ pc' = pc + 1 /\ UNCHANGED <<program, failed, signal, ending>>
        /\ phase = "run" /\ phase' = "run"
    BY <1>2 DEF StartAnimation, WriteOutput, SkipLog, CallReturns
  <2>2. Op[1] # "close"
    BY <1>2 DEF StartAnimation, WriteOutput, SkipLog, CallReturns
  <2>3. PhaseRank' = 3 /\ PhaseRank = 3
    BY <2>1 DEF PhaseRank
  <2> QED BY <1>1, <2>1, <2>2, <2>3
<1>3. CASE LogDebug \/ LogNote
  <2>1. /\ pc' = pc + 1 /\ UNCHANGED <<program, failed, signal, ending>>
        /\ phase = "run" /\ phase' = "print"
    BY <1>3 DEF LogDebug, LogNote
  <2>2. Op[1] # "close"
    BY <1>3 DEF LogDebug, LogNote
  <2>3. PhaseRank' = 4 /\ PhaseRank = 3
    BY <2>1 DEF PhaseRank
  <2> QED BY <1>1, <2>1, <2>2, <2>3
<1>4. ASSUME UNCHANGED <<program, pc, failed, signal, ending>>, PhaseRank' < PhaseRank
      PROVE  LessLeft
  <2>1. LinesLeft' = LinesLeft /\ EndLeft' = EndLeft
    BY <1>4 DEF LinesLeft, EndLeft
  <2> QED BY <1>0, <1>4, <2>1, TotalLess DEF LeftOK, WorkLeft, LessLeft
<1>5. CASE HideCursor \/ EndOfLine
  <2>1. /\ UNCHANGED <<program, pc, failed, signal, ending>>
        /\ phase \in {"init", "print"} /\ phase' = "run"
    BY <1>5 DEF HideCursor, EndOfLine
  <2>2. PhaseRank' = 3 /\ PhaseRank > 3
    BY <2>1 DEF PhaseRank
  <2> QED BY <1>4, <2>1, <2>2
<1>6. CASE ClearActive
  <2>1. /\ UNCHANGED <<program, pc, failed, signal, ending>> /\ phase' = "join"
        /\ (phase = "run" /\ Op[1] = "stop") \/ (phase = "unwind" /\ active)
    BY <1>6 DEF ClearActive
  <2>2. CASE phase = "run" /\ Op[1] = "stop"
    <3>1. ~failed
      BY <2>2, AtLine
    <3>2. PhaseRank = 3 /\ PhaseRank' = 2
      BY <2>1, <2>2, <3>1 DEF PhaseRank
    <3> QED BY <1>4, <2>1, <3>2
  <2>3. CASE phase = "unwind" /\ active
    <3>1. failed
      BY <1>0, <2>3 DEF PositionInv
    <3>2. PhaseRank = 8 /\ PhaseRank' = 7
      BY <2>1, <2>3, <3>1 DEF PhaseRank
    <3> QED BY <1>4, <2>1, <3>2
  <2> QED BY <2>1, <2>2, <2>3
<1>7. CASE JoinThread
  <2>1. /\ UNCHANGED <<program, pc, failed, signal, ending>>
        /\ phase = "join" /\ phase' = "report"
    BY <1>7 DEF JoinThread
  <2>2. PhaseRank' < PhaseRank
    BY <2>1 DEF PhaseRank
  <2> QED BY <1>4, <2>1, <2>2
<1>8. CASE Report
  <2>1. /\ UNCHANGED <<program, failed, signal, ending, active>> /\ phase = "report"
        /\ failed => phase' = "unwind" /\ pc' = pc
        /\ ~failed => phase' = "run" /\ pc' = pc + 1
    BY <1>8 DEF Report
  <2>2. CASE failed
    <3>1. ~active
      BY <1>0, <2>1 DEF ThreadInv
    <3>2. PhaseRank = 6 /\ PhaseRank' = 5
      BY <2>1, <2>2, <3>1 DEF PhaseRank
    <3> QED BY <1>4, <2>1, <2>2, <3>2
  <2>3. CASE ~failed
    <3>1. Op[1] = "stop"
      BY <1>0, <2>1, <2>3 DEF PositionInv
    <3>2. PhaseRank = 1 /\ PhaseRank' = 3
      BY <2>1, <2>3 DEF PhaseRank
    <3> QED BY <1>1, <2>1, <2>3, <3>1, <3>2
  <2> QED BY <2>2, <2>3
<1>9. CASE ParseArguments
  <2>1. CASE Proceed /\ UNCHANGED ending
    <3>1. /\ pc' = pc + 1 /\ UNCHANGED <<program, failed, signal, ending>>
          /\ phase = "run" /\ phase' = "run" /\ Op[1] # "close"
      BY <1>9, <2>1 DEF ParseArguments
    <3>2. PhaseRank' = 3 /\ PhaseRank = 3
      BY <3>1 DEF PhaseRank
    <3> QED BY <1>1, <3>1, <3>2
  <2>2. CASE ending' = "exit" /\ UNCHANGED <<pc, phase>>
    <3>1. UNCHANGED <<program, pc, phase, failed, active, signal>> /\ ending = "not"
      BY <1>9, <2>2 DEF ParseArguments
    <3>2. LinesLeft' = LinesLeft /\ PhaseRank' = PhaseRank
      BY <3>1 DEF LinesLeft, PhaseRank
    <3>3. EndLeft' < EndLeft
      BY <2>2, <3>1 DEF EndLeft
    <3> QED BY <1>0, <3>2, <3>3, TotalLess DEF LeftOK, WorkLeft, LessLeft
  <2> QED BY <1>9, <2>1, <2>2 DEF ParseArguments
<1>10. CASE Throw
  <2>1. /\ UNCHANGED <<program, pc, signal, ending>>
        /\ phase = "run" /\ phase' = "unwind" /\ failed' = TRUE /\ Op[1] # "close"
    BY <1>10 DEF Throw
  <2>2. ~failed
    BY <2>1, AtLine
  <2>3. LinesLeft' = LinesLeft
    BY <2>1 DEF LinesLeft
  <2>4. PhaseRank = 3 /\ PhaseRank' < 9
    BY <2>1 DEF PhaseRank
  <2>5. EndLeft' = EndLeft - 8
    BY <2>1, <2>2 DEF EndLeft
  <2> QED BY <1>0, <2>3, <2>4, <2>5, TotalLess DEF LeftOK, WorkLeft, LessLeft
<1>11. CASE LogError
  <2>1. /\ UNCHANGED <<program, failed, signal, ending>>
        /\ phase = "unwind" /\ ~active /\ phase' = "print" /\ pc' = Len(Script[program])
    BY <1>11 DEF LogError
  <2>2. LinesLeft' = 0 /\ EndLeft' = EndLeft
    <3>1. Len(Script[program]) \in Nat
      BY <1>0, Disciplined DEF ScriptAssumption, TerminalTypeOK
    <3> QED BY <2>1, <3>1 DEF LinesLeft, EndLeft
  <2>3. PhaseRank = 5 /\ PhaseRank' = 4
    BY <2>1 DEF PhaseRank
  <2> QED BY <1>0, <2>2, <2>3, TotalLess DEF LeftOK, WorkLeft, LessLeft
<1>12. CASE Return \/ Exit \/ Killed
  <2>1. /\ UNCHANGED <<program, pc, phase, failed, active, signal>>
        /\ ending = "not" /\ ending' # "not"
    BY <1>12 DEF Return, Exit, Killed
  <2>2. LinesLeft' = LinesLeft /\ PhaseRank' = PhaseRank
    BY <2>1 DEF LinesLeft, PhaseRank
  <2>3. EndLeft' < EndLeft
    BY <2>1 DEF EndLeft
  <2> QED BY <1>0, <2>2, <2>3, TotalLess DEF LeftOK, WorkLeft, LessLeft
<1>13. CASE Interrupt
  <2>1. /\ UNCHANGED <<program, pc, phase, failed, active, ending>>
        /\ signal = "none" /\ signal' # "none"
    BY <1>13 DEF Interrupt
  <2>2. LinesLeft' = LinesLeft /\ PhaseRank' = PhaseRank
    BY <2>1 DEF LinesLeft, PhaseRank
  <2>3. EndLeft' < EndLeft
    BY <2>1 DEF EndLeft
  <2> QED BY <1>0, <2>2, <2>3, TotalLess DEF LeftOK, WorkLeft, LessLeft
<1>14. CASE Animation
  <2>1. UNCHANGED <<program, pc, phase, failed, active, signal, ending>>
    BY <1>14 DEF Animation, CheckActive, DrawFrame
  <2>2. WorkLeft' = WorkLeft
    BY <2>1 DEF WorkLeft, LinesLeft, PhaseRank, EndLeft
  <2>3. CASE active
    BY <2>2, <2>3 DEF LessLeft
  <2>4. CASE CheckActive /\ ~active
    <3>1. thread[1] = "check" /\ thread'[1] = "idle"
      BY <2>4, ThreadStages DEF CheckActive
    <3>2. ThreadLeft = 1 /\ ThreadLeft' = 0
      BY <3>1 DEF ThreadLeft
    <3> QED BY <2>2, <3>2 DEF LessLeft
  <2>5. CASE DrawFrame
    <3>1. thread[1] = "draw" /\ thread'[1] = "check"
      BY <2>5 DEF DrawFrame
    <3>2. ThreadLeft = 2 /\ ThreadLeft' = 1
      BY <3>1 DEF ThreadLeft
    <3> QED BY <2>2, <3>2 DEF LessLeft
  <2> QED BY <1>14, <2>3, <2>4, <2>5 DEF Animation
<1> QED BY <1>2, <1>3, <1>5, <1>6, <1>7, <1>8, <1>9, <1>10, <1>11, <1>12, <1>13, <1>14
        DEF Next, Main

\* Every step leaves main, std::exit and the signals less to do, but for those of the
\* animation, which leave them the same: and once the flag is cleared the thread,
\* too, has less to do with every step, and is joined in at most two.
THEOREM OnlyDotsGoOn == Spec => [](LeftOK) /\ [][LessLeft]_terminal
<1>1. TerminalInv /\ TerminalInv' /\ [Next]_terminal => [LessLeft]_terminal
  BY StepLeft
<1> QED BY <1>1, LeftTypes, TerminalInvariant, PTL DEF Spec

\* The operations that a script may name.
LEMMA LineNames ==
    TerminalInv => Op[1] \in {"wait", "stop", "parse", "call", "close", "debug"} \cup Printed
<1> SUFFICES ASSUME TerminalInv
             PROVE  Op[1] \in {"wait", "stop", "parse", "call", "close", "debug"} \cup Printed
  OBVIOUS
<1>1. \/ \E m \in Messages : Op = Wait(m) \/ Op = Stop(m)
      \/ \E o \in {"parse", "close", "call", "debug"} \cup Printed : Op = Does(o)
  <2>1. program \in DOMAIN Script /\ pc \in 1..Len(Script[program])
    BY AtLine DEF LineOK
  <2> QED BY <2>1, Disciplined DEF ScriptAssumption, Op
<1> QED BY <1>1, LinesDiffer

\* The program never comes to rest before its end: main can go on, unless a signal
\* handler has it, and then std::exit can, or unless it waits for the thread, and then
\* the flag is cleared and the thread can go on.  With OnlyDotsGoOn and the fairness
\* of LiveSpec this is why ProgramEnds holds, for every script.
THEOREM NoRestBeforeTheEnd ==
    Spec => [](ending = "not" => MainCan \/ (ThreadCan /\ ~active) \/ ExitCan)
<1> DEFINE CanGoOn == ending = "not" => MainCan \/ (ThreadCan /\ ~active) \/ ExitCan
<1>1. Init => InitInv
  BY DEF Init, InitInv
<1>2. InitInv /\ [Next]_terminal => InitInv'
  BY DEF InitInv, Next, Main, Animation, terminal, mode, main, HideCursor, StartAnimation,
         ClearActive, JoinThread, Report, LogDebug, LogNote, SkipLog, EndOfLine, WriteOutput,
         ParseArguments, CallReturns, Throw, LogError, Return, CheckActive, DrawFrame,
         Interrupt, Exit, Killed, Proceed, Begins
<1>3. TerminalInv /\ InitInv => CanGoOn
  <2> SUFFICES ASSUME TerminalInv, InitInv, ending = "not", ~MainCan, ~ExitCan
               PROVE  ThreadCan /\ ~active
    OBVIOUS
  <2>1. signal = "none"
    BY DEF ExitCan
  <2>2. phase \in {"init", "run", "join", "report", "print", "unwind"}
    BY DEF TerminalInv, TerminalTypeOK
  <2>3. phase = "join" /\ thread # Idle
    BY <2>1, <2>2, LineNames DEF MainCan, MainRuns, At, InitInv
  <2>4. ~active
    BY <2>3 DEF TerminalInv, ThreadInv
  <2>5. thread[1] \in {"check", "draw"}
    BY <2>3, ThreadStages DEF TerminalInv, TerminalTypeOK
  <2> QED BY <2>1, <2>4, <2>5 DEF ThreadCan, ThreadRuns
<1> QED BY <1>1, <1>2, <1>3, TerminalInvariant, PTL DEF Spec
=============================================================================
