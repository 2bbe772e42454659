------------------------------ MODULE Terminal -------------------------------
(***************************************************************************)
(* What the three client programs do to the terminal: container-builder,   *)
(* cb-status and cb-images.  The main thread prints messages, logs and     *)
(* output; while it waits, the thread of a WaitingAnimation draws dots     *)
(* behind the last message; a signal may arrive in either thread.          *)
(***************************************************************************)
EXTENDS Naturals, Sequences

CONSTANTS
    Script,   \* what each program prints, in order, and the calls between
    Hiding,   \* the programs that hide the cursor and handle SIGINT
    Messages, \* what the programs say that they wait for
    Noisy     \* messages of waits in the middle of which a line is printed

VARIABLES
    program,  \* which of the programs runs
    pc,       \* position in its script
    phase,    \* what the main thread is doing there
    debug,    \* the logger's priority is debug
    message,  \* the message whose animation is active, or "none"
    active,   \* WaitingAnimation::active
    thread,   \* the animation's thread: <<stage, frame>>, or Idle
    place,    \* where the terminal's cursor is: "dots", behind those of the
              \* message, or "elsewhere"
    hidden,   \* the terminal's cursor is hidden
    failed,   \* an exception was thrown
    signal,   \* the thread that a SIGINT interrupted, or "none"
    ending    \* how the process ended, or "not"

mode     == <<program, debug>>
main     == <<pc, phase, failed>>
object   == <<message, active>>
screen   == <<place, hidden>>
process  == <<signal, ending>>
terminal == <<mode, main, object, thread, screen, process>>

(***************************************************************************)
(* Each line of a script is an operation: a call, which may throw; the     *)
(* parsing of the arguments, which may also end the program; a note, that  *)
(* is, an info or success message; a remark, which is not always printed;  *)
(* a debug message, which is printed if the priority says so; "write", for *)
(* the output; and the begin and the end of a wait.  The catch blocks go   *)
(* on with the last line, which closes the streams.                        *)
(***************************************************************************)
Wait(m) == <<"wait", m>>
Stop(m) == <<"stop", m>>
Does(o) == <<o, "">>

Printed == {"note", "remark", "write"}

\* The waits that have begun before line i and not ended.
Around(p, i) ==
    {m \in Messages :
       \E j \in 1..(i - 1) : /\ Script[p][j] = Wait(m)
                            /\ \A k \in (j + 1)..(i - 1) : Script[p][k] # Stop(m)}

\* The discipline of the three mains: one wait at a time, each is ended by stop,
\* and nothing is printed during a wait unless it is one of the noisy ones.
ScriptAssumption ==
    /\ Noisy \subseteq Messages /\ "none" \notin Messages
    /\ \A p \in DOMAIN Script :
         LET Last == Len(Script[p])
         IN  /\ Last \in Nat \ {0} /\ DOMAIN Script[p] = 1..Last
             /\ \A i \in 1..Last :
                  LET op == Script[p][i]
                  IN  /\ \/ op \in {Wait(m) : m \in Messages} /\ Around(p, i) = {}
                         \/ op \in {Stop(m) : m \in Messages} /\ Around(p, i) = {op[2]}
                         \/ op = Does("parse") /\ Around(p, i) = {}
                         \/ op = Does("close") /\ Around(p, i) = {}
                         \/ op \in {Does(o) : o \in Printed} /\ Around(p, i) \subseteq Noisy
                         \/ op \in {Does("call"), Does("debug")}
                      /\ op = Does("close") <=> i = Last

ASSUME Disciplined == ScriptAssumption

Idle == <<"idle", 0>>
Op   == Script[program][pc]

\* The main thread runs unless a signal handler has it.
MainRuns(where) == phase = where /\ signal # "main" /\ ending = "not"
At(op) == MainRuns("run") /\ Op[1] = op

Proceed == pc' = pc + 1 /\ phase' = "run"

-----------------------------------------------------------------------------
\* Mutant: the animation runs even if debug messages are printed.
StartAlways ==
    /\ At("wait")
    /\ message' = Op[2]
    /\ active' = TRUE
    /\ place' = "dots"
    /\ thread' = <<"check", 1>>
    /\ Proceed
    /\ UNCHANGED <<mode, process, hidden, failed>>

\* WaitingAnimation's constructor prints the message, and starts the thread
\* unless debug messages might come in between.
StartAnimation ==
    /\ At("wait")
    /\ message' = Op[2]
    /\ active' = TRUE
    /\ place' = "dots"
    /\ thread' = IF debug THEN Idle ELSE <<"check", 1>>
    /\ Proceed
    /\ UNCHANGED <<mode, process, hidden, failed>>

ThreadRuns == signal # "thread" /\ ending = "not"

\* The thread looks at the flag, after it has slept.
CheckActive ==
    /\ ThreadRuns
    /\ thread[1] = "check"
    /\ thread' = IF active THEN <<"draw", thread[2]>> ELSE Idle
    /\ UNCHANGED <<mode, object, main, screen, process>>

\* Mutant: the frames are not started over.
DrawOnAndOn ==
    /\ ThreadRuns
    /\ thread[1] = "draw"
    /\ thread' = <<"check", thread[2] + 1>>
    /\ place' = IF thread[2] = 1 THEN "dots" ELSE place
    /\ UNCHANGED <<mode, object, main, process, hidden>>

\* Mutant: the last frame is one character too long.
DrawTooFar ==
    /\ ThreadRuns
    /\ thread[1] = "draw"
    /\ thread' = <<"check", (thread[2] % 3) + 1>>
    /\ place' = IF thread[2] = 3 THEN "elsewhere" ELSE "dots"
    /\ UNCHANGED <<mode, object, main, process, hidden>>

\* It draws one of the three frames; the first one draws the message, too.
DrawFrame ==
    /\ ThreadRuns
    /\ thread[1] = "draw"
    /\ thread' = <<"check", (thread[2] % 3) + 1>>
    /\ place' = IF thread[2] = 1 THEN "dots" ELSE place
    /\ UNCHANGED <<mode, object, main, process, hidden>>

\* Mutant: the flag is left alone.
StopWithoutFlag ==
    /\ At("stop") \/ (MainRuns("unwind") /\ active)
    /\ phase' = "join"
    /\ UNCHANGED <<mode, object, screen, process, pc, thread, failed>>

\* stop_success, or stop_error in the destructor if an exception was thrown:
\* the flag is cleared,
ClearActive ==
    /\ At("stop") \/ (MainRuns("unwind") /\ active)
    /\ active' = FALSE
    /\ phase' = "join"
    /\ UNCHANGED <<mode, screen, process, pc, message, thread, failed>>

\* Mutant: the thread is not waited for.
StopDetached ==
    /\ MainRuns("join")
    /\ phase' = "report"
    /\ UNCHANGED <<mode, object, screen, process, pc, thread, failed>>

\* the thread is joined if there is one,
JoinThread ==
    /\ MainRuns("join")
    /\ thread = Idle
    /\ phase' = "report"
    /\ UNCHANGED <<mode, object, screen, process, pc, thread, failed>>

\* and the outcome takes the place of the dots.
Report ==
    /\ MainRuns("report")
    /\ message' = "none"
    /\ place' = "elsewhere"
    /\ IF failed THEN phase' = "unwind" /\ UNCHANGED pc ELSE Proceed
    /\ UNCHANGED <<mode, process, active, thread, hidden, failed>>

-----------------------------------------------------------------------------
\* Logger::print writes a message in several pieces, the end of the line last.
Begins == phase' = "print" /\ place' = "elsewhere"

LogDebug ==
    /\ debug
    /\ At("debug")
    /\ Begins
    /\ pc' = pc + 1
    /\ UNCHANGED <<mode, object, process, thread, hidden, failed>>

LogNote ==
    /\ At("note") \/ At("remark")
    /\ Begins
    /\ pc' = pc + 1
    /\ UNCHANGED <<mode, object, process, thread, hidden, failed>>

EndOfLine ==
    /\ MainRuns("print")
    /\ phase' = "run"
    /\ UNCHANGED <<mode, object, screen, process, pc, thread, failed>>

\* The output of the build, the status or the list of images.
WriteOutput ==
    /\ At("write")
    /\ place' = "elsewhere"
    /\ Proceed
    /\ UNCHANGED <<mode, object, process, thread, hidden, failed>>

SkipLog ==
    /\ At("remark") \/ (At("debug") /\ ~debug)
    /\ Proceed
    /\ UNCHANGED <<mode, object, screen, process, thread, failed>>

\* parse_arguments, which may set the priority; --help is an early exit.
ParseArguments ==
    /\ At("parse")
    /\ \/ debug' \in BOOLEAN /\ Proceed /\ UNCHANGED <<hidden, ending>>
       \/ hidden' = FALSE /\ ending' = "exit" /\ UNCHANGED <<debug, pc, phase>>
    /\ UNCHANGED <<object, program, thread, place, failed, signal>>

\* A call of the exchange with queue or builder, or a check of files, returns.
CallReturns ==
    /\ At("call")
    /\ Proceed
    /\ UNCHANGED <<mode, object, screen, process, thread, failed>>

\* Or it throws: the locals of the try block are destroyed.
Throw ==
    /\ At("call") \/ At("parse") \/ At("wait")
    /\ failed' = TRUE
    /\ phase' = "unwind"
    /\ UNCHANGED <<mode, object, screen, process, pc, thread>>

\* The catch block logs the error.
LogError ==
    /\ MainRuns("unwind")
    /\ ~active
    /\ Begins
    /\ pc' = Len(Script[program])
    /\ UNCHANGED <<mode, object, process, thread, hidden, failed>>

\* The begin of main in container-builder.
HideCursor ==
    /\ program \in Hiding
    /\ MainRuns("init")
    /\ hidden' = TRUE
    /\ phase' = "run"
    /\ UNCHANGED <<mode, object, process, pc, thread, place, failed>>

\* Mutant: an error ends the program at once.
ReturnOnError ==
    /\ At("close")
    /\ ending' = "return"
    /\ hidden' = (hidden /\ failed)
    /\ UNCHANGED <<mode, object, main, thread, place, signal>>

\* The end of main: the streams are closed, or that fails, too; the cursor is shown.
Return ==
    /\ At("close")
    /\ ending' = "return"
    /\ hidden' = FALSE
    /\ UNCHANGED <<mode, object, main, thread, place, signal>>

-----------------------------------------------------------------------------
\* SIGINT: in container-builder a handler runs in one of the threads.  It shows
\* the cursor; the other thread goes on until std::exit has ended the process.
Interrupt ==
    /\ program \in Hiding
    /\ signal = "none"
    /\ ending = "not"
    /\ signal' \in {"main"} \cup (IF thread = Idle THEN {} ELSE {"thread"})
    /\ hidden' = FALSE
    /\ place' = "elsewhere"
    /\ UNCHANGED <<mode, object, main, thread, ending>>

Exit ==
    /\ signal # "none"
    /\ ending = "not"
    /\ ending' = "exit"
    /\ UNCHANGED <<mode, object, main, screen, thread, signal>>

\* Any other signal, and SIGINT in the other programs.
Killed ==
    /\ ending = "not"
    /\ ending' = "killed"
    /\ UNCHANGED <<mode, object, main, screen, thread, signal>>

Init ==
    /\ program \in DOMAIN Script
    /\ pc = 1
    /\ phase = IF program \in Hiding THEN "init" ELSE "run"
    /\ debug = FALSE
    /\ message = "none"
    /\ active = FALSE
    /\ thread = Idle
    /\ place = "elsewhere"
    /\ hidden = FALSE
    /\ failed = FALSE
    /\ signal = "none"
    /\ ending = "not"

Main ==
    \/ HideCursor \/ StartAnimation \/ ClearActive \/ JoinThread \/ Report
    \/ LogDebug \/ LogNote \/ SkipLog \/ EndOfLine \/ WriteOutput
    \/ ParseArguments \/ CallReturns \/ Throw \/ LogError \/ Return

Animation == CheckActive \/ DrawFrame

Next == Main \/ Animation \/ Interrupt \/ Exit \/ Killed

Spec == Init /\ [][Next]_terminal

(***************************************************************************)
(* Fairness.  Both threads run, calls end in one way or the other          *)
(* (BuildSession and System tell when they do not), and so does std::exit. *)
(***************************************************************************)
LiveSpec == /\ Spec
            /\ WF_terminal(Main)
            /\ WF_terminal(Animation)
            /\ WF_terminal(Exit)
-----------------------------------------------------------------------------
TerminalTypeOK ==
    /\ program \in DOMAIN Script
    /\ pc \in DOMAIN Script[program]
    /\ phase \in {"init", "run", "join", "report", "print", "unwind"}
    /\ debug \in BOOLEAN
    /\ message \in Messages \cup {"none"}
    /\ active \in BOOLEAN
    /\ thread \in ({"check", "draw"} \X (1..3)) \cup {Idle}
    /\ place \in {"dots", "elsewhere"}
    /\ hidden \in BOOLEAN
    /\ failed \in BOOLEAN
    /\ signal \in {"none", "main", "thread"}
    /\ ending \in {"not", "return", "exit", "killed"}

\* The cursor is visible again after every end but by a signal that nobody
\* handles: whichever call throws, whichever thread SIGINT interrupts, whatever
\* the other thread still does.
CursorRestored == ending \in {"return", "exit"} => ~hidden

\* The animation's thread, which uses the object, does not outlive it: it runs only
\* until the outcome of its message is printed, and there is one at a time.  main
\* does not return while an animation still waits for its outcome.
ThreadWithinAnimation ==
    /\ thread # Idle => message # "none"
    /\ ending = "return" => message = "none" /\ ~active

\* No line of the log is printed, and none broken in two, while dots are drawn;
\* the exception is the note of write_file, in the middle of the transfer.
LogsUndisturbed ==
    phase = "print" /\ thread # Idle => message \in Noisy /\ ~debug /\ ~failed

\* An outcome replaces the dots of its own message: three steps back lead there
\* whatever frame was drawn last, unless that note has come in between.
OutcomeInPlace ==
    phase = "report" /\ ~debug /\ signal = "none" => place = "dots" \/ message \in Noisy

\* The program ends: clearing the flag is enough for the thread to be joined.
ProgramEnds == <>(ending # "not")
=============================================================================
