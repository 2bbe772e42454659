---------------------------- MODULE BuilderQueue ----------------------------
(***************************************************************************)
(* The queue of builder virtual machines: class BuilderQueue together with *)
(* class OpenStack, through which it launches the create and destroy       *)
(* commands.  Both run on the single thread of the daemon's io_context, so *)
(* one action is one completion handler, run to its end.                   *)
(*                                                                         *)
(* An asynchronous command is followed from its launch to the handler the  *)
(* code posts when its output ends.  The read completion that posts the    *)
(* handler changes nothing of the queue, so the two are one action.        *)
(***************************************************************************)
EXTENDS Integers, Sequences, FiniteSets

CONSTANTS
    Handlers,          \* connections, each with at most one checkout handler
    Builders,          \* OpenStack server identifiers
    NoBuilder,         \* boost::none in Connection::builder
    MaxBuilders,       \* max_builder_count
    MaxReserve,        \* max_reserve_builder_count
    SizeModulus,       \* 2^w for std::size_t
    MaxLaunchFailures, \* bound: create commands whose launch fails
    MaxPipeFailures,   \* bound: constructions of OpenStack that throw
    MaxOrphans,        \* bound: VMs left behind by failing commands
    MaxRetries         \* bound: timers armed by create commands that fail

ASSUME NoBuilderAssumption == NoBuilder \notin Builders
ASSUME LimitsAssumption ==
    /\ MaxBuilders \in Nat
    /\ MaxReserve \in Nat
    /\ MaxLaunchFailures \in Nat
    /\ MaxPipeFailures \in Nat
    /\ MaxOrphans \in Nat
    /\ MaxRetries \in Nat
\* std::size_t is wide enough for every count the daemon reaches.
ASSUME WidthAssumption ==
    /\ SizeModulus \in Nat
    /\ SizeModulus > MaxBuilders + MaxReserve + MaxLaunchFailures

VARIABLES
    pending_handlers,         \* list of handlers waiting for a builder
    reserve_builders,         \* list of builders ready to be handed out
    active_builders,          \* builders in use by connections
    outstanding_create_count, \* create requests not yet completed
    leased,                   \* builder posted to a handler, then Connection::builder
    creating,                 \* create commands whose output is being read
    create_errors,            \* error handlers owed by create commands never launched
    create_retries,           \* timers armed for retry_create_reserve_builders
    destroying,               \* progress of the destruction of each builder
    vms,                      \* virtual machines that exist in OpenStack
    launch_failures,          \* create commands that could not be launched
    leaked_creates,           \* creates counted before OpenStack's constructor threw
    daemon                    \* "running", or "terminated" by std::terminate

lists    == <<pending_handlers, reserve_builders, active_builders, leased>>
creates  == <<outstanding_create_count, creating, create_errors,
              launch_failures, leaked_creates>>
vars     == <<lists, creates, create_retries, destroying, vms, daemon>>

Elements(s) == {s[i] : i \in 1..Len(s)}
Distinct(s) == \A i, j \in 1..Len(s) : s[i] = s[j] => i = j

(***************************************************************************)
(* Life of a destroy request: the command runs ("running"); or its launch  *)
(* failed and the error handler is owed ("launch_failed"), after which the *)
(* end of file of the unused pipe still calls the handler a second time,   *)
(* without an error ("eof_owed"); or a timer waits to try again ("retry"); *)
(* or the retry threw and nothing will touch the builder any more          *)
(* ("stranded").                                                           *)
(***************************************************************************)
DestroyStates == {"none", "running", "launch_failed", "eof_owed", "retry", "stranded"}

Leased   == {leased[c] : c \in Handlers} \ {NoBuilder}
Stranded == {b \in Builders : destroying[b] = "stranded"}

\* Virtual machines that no list and no handler of the daemon knows about.
Orphans == {b \in vms : /\ b \notin Elements(reserve_builders)
                        /\ b \notin active_builders
                        /\ destroying[b] = "none"}

\* Builders that were dropped from active_builders while they still exist,
\* or are about to be.
Unlaunched == {b \in Builders : \/ destroying[b] \in {"launch_failed", "eof_owed"}
                                \/ destroying[b] # "none" /\ b \notin active_builders}

\* OpenStack never gives two servers the same identifier.
Fresh(b) == /\ b \notin vms
            /\ b \notin Elements(reserve_builders)
            /\ b \notin active_builders
            /\ b \notin Leased
            /\ destroying[b] = "none"

-----------------------------------------------------------------------------
\* An int converted to std::size_t, or the result of size_t arithmetic.
Wrap(n) == IF n < 0 THEN n + SizeModulus ELSE n

Smaller(m, n) == IF m <= n THEN m ELSE n

\* Mutant: the limit on the total number of builders is forgotten.
RequestCountNoTotal(reserve, active, outstanding) ==
    LET potential_reserve == Wrap(reserve + outstanding)
    IN  IF potential_reserve < MaxReserve THEN MaxReserve - potential_reserve ELSE 0

\* Mutant: the sizes are signed, so that a negative count asks for more.
RequestCountSigned(reserve, active, outstanding) ==
    IF reserve + outstanding < MaxReserve
    THEN Smaller(MaxReserve - (reserve + outstanding),
                 MaxBuilders - (reserve + outstanding + active))
    ELSE 0

\* The number of builders create_reserve_builders asks for.
RequestCount(reserve, active, outstanding) ==
    LET potential_reserve == Wrap(reserve + outstanding)
        potential_total   == potential_reserve + active
    IN  IF potential_reserve < MaxReserve
        THEN Smaller(MaxReserve - potential_reserve,
                     Wrap(MaxBuilders - potential_total))
        ELSE 0

(***************************************************************************)
(* BuilderQueue::create_reserve_builders, given the sizes of the lists and *)
(* the counters as the caller leaves them.  Of the requested creates some  *)
(* are launched and some fail to launch; the constructor of one OpenStack  *)
(* object may throw, after its create was counted, and that ends the loop. *)
(***************************************************************************)
create_reserve_builders(reserve, active, outstanding, commands) ==
    LET request_count == RequestCount(reserve, active, outstanding)
    IN  \E launched, failed \in 0..MaxReserve, thrown \in 0..1 :
          /\ IF thrown = 0 THEN launched + failed = request_count
                           ELSE launched + failed < request_count
          /\ launch_failures + failed <= MaxLaunchFailures
          /\ leaked_creates + thrown + Cardinality(Stranded) <= MaxPipeFailures
          /\ outstanding_create_count' = outstanding + launched + failed + thrown
          /\ creating' = commands + launched
          /\ create_errors' = create_errors + 2 * failed
          /\ launch_failures' = launch_failures + failed
          /\ leaked_creates' = leaked_creates + thrown

\* For mutants: another handler is served, or the lists are not what they should be.
Misserve(pending, reserve, handler, waiting, left, active, outstanding, commands) ==
    IF pending # <<>> /\ reserve # <<>>
    THEN /\ pending_handlers' = waiting /\ reserve_builders' = left /\ active_builders' = active
         /\ leased' = [leased EXCEPT ![handler] = Head(reserve)]
         /\ create_reserve_builders(Len(left), Cardinality(active), outstanding, commands)
    ELSE /\ pending_handlers' = pending /\ reserve_builders' = reserve
         /\ outstanding_create_count' = outstanding /\ creating' = commands
         /\ UNCHANGED <<active_builders, leased, create_errors, launch_failures, leaked_creates>>

\* Mutant: the builder is not removed from the reserve.
ProcessWithoutPop(pending, reserve, outstanding, commands) ==
    Misserve(pending, reserve, Head(pending), Tail(pending), reserve,
             active_builders \cup {Head(reserve)}, outstanding, commands)

\* Mutant: the builder is not added to the active builders.
ProcessWithoutActive(pending, reserve, outstanding, commands) ==
    Misserve(pending, reserve, Head(pending), Tail(pending), Tail(reserve),
             active_builders, outstanding, commands)

\* Mutant: the newest handler is served first.
ProcessNewestFirst(pending, reserve, outstanding, commands) ==
    Misserve(pending, reserve, pending[Len(pending)], SubSeq(pending, 1, Len(pending) - 1),
             Tail(reserve), active_builders \cup {Head(reserve)}, outstanding, commands)

\* BuilderQueue::process_pending_handler, given the two lists and the counters
\* as the caller leaves them.  It serves one handler, not all of them.
process_pending_handler(pending, reserve, outstanding, commands) ==
    IF pending # <<>> /\ reserve # <<>>
    THEN /\ pending_handlers' = Tail(pending)
         /\ reserve_builders' = Tail(reserve)
         /\ active_builders' = active_builders \cup {Head(reserve)}
         /\ leased' = [leased EXCEPT ![Head(pending)] = Head(reserve)]
         /\ create_reserve_builders(Len(reserve) - 1, Cardinality(active_builders) + 1,
                                    outstanding, commands)
    ELSE /\ pending_handlers' = pending
         /\ reserve_builders' = reserve
         /\ outstanding_create_count' = outstanding
         /\ creating' = commands
         /\ UNCHANGED <<active_builders, leased, create_errors,
                        launch_failures, leaked_creates>>

-----------------------------------------------------------------------------
(***************************************************************************)
(* The actions.                                                            *)
(***************************************************************************)
\* Mutant: the handler is queued, but the queue is not processed.
CheckoutOnlyQueues(c) ==
    /\ daemon = "running"
    /\ c \notin Elements(pending_handlers)
    /\ leased[c] = NoBuilder
    /\ pending_handlers' = Append(pending_handlers, c)
    /\ UNCHANGED <<reserve_builders, active_builders, leased, creates,
                   create_retries, destroying, vms, daemon>>

\* A connection asks for a builder.
checkout_builder(c) ==
    /\ daemon = "running"
    /\ c \notin Elements(pending_handlers)
    /\ leased[c] = NoBuilder
    /\ process_pending_handler(Append(pending_handlers, c), reserve_builders,
                               outstanding_create_count, creating)
    /\ UNCHANGED <<create_retries, destroying, vms, daemon>>

\* A create command ends and its output describes builder b.
CreateSucceeds(b) ==
    /\ daemon = "running"
    /\ creating > 0
    /\ Fresh(b)
    /\ vms' = vms \cup {b}
    /\ process_pending_handler(pending_handlers, Append(reserve_builders, b),
                               outstanding_create_count - 1, creating - 1)
    /\ UNCHANGED <<create_retries, destroying, daemon>>

\* Mutant: the error handler runs twice for one command.
CreateFailsTwice ==
    /\ daemon = "running"
    /\ creating > 0
    /\ create_retries < MaxRetries
    /\ creating' = creating - 2
    /\ outstanding_create_count' = outstanding_create_count - 2
    /\ create_retries' = create_retries + 2
    /\ UNCHANGED <<lists, create_errors, launch_failures, leaked_creates,
                   destroying, vms, daemon>>

\* Mutant: a failed create stays outstanding.
CreateFailsUncounted ==
    /\ daemon = "running"
    /\ creating > 0
    /\ create_retries < MaxRetries
    /\ creating' = creating - 1
    /\ create_retries' = create_retries + 1
    /\ UNCHANGED <<lists, outstanding_create_count, create_errors, launch_failures,
                   leaked_creates, destroying, vms, daemon>>

\* Mutant: no timer is armed.
CreateFailsWithoutRetry ==
    /\ daemon = "running"
    /\ creating > 0
    /\ creating' = creating - 1
    /\ outstanding_create_count' = outstanding_create_count - 1
    /\ UNCHANGED <<lists, create_errors, launch_failures, leaked_creates,
                   create_retries, destroying, vms, daemon>>

\* A create command ends with an output that is not the description of a
\* builder, or its output cannot be read.  The VM may exist all the same.
CreateFails ==
    /\ daemon = "running"
    /\ creating > 0
    /\ create_retries < MaxRetries
    /\ creating' = creating - 1
    /\ outstanding_create_count' = outstanding_create_count - 1
    /\ create_retries' = create_retries + 1
    /\ \/ vms' = vms
       \/ /\ Cardinality(Orphans) < MaxOrphans
          /\ \E b \in Builders : Fresh(b) /\ vms' = vms \cup {b}
    /\ UNCHANGED <<lists, create_errors, launch_failures, leaked_creates,
                   destroying, daemon>>

\* One of the two error handlers of a create command that was never launched:
\* the launch error, then the parse error of the empty output.
CreateLaunchError ==
    /\ daemon = "running"
    /\ create_errors > 0
    /\ create_errors' = create_errors - 1
    /\ outstanding_create_count' = outstanding_create_count - 1
    /\ create_retries' = create_retries + 1
    /\ UNCHANGED <<lists, creating, launch_failures, leaked_creates,
                   destroying, vms, daemon>>

\* The five second timer of a failed create expires.
retry_create_reserve_builders ==
    /\ daemon = "running"
    /\ create_retries > 0
    /\ create_retries' = create_retries - 1
    /\ create_reserve_builders(Len(reserve_builders), Cardinality(active_builders),
                               outstanding_create_count, creating)
    /\ UNCHANGED <<lists, destroying, vms, daemon>>

\* BuilderQueue::return_builder when OpenStack's constructor does not throw.
return_builder(b) ==
    \/ destroying' = [destroying EXCEPT ![b] = "running"]
    \/ /\ Cardinality(Unlaunched \cup {b}) <= MaxOrphans
       /\ destroying' = [destroying EXCEPT ![b] = "launch_failed"]

\* BuilderQueue::return_builder when it does: no command, no timer.
ReturnThrows(b) ==
    /\ leaked_creates + Cardinality(Stranded) < MaxPipeFailures
    /\ destroying' = [destroying EXCEPT ![b] = "stranded"]

\* ~Connection returns the connection's builder.  Destructors are noexcept:
\* an exception out of return_builder ends the daemon.
ReturnBuilder(c) ==
    /\ daemon = "running"
    /\ leased[c] # NoBuilder
    /\ leased' = [leased EXCEPT ![c] = NoBuilder]
    /\ \/ return_builder(leased[c]) /\ UNCHANGED daemon
       \/ ReturnThrows(leased[c]) /\ daemon' = "terminated"
    /\ UNCHANGED <<pending_handlers, reserve_builders, active_builders, creates,
                   create_retries, vms>>

\* Mutant: the builder stays in active_builders.
RemoveNothing(b) ==
    /\ create_reserve_builders(Len(reserve_builders), Cardinality(active_builders),
                               outstanding_create_count, creating)
    /\ UNCHANGED active_builders

\* The handler of destroy runs without an error.
RemoveActive(b) ==
    /\ active_builders' = active_builders \ {b}
    /\ create_reserve_builders(Len(reserve_builders), Cardinality(active_builders \ {b}),
                               outstanding_create_count, creating)

\* A destroy command ends.  Its exit code is logged and otherwise ignored, so
\* the VM may still be there.
DestroyEnds(b) ==
    /\ daemon = "running"
    /\ destroying[b] = "running"
    /\ destroying' = [destroying EXCEPT ![b] = "none"]
    /\ \/ vms' = vms \ {b}
       \/ b \in vms /\ Cardinality(Orphans) < MaxOrphans /\ vms' = vms
    /\ RemoveActive(b)
    /\ UNCHANGED <<pending_handlers, reserve_builders, leased, create_retries, daemon>>

\* Reading the output of a destroy command fails otherwise than by its end.
DestroyReadError(b) ==
    /\ daemon = "running"
    /\ destroying[b] = "running"
    /\ destroying' = [destroying EXCEPT ![b] = "retry"]
    /\ vms' \in {vms, vms \ {b}}
    /\ UNCHANGED <<lists, creates, create_retries, daemon>>

\* The error handler of a destroy command that was never launched.
DestroyLaunchError(b) ==
    /\ daemon = "running"
    /\ destroying[b] = "launch_failed"
    /\ destroying' = [destroying EXCEPT ![b] = "eof_owed"]
    /\ UNCHANGED <<lists, creates, create_retries, vms, daemon>>

\* The end of file of its pipe, reported as success; the timer stays armed.
DestroyFalseSuccess(b) ==
    /\ daemon = "running"
    /\ destroying[b] = "eof_owed"
    /\ destroying' = [destroying EXCEPT ![b] = "retry"]
    /\ RemoveActive(b)
    /\ UNCHANGED <<pending_handlers, reserve_builders, leased, create_retries,
                   vms, daemon>>

\* Mutant: the timer is armed again and the builder is not returned.
RetryOnlyRearms(b) ==
    /\ daemon = "running"
    /\ destroying[b] = "retry"
    /\ UNCHANGED vars

\* Mutant: the timer is armed before the constructor can throw.
RetryArmedFirst(b) ==
    /\ daemon = "running"
    /\ destroying[b] \in {"retry", "stranded"}
    /\ return_builder(b) \/ ReturnThrows(b)
    /\ UNCHANGED <<lists, creates, create_retries, vms, daemon>>

\* The five second timer of a failed destroy expires.  An exception leaves
\* through the timer's handler to main, which runs the io_context again.
retry_return_builder(b) ==
    /\ daemon = "running"
    /\ destroying[b] = "retry"
    /\ return_builder(b) \/ ReturnThrows(b)
    /\ UNCHANGED <<lists, creates, create_retries, vms, daemon>>

-----------------------------------------------------------------------------
\* The constructor of BuilderQueue has run; had it thrown, main would have ended.
Init ==
    /\ pending_handlers = <<>>
    /\ reserve_builders = <<>>
    /\ active_builders = {}
    /\ leased = [c \in Handlers |-> NoBuilder]
    /\ \E launched, failed \in 0..MaxReserve :
         /\ launched + failed = RequestCount(0, 0, 0)
         /\ failed <= MaxLaunchFailures
         /\ outstanding_create_count = launched + failed
         /\ creating = launched
         /\ create_errors = 2 * failed
         /\ launch_failures = failed
    /\ leaked_creates = 0
    /\ create_retries = 0
    /\ destroying = [b \in Builders |-> "none"]
    /\ vms = {}
    /\ daemon = "running"

Next ==
    \/ \E c \in Handlers : checkout_builder(c) \/ ReturnBuilder(c)
    \/ \E b \in Builders : \/ CreateSucceeds(b)
                           \/ DestroyEnds(b)
                           \/ DestroyReadError(b)
                           \/ DestroyLaunchError(b)
                           \/ DestroyFalseSuccess(b)
                           \/ retry_return_builder(b)
    \/ CreateFails
    \/ CreateLaunchError
    \/ retry_create_reserve_builders

Spec == Init /\ [][Next]_vars

(***************************************************************************)
(* Fairness.  The io_context runs every handler that is ready and every    *)
(* timer that expires: weak fairness.  Commands end, and OpenStack does    *)
(* not fail for ever: strong fairness of the successful outcome.  A client *)
(* that got a builder ends or is found dead by the keepalive probes.       *)
(***************************************************************************)
Fairness ==
    /\ WF_vars(CreateLaunchError)
    /\ WF_vars(retry_create_reserve_builders)
    /\ SF_vars(\E b \in Builders : CreateSucceeds(b))
    /\ \A c \in Handlers : WF_vars(ReturnBuilder(c))
    /\ \A b \in Builders : /\ SF_vars(DestroyEnds(b))
                           /\ WF_vars(DestroyLaunchError(b))
                           /\ WF_vars(DestroyFalseSuccess(b))
                           /\ WF_vars(retry_return_builder(b))

LiveSpec == Spec /\ Fairness

-----------------------------------------------------------------------------
(***************************************************************************)
(* Properties.                                                             *)
(***************************************************************************)
TypeOK ==
    /\ pending_handlers \in Seq(Handlers)
    /\ reserve_builders \in Seq(Builders)
    /\ active_builders \in SUBSET Builders
    /\ outstanding_create_count \in Int
    /\ leased \in [Handlers -> Builders \cup {NoBuilder}]
    /\ creating \in Nat
    /\ create_errors \in Nat
    /\ create_retries \in Nat
    /\ destroying \in [Builders -> DestroyStates]
    /\ vms \in SUBSET Builders
    /\ launch_failures \in 0..MaxLaunchFailures
    /\ leaked_creates \in Nat
    /\ daemon \in {"running", "terminated"}

\* A builder is in one place: in reserve, with one client, or being destroyed.
\* The lists of BuilderQueue and Connection::builder hold copies of the same
\* BuilderData, so nothing in the code but the order of the handlers keeps two
\* clients from building on the same machine.
Exclusive ==
    /\ Distinct(reserve_builders)
    /\ \A c, d \in Handlers :
         leased[c] # NoBuilder /\ leased[c] = leased[d] => c = d
    /\ \A b \in Elements(reserve_builders) :
         b \notin active_builders /\ b \notin Leased /\ destroying[b] = "none"
    /\ \A b \in Leased : destroying[b] = "none"

\* What is handed out, or is about to be, exists, and counts as active for as
\* long as its client has it: no destroy request that raced with a retry or
\* reported its end twice takes a machine away from a client.
HandedOutAlive ==
    /\ Elements(reserve_builders) \subseteq vms
    /\ Leased \subseteq vms \cap active_builders

\* Nobody waits while a builder is idle, although process_pending_handler
\* serves one handler at each call and is not called by every handler.
NoIdleBuilder == pending_handlers # <<>> => reserve_builders = <<>>

\* The queue never plans beyond its limits: create_reserve_builders' unsigned
\* subtraction max_builder_count - potential_total_count never wraps around.
PlannedWithinLimits ==
    /\ Len(reserve_builders) + outstanding_create_count <= MaxReserve
    /\ Len(reserve_builders) + Cardinality(active_builders)
         + outstanding_create_count <= MaxBuilders

\* outstanding_create_count counts the creates under way, except that each
\* launch failure takes one too many off it and each throw leaves one in it.
OutstandingAccounted ==
    outstanding_create_count =
        creating + create_errors - launch_failures + leaked_creates

\* The reserve is full or is being filled as far as the limits allow, or a timer
\* will try again, unless the count was driven below zero by launch failures.
\* Whoever changes a list or a counter has to leave this behind.
Replenished ==
    leaked_creates = 0 =>
      \/ Len(reserve_builders) + outstanding_create_count = MaxReserve
      \/ Len(reserve_builders) + Cardinality(active_builders)
           + outstanding_create_count = MaxBuilders
      \/ create_retries + create_errors > 0
      \/ Len(reserve_builders) + outstanding_create_count < 0

\* Every slot in active_builders belongs to a client, or to a destroy request
\* that will report or be tried again; the exception is one that threw.
SlotsRecoverable ==
    \A b \in active_builders :
      b \in Leased \/ destroying[b] \in DestroyStates \ {"none"}

\* Once the count is so far below zero that its sum with the size of the reserve
\* wraps around, the queue never again requests a builder.
Wedged == Len(reserve_builders) + outstanding_create_count < 0
WedgedForever == [][Wedged => Wedged' /\ creating' <= creating]_vars

\* What the queue has lost stays lost while it runs: a machine whose create was taken
\* for a failure, or whose destroy for a success, is never destroyed nor handed out;
\* a builder whose return threw is never returned again, and keeps its slot if it had
\* one (OpenStack.h:88, BuilderQueue.h:57).
LostForever ==
    [][/\ Orphans \subseteq Orphans'
       /\ \A b \in Stranded : /\ b \in Stranded'
                             /\ b \in active_builders <=> b \in active_builders']_vars

\* A client that waits for a builder gets one, whatever creates and destroys
\* fail, as long as the launch of a command and the creation of a pipe do not.
EveryHandlerServed ==
    \A c \in Handlers : c \in Elements(pending_handlers) ~> leased[c] # NoBuilder

\* The slot of a builder that was given back is free again in the end.
EverySlotFreed ==
    \A b \in Builders : destroying[b] # "none" ~> b \notin active_builders

\* The queue keeps the promise of BuilderPool.
Pool == INSTANCE BuilderPool WITH
          Clients  <- Handlers,
          Machines <- Builders,
          None     <- NoBuilder,
          waiting  <- pending_handlers,
          stock    <- Elements(reserve_builders),
          grant    <- leased,
          retired  <- {b \in Builders : destroying[b] # "none"}
PoolSpec == Pool!Spec

-----------------------------------------------------------------------------
(***************************************************************************)
(* What the comments of the code say, and the code does not do.            *)
(***************************************************************************)
\* "Maximum number of active and reserve builders" (BuilderQueue.h:78).  One create
\* command that cannot be launched is enough: its handler is called twice, and later
\* creates are planned from a count that is one too low.
DocumentedLimit ==
    Len(reserve_builders) + Cardinality(active_builders) <= MaxBuilders

\* "If the builder couldn't be destroyed the handlers error_code will be set"
\* (OpenStack.h:111): success, which frees the slot, means the VM is gone.
FreedOnlyWhenDestroyed ==
    [][\A b \in active_builders : b \in active_builders' \/ b \notin vms']_vars

\* "Create reserve builders as needed" (BuilderQueue.h:51): a client that waits
\* for a builder brings about a create command.
CreatesAsNeeded == pending_handlers # <<>> ~> creating > 0 \/ pending_handlers = <<>>

\* "Keep running even in the event of an exception" (main.cpp:13).
KeepsRunning == daemon = "running"
=============================================================================
