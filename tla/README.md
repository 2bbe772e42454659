# container-builder: a TLA+ model of the build queue, the build session and the clients

container-builder builds container images on ephemeral virtual machines. A
*client* asks the *builder queue* for a machine, connects to the *builder
server* on it, sends its build context, watches the build, receives the image
and disconnects, after which the queue destroys the machine. This directory
holds TLA+ modules that model these programs from their source, the TLC
instances that check them and the theorems that TLAPS proves about them.
`PROJECT.json` says for every definition which lines of the source it stands
for. Line numbers below refer to the files under `src/`.

## 1. Inventory

### Builder queue daemon (`BuilderQueue/`)

One process, one thread: a single `io_context` runs every completion handler,
every posted handler and every timer, and `main.cpp:13-25` runs it again after
an exception. So handlers are atomic; what interleaves is their order.

| part | state | operations | how it meets the others |
|---|---|---|---|
| `BuilderQueue` | `pending_handlers`, `reserve_builders`, `active_builders`, `outstanding_create_count`, two limits | `checkout_builder`, `return_builder`, `process_pending_handler`, `create_reserve_builders`, two `retry_` wrappers, `status_json` | called by `Connection`; posts handlers to it; launches `OpenStack` commands; is called back by them |
| `OpenStack` | one child process, its pipe | `request_create`, `destroy` | reads the output to its end, then posts the handler; posts it a second time if the launch failed |
| `Connection` | WebSocket stream, `builder` | `start`, `read_request_string`, `request_builder`, `request_queue_stats`, `request_image_list`, `builder_ready`, `wait_for_close`, `~Connection` | shared by whatever handler still holds it; its destructor calls `return_builder` |
| `Server` | acceptor | `accept_connection` | makes connections |
| `Docker` | one child process | `request_image_list` | calls back into `Connection` |
| scripts | – | create, destroy, list images | the OpenStack service and Docker registry behind them are external |

What is hard: the count of creates is an `int` kept by callbacks that may come
twice or never, and is added to `size_t` sizes; commands fail in five ways
(launch, output, parse, exit code, constructor); five-second timers retry;
clients vanish while they wait; destructors run I/O that can throw. Correct
means: a builder belongs to one client at a time and exists; nobody waits
beside an idle builder; limits hold; every builder comes back and every slot
is freed; who waits is served.

### Build session (`Client/src/main.cpp`, `Builder/src/main.cpp`)

Two single-threaded programs of blocking calls around one WebSocket stream.
Messages carry no type; position decides what they mean. Client state: the call
it is in, what it told its user, the container file, its two connections.
Builder state: the call it is in, the context file, the build, its exit code.
What is hard: both must agree whose turn it is; either may fail, be killed or
vanish at any point; data may be altered; the order in which the client leaves
builder and queue decides whether the machine is destroyed under it. Correct
means: "Completed" is only said of the whole image of a successful build from
the whole context; nobody waits for ever; the machine outlives its use.

### The system as a whole

A client is told an address by the queue and never looks at the queue again
until it ends; its open connection is all that tells the queue that a machine
is in use. The daemon keeps its lists in memory and is not restarted
(`Deployment/provision-queue.sh:71`). What is hard: the connection may be lost
while the client lives; the daemon may crash while clients build; OpenStack
reuses addresses; a builder-server takes one client and exits. Correct means: a
connected client's machine stays and is its own; no machine is handed out
twice; what a crashed daemon leaves behind is never destroyed under a build.

### The client programs at the terminal

`container-builder`, `cb-status` and `cb-images` (`Client/src/main.cpp`,
`status.cpp`, `images.cpp`) wait with a `WaitingAnimation`, whose thread writes
dots to `std::cout` and reads a flag of an object on the main thread's stack;
the main thread logs and prints meanwhile, exceptions unwind, and SIGINT is
handled in whichever thread it meets. Correct means: the thread ends before its
object, log lines are not torn, outcomes replace the dots they belong to, and
the cursor that `main.cpp` hides comes back.

### Other parts

`Common/`: plain data and serialization. `Deployment/`, CI and the backend
scripts: straight-line shell, of which the outcomes matter here.
`PROJECT.json` lists each with its status.

## 2. Modules

| module | models | used by |
|---|---|---|
| `BuilderPool` | abstract: what the queue promises its clients | `BuilderQueue` (refinement) |
| `BuilderQueue` | `BuilderQueue` + `OpenStack` | `QueueDaemon`, `MCBuilderQueue` |
| `QueueDaemon` | `Server` + `Connection` + `Docker`, over `BuilderQueue` | `MCQueueDaemon` |
| `Stream` | Boost.Beast/TCP as client and builder see it (external) | `BuildSession` |
| `Lease` | abstract: what a client and the queue owe each other | `BuildSession`, `System` (refinement) |
| `BuildSession` | client and builder server | `MCBuildSession` |
| `System` | `QueueDaemon` with its clients and machines, across crashes | `MCSystem` |
| `Terminal` | the three client mains, `WaitingAnimation`, `Logger` | `MCTerminal` |
| `…Proofs` | theorems: `BuilderQueueProofs`, `QueueDaemonProofs`, `BuildSessionProofs`, `DeliveryProofs`, `FaultFreeProofs`, `SessionEndProofs`, `SystemProofs`, `TerminalProofs` | – |

### `BuilderQueue`

One action is one handler run to its end, with every call it makes. The
variables `pending_handlers`, `reserve_builders`, `active_builders` and
`outstanding_create_count` are the members of the class. `leased[c]` is the
builder posted to connection `c` (`BuilderQueue.cpp:73`) and then kept in
`Connection::builder`. Commands in flight are counted by kind: `creating`
(launched), `create_errors` (handlers owed by commands never launched, two
each), `create_retries` (armed timers). `destroying[b]` follows one destroy.
`vms` is what exists in OpenStack.

| action | code |
|---|---|
| `checkout_builder` | `BuilderQueue.h:39-43` with `process_pending_handler` |
| `CreateSucceeds`, `CreateFails` | the handler at `BuilderQueue.cpp:103-116`, after the output read at `OpenStack.h:45-93` |
| `CreateLaunchError` | the same handler, once for the launch error (`OpenStack.h:36-41`) and once for the empty output |
| `retry_create_reserve_builders`, `retry_return_builder` | the timers |
| `ReturnBuilder` | `~Connection`: `return_builder`, or its exception, which terminates |
| `DestroyEnds` | end of output: success whatever the exit code |
| `DestroyReadError`, `DestroyLaunchError`, `DestroyFalseSuccess` | the other ways the destroy handler is called |

`create_reserve_builders` is one operator; how many launches succeed, fail or
throw is its nondeterminism. The unsigned arithmetic of lines 85-94 is modelled
by `Wrap` with modulus `SizeModulus`. The read completion and the handler it
posts are one action: nothing of the queue changes between them.

### `QueueDaemon`

Extends `BuilderQueue` with the state of every connection object (`conn`), its
`builder`, and the client's end of the socket (`peer`: open, closed, or dead
without a word). `EndConnection` is the destructor: it is reached whenever the
last handler that holds the connection completes without passing it on.
Clients connect again: a connection index is reused after its object is gone.
The image list handler runs twice when its command cannot be launched
(`Docker.h:30-38`), and each call starts a write: `listing_twice`, `answering`
and `replying_twice` are the calls and writes still owed, which may overlap. The
connection outlives them all; what two overlapping writes do to the bytes is
abstracted away.

### `Stream` and `BuildSession`

Frames carry data and a final flag. `Stream` has the outcomes of a connection's
end that the programs tell apart: an orderly end after which sent frames are
still read, a reset that throws them away, a write that succeeds into the void,
and a machine that vanishes silently. In `BuildSession` the program counters are
named for the calls; a file is the sequence of its chunks and a checksum is as
good as the file (CRC collisions are ignored). Undefined behaviour is a choice:
the checksum is written from a destroyed string (`Client/src/main.cpp:121`,
`Builder/src/main.cpp:182`), so what is sent is the checksum or garbage. The
client's `stream_build` ignores read errors: in the middle of a message no
action of the client is enabled, which is what a spinning loop looks like. A machine
that is ACTIVE but does not listen yet (`create-builder.sh:12-21`) refuses the
client's only attempt to connect (`Client/src/main.cpp:370-373`): `ClientError` in
`connect_builder` while the builder is `booting`, which needs no failure. A queue
that is lost has ended the connection or fallen silent; a client that waits for the
silent one's answer waits for ever.

### `Lease`

The lease is the seam between a session and the daemon. `BuildSession` knows one
client in detail and makes assumptions of the queue; `System` knows the daemon
in detail and makes assumptions of its clients. Both are shown to implement
`Lease`, a client's life of seven steps (`Ask`, `Lend`, `Use`, `Finish`, `Leave`,
`Lose`, `Recall`): that a machine is recalled only from a client that is away or
has lost its tie is what each side relies on. The refinement mappings are
`ClientLease` and `LeaseOf(c)`.

### `System`

Extends `QueueDaemon`. A daemon step of connection `c` is `Handle(c)`, a command's
is `RunCommands`; `get_builder` reads what `builder_ready` wrote; `CallBuilder`
connects to what stands at the address, and `used` are the machines whose server
has accepted a client. `LoseConnection` resets or silences a connection whose
client lives; `Crash` ends the daemon and keeps the world; `Restart` starts
another one with empty lists (`Afresh`) on the machines that are there, after the
commands of the first have done what they did. A build is one state here: what
happens inside is `BuildSession`. It ends or hangs (`BuildHangs`), as
`ClientEndsOrStuck` says of a session: a client that spins in `stream_build` or
waits in a read holds its machine until it is interrupted or its host dies.

### `Terminal`

A program is a script: the calls, messages and waits of a `main` in order
(`MCTerminal` has the three scripts; `ScriptAssumption` is the discipline they
keep: one wait at a time, each one stopped, nothing printed inside but in the waits
named in `Noisy`). The actions are what one thread does between two points where
the other can be seen: the constructor, the flag, the join and the report of
`WaitingAnimation.h`, the thread's look at the flag and its frame, the pieces of
a log line, a call that throws, the catch block, the end of `main`, the signal
and `std::exit`. `place` is where the cursor is, behind the dots or elsewhere.

## 3. Runs

| run | asks | bounds | states |
|---|---|---|---|
| `queue` | safety of the queue; it implements `BuilderPool` | 3 connections, 4 identifiers, limits 3/2, 2 launch failures, 1 throw, 1 orphan, 1 timer of a failed create | 588 970 |
| `queue_live` | waiting handlers are served; slots are freed | 2, 3, limits 2/1, no launch failure or throw | 19 410 |
| `daemon` | connections neither lose builders nor lose them to others; the daemon implements `BuilderQueue` | 3, 3, limits 2/1, 1 throw | 291 424 |
| `session` | delivery, agreement, order of leaving, both end; the client implements `Lease` | 3 + 3 chunks, 2 pieces of output, 2 frames per buffer, 3 faults, 1 garbled checksum | 40 744 |
| `system` | machines stay with their clients and are used once, everybody ends unless a build hangs, across a crash or a lost connection; every client implements `Lease` | 2 clients, 2 addresses, limits 1/1, 1 fault | 136 741 |
| `terminal` | the two threads and the signal leave the terminal in order; the programs end | the three scripts | 2 879 |

Why these bounds suffice. Three connections give one that has a builder, one
that waits and one that comes in between; a limit above the reserve lets the
two limits bind separately; two launch failures drive the count far enough
below zero for it to wrap around with builders in reserve; one orphan is enough
for "exists but unknown". Three chunks are a first, a middle and a last; a
buffer of two frames blocks writers; three faults are, for instance, an altered
chunk, a lost queue and a client that is killed. In `system` two clients compete
for one machine whose address returns; one crash with a restart, or one lost
connection, is the smallest history in which a client outlives what the daemon
knows of it. Whatever the bounds hide in the safety properties, section 4 proves
without them. Identifiers are reused when nothing refers to them, so that runs
are not limited to as many builders as there are identifiers. Connections and
identifiers are interchangeable, and symmetry is used in runs without liveness.
`SizeModulus` only has to exceed what the counts reach (`WidthAssumption`).
`CHECK_DEADLOCK FALSE` stands where the program really may stop: the daemon by
`std::terminate` or once it is wedged with every client waiting, a session or a
program when it is over.

The properties, by what they are about:

* a builder is in one place (`Exclusive`), exists while handed out
  (`HandedOutAlive`), is leased only to an existing connection that will return
  it (`LeaseHasOwner`) and never taken from a connected client
  (`ConnectedKeepsBuilder`);
* nobody waits beside an idle builder (`NoIdleBuilder`), waiting connections
  are exactly the queued ones (`PendingIsQueued`), they are served
  (`EveryHandlerServed`) in order (`PoolSpec`);
* plans stay within limits (`PlannedWithinLimits`), the count is off by exactly
  the launch failures and throws (`OutstandingAccounted`), the reserve is always
  being refilled (`Replenished`) unless the count went below zero, after which
  nothing is ever created again (`WedgedForever`);
* slots and connections are not lost (`SlotsRecoverable`, `EverySlotFreed`,
  `EveryConnectionEnds`), and what the code does lose, machines it does not know of
  and builders whose return threw, is never touched again (`LostForever`);
* a session delivers what it says (`DeliveredIntact`, `FaultFreeSucceeds`,
  `OldImageSurvives`), does not deadlock (`NoMutualWait`), keeps its machine
  (`BuilderOutlivesUse`, `LeaseSpec`) and ends (`BuilderEnds`,
  `ClientEndsOrStuck`);
* in the whole system a connected client keeps its machine (`KeepsItsMachine`,
  `LeasesKept`), a machine serves one client (`HandedOutUnused`), what a daemon
  has lost track of is left alone for ever (`ForgottenForever`), and clients leave
  unless their build hangs, a lost connection makes them wait, or clients that hang
  have all the builders (`ClientLeavesOrStuck`);
* the animation's thread stays within its object's life
  (`ThreadWithinAnimation`), lines and outcomes are where they belong
  (`LogsUndisturbed`, `OutcomeInPlace`), the cursor is visible in the end
  (`CursorRestored`) and the program ends (`ProgramEnds`).

Some of them state an exception that the code makes necessary: `HandedOutUnused`
holds only while no client has lost its connection to the queue (one that lost it
may still connect to the address it was told, when a machine that is kept for
another client stands there); `BuilderEnds` excepts a builder that floods a client
that stays to read (`Builder/src/main.cpp:127`); `LogsUndisturbed` and
`OutcomeInPlace` except the wait in the middle of which `write_file` logs
(`Client/src/main.cpp:123`); `FaultFreeSucceeds` excepts the refusal by a machine
that does not listen yet; `Replenished` excepts creates whose constructor threw and
`SlotsRecoverable` builders whose return threw; `EveryConnectionEnds` and
`ClientLeavesOrStuck` except a client that hangs, and one that waits for a builder
while clients that hang have them all (`Blocked`): the queue sees only that those
are connected. `OldImageSurvives` ends with the exit code: a transfer that fails
after it has destroyed the old image, as the code does.

### What the code says and does not do

Six runs check one documented statement each, and find it violated.

| run | statement | what happens |
|---|---|---|
| `queue_limit` | `BuilderQueue.h:78` "Maximum number of active and reserve builders" | a create command that cannot be launched (`OpenStack.h:36-51`) has its handler called twice; later creates are planned from a count that is one too low |
| `queue_destroy` | `OpenStack.h:111` "If the builder couldn't be destroyed the handlers error_code will be set" | the exit code is only logged; the slot is freed while the machine runs |
| `queue_running` | `main.cpp:13` "Keep running even in the event of an exception" | `return_builder` throws inside the noexcept `~Connection` |
| `queue_wedge` | `BuilderQueue.h:51` "Create reserve builders as needed" | the count below zero wraps around and the reserve looks full for ever |
| `session_hang` | `Client/src/main.cpp:406` "Attempt to disconnect from builder and queue" | `stream_build` spins after the connection broke inside the output |
| `session_checksum` | `Builder/src/main.cpp:181` "Send the checksum to the client" | the buffer dangles; an intact file is rejected |

### Fairness

`BuilderQueue`: the `io_context` runs every ready handler and expired timer
(weak fairness). Commands end, and OpenStack does not fail for ever: strong
fairness of `CreateSucceeds` and `DestroyEnds`, which failing attempts disable
again and again. Clients give builders back: weak fairness of `ReturnBuilder`. In
`system` that follows from how connections end (`EveryConnectionEnds`), but for
clients that hang, so what `queue_live` shows is for queues whose clients do not.
`BuildSession` (`SessionLiveSpec`): each program takes the step it can take, a
build ends, the queue answers and destroys (shown by `queue_live` and `system`),
TCP gives up on a vanished machine that owes an acknowledgement. `System`
(`SystemFairness`): the fairness of the daemon's handlers and commands as above,
with keepalive turning a dead peer into an error (`Connection.cpp:8-28`), and
clients act as long as they can. A build ends or hangs, which it may do at any
time and nothing has to end: `stream_build` may spin and its reads have no timeout
(`Client/src/main.cpp:223-232`). Nobody has to restart the daemon, and nothing makes
a client end that waits for ever. `Terminal` (`LiveSpec`): both threads run,
calls return or throw, and `std::exit` ends. No fairness is assumed of failures,
signals, or a cut connection.

## 4. Proofs

TLAPS proves every safety property and every refinement of the passing runs, for
every value of the constants: every set of connections and builders, all limits
and bounds, every width of `size_t`, files, buffers and outputs of every size,
every number of faults, every script. The assumptions are the named ones
(`NoBuilderAssumption`, `LimitsAssumption`, `WidthAssumption`,
`CapacityAssumption`, `SessionAssumption`, `FaultsAssumption`,
`ScriptAssumption`), which TLC evaluates in the runs.

| module | theorem | property |
|---|---|---|
| `BuilderQueueProofs` | `TypeCorrect` | `TypeOK` |
| | `LimitsKept`, `CountAccounted`, `WedgeIsPermanent`, `LostStays` | `PlannedWithinLimits`, `OutstandingAccounted`, `WedgedForever`, `LostForever` |
| | `BuildersExclusive`, `BuildersAlive`, `SlotsNotLost` | `Exclusive`, `HandedOutAlive`, `SlotsRecoverable` |
| | `NobodyWaitsInVain`, `ReserveReplenished` | `NoIdleBuilder`, `Replenished` |
| | `QueueImplementsPool` | `PoolSpec` |
| | `ExcessIsLaunchFailures`, `LimitWithoutLaunchFailures`, `WedgeIsLaunchFailures`, `EndIsThrow` | causes, see below |
| | `RequestCountDefined`, `ServedInOrder`, `NobodyWaitsForNothing` | see below |
| `QueueDaemonProofs` | `DaemonTypeCorrect`, `DaemonRefinesQueue` | `DaemonTypeOK`, `QueueSpec` |
| | `LeasesOwned`, `WaitingIsQueued`, `ConnectedKeeps` | `LeaseHasOwner`, `PendingIsQueued`, `ConnectedKeepsBuilder` |
| `BuildSessionProofs` | `SessionTypes`, `BuilderOutlives`, `SessionLease` | `SessionTypeOK`, `BuilderOutlivesUse`, `LeaseSpec` |
| `DeliveryProofs` | `Delivered`, `OldImageKept`, `NeverBothWaiting` | `DeliveredIntact`, `OldImageSurvives`, `NoMutualWait` |
| | `OnlyItsPieces`, `VerdictStands` | see below |
| `FaultFreeProofs` | `FaultFree` | `FaultFreeSucceeds` |
| | `ChecksumsUngarbled` | cause, see below |
| `SessionEndProofs` | `SessionsEnd`, `RestsWhenOver` | why `BuilderEnds`, `ClientEndsOrStuck` |
| `SystemProofs` | `SystemTypeCorrect`, `ConnectedClientKeeps`, `UsedOnce` | `SystemTypeOK`, `KeepsItsMachine`, `HandedOutUnused` |
| | `NobodyComesBack`, `LeasesHold` | `ForgottenForever`, `LeasesKept` |
| | `ExclusiveAcrossRestarts` | `Exclusive`, `HandedOutAlive`, `SlotsRecoverable` |
| | `ConnectionsAcrossRestarts` | `LeaseHasOwner`, `PendingIsQueued` |
| | `ServiceAcrossRestarts` | `PlannedWithinLimits`, `OutstandingAccounted`, `NoIdleBuilder`, `Replenished` |
| | `PoolBetweenRestarts`, `NobodyWaitsAcrossRestarts`, `BuildsExclusive` | see below |
| `TerminalProofs` | `TerminalTypeCorrect`, `CursorComesBack`, `ThreadContained` | `TerminalTypeOK`, `CursorRestored`, `ThreadWithinAnimation` |
| | `LogsKeptApart`, `OutcomesInPlace` | `LogsUndisturbed`, `OutcomeInPlace` |
| | `OnlyDotsGoOn`, `NoRestBeforeTheEnd` | why `ProgramEnds` |

The argument, from the bottom up:

* `CountInv` joins the type invariant, the limits and the account of the count.
  The limits alone are not inductive: that a request never exceeds them needs
  the count not to wrap in the wrong direction, hence its exact account and the
  bound on launch failures. `RequestFits` is the arithmetic lemma behind it, the
  four `ProcessPending…` lemmas carry the facts through the handler that most
  actions end with.
* `OwnershipInv` strengthens `Exclusive`, `HandedOutAlive` and
  `SlotsRecoverable` by `Owned` (where a builder can be, by list and by state of
  its destroy request) and `Existing` (which of those machines exist): that a
  returned builder is not in reserve needs that it was active and leased.
* `ServiceInv` adds that nobody waits beside an idle builder and that the
  reserve is replenished, for which each call of `process_pending_handler` must
  come with at most one handler or one builder more than before.
* `QueueImplementsPool` maps every step to a step of `BuilderPool` or a stutter
  under these invariants. `DaemonRefinesQueue` needs no invariant beyond the
  phase of a connection; by it every theorem of the queue holds in the daemon.
* `DaemonInv` says for each phase of a connection what is leased, queued and
  stored; the theorems of the daemon follow.
* `TypeInv` adds to the types of a session where each side still has chunks to
  write, without which the chunk `write_file` takes may not exist. It is proved
  for the stream and for the two programs apart.
* `LeaseInv` adds to `BuilderOutlivesUse` that the queue does not see a client
  leave that has not ended, and that the connection is made once. `SessionLease`
  maps every step of a session to a step of `Lease` under it.
* `DeliveryInv` gives every frame in a buffer its *place*: the number it has in
  the order in which its writer writes. The frames carry no type, so that a call
  reads what was written for it is not a fact about one state of one program; it
  is inductive only as the statement that the frame at the head has the place
  the reader reads at and that the last one is just before the place the writer
  writes at (`UpInv`, `DownInv`). Output has no number, so places of output are
  counted backwards from its end: one more piece moves all of them by one. The
  frames may have been altered or garbled; the invariant fixes their shape (one
  chunk, the final flag, an exit code, a checksum), and the comparison of
  checksums does the rest (`Delivered`). That nobody waits for the other follows
  from the difference of the two places being the length of the buffer.
* `FaultFreeInv` adds, for behaviours in which nothing has failed yet, the content
  of every frame (`UpExact`, `DownExact`), that files are prefixes of what they
  will be, and which side may be how far (`SidesInv`). `NoCallFails` is the heart
  of it: a read fails only when the builder has left with nothing under way, and
  it leaves only when it has written all that the client has still to read.
* `SystemProofs` carries the queue's `OwnershipInv` and the daemon's `DaemonInv`
  through the steps of clients, and through `Restart`, which establishes them
  anew; `ClientOK` ties each client's state to its connection's phase, `UsedInv`
  says where a machine that has served can be. `LeaseStep` and the two lemmas
  after it map the steps of the daemon and of the clients to those of `Lease`.
* `TerminalProofs` knows nothing of a script but its discipline: `PositionInv`
  says that the active message is the wait around the current line, `ThreadInv`
  that a thread exists only for it, `ScreenInv` where the cursor is.

### Beyond the properties of the runs

Some theorems state what no run checks under that name. They are of four kinds.

*Causes.* A violated statement shows that something can happen; these theorems
show what it takes. The documented limit is kept until a create command cannot be
launched, and is exceeded by at most one builder for each that cannot
(`LimitWithoutLaunchFailures`, `ExcessIsLaunchFailures`); the count wraps only
after more such failures than there are builders in reserve and creates still
counted (`WedgeIsLaunchFailures`); the step in which the daemon ends is one in
which a connection gives up its builder to a throw of `return_builder` (`EndIsThrow`); and a checksum disagrees with a file that arrived
unaltered only if the dangling buffer garbled it (`ChecksumsUngarbled`). So what the
runs `queue_limit`, `queue_wedge`, `queue_running` and `session_checksum` find has one
cause each: the handler that a failed launch calls twice (for the first two), the
throw inside a destructor, and the string that is gone. They follow from `CountInv`,
`OwnershipInv` (`StrandedStep`: a stranded builder stays where it is) and
`FaultFreeInv`.

*What the code computes.* `RequestCountDefined` resolves the unsigned arithmetic of
`create_reserve_builders` into its four cases, under the condition that the two
sums differ from a `size_t` by no more than the reserve.

*The system.* `System` restarts the daemon among machines and clients that it does
not know, so the theorems of the queue do not carry over by refinement. `CoreInv`
and `ServiceInv` are proved again for `SystemSpec`; a restart establishes both
from nothing (`RestartServes`). `PoolBetweenRestarts` is the refinement that is
left: every step is one of `BuilderPool`, but that a restart begins a new pool.
`BuildsExclusive` is about the machines alone: two builds never meet, although
`HandedOutUnused` has an exception for clients that lost the queue, because a
machine that has accepted a client accepts no other.

*Why things end.* Liveness cannot be proved here, but its two halves can. One is a
number that steps make smaller: `StepsLeft` for a session (a write counts twice,
for the frame that is then to be read), `WorkLeft` and `ThreadLeft` for the
programs at the terminal. The theorems `SessionsEnd` and `OnlyDotsGoOn` name the
only exceptions, a builder that floods and an animation that still runs. The other
half is that nothing rests too early: `RestsWhenOver`, `NoRestBeforeTheEnd`, and
`NobodyWaitsForNothing` with `NobodyWaitsAcrossRestarts` for the queue, say that
when none of the steps that fairness is about can be taken, the session or the
program is over or in the exceptions that `ClientEndsOrStuck` and `BuilderEnds`
name, and nobody waits in the queue. The steps' guards are stated in terms of the
state (`ClientCan`, `BuilderCan`, `MainCan`, ...), since ENABLED is out of reach;
they are read off the actions' first conjuncts. What remains to the runs is the
step from both halves and fairness to "eventually". `RestInv` adds to
`DeliveryInv` how the states of client, builder, queue and link are tied; for the
queue `ServiceInv` is enough. With limits of zero nobody would be served, which
is why the two theorems of the queue assume positive ones.

`OnlyItsPieces` and `VerdictStands` complete `Delivered`: they hold of builds that
fail, too, and of what happens after the outcome. `ServedInOrder` is the order of
`PoolSpec` as a property of the queue itself.

Only model-checked: the liveness properties (`EveryHandlerServed`,
`EverySlotFreed`, `ClientEndsOrStuck`, `BuilderEnds`, `ClientLeavesOrStuck`,
`EveryConnectionEnds`, `ProgramEnds`), because fairness and
ENABLED are out of the prover's reach, and the six violated statements, whose
counterexamples are their own proof.

## 5. Not modelled

* The text of messages, JSON and the logger's prefixes; the backend and deployment
  scripts beyond their outcomes; `Common/`'s plain data.
* The daemon's dangling write buffers (`Connection.cpp:59, 89, 105`), and two writes
  on one stream that overlap: the bytes of its answers are abstracted away.
* `process.wait` blocking the daemon (`OpenStack.h:99`): handlers are atomic.
* The client's temporary directory, which stays behind when a call between its
  creation and `Client/src/main.cpp:332` throws; reading arguments beyond their
  success, failure and `--help`.
* What the C++ library does inside a signal handler that calls `std::exit`
  (`Client/src/main.cpp:342`) while the other thread holds its locks, and a second
  SIGINT during that exit; `Terminal` has the effects on the cursor and the order.
* A client that runs twice over the same container file.

## 6. Plan

Done, in this order: `BuilderPool`, `BuilderQueue` and its proofs; `QueueDaemon`
and its proofs; `Stream`, `BuildSession` and its proofs; `Lease`; `System` and its
proofs, with crash, restart and lost connections; `Terminal` and its proofs. After
that, the theorems beyond the runs' properties. What could still be proved: the
two halves of termination for `System` (`ClientLeavesOrStuck`,
`EveryConnectionEnds`) and for the destroy requests of the
queue (`EverySlotFreed`), where failing commands are retried without bound, so
that no number becomes smaller and only the half about rest is to be had.
What could still be modelled is listed in section 5; none of it changes the modules
above.
