------------------------------- MODULE System --------------------------------
(***************************************************************************)
(* The daemon together with its clients and its machines, across crashes   *)
(* of the daemon and losses of its connections.  A client learns the       *)
(* address of a machine from the queue, never looks at the queue again     *)
(* until it ends, and connects to whatever answers at that address; the    *)
(* builder-server there accepts one client and then exits.                 *)
(*                                                                         *)
(* OpenStack gives the address of a destroyed machine to a later one, so   *)
(* the members of Builders stand for the addresses, too.                   *)
(***************************************************************************)
EXTENDS QueueDaemon

CONSTANT
    MaxFaults  \* bound: connections to the queue that are lost, and crashes of it

ASSUME FaultsAssumption == MaxFaults \in Nat

VARIABLES
    user,   \* what each client is doing
    told,   \* builder_data of each client
    cut,    \* whether its connection to the queue is lost, and how
    used,   \* machines whose builder-server has accepted its client
    cuts,   \* connections lost so far
    crashes \* crashes so far

clients == <<user, told, cut, used, cuts, crashes>>
sysVars == <<allVars, clients>>

(***************************************************************************)
(* A client waits for the queue's answer, connects to the builder, uses    *)
(* it; or its machine has gone while it did ("stranded"); or it will never *)
(* be done with it ("hanging"); or it is about to close its connections    *)
(* and end.                                                                *)
(***************************************************************************)
UserStates == {"away", "asking", "calling", "building", "stranded", "hanging", "leaving"}

\* An ended connection is noticed by the next call that uses it; a silent one
\* by nobody but the daemon's keepalive probes.
CutStates == {"no", "ended", "silent"}

Becomes(c, state) == user' = [user EXCEPT ![c] = state]

-----------------------------------------------------------------------------
(***************************************************************************)
(* The clients: main of container-builder, cb-status and cb-images.        *)
(***************************************************************************)
Arrive(c) ==
    /\ user[c] = "away"
    /\ Accept(c)
    /\ Becomes(c, "asking")
    /\ UNCHANGED <<told, cut, used, cuts, crashes>>

\* get_builder reads what builder_ready wrote.
get_builder(c) ==
    /\ user[c] = "asking"
    /\ cut[c] = "no"
    /\ conn[c] \in {"writing", "holding"}
    /\ Becomes(c, "calling")
    /\ told' = [told EXCEPT ![c] = builder[c]]
    /\ UNCHANGED <<allVars, cut, used, cuts, crashes>>

\* The read of the answer ends: the queue has closed the connection, with or
\* without an answer to another request, or the connection was reset.
AskingEnds(c) ==
    /\ user[c] = "asking"
    /\ cut[c] = "ended" \/ daemon = "terminated"
    /\ Becomes(c, "leaving")
    /\ UNCHANGED <<allVars, told, cut, used, cuts, crashes>>

\* The client connects to the machine at the address it was told.
CallBuilder(c) ==
    /\ user[c] = "calling"
    /\ told[c] \in vms \ used
    /\ Becomes(c, "building")
    /\ used' = used \cup {told[c]}
    /\ UNCHANGED <<allVars, told, cut, cuts, crashes>>

\* Nobody answers, or the service is not up yet, or has accepted another client.
CallFails(c) ==
    /\ user[c] = "calling"
    /\ Becomes(c, "leaving")
    /\ UNCHANGED <<allVars, told, cut, used, cuts, crashes>>

\* Mutant: after a failed build the client connects to its builder again.
BuildRetried(c) ==
    /\ user[c] \in {"building", "stranded"}
    /\ Becomes(c, "calling")
    /\ UNCHANGED <<allVars, told, cut, used, cuts, crashes>>

\* The build ends, or fails; the client may find out that its machine has gone.
BuildEnds(c) ==
    /\ user[c] \in {"building", "stranded"}
    /\ Becomes(c, "leaving")
    /\ UNCHANGED <<allVars, told, cut, used, cuts, crashes>>

\* The stream to the builder breaks, or floods, or falls silent, and the client spins
\* in stream_build or waits in a read for ever (Stuck in BuildSession).
BuildHangs(c) ==
    /\ user[c] = "building"
    /\ Becomes(c, "hanging")
    /\ UNCHANGED <<allVars, told, cut, used, cuts, crashes>>

\* The client's process ends, and its sockets with it.
Depart(c) ==
    /\ Becomes(c, "away")
    /\ told' = [told EXCEPT ![c] = NoBuilder]
    /\ cut' = [cut EXCEPT ![c] = "no"]
    /\ IF peer[c] = "open" THEN PeerCloses(c) ELSE UNCHANGED allVars
    /\ UNCHANGED <<used, cuts, crashes>>

\* main closes the queue's connection and returns; or SIGINT ends the client.
Leave(c)     == user[c] = "leaving" /\ Depart(c)
Interrupt(c) == user[c] \notin {"away", "leaving"} /\ Depart(c)

\* The client's host goes down.
HostDies(c) ==
    /\ user[c] # "away"
    /\ PeerDies(c)
    /\ Becomes(c, "away")
    /\ told' = [told EXCEPT ![c] = NoBuilder]
    /\ UNCHANGED <<cut, used, cuts, crashes>>

-----------------------------------------------------------------------------
(***************************************************************************)
(* The daemon, its machines, and what happens to them.                     *)
(***************************************************************************)
\* A handler of connection c runs; if that was the connection's last one, the
\* socket is closed.
Handle(c) ==
    /\ Serve(c)
    /\ cut' = IF conn'[c] = "none" /\ peer[c] = "open" /\ user[c] # "away"
              THEN [cut EXCEPT ![c] = "ended"] ELSE cut
    /\ UNCHANGED <<user, told, used, cuts, crashes>>

\* Machines that are gone leave their clients waiting for them.
MachinesChange ==
    /\ used' = used \cap vms'
    /\ user' = [c \in Handlers |->
                  IF user[c] = "building" /\ told[c] \notin vms'
                  THEN "stranded" ELSE user[c]]
    /\ UNCHANGED <<told, cuts, crashes>>

RunCommands == Commands /\ MachinesChange /\ UNCHANGED cut

\* A connection is reset, or falls silent; the client is there all the same.
LoseConnection(c) ==
    /\ cuts + crashes < MaxFaults
    /\ user[c] # "away"
    /\ \/ PeerCloses(c) /\ cut' = [cut EXCEPT ![c] = "ended"]
       \/ PeerDies(c)   /\ cut' = [cut EXCEPT ![c] = "silent"]
    /\ cuts' = cuts + 1
    /\ UNCHANGED <<user, told, used, crashes>>

\* The daemon is killed, or ends by std::terminate (ReturnThrows).
Crash ==
    /\ daemon = "running"
    /\ cuts + crashes < MaxFaults
    /\ daemon' = "terminated"
    /\ crashes' = crashes + 1
    /\ UNCHANGED <<lists, creates, create_retries, destroying, vms, connection,
                   user, told, cut, used, cuts>>

\* The lists and the connections of a daemon that starts, as in Init.
Afresh ==
    /\ pending_handlers' = <<>>
    /\ reserve_builders' = <<>>
    /\ active_builders' = {}
    /\ leased' = [c \in Handlers |-> NoBuilder]
    /\ \E launched, failed \in 0..MaxReserve :
         /\ launched + failed = RequestCount(0, 0, 0)
         /\ failed <= MaxLaunchFailures
         /\ outstanding_create_count' = launched + failed
         /\ creating' = launched
         /\ create_errors' = 2 * failed
         /\ launch_failures' = failed
    /\ leaked_creates' = 0
    /\ create_retries' = 0
    /\ destroying' = [b \in Builders |-> "none"]
    /\ daemon' = "running"
    /\ conn' = [c \in Handlers |-> "none"]
    /\ builder' = [c \in Handlers |-> NoBuilder]
    /\ peer' = [c \in Handlers |-> "away"]

\* What the commands that were running when the daemon ended have done by now:
\* some machines were destroyed after all, and some created.
CommandsEnd ==
    \E gone \in SUBSET {b \in Builders : destroying[b] = "running"},
       made \in SUBSET {b \in Builders : Fresh(b)} :
         /\ Cardinality(made) <= creating
         /\ vms' = (vms \ gone) \cup made

\* Mutant: the daemon destroys what an earlier one has left.
RestartCleansUp ==
    /\ daemon = "terminated"
    /\ Afresh
    /\ vms' = {}
    /\ MachinesChange
    /\ cut' = [c \in Handlers |-> IF user[c] # "away" /\ cut[c] = "no"
                                  THEN "ended" ELSE cut[c]]

\* Somebody starts the daemon again: systemd does not (Restart=no).  It knows
\* nothing of the machines and the clients of the one before.
Restart ==
    /\ daemon = "terminated"
    /\ Afresh
    /\ CommandsEnd
    /\ MachinesChange
    /\ cut' = [c \in Handlers |-> IF user[c] # "away" /\ cut[c] = "no"
                                  THEN "ended" ELSE cut[c]]

-----------------------------------------------------------------------------
SystemInit ==
    /\ DaemonInit
    /\ user = [c \in Handlers |-> "away"]
    /\ told = [c \in Handlers |-> NoBuilder]
    /\ cut = [c \in Handlers |-> "no"]
    /\ used = {}
    /\ cuts = 0
    /\ crashes = 0

Act(c) ==
    \/ get_builder(c) \/ AskingEnds(c)
    \/ CallBuilder(c) \/ CallFails(c)
    \/ user[c] = "building" /\ BuildEnds(c)
    \/ Leave(c)

SystemNext ==
    \/ RunCommands \/ Crash \/ Restart
    \/ \E c \in Handlers : \/ Arrive(c) \/ Handle(c) \/ Act(c) \/ BuildEnds(c)
                           \/ BuildHangs(c) \/ Interrupt(c) \/ HostDies(c) \/ LoseConnection(c)

SystemSpec == SystemInit /\ [][SystemNext]_sysVars

(***************************************************************************)
(* Fairness.  Handlers run, timers fire and commands end.  The clients act *)
(* as long as they can: a build ends, unless it hangs, which it may at any *)
(* time (ClientEndsOrStuck in BuildSession).  Nothing makes a client end   *)
(* that hangs or waits for ever, and nobody has to restart the daemon.     *)
(***************************************************************************)
Step(command) == command /\ UNCHANGED connection /\ MachinesChange /\ UNCHANGED cut

SystemFairness ==
    /\ \A c \in Handlers : WF_sysVars(Handle(c)) /\ WF_sysVars(Act(c))
    /\ WF_sysVars(Step(CreateLaunchError))
    /\ WF_sysVars(Step(retry_create_reserve_builders))
    /\ SF_sysVars(Step(\E b \in Builders : CreateSucceeds(b)))
    /\ \A b \in Builders :
         /\ SF_sysVars(Step(DestroyEnds(b)))
         /\ WF_sysVars(Step(\/ DestroyLaunchError(b)
                            \/ DestroyFalseSuccess(b)
                            \/ retry_return_builder(b)))

SystemLiveSpec == SystemSpec /\ SystemFairness

-----------------------------------------------------------------------------
SystemTypeOK ==
    /\ DaemonTypeOK
    /\ user \in [Handlers -> UserStates]
    /\ told \in [Handlers -> Builders \cup {NoBuilder}]
    /\ \A c \in Handlers : user[c] \in {"calling", "building", "stranded", "hanging"} => told[c] # NoBuilder
    /\ cut \in [Handlers -> CutStates]
    /\ used \in SUBSET Builders
    /\ cuts \in Nat /\ crashes \in Nat /\ cuts + crashes <= MaxFaults

\* A client whose connection to the queue is intact uses the machine that is
\* lent to it, and that machine exists: it is neither destroyed under it nor
\* replaced by another one at the same address.
KeepsItsMachine ==
    \A c \in Handlers :
      user[c] \in {"calling", "building", "stranded", "hanging"} /\ cut[c] = "no" =>
        /\ user[c] # "stranded"
        /\ told[c] = leased[c]
        /\ told[c] \in vms

\* Unless a client lost its connection to the queue, a machine that is handed
\* out has not accepted a client before: it would turn the second one away.
\* Crashes of the daemon, after which clients build on, change nothing of that.
HandedOutUnused ==
    cuts = 0 =>
      /\ Elements(reserve_builders) \cap used = {}
      /\ \A c \in Handlers : user[c] \in {"asking", "calling"} => leased[c] \notin used

\* Nobody looks after a machine once the daemon that knew it has ended, or has
\* lost track of it.
Abandoned(b) ==
    /\ b \in vms
    /\ b \in Orphans \/ (daemon = "terminated" /\ destroying[b] # "running")

\* Abandoned machines stay so for ever: builds that outlive the daemon can finish,
\* no later client gets their machines, and somebody else has to clean up.
ForgottenForever == [][\A b \in Builders : Abandoned(b) => Abandoned(b)']_sysVars

\* Every client has the lease that Lease describes.
LeaseOf(c) == INSTANCE Lease WITH
    user    <- CASE user[c] \in {"calling", "building", "stranded", "hanging"} -> "using"
                 [] OTHER -> user[c],
    tie     <- CASE user[c] = "away" -> "none"
                 [] user[c] # "away" /\ cut[c] = "no" /\ daemon = "running" -> "intact"
                 [] OTHER -> "lost",
    machine <- IF leased[c] = NoBuilder THEN "none" ELSE "lent"

LeasesKept ==
    /\ \A c \in Handlers : LeaseOf(c)!Init
    /\ [][\A c \in Handlers : [LeaseOf(c)!Next]_(LeaseOf(c)!lease)]_sysVars

\* A client hangs whose connection to the queue is intact.
HangsConnected(c) == user[c] = "hanging" /\ cut[c] = "no"

\* All builders are taken, for ever, by clients that hang: the queue sees that they
\* are connected, and nothing else.
Blocked ==
    \E S \in SUBSET Handlers :
      /\ Cardinality(S) = MaxBuilders
      /\ \A c \in S : <>[]HangsConnected(c)

\* A client ends, even if the daemon crashes.  It may go on for ever only if its
\* build hangs, or once its connection to the queue is lost (it waits for an answer
\* that nobody will send, or for a machine that was destroyed under it), or if all
\* builders are taken for ever by other clients that hang.
ClientLeavesOrStuck ==
    \A c \in Handlers :
      \/ user[c] # "away" ~> \/ user[c] \in {"away", "stranded", "hanging"}
                             \/ user[c] = "asking" /\ cut[c] = "silent"
      \/ <>[](user[c] = "asking") /\ Blocked

\* Every connection ends, that of a waiting client that vanished included: it is
\* served in its turn, and the builder it was given comes back (or the daemon ends).
\* The exceptions are a client that hangs, and what waits behind such clients.  So a
\* client that does not hang gives its builder back, as queue_live assumes.
EveryConnectionEnds ==
    \A c \in Handlers :
      \/ conn[c] # "none" ~> conn[c] = "none" \/ daemon = "terminated"
      \/ <>[]HangsConnected(c)
      \/ <>[](conn[c] = "pending") /\ Blocked
=============================================================================
