---------------------------- MODULE SystemProofs -----------------------------
(***************************************************************************)
(* Theorems about System, for every value of its constants: any number of  *)
(* clients and machines, any limits, and any number of lost connections    *)
(* and of crashes and restarts of the daemon.                              *)
(*                                                                         *)
(* Every step of System is a step of the daemon, a crash, or a restart.    *)
(* For the first the step lemmas of BuilderQueueProofs and                 *)
(* QueueDaemonProofs are used again; what crash and restart leave behind   *)
(* is shown here to satisfy the same invariants.                           *)
(***************************************************************************)
EXTENDS System, QueueDaemonProofs

-----------------------------------------------------------------------------
(***************************************************************************)
(* What a step of the daemon does to machines and leases.                  *)
(***************************************************************************)
\* A connection that holds a machine only goes on holding it or ends, and it ends
\* only once its client is not there.
LEMMA ServeEffect ==
    ASSUME DaemonTypeOK, NEW c \in Handlers, Serve(c)
    PROVE  /\ daemon = "running" /\ conn[c] # "none"
           /\ \A d \in Handlers : d # c => conn'[d] = conn[d] /\ peer'[d] = peer[d]
           /\ \/ conn'[c] = "none" /\ peer'[c] = "away"
              \/ conn'[c] # "none" /\ peer'[c] = peer[c]
           /\ conn[c] \in {"writing", "holding"} =>
                /\ conn'[c] \in {"none", "writing", "holding"}
                /\ peer[c] = "open" => conn'[c] # "none"
<1>1. CASE EndConnection(c) /\ daemon = "running" /\ conn[c] # "none"
           /\ ~(conn[c] \in {"writing", "holding"} /\ peer[c] = "open")
  BY <1>1 DEF EndConnection, DaemonTypeOK
<1>2. CASE \/ Handshake(c) \/ request_queue_stats(c) \/ request_image_list(c)
           \/ ImageListError(c) \/ ImageList(c) \/ FirstReplied(c) \/ builder_ready(c)
           \/ BuilderWritten(c)
  BY <1>2 DEF Handshake, request_queue_stats, request_image_list, ImageListError, ImageList,
       FirstReplied, builder_ready, BuilderWritten, Advance, DaemonTypeOK
<1>3. CASE request_builder(c)
  BY <1>3 DEF request_builder, checkout_builder, Advance, DaemonTypeOK
<1> QED BY <1>1, <1>2, <1>3 DEF Serve, RequestFails, Replied, BuilderNotWritten, Closed

-----------------------------------------------------------------------------
(***************************************************************************)
(* The daemon's invariants, across crashes and restarts.                   *)
(***************************************************************************)
\* Every step of the system is one of the daemon, a crash or a restart.
LEMMA SystemSteps ==
    ASSUME [SystemNext]_sysVars
    PROVE  [DaemonNext]_allVars \/ Crash \/ Restart
<1>1. CASE RunCommands
  BY <1>1 DEF RunCommands, DaemonNext
<1>2. ASSUME NEW c \in Handlers, Depart(c) PROVE [DaemonNext]_allVars
  BY <1>2 DEF Depart, DaemonNext
<1>3. ASSUME NEW c \in Handlers,
             \/ Arrive(c) \/ Handle(c) \/ Act(c) \/ BuildEnds(c) \/ BuildHangs(c)
             \/ Interrupt(c) \/ HostDies(c) \/ LoseConnection(c)
      PROVE  [DaemonNext]_allVars
  <2>1. CASE Leave(c) \/ Interrupt(c)
    BY <1>2, <2>1 DEF Leave, Interrupt
  <2>2. CASE Arrive(c) \/ Handle(c) \/ HostDies(c) \/ LoseConnection(c)
    BY <2>2 DEF Arrive, Handle, HostDies, LoseConnection, DaemonNext
  <2>3. CASE get_builder(c) \/ AskingEnds(c) \/ CallBuilder(c) \/ CallFails(c) \/ BuildEnds(c)
            \/ BuildHangs(c)
    BY <2>3 DEF get_builder, AskingEnds, CallBuilder, CallFails, BuildEnds, BuildHangs
  <2> QED BY <1>3, <2>1, <2>2, <2>3 DEF Act
<1>4. CASE UNCHANGED sysVars
  BY <1>4 DEF sysVars
<1> QED BY <1>1, <1>3, <1>4 DEF SystemNext

\* What a restart leaves: a daemon that knows nothing, and the machines there were,
\* unless a command was about to destroy them.
LEMMA RestartEffect ==
    ASSUME TypeOK, Restart
    PROVE  /\ OwnershipInv' /\ DaemonInv'
           /\ daemon = "terminated" /\ daemon' = "running"
           /\ reserve_builders' = <<>>
           /\ \A c \in Handlers : /\ leased'[c] = NoBuilder
                                  /\ conn'[c] = "none" /\ peer'[c] = "away"
           /\ Orphans' = vms'
           /\ \A b \in vms : destroying[b] # "running" => b \in vms'
<1>1. daemon = "terminated" /\ Afresh /\ CommandsEnd
  BY DEF Restart
<1>2. /\ pending_handlers' = <<>> /\ reserve_builders' = <<>> /\ active_builders' = {}
      /\ leased' = [c \in Handlers |-> NoBuilder]
      /\ destroying' = [b \in Builders |-> "none"]
      /\ daemon' = "running"
      /\ conn' = [c \in Handlers |-> "none"]
      /\ builder' = [c \in Handlers |-> NoBuilder]
      /\ peer' = [c \in Handlers |-> "away"]
      /\ outstanding_create_count' \in Int /\ creating' \in Nat /\ create_errors' \in Nat
      /\ launch_failures' \in 0..MaxLaunchFailures
      /\ leaked_creates' = 0 /\ create_retries' = 0
  BY <1>1, LimitsAssumption DEF Afresh
<1>3. vms' \in SUBSET Builders /\ \A b \in vms : destroying[b] # "running" => b \in vms'
  BY <1>1 DEF CommandsEnd, TypeOK
<1>4. TypeOK'
  BY <1>2, <1>3 DEF TypeOK, DestroyStates
<1>5. Elements(<<>>) = {} /\ Distinct(<<>>)
  BY DEF Elements, Distinct
<1>6. OwnershipInv'
  BY <1>2, <1>4, <1>5 DEF OwnershipInv, Owned, Existing
<1>7. DaemonInv'
  BY <1>2, <1>4, <1>5 DEF DaemonInv, DaemonTypeOK, PhaseOK, ConnStates, PeerStates
<1>8. Orphans' = vms'
  BY <1>2, <1>3, <1>5 DEF Orphans
<1> QED BY <1>1, <1>2, <1>3, <1>6, <1>7, <1>8

\* The invariants of queue and daemon survive every step of the system.
CoreInv == OwnershipInv /\ DaemonInv

LEMMA CoreStep ==
    ASSUME CoreInv, [SystemNext]_sysVars
    PROVE  CoreInv'
<1>0. TypeOK /\ OwnershipInv /\ DaemonInv
  BY DEF CoreInv, OwnershipInv
<1>1. CASE [DaemonNext]_allVars
  <2>1. [Next]_vars
    BY <1>1, DaemonStepIsQueueStep
  <2>2. TypeOK'
    BY <1>0, <2>1, TypeStep
  <2>3. OwnershipInv' /\ DaemonInv'
    BY <1>0, <1>1, <2>1, <2>2, OwnershipStep, DaemonStep
  <2> QED BY <2>3 DEF CoreInv
<1>2. CASE Crash
  <2>1. /\ UNCHANGED <<lists, creates, create_retries, destroying, vms, connection>>
        /\ daemon' = "terminated"
    BY <1>2 DEF Crash
  <2>2. UNCHANGED <<pending_handlers, reserve_builders, active_builders, leased,
                    outstanding_create_count, creating, create_errors, launch_failures,
                    leaked_creates, conn, builder, peer>>
    BY <2>1 DEF lists, creates, connection
  <2>3. TypeOK'
    BY <1>0, <2>1, <2>2 DEF TypeOK
  <2>4. OwnershipInv'
    BY <1>0, <2>1, <2>2, <2>3 DEF OwnershipInv, Owned, Existing, Leased
  <2>5. DaemonInv'
    BY <1>0, <2>2, <2>3 DEF DaemonInv, DaemonTypeOK, PhaseOK
  <2> QED BY <2>4, <2>5 DEF CoreInv
<1>3. CASE Restart
  BY <1>0, <1>3, RestartEffect DEF CoreInv
<1> QED BY <1>1, <1>2, <1>3, SystemSteps

-----------------------------------------------------------------------------
(***************************************************************************)
(* The clients.                                                            *)
(***************************************************************************)
Using == {"calling", "building", "stranded", "hanging"}

\* A client's end of the connection and the daemon's, and what it was told.
ClientOK(c) ==
    /\ user[c] = "away" => cut[c] = "no"
    /\ user[c] # "away" /\ cut[c] = "no" => peer[c] = "open"
    /\ cut[c] # "no" => peer[c] # "open"
    /\ user[c] \in Using => told[c] # NoBuilder /\ conn[c] \in {"none", "writing", "holding"}
    /\ user[c] \in Using /\ cut[c] = "no" =>
         user[c] # "stranded" /\ conn[c] # "none" /\ told[c] = leased[c]

ClientTypeOK ==
    /\ user \in [Handlers -> UserStates]
    /\ told \in [Handlers -> Builders \cup {NoBuilder}]
    /\ cut \in [Handlers -> CutStates]
    /\ used \in SUBSET Builders
    /\ cuts \in Nat /\ crashes \in Nat /\ cuts + crashes <= MaxFaults

ClientInv == ClientTypeOK /\ \A c \in Handlers : ClientOK(c)

\* The types of what the clients' variables become.
LEMMA ClientTypeStep ==
    ASSUME CoreInv, ClientTypeOK, [SystemNext]_sysVars
    PROVE  ClientTypeOK'
<1> USE DEF ClientTypeOK, UserStates, CutStates, Becomes
<1>0. builder \in [Handlers -> Builders \cup {NoBuilder}]
  BY DEF CoreInv, DaemonInv, DaemonTypeOK
<1>1. CASE RunCommands \/ Restart
  <2>1. UNCHANGED <<told, cuts, crashes>> /\ used' \subseteq used /\ user' \in [Handlers -> UserStates]
    BY <1>1 DEF RunCommands, Restart, MachinesChange
  <2>2. cut' \in [Handlers -> CutStates]
    BY <1>1 DEF RunCommands, Restart
  <2> QED BY <2>1, <2>2
<1>2. ASSUME NEW c \in Handlers, Depart(c) PROVE ClientTypeOK'
  BY <1>2 DEF Depart
<1>3. ASSUME NEW c \in Handlers,
             \/ get_builder(c) \/ AskingEnds(c) \/ CallFails(c) \/ BuildEnds(c)
             \/ BuildHangs(c)
      PROVE  ClientTypeOK'
  BY <1>0, <1>3 DEF get_builder, AskingEnds, CallFails, BuildEnds, BuildHangs
<1>4. ASSUME NEW c \in Handlers, CallBuilder(c) PROVE ClientTypeOK'
  BY <1>4, NoBuilderAssumption DEF CallBuilder, CoreInv, OwnershipInv, TypeOK
<1>5. ASSUME NEW c \in Handlers, Arrive(c) \/ Handle(c) \/ HostDies(c) PROVE ClientTypeOK'
  BY <1>5 DEF Arrive, Handle, HostDies
<1>6. ASSUME NEW c \in Handlers, LoseConnection(c) PROVE ClientTypeOK'
  BY <1>6, FaultsAssumption DEF LoseConnection
<1>7. CASE Crash
  BY <1>7, FaultsAssumption DEF Crash
<1>8. CASE UNCHANGED sysVars
  BY <1>8 DEF sysVars, clients
<1> QED BY <1>1, <1>2, <1>3, <1>4, <1>5, <1>6, <1>7, <1>8
        DEF SystemNext, Act, Leave, Interrupt

\* One step keeps the clients and the daemon in agreement.
LEMMA ClientStep ==
    ASSUME CoreInv, CoreInv', ClientInv, [SystemNext]_sysVars
    PROVE  ClientInv'
<1>0. /\ OwnershipInv /\ DaemonInv /\ OwnershipInv' /\ DaemonInv' /\ DaemonTypeOK
      /\ conn \in [Handlers -> ConnStates] /\ peer \in [Handlers -> PeerStates]
      /\ ClientTypeOK /\ ClientTypeOK' /\ \A c \in Handlers : ClientOK(c)
  BY ClientTypeStep DEF CoreInv, ClientInv, DaemonInv, DaemonTypeOK
<1> SUFFICES ASSUME NEW c \in Handlers PROVE ClientOK(c)'
  BY <1>0 DEF ClientInv
<1>a. ClientOK(c) /\ PhaseOK(c) /\ PhaseOK(c)'
  BY <1>0 DEF DaemonInv
\* A client whose connection is intact keeps its lease through any step of the daemon.
<1>b. ASSUME [DaemonNext]_allVars, user[c] \in Using, cut[c] = "no"
      PROVE  leased'[c] = leased[c]
  BY <1>0, <1>a, <1>b, ConnectedStep DEF ClientOK, PhaseOK, Using
<1>1. CASE RunCommands
  <2>1. /\ [DaemonNext]_allVars /\ UNCHANGED <<conn, peer, told, cut>>
        /\ user'[c] = IF user[c] = "building" /\ told[c] \notin vms' THEN "stranded" ELSE user[c]
    BY <1>1 DEF RunCommands, DaemonNext, Commands, connection, MachinesChange
  <2>2. ASSUME user[c] \in Using, cut[c] = "no" PROVE leased'[c] = leased[c] /\ leased'[c] \in vms'
    <3>1. leased'[c] = leased[c]
      BY <1>b, <2>1, <2>2
    <3>2. leased[c] # NoBuilder
      BY <1>a, <2>2 DEF ClientOK, PhaseOK
    <3> QED BY <1>0, <3>1, <3>2 DEF OwnershipInv, Existing
  <2> QED BY <1>a, <2>1, <2>2 DEF ClientOK, Using
<1>2. CASE Restart
  <2>1. /\ peer'[c] = "away" /\ conn'[c] = "none"
        /\ user'[c] \in {user[c], "stranded"} /\ (user'[c] # user[c] => user[c] = "building")
        /\ told' = told
        /\ cut'[c] = IF user[c] # "away" /\ cut[c] = "no" THEN "ended" ELSE cut[c]
    BY <1>0, <1>2, RestartEffect DEF Restart, MachinesChange, OwnershipInv
  <2> QED BY <1>a, <2>1 DEF ClientOK, Using
<1>3. CASE Crash
  BY <1>a, <1>3 DEF Crash, lists, connection, ClientOK
<1>4. CASE UNCHANGED sysVars
  BY <1>a, <1>4 DEF sysVars, clients, allVars, vars, lists, connection, ClientOK
<1>5. ASSUME NEW d \in Handlers, Arrive(d) PROVE ClientOK(c)'
  <2>1. /\ user[d] = "away" /\ conn' = [conn EXCEPT ![d] = "handshake"]
        /\ peer' = [peer EXCEPT ![d] = "open"] /\ user' = [user EXCEPT ![d] = "asking"]
        /\ UNCHANGED <<told, cut, leased>>
    BY <1>5 DEF Arrive, Accept, Becomes, vars, lists
  <2> QED BY <1>0, <1>a, <2>1 DEF ClientOK, Using, ClientTypeOK
<1>6. ASSUME NEW d \in Handlers, Handle(d) PROVE ClientOK(c)'
  <2>1. /\ [DaemonNext]_allVars /\ UNCHANGED <<user, told>>
        /\ cut' = IF conn'[d] = "none" /\ peer[d] = "open" /\ user[d] # "away"
                  THEN [cut EXCEPT ![d] = "ended"] ELSE cut
    BY <1>6 DEF Handle, DaemonNext
  <2>2. /\ conn[d] # "none"
        /\ \A e \in Handlers : e # d => conn'[e] = conn[e] /\ peer'[e] = peer[e]
        /\ \/ conn'[d] = "none" /\ peer'[d] = "away"
           \/ conn'[d] # "none" /\ peer'[d] = peer[d]
        /\ conn[d] \in {"writing", "holding"} =>
             /\ conn'[d] \in {"none", "writing", "holding"}
             /\ peer[d] = "open" => conn'[d] # "none"
    BY <1>0, <1>6, ServeEffect DEF Handle
  <2>3. cut' \in [Handlers -> CutStates] /\ cut \in [Handlers -> CutStates]
    BY <1>0 DEF ClientTypeOK
  <2>4. CASE c = d
    BY <1>a, <1>b, <2>1, <2>2, <2>3, <2>4 DEF ClientOK, Using
  <2>5. CASE c # d
    BY <1>a, <1>b, <2>1, <2>2, <2>3, <2>5 DEF ClientOK, Using
  <2> QED BY <2>4, <2>5
<1>7. ASSUME NEW d \in Handlers, get_builder(d) PROVE ClientOK(c)'
  <2>1. /\ conn[d] \in {"writing", "holding"} /\ cut[d] = "no" /\ user[d] = "asking"
        /\ user' = [user EXCEPT ![d] = "calling"] /\ told' = [told EXCEPT ![d] = builder[d]]
        /\ UNCHANGED <<conn, peer, leased, cut>>
    BY <1>7 DEF get_builder, Becomes, allVars, vars, lists, connection
  <2>2. builder[d] = leased[d] /\ leased[d] # NoBuilder
    BY <1>0, <2>1 DEF DaemonInv, PhaseOK
  <2> QED BY <1>0, <1>a, <2>1, <2>2 DEF ClientOK, Using, ClientTypeOK
<1>8. ASSUME NEW d \in Handlers, AskingEnds(d) \/ CallFails(d) \/ BuildEnds(d) PROVE ClientOK(c)'
  <2>1. /\ user[d] # "away" /\ user' = [user EXCEPT ![d] = "leaving"]
        /\ UNCHANGED <<conn, peer, leased, cut, told>>
    BY <1>8 DEF AskingEnds, CallFails, BuildEnds, Becomes, allVars, vars, lists, connection
  <2> QED BY <1>0, <1>a, <2>1 DEF ClientOK, Using, ClientTypeOK
<1>9. ASSUME NEW d \in Handlers, CallBuilder(d) \/ BuildHangs(d) PROVE ClientOK(c)'
  <2>1. /\ user[d] \in {"calling", "building"}
        /\ \E state \in {"building", "hanging"} : user' = [user EXCEPT ![d] = state]
        /\ UNCHANGED <<conn, peer, leased, cut, told>>
    BY <1>9 DEF CallBuilder, BuildHangs, Becomes, allVars, vars, lists, connection
  <2> QED BY <1>0, <1>a, <2>1 DEF ClientOK, Using, ClientTypeOK
<1>10. ASSUME NEW d \in Handlers, Depart(d) PROVE ClientOK(c)'
  <2>1. /\ user' = [user EXCEPT ![d] = "away"] /\ told' = [told EXCEPT ![d] = NoBuilder]
        /\ cut' = [cut EXCEPT ![d] = "no"]
        /\ UNCHANGED <<conn, leased>>
        /\ peer' = IF peer[d] = "open" THEN [peer EXCEPT ![d] = "closed"] ELSE peer
    BY <1>10 DEF Depart, Becomes, PeerCloses, allVars, vars, lists, connection
  <2> QED BY <1>0, <1>a, <2>1 DEF ClientOK, Using, ClientTypeOK
<1>11. ASSUME NEW d \in Handlers, HostDies(d) PROVE ClientOK(c)'
  <2>1. /\ user' = [user EXCEPT ![d] = "away"] /\ told' = [told EXCEPT ![d] = NoBuilder]
        /\ peer[d] = "open" /\ peer' = [peer EXCEPT ![d] = "dead"]
        /\ UNCHANGED <<conn, leased, cut>>
    BY <1>11 DEF HostDies, Becomes, PeerDies, vars, lists
  <2>2. cut[d] = "no"
    BY <1>0, <2>1 DEF ClientOK
  <2> QED BY <1>0, <1>a, <2>1, <2>2 DEF ClientOK, Using, ClientTypeOK
<1>12. ASSUME NEW d \in Handlers, LoseConnection(d) PROVE ClientOK(c)'
  <2>1. /\ user[d] # "away" /\ UNCHANGED <<conn, leased, user, told>>
        /\ \/ peer' = [peer EXCEPT ![d] = "closed"] /\ cut' = [cut EXCEPT ![d] = "ended"]
           \/ peer' = [peer EXCEPT ![d] = "dead"] /\ cut' = [cut EXCEPT ![d] = "silent"]
    BY <1>12 DEF LoseConnection, PeerCloses, PeerDies, vars, lists
  <2> QED BY <1>0, <1>a, <2>1 DEF ClientOK, Using, ClientTypeOK
<1> QED BY <1>1, <1>2, <1>3, <1>4, <1>5, <1>6, <1>7, <1>8, <1>9, <1>10, <1>11, <1>12
        DEF SystemNext, Act, Leave, Interrupt

-----------------------------------------------------------------------------
(***************************************************************************)
(* Used machines.                                                          *)
(***************************************************************************)
\* Used machines exist; as long as no client lost its connection, none of them is
\* in stock or on its way to a client, and a client whose daemon has ended still
\* has its machine for itself.
UsedInv ==
    /\ used \subseteq vms
    /\ cuts = 0 =>
         /\ \A b \in Elements(reserve_builders) : b \notin used
         /\ \A c \in Handlers : user[c] \in {"asking", "calling"} => leased[c] \notin used
         /\ \A c \in Handlers : user[c] = "calling" /\ cut[c] # "no" => told[c] \in Orphans

\* What the daemon does keeps UsedInv, if the clients stay as they are.
LEMMA UsedByDaemon ==
    ASSUME CoreInv, UsedInv, ClientTypeOK, [DaemonNext]_allVars,
           cuts' = cuts, used' = used \cap vms',
           \A c \in Handlers :
             /\ user'[c] \in {"asking", "calling"} =>
                  user[c] = user'[c] \/ leased'[c] = NoBuilder
             /\ user'[c] = "calling" /\ cut'[c] # "no" =>
                  user[c] = "calling" /\ cut[c] # "no" /\ told'[c] = told[c]
    PROVE  UsedInv'
<1>1. /\ OwnershipInv /\ [Next]_vars /\ TypeOK
      /\ used \subseteq Builders
  BY DaemonStepIsQueueStep DEF CoreInv, OwnershipInv, ClientTypeOK
<1>2. /\ Elements(reserve_builders') \subseteq Elements(reserve_builders) \cup (Builders \ vms)
      /\ \A c \in Handlers : leased'[c] \in {leased[c], NoBuilder}
                               \cup Elements(reserve_builders) \cup (Builders \ vms)
      /\ Orphans \subseteq Orphans'
  BY <1>1, StockEffect
<1>3. used' \subseteq used /\ used \subseteq vms /\ NoBuilder \notin used
  BY <1>1, NoBuilderAssumption DEF UsedInv
<1>4. ASSUME cuts = 0 PROVE \A b \in Elements(reserve_builders') : b \notin used'
  BY <1>2, <1>3, <1>4 DEF UsedInv
<1>5. ASSUME cuts = 0, NEW c \in Handlers, user'[c] \in {"asking", "calling"}
      PROVE  leased'[c] \notin used'
  BY <1>2, <1>3, <1>5 DEF UsedInv
<1>6. ASSUME cuts = 0, NEW c \in Handlers, user'[c] = "calling", cut'[c] # "no"
      PROVE  told'[c] \in Orphans'
  BY <1>2, <1>6 DEF UsedInv
<1> QED BY <1>4, <1>5, <1>6 DEF UsedInv

LEMMA UsedStep ==
    ASSUME CoreInv, ClientInv, UsedInv, [SystemNext]_sysVars
    PROVE  UsedInv'
<1>0. /\ OwnershipInv /\ TypeOK /\ DaemonInv /\ ClientTypeOK /\ \A c \in Handlers : ClientOK(c)
      /\ used \subseteq Builders /\ vms \subseteq Builders /\ used \subseteq vms
      /\ user \in [Handlers -> UserStates] /\ cut \in [Handlers -> CutStates]
  BY DEF CoreInv, ClientInv, OwnershipInv, ClientTypeOK, UsedInv, TypeOK
<1>1. CASE RunCommands
  <2>1. /\ [DaemonNext]_allVars /\ UNCHANGED <<told, cut, cuts>> /\ used' = used \cap vms'
        /\ \A c \in Handlers : user'[c] \in {"asking", "calling"} => user[c] = user'[c]
    BY <1>1 DEF RunCommands, DaemonNext, MachinesChange
  <2> QED BY <1>0, <2>1, UsedByDaemon
<1>2. CASE Restart
  <2>1. /\ reserve_builders' = <<>> /\ Orphans' = vms'
        /\ \A c \in Handlers : leased'[c] = NoBuilder
        /\ \A b \in vms : destroying[b] # "running" => b \in vms'
        /\ UNCHANGED <<told, cuts>> /\ used' = used \cap vms'
        /\ \A c \in Handlers : user'[c] = "calling" => user[c] = "calling"
    BY <1>0, <1>2, RestartEffect DEF Restart, MachinesChange
  <2>2. Elements(<<>>) = {}
    BY DEF Elements
  <2>3. ASSUME cuts = 0, NEW c \in Handlers, user[c] = "calling" PROVE told[c] \in vms'
    <3>1. CASE cut[c] = "no"
      <4>1. told[c] = leased[c] /\ leased[c] # NoBuilder
        BY <1>0, <2>3, <3>1 DEF ClientOK, Using
      <4>2. leased[c] \in vms /\ destroying[leased[c]] = "none"
        BY <1>0, <4>1 DEF OwnershipInv, Owned, Existing
      <4> QED BY <2>1, <4>1, <4>2
    <3>2. CASE cut[c] # "no"
      <4>1. told[c] \in Orphans
        BY <2>3, <3>2 DEF UsedInv
      <4> QED BY <2>1, <4>1 DEF Orphans
    <3> QED BY <3>1, <3>2
  <2> QED BY <1>0, <2>1, <2>2, <2>3, NoBuilderAssumption DEF UsedInv
<1>3. CASE Crash
  <2>1. UNCHANGED <<reserve_builders, active_builders, leased, destroying, vms, user, told, cut,
                    used, cuts>>
    BY <1>3 DEF Crash, lists
  <2> QED BY <2>1 DEF UsedInv, Orphans
<1>4. CASE UNCHANGED sysVars
  BY <1>4 DEF sysVars, clients, allVars, vars, lists, UsedInv, Orphans
<1>5. ASSUME NEW d \in Handlers, Arrive(d) PROVE UsedInv'
  <2>1. /\ user' = [user EXCEPT ![d] = "asking"] /\ conn[d] = "none"
        /\ UNCHANGED <<reserve_builders, active_builders, leased, destroying, vms, told, cut,
                       used, cuts>>
    BY <1>5 DEF Arrive, Accept, Becomes, vars, lists
  <2>2. leased[d] = NoBuilder
    BY <1>0, <2>1 DEF DaemonInv, PhaseOK
  <2> QED BY <1>0, <2>1, <2>2, NoBuilderAssumption DEF UsedInv, Orphans
<1>6. ASSUME NEW d \in Handlers, Handle(d) PROVE UsedInv'
  <2>1. /\ [DaemonNext]_allVars /\ UNCHANGED <<user, told, used, cuts>>
        /\ cut' = IF conn'[d] = "none" /\ peer[d] = "open" /\ user[d] # "away"
                  THEN [cut EXCEPT ![d] = "ended"] ELSE cut
    BY <1>6 DEF Handle, DaemonNext
  <2>2. /\ daemon = "running" /\ conn[d] # "none"
        /\ conn[d] \in {"writing", "holding"} /\ peer[d] = "open" => conn'[d] # "none"
    BY <1>0, <1>6, ServeEffect DEF Handle, DaemonInv
  <2>3. vms' = vms
    <3>1. Serve(d)
      BY <1>6 DEF Handle
    <3>2. EndConnection(d) => vms' = vms
      BY DEF EndConnection, ReturnBuilder, vars
    <3>3. request_builder(d) => vms' = vms
      BY DEF request_builder, checkout_builder
    <3> QED BY <3>1, <3>2, <3>3 DEF Serve, Handshake, request_queue_stats, request_image_list,
         RequestFails, ImageListError, ImageList, FirstReplied, Replied, builder_ready, BuilderWritten,
         BuilderNotWritten, Closed, vars
  <2>4. ASSUME NEW c \in Handlers, user'[c] = "calling", cut'[c] # "no" PROVE cut[c] # "no"
    BY <1>0, <2>1, <2>2, <2>4 DEF ClientOK, Using
  <2> QED BY <1>0, <2>1, <2>3, <2>4, UsedByDaemon
<1>7. ASSUME NEW d \in Handlers, get_builder(d) PROVE UsedInv'
  BY <1>0, <1>7 DEF get_builder, Becomes, allVars, vars, lists, UsedInv, Orphans
<1>8. ASSUME NEW d \in Handlers,
             AskingEnds(d) \/ CallFails(d) \/ BuildEnds(d) \/ BuildHangs(d)
      PROVE  UsedInv'
  <2>1. /\ \E state \in {"leaving", "hanging"} : user' = [user EXCEPT ![d] = state]
        /\ UNCHANGED <<reserve_builders, active_builders, leased, destroying, vms, told, cut,
                       used, cuts>>
    BY <1>8 DEF AskingEnds, CallFails, BuildEnds, BuildHangs, Becomes, allVars, vars, lists
  <2> QED BY <1>0, <2>1 DEF UsedInv, Orphans
<1>9. ASSUME NEW d \in Handlers, CallBuilder(d) PROVE UsedInv'
  <2>1. /\ user[d] = "calling" /\ user' = [user EXCEPT ![d] = "building"]
        /\ told[d] \in vms /\ used' = used \cup {told[d]}
        /\ UNCHANGED <<reserve_builders, active_builders, leased, destroying, vms, told, cut, cuts>>
    BY <1>9 DEF CallBuilder, Becomes, allVars, vars, lists
  <2>2. \/ told[d] = leased[d] /\ leased[d] # NoBuilder
        \/ cuts = 0 => told[d] \in Orphans
    BY <1>0, <2>1 DEF ClientOK, Using, UsedInv
  <2>3. ASSUME cuts = 0 PROVE told[d] \notin Elements(reserve_builders)
    BY <1>0, <2>2, <2>3 DEF OwnershipInv, Owned, Orphans
  <2>4. ASSUME cuts = 0, NEW c \in Handlers, c # d, leased[c] # NoBuilder
        PROVE  leased[c] # told[d]
    BY <1>0, <2>2, <2>4 DEF OwnershipInv, Owned, Orphans
  <2>5. ASSUME cuts = 0, NEW c \in Handlers, user'[c] \in {"asking", "calling"}
        PROVE  leased[c] \notin used'
    <3>1. c # d /\ user[c] = user'[c]
      BY <1>0, <2>1, <2>5
    <3> QED BY <1>0, <2>1, <2>4, <2>5, <3>1, NoBuilderAssumption DEF UsedInv
  <2> QED BY <1>0, <2>1, <2>3, <2>5 DEF UsedInv, Orphans
<1>10. ASSUME NEW d \in Handlers, Depart(d) \/ HostDies(d) PROVE UsedInv'
  <2>1. /\ user' = [user EXCEPT ![d] = "away"]
        /\ \A c \in Handlers : c # d => told'[c] = told[c] /\ cut'[c] = cut[c]
        /\ UNCHANGED <<reserve_builders, active_builders, leased, destroying, vms, used, cuts>>
    BY <1>0, <1>10 DEF Depart, HostDies, Becomes, PeerCloses, PeerDies, allVars, vars, lists,
         ClientTypeOK
  <2> QED BY <1>0, <2>1 DEF UsedInv, Orphans
<1>11. ASSUME NEW d \in Handlers, LoseConnection(d) PROVE UsedInv'
  BY <1>0, <1>11 DEF LoseConnection, PeerCloses, PeerDies, vars, UsedInv, ClientTypeOK
<1> QED BY <1>1, <1>2, <1>3, <1>4, <1>5, <1>6, <1>7, <1>8, <1>9, <1>10, <1>11
        DEF SystemNext, Act, Leave, Interrupt

-----------------------------------------------------------------------------
SystemInv == CoreInv /\ ClientInv /\ UsedInv

LEMMA SystemInvariant == SystemSpec => []SystemInv
<1>1. SystemInit => SystemInv
  <2> SUFFICES ASSUME SystemInit PROVE SystemInv
    OBVIOUS
  <2>1. TypeOK /\ Elements(<<>>) = {} /\ Distinct(<<>>)
    BY LimitsAssumption DEF SystemInit, DaemonInit, Init, TypeOK, DestroyStates, Elements, Distinct
  <2>2. CoreInv
    BY <2>1 DEF SystemInit, DaemonInit, Init, CoreInv, OwnershipInv, Owned, Existing, DaemonInv,
         DaemonTypeOK, ConnStates, PeerStates, PhaseOK
  <2>3. ClientInv
    BY FaultsAssumption DEF SystemInit, DaemonInit, ClientInv, ClientTypeOK, ClientOK, Using,
         UserStates, CutStates
  <2>4. UsedInv
    BY <2>1 DEF SystemInit, DaemonInit, Init, UsedInv
  <2> QED BY <2>2, <2>3, <2>4 DEF SystemInv
<1>2. SystemInv /\ [SystemNext]_sysVars => SystemInv'
  <2> SUFFICES ASSUME SystemInv, [SystemNext]_sysVars PROVE SystemInv'
    OBVIOUS
  <2>1. CoreInv'
    BY CoreStep DEF SystemInv
  <2> QED BY <2>1, ClientStep, UsedStep DEF SystemInv
<1> QED BY <1>1, <1>2, PTL DEF SystemSpec

\* The variables of System always have their types.
THEOREM SystemTypeCorrect == SystemSpec => []SystemTypeOK
<1>1. SystemInv => SystemTypeOK
  BY DEF SystemInv, CoreInv, ClientInv, DaemonInv, ClientTypeOK, ClientOK, Using, SystemTypeOK
<1> QED BY <1>1, SystemInvariant, PTL

\* A connected client's machine is the one it was told, and exists.
THEOREM ConnectedClientKeeps == SystemSpec => []KeepsItsMachine
<1>1. SystemInv => KeepsItsMachine
  <2> SUFFICES ASSUME SystemInv, NEW c \in Handlers, user[c] \in Using, cut[c] = "no"
               PROVE  user[c] # "stranded" /\ told[c] = leased[c] /\ told[c] \in vms
    BY DEF KeepsItsMachine, Using
  <2>1. user[c] # "stranded" /\ told[c] = leased[c] /\ told[c] # NoBuilder
    BY DEF SystemInv, ClientInv, ClientOK
  <2> QED BY <2>1 DEF SystemInv, CoreInv, OwnershipInv, Existing
<1> QED BY <1>1, SystemInvariant, PTL

\* Unless a connection was lost, no machine that was used is handed out.
THEOREM UsedOnce == SystemSpec => []HandedOutUnused
<1>1. SystemInv => HandedOutUnused
  BY DEF SystemInv, UsedInv, HandedOutUnused
<1> QED BY <1>1, SystemInvariant, PTL

\* Abandoned machines stay so.
THEOREM NobodyComesBack == SystemSpec => ForgottenForever
<1>1. ASSUME SystemInv, [SystemNext]_sysVars, NEW b \in Builders, Abandoned(b)
      PROVE  Abandoned(b)'
  <2>0. OwnershipInv /\ TypeOK
    BY <1>1 DEF SystemInv, CoreInv, OwnershipInv
  <2>1. CASE [DaemonNext]_allVars
    <3>1. [Next]_vars
      BY <2>1, DaemonStepIsQueueStep
    <3>2. Orphans \subseteq Orphans' /\ (daemon # "running" => UNCHANGED vars)
      BY <2>0, <3>1, StockEffect
    <3>3. CASE b \in Orphans
      BY <3>2, <3>3 DEF Abandoned, Orphans
    <3>4. CASE b \notin Orphans
      BY <1>1, <3>2, <3>4 DEF Abandoned, vars
    <3> QED BY <3>3, <3>4
  <2>2. CASE Crash
    <3>1. UNCHANGED <<reserve_builders, active_builders, destroying, vms>>
      BY <2>2 DEF Crash, lists
    <3> QED BY <1>1, <2>2, <3>1 DEF Abandoned, Orphans, Crash
  <2>3. CASE Restart
    <3>1. Orphans' = vms' /\ \A a \in vms : destroying[a] # "running" => a \in vms'
      BY <2>0, <2>3, RestartEffect
    <3>2. b \in vms /\ destroying[b] # "running"
      BY <1>1 DEF Abandoned, Orphans
    <3> QED BY <3>1, <3>2 DEF Abandoned
  <2> QED BY <1>1, <2>1, <2>2, <2>3, SystemSteps
<1>2. SystemInv /\ [SystemNext]_sysVars =>
        [\A b \in Builders : Abandoned(b) => Abandoned(b)']_sysVars
  BY <1>1
<1> QED BY <1>2, SystemInvariant, PTL DEF SystemSpec, ForgottenForever

-----------------------------------------------------------------------------
(***************************************************************************)
(* Leases.                                                                 *)
(***************************************************************************)
\* What Lease sees of client c.
UserAs(c) == IF user[c] \in Using THEN "using" ELSE user[c]
TieOf(c) == IF user[c] = "away" THEN "none"
            ELSE IF cut[c] = "no" /\ daemon = "running" THEN "intact" ELSE "lost"
Lent(c)  == leased[c] # NoBuilder

\* A step of Lease, in those terms.
LEMMA LeaseStep ==
    ASSUME NEW c \in Handlers,
           \/ \* Ask
              /\ user[c] = "away" /\ ~Lent(c)
              /\ UserAs(c)' = "asking" /\ TieOf(c)' = "intact" /\ ~Lent(c)'
           \/ \* Lend
              /\ ~Lent(c) /\ Lent(c)' /\ UserAs(c) # "using"
              /\ UserAs(c)' = UserAs(c) /\ TieOf(c)' = TieOf(c)
           \/ \* Use
              /\ user[c] = "asking" /\ Lent(c)
              /\ UserAs(c)' = "using" /\ Lent(c)' /\ TieOf(c)' = TieOf(c)
           \/ \* Finish
              /\ UserAs(c) \in {"asking", "using"}
              /\ UserAs(c)' = "leaving" /\ Lent(c)' = Lent(c) /\ TieOf(c)' = TieOf(c)
           \/ \* Leave
              /\ user[c] # "away" /\ user'[c] = "away" /\ Lent(c)' = Lent(c)
           \/ \* Lose
              /\ TieOf(c) = "intact" /\ TieOf(c)' = "lost"
              /\ UserAs(c)' = UserAs(c) /\ Lent(c)' = Lent(c)
           \/ \* Recall
              /\ Lent(c) /\ ~Lent(c)' /\ (user[c] = "away" \/ TieOf(c) = "lost")
              /\ UserAs(c)' = UserAs(c) /\ TieOf(c)' = TieOf(c)
           \/ \* nothing
              /\ UserAs(c)' = UserAs(c) /\ TieOf(c)' = TieOf(c) /\ Lent(c)' = Lent(c)
    PROVE  [LeaseOf(c)!Next]_(LeaseOf(c)!lease)
  BY DEF LeaseOf!Next, LeaseOf!lease, LeaseOf!Ask, LeaseOf!Lend, LeaseOf!Use, LeaseOf!Finish,
       LeaseOf!Leave, LeaseOf!Lose, LeaseOf!Recall, UserAs, TieOf, Lent, Using

\* What handlers and commands of the daemon do to the lease of one client.
LEMMA DaemonLeaseStep ==
    ASSUME SystemInv, SystemInv', NEW c \in Handlers,
           RunCommands \/ \E d \in Handlers : Handle(d)
    PROVE  [LeaseOf(c)!Next]_(LeaseOf(c)!lease)
<1>1. /\ OwnershipInv /\ DaemonInv /\ ClientOK(c) /\ PhaseOK(c) /\ PhaseOK(c)'
      /\ cut \in [Handlers -> CutStates] /\ cut' \in [Handlers -> CutStates]
      /\ leased \in [Handlers -> Builders \cup {NoBuilder}]
      /\ daemon' \in {"running", "terminated"} /\ user[c] \in UserStates
  BY DEF SystemInv, CoreInv, ClientInv, ClientTypeOK, DaemonInv, OwnershipInv, TypeOK
<1>2. [DaemonNext]_allVars /\ UserAs(c)' = UserAs(c) /\ (user'[c] = "away" <=> user[c] = "away")
  BY DEF RunCommands, DaemonNext, Handle, MachinesChange, UserAs, Using
<1>3. daemon = "running"
  <2>1. RunCommands => daemon = "running"
    BY DEF RunCommands, Commands, CreateFails, CreateLaunchError, retry_create_reserve_builders,
         CreateSucceeds, DestroyEnds, DestroyReadError, DestroyLaunchError, DestroyFalseSuccess,
         retry_return_builder
  <2>2. ASSUME NEW d \in Handlers, Handle(d) PROVE daemon = "running"
    BY <1>1, <2>2, ServeEffect DEF Handle, DaemonInv
  <2> QED BY <2>1, <2>2
\* A machine is taken back only from a client that is not there.
<1>4. Lent(c) /\ leased'[c] # leased[c] => user[c] = "away" \/ cut[c] # "no"
  BY <1>1, <1>2, ConnectedStep DEF ClientOK, Lent
\* A client that uses its machine is lent no other.
<1>5. ~Lent(c) /\ UserAs(c) = "using" => ~Lent(c)'
  <2>1. ~Lent(c) /\ UserAs(c) = "using" => conn[c] = "none"
    BY <1>1 DEF ClientOK, PhaseOK, UserAs, Lent, UserStates
  <2>2. conn[c] = "none" => conn'[c] = "none"
    <3>1. RunCommands => conn' = conn
      BY DEF RunCommands, Commands, connection
    <3>2. ASSUME NEW d \in Handlers, Handle(d), conn[c] = "none" PROVE conn'[c] = "none"
      BY <1>1, <3>2, ServeEffect DEF Handle, DaemonInv
    <3> QED BY <3>1, <3>2
  <2> QED BY <1>1, <2>1, <2>2 DEF PhaseOK, Lent
\* A connection is lost while the lease stays as it is.
<1>6. ASSUME TieOf(c)' # TieOf(c)
      PROVE  TieOf(c) = "intact" /\ TieOf(c)' = "lost" /\ (Lent(c)' <=> Lent(c))
  <2>1. cut'[c] = cut[c] \/ cut'[c] # "no"
    BY <1>1 DEF RunCommands, Handle
  <2>2. TieOf(c) = "intact" /\ TieOf(c)' = "lost"
    BY <1>2, <1>3, <1>6, <2>1 DEF TieOf
  <2>3. Lent(c) => Lent(c)'
    BY <1>4, <2>2 DEF Lent, TieOf
  <2>4. CASE daemon' = "terminated"
    <3>1. PICK d \in Handlers : Handle(d)
      <4>1. ~RunCommands
        BY <1>3, <2>4 DEF RunCommands, Commands, CreateFails, CreateLaunchError, CreateSucceeds,
             retry_create_reserve_builders, DestroyEnds, DestroyReadError, DestroyLaunchError,
             DestroyFalseSuccess, retry_return_builder
      <4> QED BY <4>1
    <3>2. leased' = [leased EXCEPT ![d] = NoBuilder]
      <4>1. EndConnection(d) => leased' = [leased EXCEPT ![d] = NoBuilder]
        BY <1>3, <2>4 DEF EndConnection, ReturnBuilder, vars
      <4>2. ~request_builder(d)
        BY <1>3, <2>4 DEF request_builder, checkout_builder
      <4> QED BY <1>3, <2>4, <3>1, <4>1, <4>2 DEF Handle, Serve, Handshake, request_queue_stats,
           request_image_list, RequestFails, ImageListError, ImageList, FirstReplied, Replied,
           builder_ready,
           BuilderWritten, BuilderNotWritten, Closed, vars
    <3> QED BY <1>1, <2>2, <2>3, <3>2 DEF Lent
  <2>5. CASE daemon' # "terminated"
    <3>1. cut[c] = "no" /\ cut'[c] # "no"
      BY <1>1, <2>2, <2>5 DEF TieOf
    <3>2. conn'[c] = "none"
      BY <1>1, <3>1 DEF RunCommands, Handle
    <3> QED BY <1>1, <2>2, <2>3, <3>2 DEF PhaseOK, Lent
  <2> QED BY <2>2, <2>3, <2>4, <2>5
<1> QED BY <1>2, <1>3, <1>4, <1>5, <1>6, LeaseStep DEF Lent, TieOf

\* The steps of the other actors: clients, hosts, networks, crash and restart.
LEMMA ActorLeaseStep ==
    ASSUME SystemInv, SystemInv', NEW c \in Handlers, SystemNext,
           ~RunCommands, \A d \in Handlers : ~Handle(d)
    PROVE  [LeaseOf(c)!Next]_(LeaseOf(c)!lease)
<1>0. /\ OwnershipInv /\ DaemonInv /\ ClientOK(c) /\ PhaseOK(c)
      /\ user \in [Handlers -> UserStates] /\ cut \in [Handlers -> CutStates]
  BY DEF SystemInv, CoreInv, ClientInv, ClientTypeOK, DaemonInv
<1> USE DEF Becomes, UserStates, Using, UserAs, TieOf, Lent
<1>1. ASSUME NEW d \in Handlers, Arrive(d) PROVE [LeaseOf(c)!Next]_(LeaseOf(c)!lease)
  <2>1. /\ user[d] = "away" /\ user' = [user EXCEPT ![d] = "asking"] /\ conn[d] = "none"
        /\ daemon = "running" /\ UNCHANGED <<leased, cut, daemon>>
    BY <1>1 DEF Arrive, Accept, vars, lists
  <2> QED BY <1>0, <2>1, LeaseStep DEF PhaseOK, ClientOK
<1>2. ASSUME NEW d \in Handlers, get_builder(d) PROVE [LeaseOf(c)!Next]_(LeaseOf(c)!lease)
  <2>1. /\ user[d] = "asking" /\ user' = [user EXCEPT ![d] = "calling"]
        /\ conn[d] \in {"writing", "holding"} /\ UNCHANGED <<leased, cut, daemon>>
    BY <1>2 DEF get_builder, allVars, vars, lists
  <2> QED BY <1>0, <2>1, LeaseStep DEF PhaseOK
<1>3. ASSUME NEW d \in Handlers, AskingEnds(d) \/ CallFails(d) \/ BuildEnds(d)
      PROVE  [LeaseOf(c)!Next]_(LeaseOf(c)!lease)
  <2>1. /\ user[d] \in {"asking", "calling", "building", "stranded"}
        /\ user' = [user EXCEPT ![d] = "leaving"] /\ UNCHANGED <<leased, cut, daemon>>
    BY <1>3 DEF AskingEnds, CallFails, BuildEnds, allVars, vars, lists
  <2> QED BY <1>0, <2>1, LeaseStep
<1>4. ASSUME NEW d \in Handlers, CallBuilder(d) \/ BuildHangs(d)
      PROVE  [LeaseOf(c)!Next]_(LeaseOf(c)!lease)
  <2>1. /\ user[d] \in {"calling", "building"}
        /\ \E state \in {"building", "hanging"} : user' = [user EXCEPT ![d] = state]
        /\ UNCHANGED <<leased, cut, daemon>>
    BY <1>4 DEF CallBuilder, BuildHangs, allVars, vars, lists
  <2> QED BY <1>0, <2>1, LeaseStep
<1>5. ASSUME NEW d \in Handlers, user[d] # "away", Depart(d) \/ HostDies(d)
      PROVE  [LeaseOf(c)!Next]_(LeaseOf(c)!lease)
  <2>1. /\ user' = [user EXCEPT ![d] = "away"] /\ UNCHANGED <<leased, daemon>>
        /\ c # d => cut'[c] = cut[c]
    BY <1>0, <1>5 DEF Depart, HostDies, PeerCloses, PeerDies, allVars, vars, lists
  <2> QED BY <1>0, <1>5, <2>1, LeaseStep
<1>6. ASSUME NEW d \in Handlers, LoseConnection(d) PROVE [LeaseOf(c)!Next]_(LeaseOf(c)!lease)
  <2>1. /\ user[d] # "away" /\ UNCHANGED <<user, leased, daemon>>
        /\ \E lost \in {"ended", "silent"} : cut' = [cut EXCEPT ![d] = lost]
    BY <1>6 DEF LoseConnection, PeerCloses, PeerDies, vars, lists
  <2> QED BY <1>0, <2>1, LeaseStep
<1>7. CASE Crash
  <2>1. daemon' = "terminated" /\ UNCHANGED <<user, leased, cut>>
    BY <1>7 DEF Crash, lists
  <2> QED BY <1>0, <2>1, LeaseStep
<1>8. CASE Restart
  <2>1. /\ daemon = "terminated" /\ leased'[c] = NoBuilder
        /\ UserAs(c)' = UserAs(c) /\ (user'[c] = "away" <=> user[c] = "away")
        /\ cut'[c] = IF user[c] # "away" /\ cut[c] = "no" THEN "ended" ELSE cut[c]
    BY <1>0, <1>8, RestartEffect DEF Restart, MachinesChange, OwnershipInv
  <2> QED BY <1>0, <2>1, LeaseStep
<1> QED BY <1>1, <1>2, <1>3, <1>4, <1>5, <1>6, <1>7, <1>8
        DEF SystemNext, Act, Leave, Interrupt, HostDies

\* Every client is lent its machine as Lease says, and keeps it as Lease says.
THEOREM LeasesHold == SystemSpec => LeasesKept
<1>1. SystemInit => \A c \in Handlers : LeaseOf(c)!Init
  BY DEF SystemInit, DaemonInit, Init, LeaseOf!Init
<1>2. ASSUME SystemInv, SystemInv', [SystemNext]_sysVars, NEW c \in Handlers
      PROVE  [LeaseOf(c)!Next]_(LeaseOf(c)!lease)
  <2>1. CASE UNCHANGED sysVars
    BY <2>1 DEF sysVars, clients, allVars, vars, lists, LeaseOf!lease
  <2> QED BY <1>2, <2>1, DaemonLeaseStep, ActorLeaseStep
<1>3. SystemInv /\ SystemInv' /\ [SystemNext]_sysVars =>
        [\A c \in Handlers : [LeaseOf(c)!Next]_(LeaseOf(c)!lease)]_sysVars
  BY <1>2
<1> QED BY <1>1, <1>3, SystemInvariant, PTL DEF SystemSpec, LeasesKept

-----------------------------------------------------------------------------
(***************************************************************************)
(* What the queue promises, across crashes and restarts.  A daemon that    *)
(* starts has forgotten everything, and what it then plans and lends is    *)
(* right for the state it is in, whatever the earlier ones left.           *)
(***************************************************************************)
\* The queue's counters and lists after a restart are those of a queue that starts.
LEMMA RestartServes ==
    ASSUME TypeOK, Restart
    PROVE  ServiceInv' /\ (Pool!Init)'
<1>1. OwnershipInv' /\ TypeOK' /\ Afresh
  BY RestartEffect DEF OwnershipInv, Restart
<1>2. /\ pending_handlers' = <<>> /\ reserve_builders' = <<>> /\ active_builders' = {}
      /\ leased' = [c \in Handlers |-> NoBuilder]
      /\ destroying' = [b \in Builders |-> "none"]
      /\ leaked_creates' = 0
  BY <1>1 DEF Afresh
<1>3. PICK launched \in 0..MaxReserve, failed \in 0..MaxReserve :
        /\ launched + failed = RequestCount(0, 0, 0)
        /\ outstanding_create_count' = launched + failed
        /\ creating' = launched
        /\ create_errors' = 2 * failed
        /\ launch_failures' = failed
  BY <1>1 DEF Afresh
<1>4. /\ IsFiniteSet(active_builders') /\ Cardinality(active_builders') = 0
      /\ Len(reserve_builders') = 0 /\ Elements(reserve_builders') = {}
  BY <1>2, FS_EmptySet DEF Elements
<1>5. /\ RequestCount(0, 0, 0) \in Nat
      /\ 0 + 0 + RequestCount(0, 0, 0) <= MaxReserve
      /\ 0 + 0 + 0 + RequestCount(0, 0, 0) <= MaxBuilders
      /\ \/ 0 + 0 + RequestCount(0, 0, 0) = MaxReserve
         \/ 0 + 0 + 0 + RequestCount(0, 0, 0) = MaxBuilders
  BY RequestFits, LimitsAssumption
<1>6. OutstandingAccounted'
  BY <1>2, <1>3, LimitsAssumption DEF OutstandingAccounted
<1>7. PlannedWithinLimits' /\ Replenished'
  BY <1>3, <1>4, <1>5 DEF PlannedWithinLimits, Replenished
<1>8. ServiceInv'
  BY <1>1, <1>2, <1>4, <1>6, <1>7 DEF ServiceInv, CountInv, NoIdleBuilder
<1>9. (Pool!Init)'
  BY <1>2, <1>4 DEF Pool!Init
<1> QED BY <1>8, <1>9

\* One step of the system keeps what the queue knows of its counters and lists.
LEMMA SystemServiceStep ==
    ASSUME CoreInv, ServiceInv, [SystemNext]_sysVars
    PROVE  ServiceInv'
<1>0. TypeOK /\ OwnershipInv /\ CountInv /\ OwnershipInv' /\ TypeOK'
  BY CoreStep DEF ServiceInv, CountInv, CoreInv, OwnershipInv
<1>1. CASE [DaemonNext]_allVars
  <2>1. [Next]_vars
    BY <1>1, DaemonStepIsQueueStep
  <2>2. CountInv'
    BY <1>0, <2>1, CountStep
  <2> QED BY <1>0, <2>1, <2>2, ServiceStep
<1>2. CASE Crash
  <2>1. UNCHANGED <<pending_handlers, reserve_builders, active_builders,
                    outstanding_create_count, creating, create_errors, launch_failures,
                    leaked_creates, create_retries>>
    BY <1>2 DEF Crash, lists, creates
  <2> QED BY <1>0, <2>1 DEF ServiceInv, CountInv, OutstandingAccounted, PlannedWithinLimits,
       NoIdleBuilder, Replenished
<1>3. CASE Restart
  BY <1>0, <1>3, RestartServes
<1> QED BY <1>1, <1>2, <1>3, SystemSteps

LEMMA SystemServiceInvariant == SystemSpec => [](CoreInv /\ ServiceInv)
<1>1. SystemInit => ServiceInv
  <2> SUFFICES ASSUME SystemInit PROVE ServiceInv
    OBVIOUS
  <2>1. Init /\ CountInv
    BY CountInit DEF SystemInit, DaemonInit
  <2>2. TypeOK /\ Elements(<<>>) = {} /\ Distinct(<<>>)
    BY <2>1 DEF CountInv, Elements, Distinct
  <2>3. OwnershipInv
    BY <2>1, <2>2 DEF Init, OwnershipInv, Owned, Existing
  <2> QED BY <2>1, <2>3, ServiceInit
<1>2. CoreInv /\ ServiceInv /\ [SystemNext]_sysVars => ServiceInv'
  BY SystemServiceStep
<1>3. SystemInv => CoreInv
  BY DEF SystemInv
<1> QED BY <1>1, <1>2, <1>3, SystemInvariant, PTL DEF SystemSpec

\* No machine is in two places, a machine that is handed out exists, and no slot is
\* forgotten, whatever the daemon's crashes and restarts have left running.
THEOREM ExclusiveAcrossRestarts ==
    SystemSpec => [](Exclusive /\ HandedOutAlive /\ SlotsRecoverable)
<1>1. CoreInv => Exclusive /\ HandedOutAlive /\ SlotsRecoverable
  BY OwnershipGives DEF CoreInv
<1> QED BY <1>1, SystemServiceInvariant, PTL

\* The connections of every daemon know which of them waits for a builder and which
\* has one, as those of the first daemon do.
THEOREM ConnectionsAcrossRestarts == SystemSpec => [](LeaseHasOwner /\ PendingIsQueued)
<1>1. CoreInv => LeaseHasOwner /\ PendingIsQueued
  BY DEF CoreInv, DaemonInv, PhaseOK, LeaseHasOwner, PendingIsQueued
<1> QED BY <1>1, SystemServiceInvariant, PTL

\* Every daemon keeps its limits, accounts for its creates, fills its reserve, and
\* leaves nobody waiting beside an idle builder.
THEOREM ServiceAcrossRestarts ==
    SystemSpec => [](/\ PlannedWithinLimits /\ OutstandingAccounted
                     /\ NoIdleBuilder /\ Replenished)
<1>1. ServiceInv => PlannedWithinLimits /\ OutstandingAccounted /\ NoIdleBuilder /\ Replenished
  BY DEF ServiceInv, CountInv
<1> QED BY <1>1, SystemServiceInvariant, PTL

\* No client waits for nothing while a daemon runs, whatever crashed before.
THEOREM NobodyWaitsAcrossRestarts ==
    ASSUME MaxReserve > 0, MaxBuilders > 0
    PROVE  SystemSpec => []WaitingFounded
<1>1. ServiceInv => WaitingFounded
  BY FoundedByService
<1> QED BY <1>1, SystemServiceInvariant, PTL

\* From the start of a daemon to its end the system is a BuilderPool, and a restart
\* leaves a new, empty one: the only way in which a client loses its place in the
\* queue, or its grant, otherwise than the pool allows.
PoolUntilRestart ==
    /\ Pool!Init
    /\ [][Pool!Next \/ (Restart /\ (Pool!Init)')]_(Pool!pool)

\* The promise of BuilderPool is kept between restarts, and broken by nothing else.
THEOREM PoolBetweenRestarts == SystemSpec => PoolUntilRestart
<1>1. SystemInit => Pool!Init
  BY DEF SystemInit, DaemonInit, Init, Pool!Init, Elements
<1>2. ASSUME CoreInv, ServiceInv, [SystemNext]_sysVars
      PROVE  [Pool!Next \/ (Restart /\ (Pool!Init)')]_(Pool!pool)
  <2>0. TypeOK /\ TypeOK'
    BY <1>2, CoreStep DEF CoreInv, OwnershipInv
  <2>1. CASE [DaemonNext]_allVars
    BY <1>2, <2>0, <2>1, DaemonStepIsQueueStep, PoolStep
  <2>2. CASE Crash
    BY <2>2 DEF Crash, lists, Pool!pool
  <2>3. CASE Restart
    BY <2>0, <2>3, RestartServes
  <2> QED BY <1>2, <2>1, <2>2, <2>3, SystemSteps
<1> QED BY <1>1, <1>2, SystemServiceInvariant, PTL DEF SystemSpec, PoolUntilRestart

-----------------------------------------------------------------------------
(***************************************************************************)
(* Clients and machines.                                                   *)
(***************************************************************************)
\* A machine builds for one client, and it exists: two builds never meet on one
\* machine, although clients that lost the queue go on with machines that a later
\* daemon knows nothing of, and addresses come back.
SoleUser ==
    \A c \in Handlers : user[c] = "building" =>
      /\ told[c] \in vms
      /\ \A d \in Handlers : user[d] = "building" /\ told[d] = told[c] => d = c

\* The machine of a build has accepted a client, and is therefore closed to others.
SoleInv == SoleUser /\ \A c \in Handlers : user[c] = "building" => told[c] \in used

LEMMA SoleStep ==
    ASSUME SystemInv, SoleInv, [SystemNext]_sysVars
    PROVE  SoleInv'
<1>0. /\ user \in [Handlers -> UserStates] /\ told \in [Handlers -> Builders \cup {NoBuilder}]
      /\ DaemonTypeOK
  BY DEF SystemInv, ClientInv, ClientTypeOK, CoreInv, DaemonInv
<1> USE DEF SoleInv, SoleUser, Becomes
<1>1. CASE RunCommands \/ Restart
  <2>1. /\ used' = used \cap vms' /\ told' = told
        /\ user' = [c \in Handlers |-> IF user[c] = "building" /\ told[c] \notin vms'
                                       THEN "stranded" ELSE user[c]]
    BY <1>1 DEF RunCommands, Restart, MachinesChange
  <2> QED BY <1>0, <2>1
<1>2. ASSUME NEW c \in Handlers, CallBuilder(c) PROVE SoleInv'
  <2>1. /\ told[c] \in vms \ used /\ user' = [user EXCEPT ![c] = "building"]
        /\ used' = used \cup {told[c]} /\ UNCHANGED <<vms, told>>
    BY <1>2 DEF CallBuilder, allVars, vars
  <2> QED BY <1>0, <2>1
<1>3. ASSUME NEW c \in Handlers,
             \/ get_builder(c) \/ AskingEnds(c) \/ CallFails(c) \/ BuildEnds(c)
             \/ BuildHangs(c) \/ Arrive(c) \/ Depart(c) \/ HostDies(c)
      PROVE  SoleInv'
  <2>1. /\ UNCHANGED <<vms, used>>
        /\ \E state \in UserStates \ {"building"} : user' = [user EXCEPT ![c] = state]
        /\ \A d \in Handlers : d # c => told'[d] = told[d]
    BY <1>0, <1>3 DEF get_builder, AskingEnds, CallFails, BuildEnds, BuildHangs, Arrive, Accept,
         Depart, HostDies, PeerCloses, PeerDies, allVars, vars, UserStates
  <2> QED BY <1>0, <2>1
<1>4. ASSUME NEW c \in Handlers, Handle(c) \/ LoseConnection(c) PROVE SoleInv'
  <2>1. UNCHANGED <<user, told, used, vms>>
    <3>1. Serve(c) => UNCHANGED vms
      BY DEF Serve, Handshake, request_builder, checkout_builder, request_queue_stats,
           request_image_list, RequestFails, ImageListError, ImageList, FirstReplied, Replied,
           builder_ready,
           BuilderWritten, BuilderNotWritten, Closed, EndConnection, ReturnBuilder, vars
    <3> QED BY <1>4, <3>1 DEF Handle, LoseConnection, PeerCloses, PeerDies, vars
  <2> QED BY <2>1
<1>5. CASE Crash \/ UNCHANGED sysVars
  BY <1>5 DEF Crash, sysVars, allVars, vars, clients
<1> QED BY <1>1, <1>2, <1>3, <1>4, <1>5 DEF SystemNext, Act, Leave, Interrupt

\* No machine ever builds for two clients, and none that builds is gone.
THEOREM BuildsExclusive == SystemSpec => []SoleUser
<1>1. SystemInit => SoleInv
  BY DEF SystemInit, SoleInv, SoleUser
<1>2. SystemInv /\ SoleInv /\ [SystemNext]_sysVars => SoleInv'
  BY SoleStep
<1>3. SoleInv => SoleUser
  BY DEF SoleInv
<1> QED BY <1>1, <1>2, <1>3, SystemInvariant, PTL DEF SystemSpec
=============================================================================
