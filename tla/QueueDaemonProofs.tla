------------------------- MODULE QueueDaemonProofs --------------------------
(***************************************************************************)
(* Theorems about QueueDaemon, for every value of its constants.  The      *)
(* daemon's steps are steps of BuilderQueue, so what BuilderQueueProofs    *)
(* shows of the queue holds of the daemon, and the proofs about the        *)
(* connections start from it.                                              *)
(***************************************************************************)
EXTENDS QueueDaemon, BuilderQueueProofs

\* Every step of the daemon is a step of the queue, or leaves it alone.
LEMMA DaemonStepIsQueueStep ==
    ASSUME [DaemonNext]_allVars
    PROVE  [Next]_vars
<1>1. CASE Commands
  BY <1>1 DEF Commands, Next
<1>2. ASSUME NEW c \in Handlers, Accept(c) \/ Serve(c) \/ PeerCloses(c) \/ PeerDies(c)
      PROVE  [Next]_vars
  <2>1. CASE request_builder(c)
    BY <2>1 DEF request_builder, Next
  <2>2. CASE EndConnection(c)
    BY <2>2 DEF EndConnection, Next
  <2> QED BY <1>2, <2>1, <2>2 DEF Accept, Serve, PeerCloses, PeerDies, Handshake,
       request_queue_stats, request_image_list, RequestFails, ImageListError, ImageList,
       FirstReplied, Replied, builder_ready, BuilderWritten, BuilderNotWritten, Closed
<1>3. CASE UNCHANGED allVars
  BY <1>3 DEF allVars
<1> QED BY <1>1, <1>2, <1>3 DEF DaemonNext

\* The daemon uses the queue as BuilderQueue lets it be used: checkout_builder is
\* called for connections that have no builder and do not wait for one, and
\* return_builder once for each builder a connection was given.
THEOREM DaemonRefinesQueue == DaemonSpec => QueueSpec
<1>1. DaemonInit => Init
  BY DEF DaemonInit
<1>2. [DaemonNext]_allVars => [Next]_vars
  BY DaemonStepIsQueueStep
<1> QED BY <1>1, <1>2, PTL DEF DaemonSpec, QueueSpec, Spec

-----------------------------------------------------------------------------
(***************************************************************************)
(* Connections and their builders.                                         *)
(***************************************************************************)
\* Where each connection's handler and builder are, in each phase of its life.
PhaseOK(c) ==
    /\ conn[c] \notin {"pending", "writing", "holding"} =>
         /\ c \notin Elements(pending_handlers)
         /\ leased[c] = NoBuilder
         /\ builder[c] = NoBuilder
    /\ conn[c] = "pending" =>
         /\ builder[c] = NoBuilder
         /\ c \in Elements(pending_handlers) \/ leased[c] # NoBuilder
    /\ conn[c] \in {"writing", "holding"} =>
         /\ c \notin Elements(pending_handlers)
         /\ builder[c] = leased[c]
         /\ leased[c] # NoBuilder

DaemonInv ==
    /\ DaemonTypeOK
    /\ \A c \in Handlers : PhaseOK(c)

\* checkout_builder queues c or serves it, and moves nobody else out of the queue
\* but those it serves.
LEMMA CheckoutEffect ==
    ASSUME OwnershipInv, NEW pending \in Seq(Handlers), NEW reserve \in Seq(Builders),
           NEW outstanding, NEW commands,
           process_pending_handler(pending, reserve, outstanding, commands),
           \A c \in Elements(pending) : leased[c] = NoBuilder, Distinct(pending)
    PROVE  \A c \in Handlers :
             \/ /\ c \in Elements(pending_handlers') <=> c \in Elements(pending)
                /\ leased'[c] = leased[c]
             \/ /\ c \in Elements(pending) /\ c \notin Elements(pending_handlers')
                /\ leased[c] = NoBuilder /\ leased'[c] # NoBuilder
<1>1. CASE pending # <<>> /\ reserve # <<>>
  <2>1. /\ pending_handlers' = Tail(pending)
        /\ leased' = [leased EXCEPT ![Head(pending)] = Head(reserve)]
    BY <1>1 DEF process_pending_handler
  <2>2. /\ Head(pending) \in Handlers /\ Head(reserve) \in Builders
        /\ Elements(pending) = Elements(Tail(pending)) \cup {Head(pending)}
        /\ Head(pending) \notin Elements(Tail(pending))
    BY <1>1, ElementsHeadTail
  <2> QED BY <2>1, <2>2, NoBuilderAssumption DEF OwnershipInv, TypeOK
<1>2. CASE ~(pending # <<>> /\ reserve # <<>>)
  BY <1>2 DEF process_pending_handler
<1> QED BY <1>1, <1>2

\* One step keeps every connection in phase with the queue.
LEMMA DaemonStep ==
    ASSUME DaemonInv, OwnershipInv, TypeOK', [DaemonNext]_allVars
    PROVE  DaemonInv'
<1> USE DEF DaemonInv
<1>0. /\ conn \in [Handlers -> ConnStates]
      /\ builder \in [Handlers -> Builders \cup {NoBuilder}]
      /\ peer \in [Handlers -> PeerStates]
      /\ leased \in [Handlers -> Builders \cup {NoBuilder}]
      /\ pending_handlers \in Seq(Handlers)
      /\ \A c \in Elements(pending_handlers) : leased[c] = NoBuilder
      /\ Distinct(pending_handlers)
  BY DEF DaemonTypeOK, TypeOK, OwnershipInv, Owned
<1>1. ASSUME NEW c \in Handlers, request_builder(c) PROVE DaemonInv'
  <2>1. /\ conn[c] = "reading"
        /\ conn' = [conn EXCEPT ![c] = "pending"]
        /\ UNCHANGED <<builder, peer>>
        /\ checkout_builder(c)
    BY <1>1 DEF request_builder, Advance
  <2>2. /\ Append(pending_handlers, c) \in Seq(Handlers)
        /\ Elements(Append(pending_handlers, c)) = Elements(pending_handlers) \cup {c}
        /\ Distinct(Append(pending_handlers, c))
        /\ leased[c] = NoBuilder
        /\ reserve_builders \in Seq(Builders)
    BY <1>0, <2>1, ElementsAppend DEF checkout_builder, OwnershipInv, TypeOK
  <2>3. \A d \in Handlers :
          \/ /\ d \in Elements(pending_handlers') <=>
                  d \in Elements(Append(pending_handlers, c))
             /\ leased'[d] = leased[d]
          \/ /\ d \in Elements(Append(pending_handlers, c))
             /\ d \notin Elements(pending_handlers')
             /\ leased[d] = NoBuilder /\ leased'[d] # NoBuilder
    BY <1>0, <2>1, <2>2, CheckoutEffect DEF checkout_builder
  <2>4. \A d \in Handlers : PhaseOK(d)'
    BY <1>0, <2>1, <2>2, <2>3 DEF PhaseOK
  <2>5. DaemonTypeOK'
    BY <1>0, <2>1 DEF DaemonTypeOK, ConnStates
  <2> QED BY <2>4, <2>5
<1>2. ASSUME NEW b \in Builders, CreateSucceeds(b), UNCHANGED connection PROVE DaemonInv'
  <2>1. Append(reserve_builders, b) \in Seq(Builders)
    BY DEF OwnershipInv, TypeOK
  <2>2. \A d \in Handlers :
          \/ /\ d \in Elements(pending_handlers') <=> d \in Elements(pending_handlers)
             /\ leased'[d] = leased[d]
          \/ /\ d \in Elements(pending_handlers) /\ d \notin Elements(pending_handlers')
             /\ leased[d] = NoBuilder /\ leased'[d] # NoBuilder
    BY <1>0, <1>2, <2>1, CheckoutEffect DEF CreateSucceeds
  <2>3. UNCHANGED <<conn, builder, peer>>
    BY <1>2 DEF connection
  <2>4. \A d \in Handlers : PhaseOK(d)'
    BY <1>0, <2>2, <2>3 DEF PhaseOK
  <2> QED BY <1>0, <2>3, <2>4 DEF DaemonTypeOK
<1>3. CASE Commands /\ ~\E b \in Builders : CreateSucceeds(b)
  <2>1. UNCHANGED <<pending_handlers, leased, conn, builder, peer>>
    BY <1>3 DEF Commands, connection, CreateFails, CreateLaunchError,
         retry_create_reserve_builders, DestroyEnds, DestroyReadError, DestroyLaunchError,
         DestroyFalseSuccess, retry_return_builder, lists
  <2> QED BY <1>0, <2>1 DEF DaemonTypeOK, PhaseOK
<1>4. ASSUME NEW c \in Handlers, EndConnection(c), conn[c] # "pending" PROVE DaemonInv'
  <2>1. /\ conn' = [conn EXCEPT ![c] = "none"]
        /\ builder' = [builder EXCEPT ![c] = NoBuilder]
        /\ peer' = [peer EXCEPT ![c] = "away"]
    BY <1>4 DEF EndConnection
  <2>2. /\ pending_handlers' = pending_handlers
        /\ \A d \in Handlers : leased'[d] = IF d = c THEN NoBuilder ELSE leased[d]
    <3>1. CASE builder[c] # NoBuilder
      BY <1>0, <1>4, <3>1 DEF EndConnection, ReturnBuilder
    <3>2. CASE builder[c] = NoBuilder
      <4>1. leased[c] = NoBuilder
        BY <1>0, <1>4, <3>2 DEF PhaseOK
      <4>2. UNCHANGED vars
        BY <1>4, <3>2 DEF EndConnection
      <4> QED BY <4>1, <4>2 DEF vars, lists
    <3> QED BY <3>1, <3>2
  <2>3. c \notin Elements(pending_handlers)
    BY <1>0, <1>4 DEF PhaseOK
  <2>4. \A d \in Handlers : PhaseOK(d)'
    BY <1>0, <2>1, <2>2, <2>3 DEF PhaseOK
  <2>5. DaemonTypeOK'
    BY <1>0, <2>1 DEF DaemonTypeOK, ConnStates, PeerStates
  <2> QED BY <2>4, <2>5
<1>5. ASSUME NEW c \in Handlers, builder_ready(c) PROVE DaemonInv'
  <2>1. UNCHANGED <<pending_handlers, leased>>
    BY <1>5 DEF builder_ready, vars, lists
  <2> QED BY <1>0, <1>5, <2>1 DEF builder_ready, DaemonTypeOK, ConnStates, PhaseOK
<1>6. ASSUME NEW c \in Handlers,
             \/ Accept(c) \/ Handshake(c) \/ request_queue_stats(c) \/ request_image_list(c)
             \/ ImageListError(c) \/ ImageList(c) \/ FirstReplied(c) \/ BuilderWritten(c)
             \/ PeerCloses(c) \/ PeerDies(c)
      PROVE  DaemonInv'
  <2>1. UNCHANGED <<pending_handlers, leased, builder>>
    BY <1>6 DEF Accept, Handshake, request_queue_stats, request_image_list, ImageListError,
         ImageList, FirstReplied, BuilderWritten, PeerCloses, PeerDies, Advance, vars, lists
  <2>2. /\ conn' \in [Handlers -> ConnStates]
        /\ \A d \in Handlers :
             \/ conn'[d] = conn[d]
             \/ /\ conn[d] \notin {"pending", "writing", "holding"}
                /\ conn'[d] \notin {"pending", "writing", "holding"}
             \/ conn[d] = "writing" /\ conn'[d] = "holding"
    BY <1>0, <1>6 DEF Accept, Handshake, request_queue_stats, request_image_list,
         ImageListError, ImageList, FirstReplied, BuilderWritten, PeerCloses, PeerDies, Advance,
         ConnStates
  <2>3. peer' \in [Handlers -> PeerStates]
    BY <1>0, <1>6 DEF Accept, Handshake, request_queue_stats, request_image_list,
         ImageListError, ImageList, FirstReplied, BuilderWritten, PeerCloses, PeerDies, Advance,
         PeerStates
  <2>4. \A d \in Handlers : PhaseOK(d)'
    BY <1>0, <2>1, <2>2 DEF PhaseOK
  <2> QED BY <1>0, <2>1, <2>2, <2>3, <2>4 DEF DaemonTypeOK
<1>7. CASE UNCHANGED allVars
  BY <1>7 DEF allVars, vars, lists, connection, DaemonTypeOK, PhaseOK
<1>8. ASSUME NEW c \in Handlers, Serve(c) PROVE DaemonInv'
  <2>1. CASE RequestFails(c) \/ Replied(c) \/ BuilderNotWritten(c) \/ Closed(c)
    BY <1>4, <2>1 DEF RequestFails, Replied, BuilderNotWritten, Closed
  <2> QED BY <1>1, <1>5, <1>6, <1>8, <2>1 DEF Serve
<1> QED BY <1>2, <1>3, <1>6, <1>7, <1>8 DEF DaemonNext, Commands

\* The connections' invariant holds in every reachable state.
LEMMA DaemonInvariant == DaemonSpec => []DaemonInv
<1>1. DaemonInit /\ TypeOK => DaemonInv
  <2>1. Elements(<<>>) = {}
    BY DEF Elements
  <2> QED BY <2>1 DEF DaemonInit, Init, DaemonInv, DaemonTypeOK, ConnStates, PeerStates, PhaseOK
<1>2. DaemonInv /\ OwnershipInv /\ TypeOK' /\ [DaemonNext]_allVars => DaemonInv'
  BY DaemonStep
<1> QED BY <1>1, <1>2, DaemonRefinesQueue, TypeCorrect, OwnershipInvariant, PTL
        DEF DaemonSpec, QueueSpec

\* The daemon's variables always have their types.
THEOREM DaemonTypeCorrect == DaemonSpec => []DaemonTypeOK
<1>1. DaemonInv => DaemonTypeOK
  BY DEF DaemonInv
<1> QED BY <1>1, DaemonInvariant, PTL

\* No builder is lost between the queue and the connections.
THEOREM LeasesOwned == DaemonSpec => []LeaseHasOwner
<1>1. DaemonInv => LeaseHasOwner
  BY DEF DaemonInv, PhaseOK, LeaseHasOwner
<1> QED BY <1>1, DaemonInvariant, PTL

\* A connection that waits for a builder is queued or served, and no other is.
THEOREM WaitingIsQueued == DaemonSpec => []PendingIsQueued
<1>1. DaemonInv => PendingIsQueued
  BY DEF DaemonInv, PhaseOK, PendingIsQueued
<1> QED BY <1>1, DaemonInvariant, PTL

\* One step does not take the builder of a connected client away.
LEMMA ConnectedStep ==
    ASSUME DaemonInv, OwnershipInv, [DaemonNext]_allVars,
           NEW c \in Handlers, leased[c] # NoBuilder, peer[c] = "open"
    PROVE  leased'[c] = leased[c]
<1> USE DEF DaemonInv
<1>1. ASSUME NEW d \in Handlers, ReturnBuilder(d), d # c PROVE leased'[c] = leased[c]
  BY <1>1 DEF ReturnBuilder, OwnershipInv, TypeOK
<1>2. ASSUME NEW d \in Handlers, EndConnection(d), d = c => builder[c] = NoBuilder
      PROVE  leased'[c] = leased[c]
  BY <1>1, <1>2 DEF EndConnection, vars, lists
<1>3. ASSUME NEW pending \in Seq(Handlers), NEW reserve \in Seq(Builders),
             NEW outstanding, NEW commands,
             process_pending_handler(pending, reserve, outstanding, commands),
             \A d \in Elements(pending) : leased[d] = NoBuilder, Distinct(pending)
      PROVE  leased'[c] = leased[c]
  BY <1>3, CheckoutEffect
<1>4. ASSUME NEW d \in Handlers, request_builder(d) PROVE leased'[c] = leased[c]
  <2>1. /\ Append(pending_handlers, d) \in Seq(Handlers)
        /\ \A e \in Elements(Append(pending_handlers, d)) : leased[e] = NoBuilder
        /\ Distinct(Append(pending_handlers, d))
        /\ reserve_builders \in Seq(Builders)
    BY <1>4, ElementsAppend
       DEF request_builder, checkout_builder, OwnershipInv, Owned, TypeOK
  <2> QED BY <1>3, <1>4, <2>1 DEF request_builder, checkout_builder
<1>5. ASSUME NEW b \in Builders, CreateSucceeds(b) PROVE leased'[c] = leased[c]
  <2>1. /\ Append(reserve_builders, b) \in Seq(Builders)
        /\ pending_handlers \in Seq(Handlers)
        /\ \A e \in Elements(pending_handlers) : leased[e] = NoBuilder
        /\ Distinct(pending_handlers)
    BY DEF OwnershipInv, Owned, TypeOK
  <2> QED BY <1>3, <1>5, <2>1 DEF CreateSucceeds
<1>6. CASE Commands /\ ~\E b \in Builders : CreateSucceeds(b)
  BY <1>6 DEF Commands, CreateFails, CreateLaunchError,
       retry_create_reserve_builders, DestroyEnds, DestroyReadError, DestroyLaunchError,
       DestroyFalseSuccess, retry_return_builder, lists
<1>7. ASSUME NEW d \in Handlers, RequestFails(d) \/ Replied(d) PROVE leased'[c] = leased[c]
  <2>1. builder[d] = NoBuilder
    BY <1>7 DEF RequestFails, Replied, PhaseOK
  <2> QED BY <1>2, <1>7, <2>1 DEF RequestFails, Replied
<1>8. ASSUME NEW d \in Handlers, BuilderNotWritten(d) \/ Closed(d)
      PROVE  leased'[c] = leased[c]
  <2>1. d # c
    BY <1>8 DEF BuilderNotWritten, Closed
  <2> QED BY <1>2, <1>8, <2>1 DEF BuilderNotWritten, Closed
<1>9. ASSUME NEW d \in Handlers,
             \/ Accept(d) \/ Handshake(d) \/ request_queue_stats(d) \/ request_image_list(d)
             \/ ImageListError(d) \/ ImageList(d) \/ FirstReplied(d) \/ builder_ready(d)
             \/ BuilderWritten(d)
             \/ PeerCloses(d) \/ PeerDies(d)
      PROVE  leased'[c] = leased[c]
  BY <1>9 DEF Accept, Handshake, request_queue_stats, request_image_list, ImageListError,
       ImageList, FirstReplied, builder_ready, BuilderWritten, PeerCloses, PeerDies, vars, lists
<1>10. CASE UNCHANGED allVars
  BY <1>10 DEF allVars, vars, lists
<1> QED BY <1>4, <1>5, <1>6, <1>7, <1>8, <1>9, <1>10
        DEF DaemonNext, Serve, Commands

\* A connected client's builder is not taken away.
THEOREM ConnectedKeeps == DaemonSpec => ConnectedKeepsBuilder
<1>1. DaemonInv /\ OwnershipInv /\ [DaemonNext]_allVars =>
        [\A c \in Handlers : TakenBack(c) => peer[c] # "open"]_allVars
  BY ConnectedStep DEF TakenBack
<1> QED BY <1>1, DaemonInvariant, DaemonRefinesQueue, OwnershipInvariant, PTL
        DEF DaemonSpec, QueueSpec, ConnectedKeepsBuilder
=============================================================================
