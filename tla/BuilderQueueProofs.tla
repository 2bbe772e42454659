------------------------- MODULE BuilderQueueProofs -------------------------
(***************************************************************************)
(* Theorems about BuilderQueue, for every value of its constants.          *)
(***************************************************************************)
EXTENDS BuilderQueue, SequenceTheorems, FiniteSetTheorems, TLAPS

\* The type of what create_reserve_builders assigns.
LEMMA CreateReserveType ==
    ASSUME TypeOK, NEW reserve, NEW active, NEW outstanding \in Int, NEW commands \in Nat,
           create_reserve_builders(reserve, active, outstanding, commands)
    PROVE  /\ outstanding_create_count' \in Int
           /\ creating' \in Nat
           /\ create_errors' \in Nat
           /\ launch_failures' \in 0..MaxLaunchFailures
           /\ leaked_creates' \in Nat
BY LimitsAssumption DEF TypeOK, create_reserve_builders

\* The type of what process_pending_handler assigns.
LEMMA ProcessPendingType ==
    ASSUME TypeOK, NEW pending \in Seq(Handlers), NEW reserve \in Seq(Builders),
           NEW outstanding \in Int, NEW commands \in Nat,
           process_pending_handler(pending, reserve, outstanding, commands)
    PROVE  /\ pending_handlers' \in Seq(Handlers)
           /\ reserve_builders' \in Seq(Builders)
           /\ active_builders' \in SUBSET Builders
           /\ leased' \in [Handlers -> Builders \cup {NoBuilder}]
           /\ outstanding_create_count' \in Int
           /\ creating' \in Nat
           /\ create_errors' \in Nat
           /\ launch_failures' \in 0..MaxLaunchFailures
           /\ leaked_creates' \in Nat
<1>1. CASE pending # <<>> /\ reserve # <<>>
  <2>1. /\ Head(pending) \in Handlers /\ Tail(pending) \in Seq(Handlers)
        /\ Head(reserve) \in Builders /\ Tail(reserve) \in Seq(Builders)
    BY <1>1, HeadTailProperties
  <2>2. create_reserve_builders(Len(reserve) - 1, Cardinality(active_builders) + 1,
                                outstanding, commands)
    BY <1>1 DEF process_pending_handler
  <2>3. /\ outstanding_create_count' \in Int
        /\ creating' \in Nat
        /\ create_errors' \in Nat
        /\ launch_failures' \in 0..MaxLaunchFailures
        /\ leaked_creates' \in Nat
    BY <2>2, CreateReserveType
  <2> QED BY <1>1, <2>1, <2>3 DEF process_pending_handler, TypeOK
<1>2. CASE ~(pending # <<>> /\ reserve # <<>>)
  BY <1>2 DEF process_pending_handler, TypeOK
<1> QED BY <1>1, <1>2

\* One step keeps the types.
LEMMA TypeStep ==
    ASSUME TypeOK, [Next]_vars
    PROVE  TypeOK'
<1>1. ASSUME NEW c \in Handlers, checkout_builder(c) PROVE TypeOK'
  <2>1. Append(pending_handlers, c) \in Seq(Handlers)
    BY DEF TypeOK
  <2>2. process_pending_handler(Append(pending_handlers, c), reserve_builders,
                                outstanding_create_count, creating)
    BY <1>1 DEF checkout_builder
  <2> QED BY <1>1, <2>1, <2>2, ProcessPendingType DEF checkout_builder, TypeOK
<1>2. ASSUME NEW c \in Handlers, ReturnBuilder(c) PROVE TypeOK'
  BY <1>2 DEF ReturnBuilder, return_builder, ReturnThrows, TypeOK, DestroyStates, creates
<1>3. ASSUME NEW b \in Builders, CreateSucceeds(b) PROVE TypeOK'
  <2>1. /\ Append(reserve_builders, b) \in Seq(Builders)
        /\ outstanding_create_count - 1 \in Int
        /\ creating - 1 \in Nat
    BY <1>3 DEF TypeOK, CreateSucceeds
  <2>2. process_pending_handler(pending_handlers, Append(reserve_builders, b),
                                outstanding_create_count - 1, creating - 1)
    BY <1>3 DEF CreateSucceeds
  <2> QED BY <1>3, <2>1, <2>2, ProcessPendingType DEF CreateSucceeds, TypeOK
<1>4. ASSUME NEW b \in Builders, DestroyEnds(b) \/ DestroyFalseSuccess(b) PROVE TypeOK'
  <2>1. /\ active_builders' = active_builders \ {b}
        /\ create_reserve_builders(Len(reserve_builders), Cardinality(active_builders \ {b}),
                                   outstanding_create_count, creating)
    BY <1>4 DEF DestroyEnds, DestroyFalseSuccess, RemoveActive
  <2>2. /\ outstanding_create_count' \in Int
        /\ creating' \in Nat
        /\ create_errors' \in Nat
        /\ launch_failures' \in 0..MaxLaunchFailures
        /\ leaked_creates' \in Nat
    BY <2>1, CreateReserveType DEF TypeOK
  <2> QED BY <1>4, <2>1, <2>2 DEF DestroyEnds, DestroyFalseSuccess, TypeOK, DestroyStates
<1>5. ASSUME NEW b \in Builders,
             DestroyReadError(b) \/ DestroyLaunchError(b) \/ retry_return_builder(b)
      PROVE  TypeOK'
  BY <1>5 DEF DestroyReadError, DestroyLaunchError, retry_return_builder,
       return_builder, ReturnThrows, TypeOK, DestroyStates, lists, creates
<1>6. CASE CreateFails \/ CreateLaunchError
  BY <1>6 DEF CreateFails, CreateLaunchError, TypeOK, lists
<1>7. CASE retry_create_reserve_builders
  <2>1. create_reserve_builders(Len(reserve_builders), Cardinality(active_builders),
                                outstanding_create_count, creating)
    BY <1>7 DEF retry_create_reserve_builders
  <2>2. /\ outstanding_create_count' \in Int
        /\ creating' \in Nat
        /\ create_errors' \in Nat
        /\ launch_failures' \in 0..MaxLaunchFailures
        /\ leaked_creates' \in Nat
    BY <2>1, CreateReserveType DEF TypeOK
  <2> QED BY <1>7, <2>2 DEF retry_create_reserve_builders, TypeOK, lists
<1>8. CASE UNCHANGED vars
  BY <1>8 DEF vars, lists, creates, TypeOK
<1> QED BY <1>1, <1>2, <1>3, <1>4, <1>5, <1>6, <1>7, <1>8 DEF Next

\* The variables of BuilderQueue always have their types.
THEOREM TypeCorrect == Spec => []TypeOK
<1>1. Init => TypeOK
  BY LimitsAssumption DEF Init, TypeOK, DestroyStates
<1>2. TypeOK /\ [Next]_vars => TypeOK'
  BY TypeStep
<1> QED BY <1>1, <1>2, PTL DEF Spec

-----------------------------------------------------------------------------
(***************************************************************************)
(* The counters.  The limits hold because every create_reserve_builders    *)
(* starts from counters that are within them, and then the unsigned        *)
(* arithmetic of RequestCount is that of the integers, or asks for nothing *)
(* when a launch failure has driven the count below zero.                  *)
(***************************************************************************)
\* How the counters stand when a handler calls create_reserve_builders.
Plan(reserve, active, outstanding, commands) ==
    /\ outstanding = commands + create_errors - launch_failures + leaked_creates
    /\ reserve + outstanding <= MaxReserve
    /\ reserve + active + outstanding <= MaxBuilders

\* What RequestCount asks for fits under both limits; nothing when the sum of the
\* reserve and the outstanding creates is negative, and all there is room for
\* otherwise.
LEMMA RequestFits ==
    ASSUME NEW reserve \in Nat, NEW active \in Nat, NEW outstanding \in Int,
           outstanding >= -MaxLaunchFailures,
           reserve + outstanding <= MaxReserve,
           reserve + active + outstanding <= MaxBuilders
    PROVE  /\ RequestCount(reserve, active, outstanding) \in Nat
           /\ reserve + outstanding < 0 => RequestCount(reserve, active, outstanding) = 0
           /\ reserve + outstanding >= 0 =>
                /\ reserve + outstanding + RequestCount(reserve, active, outstanding)
                     <= MaxReserve
                /\ reserve + active + outstanding
                     + RequestCount(reserve, active, outstanding) <= MaxBuilders
                /\ \/ reserve + outstanding + RequestCount(reserve, active, outstanding)
                        = MaxReserve
                   \/ reserve + active + outstanding
                        + RequestCount(reserve, active, outstanding) = MaxBuilders
<1>1. CASE reserve + outstanding < 0
  <2>1. Wrap(reserve + outstanding) >= MaxReserve
    BY <1>1, LimitsAssumption, WidthAssumption DEF Wrap
  <2>2. Wrap(reserve + outstanding) \in Int
    BY <1>1, WidthAssumption DEF Wrap
  <2>3. RequestCount(reserve, active, outstanding) = 0
    BY <2>1, <2>2, LimitsAssumption DEF RequestCount
  <2> QED BY <1>1, <2>3
<1>2. CASE reserve + outstanding >= 0
  <2>1. Wrap(reserve + outstanding) = reserve + outstanding
    BY <1>2 DEF Wrap
  <2>2. Wrap(MaxBuilders - (reserve + outstanding + active))
          = MaxBuilders - (reserve + outstanding + active)
    BY LimitsAssumption DEF Wrap
  <2>3. RequestCount(reserve, active, outstanding) =
          IF reserve + outstanding < MaxReserve
          THEN Smaller(MaxReserve - (reserve + outstanding),
                       MaxBuilders - (reserve + outstanding + active))
          ELSE 0
    BY <2>1, <2>2 DEF RequestCount
  <2> QED BY <1>2, <2>3, LimitsAssumption DEF Smaller
<1> QED BY <1>1, <1>2

\* create_reserve_builders keeps the counters within the limits and accounted
\* for; a negative sum stays as it is and no command is launched; otherwise, if
\* no constructor throws, all that the limits leave room for is requested.
LEMMA CreateReserveCounts ==
    ASSUME TypeOK, NEW reserve \in Nat, NEW active \in Nat,
           NEW outstanding \in Int, NEW commands \in Nat,
           Plan(reserve, active, outstanding, commands),
           create_reserve_builders(reserve, active, outstanding, commands)
    PROVE  /\ outstanding_create_count' =
                creating' + create_errors' - launch_failures' + leaked_creates'
           /\ reserve + outstanding_create_count' <= MaxReserve
           /\ reserve + active + outstanding_create_count' <= MaxBuilders
           /\ outstanding_create_count' \in Int
           /\ reserve + outstanding < 0 =>
                /\ outstanding_create_count' = outstanding
                /\ creating' = commands
           /\ create_errors' >= create_errors
           /\ reserve + outstanding >= 0 /\ leaked_creates' = 0 =>
                \/ reserve + outstanding_create_count' = MaxReserve
                \/ reserve + active + outstanding_create_count' = MaxBuilders
<1> DEFINE request_count == RequestCount(reserve, active, outstanding)
<1>1. outstanding >= -MaxLaunchFailures
  BY LimitsAssumption DEF Plan, TypeOK
<1>2. /\ request_count \in Nat
      /\ reserve + outstanding < 0 => request_count = 0
      /\ reserve + outstanding >= 0 =>
           /\ reserve + outstanding + request_count <= MaxReserve
           /\ reserve + active + outstanding + request_count <= MaxBuilders
           /\ \/ reserve + outstanding + request_count = MaxReserve
              \/ reserve + active + outstanding + request_count = MaxBuilders
  BY <1>1, RequestFits DEF Plan
<1>3. PICK launched \in 0..MaxReserve, failed \in 0..MaxReserve, thrown \in 0..1 :
        /\ IF thrown = 0 THEN launched + failed = request_count
                         ELSE launched + failed < request_count
        /\ outstanding_create_count' = outstanding + launched + failed + thrown
        /\ creating' = commands + launched
        /\ create_errors' = create_errors + 2 * failed
        /\ launch_failures' = launch_failures + failed
        /\ leaked_creates' = leaked_creates + thrown
  BY DEF create_reserve_builders
<1> HIDE DEF request_count
<1>4. launched + failed + thrown <= request_count
  BY <1>2, <1>3, LimitsAssumption
<1>5. /\ launched \in Nat /\ failed \in Nat /\ thrown \in Nat
      /\ create_errors \in Nat /\ launch_failures \in Nat /\ leaked_creates \in Nat
  BY LimitsAssumption DEF TypeOK
<1>6. outstanding_create_count' =
        creating' + create_errors' - launch_failures' + leaked_creates'
  BY <1>3, <1>5 DEF Plan
<1>7. /\ reserve + outstanding_create_count' <= MaxReserve
      /\ reserve + active + outstanding_create_count' <= MaxBuilders
  BY <1>2, <1>3, <1>4, <1>5, LimitsAssumption DEF Plan
<1>8. reserve + outstanding < 0 =>
        outstanding_create_count' = outstanding /\ creating' = commands
  BY <1>2, <1>3, <1>4, <1>5
<1>9. reserve + outstanding >= 0 /\ leaked_creates' = 0 =>
        \/ reserve + outstanding_create_count' = MaxReserve
        \/ reserve + active + outstanding_create_count' = MaxBuilders
  BY <1>2, <1>3, <1>5
<1> QED BY <1>3, <1>5, <1>6, <1>7, <1>8, <1>9

\* The strengthening that makes the counters' properties inductive.
CountInv ==
    /\ TypeOK
    /\ IsFiniteSet(active_builders)
    /\ OutstandingAccounted
    /\ PlannedWithinLimits

\* process_pending_handler moves a builder from one list to the other, which
\* leaves the planned total as it is.
LEMMA ProcessPendingCounts ==
    ASSUME TypeOK, IsFiniteSet(active_builders),
           NEW pending \in Seq(Handlers), NEW reserve \in Seq(Builders),
           NEW outstanding \in Int, NEW commands \in Nat,
           Plan(Len(reserve), Cardinality(active_builders), outstanding, commands),
           process_pending_handler(pending, reserve, outstanding, commands)
    PROVE  /\ IsFiniteSet(active_builders')
           /\ OutstandingAccounted'
           /\ PlannedWithinLimits'
           /\ Len(reserve) + outstanding < 0 => Wedged' /\ creating' <= commands
<1>1. CASE pending # <<>> /\ reserve # <<>>
  <2>1. /\ reserve_builders' = Tail(reserve)
        /\ active_builders' = active_builders \cup {Head(reserve)}
        /\ create_reserve_builders(Len(reserve) - 1, Cardinality(active_builders) + 1,
                                   outstanding, commands)
    BY <1>1 DEF process_pending_handler
  <2>2. Len(reserve) \in Nat /\ Len(reserve) > 0 /\ Len(reserve_builders') = Len(reserve) - 1
    BY <1>1, <2>1, HeadTailProperties, EmptySeq, LenProperties
  <2>3. /\ IsFiniteSet(active_builders')
        /\ Cardinality(active_builders) \in Nat
        /\ Cardinality(active_builders') \in Nat
        /\ Cardinality(active_builders') <= Cardinality(active_builders) + 1
    <3>1. /\ IsFiniteSet(active_builders \cup {Head(reserve)})
          /\ Cardinality(active_builders \cup {Head(reserve)}) =
               IF Head(reserve) \in active_builders THEN Cardinality(active_builders)
                                                     ELSE Cardinality(active_builders) + 1
      BY FS_AddElement
    <3>2. Cardinality(active_builders) \in Nat
      BY FS_CardinalityType
    <3> QED BY <2>1, <3>1, <3>2
  <2>4. Plan(Len(reserve) - 1, Cardinality(active_builders) + 1, outstanding, commands)
    BY <2>2, <2>3, LimitsAssumption DEF Plan, TypeOK
  <2>5. /\ outstanding_create_count' =
             creating' + create_errors' - launch_failures' + leaked_creates'
        /\ Len(reserve) - 1 + outstanding_create_count' <= MaxReserve
        /\ Len(reserve) - 1 + (Cardinality(active_builders) + 1)
             + outstanding_create_count' <= MaxBuilders
        /\ outstanding_create_count' \in Int
        /\ Len(reserve) - 1 + outstanding < 0 =>
             /\ outstanding_create_count' = outstanding
             /\ creating' = commands
    <3>1. Len(reserve) - 1 \in Nat /\ Cardinality(active_builders) + 1 \in Nat
      BY <2>2, <2>3
    <3> QED BY <2>1, <2>4, <3>1, CreateReserveCounts
  <2>6. PlannedWithinLimits'
    BY <2>2, <2>3, <2>5, LimitsAssumption DEF PlannedWithinLimits
  <2>7. Len(reserve) + outstanding < 0 => Wedged' /\ creating' <= commands
    BY <2>2, <2>5 DEF Wedged
  <2> QED BY <2>3, <2>5, <2>6, <2>7 DEF OutstandingAccounted
<1>2. CASE ~(pending # <<>> /\ reserve # <<>>)
  BY <1>2 DEF process_pending_handler, Plan, OutstandingAccounted, PlannedWithinLimits, Wedged
<1> QED BY <1>1, <1>2

\* The same for the handlers that call create_reserve_builders with the lists as
\* they are, or with a smaller set of active builders.
LEMMA TopUpCounts ==
    ASSUME CountInv, NEW active \in SUBSET active_builders,
           active_builders' = active, reserve_builders' = reserve_builders,
           create_reserve_builders(Len(reserve_builders), Cardinality(active),
                                   outstanding_create_count, creating)
    PROVE  /\ IsFiniteSet(active_builders')
           /\ OutstandingAccounted'
           /\ PlannedWithinLimits'
           /\ Wedged => Wedged' /\ creating' <= creating
<1>1. /\ IsFiniteSet(active)
      /\ Cardinality(active) \in Nat
      /\ Cardinality(active_builders) \in Nat
      /\ Cardinality(active) <= Cardinality(active_builders)
  BY FS_Subset, FS_CardinalityType DEF CountInv
<1>2. Len(reserve_builders) \in Nat
  BY LenProperties DEF CountInv, TypeOK
<1>3. Plan(Len(reserve_builders), Cardinality(active), outstanding_create_count, creating)
  BY <1>1, <1>2, LimitsAssumption
     DEF CountInv, TypeOK, Plan, OutstandingAccounted, PlannedWithinLimits
<1>4. /\ outstanding_create_count' =
           creating' + create_errors' - launch_failures' + leaked_creates'
      /\ Len(reserve_builders) + outstanding_create_count' <= MaxReserve
      /\ Len(reserve_builders) + Cardinality(active)
           + outstanding_create_count' <= MaxBuilders
      /\ Len(reserve_builders) + outstanding_create_count < 0 =>
           /\ outstanding_create_count' = outstanding_create_count
           /\ creating' = creating
  BY <1>1, <1>2, <1>3, CreateReserveCounts DEF CountInv, TypeOK
<1> QED BY <1>1, <1>2, <1>4 DEF OutstandingAccounted, PlannedWithinLimits, Wedged, CountInv, TypeOK

\* The counters' properties hold when the constructor has run.
LEMMA CountInit == Init => CountInv
<1> SUFFICES ASSUME Init PROVE CountInv
  OBVIOUS
<1>1. TypeOK
  BY LimitsAssumption DEF Init, TypeOK, DestroyStates
<1>2. /\ IsFiniteSet(active_builders)
      /\ Cardinality(active_builders) = 0
      /\ Len(reserve_builders) = 0
  BY FS_EmptySet DEF Init
<1>3. /\ RequestCount(0, 0, 0) \in Nat
      /\ 0 + 0 + RequestCount(0, 0, 0) <= MaxReserve
      /\ 0 + 0 + 0 + RequestCount(0, 0, 0) <= MaxBuilders
  BY RequestFits, LimitsAssumption
<1>4. /\ outstanding_create_count = RequestCount(0, 0, 0)
      /\ OutstandingAccounted
  BY LimitsAssumption DEF Init, OutstandingAccounted
<1>5. PlannedWithinLimits
  BY <1>2, <1>3, <1>4 DEF PlannedWithinLimits
<1> QED BY <1>1, <1>2, <1>4, <1>5 DEF CountInv

\* One step keeps the counters right, and cannot end a wedge.
LEMMA CountStep ==
    ASSUME CountInv, TypeOK', [Next]_vars
    PROVE  CountInv' /\ (Wedged => Wedged' /\ creating' <= creating)
<1> DEFINE Goal == /\ IsFiniteSet(active_builders')
                   /\ OutstandingAccounted'
                   /\ PlannedWithinLimits'
                   /\ Wedged => Wedged' /\ creating' <= creating
<1> SUFFICES Goal
  BY DEF CountInv
<1>0. TypeOK /\ Len(reserve_builders) \in Nat /\ Cardinality(active_builders) \in Nat
  BY LenProperties, FS_CardinalityType DEF CountInv, TypeOK
<1>1. ASSUME NEW c \in Handlers, checkout_builder(c) PROVE Goal
  <2>1. Append(pending_handlers, c) \in Seq(Handlers)
    BY <1>0 DEF TypeOK
  <2>2. process_pending_handler(Append(pending_handlers, c), reserve_builders,
                                outstanding_create_count, creating)
    BY <1>1 DEF checkout_builder
  <2>3. Plan(Len(reserve_builders), Cardinality(active_builders),
             outstanding_create_count, creating)
    BY DEF CountInv, Plan, OutstandingAccounted, PlannedWithinLimits
  <2> QED BY <1>0, <2>1, <2>2, <2>3, ProcessPendingCounts DEF CountInv, TypeOK, Wedged
<1>2. ASSUME NEW b \in Builders, CreateSucceeds(b) PROVE Goal
  <2>1. /\ Append(reserve_builders, b) \in Seq(Builders)
        /\ Len(Append(reserve_builders, b)) = Len(reserve_builders) + 1
        /\ outstanding_create_count - 1 \in Int
        /\ creating - 1 \in Nat
    BY <1>0, <1>2, AppendProperties DEF TypeOK, CreateSucceeds
  <2>2. process_pending_handler(pending_handlers, Append(reserve_builders, b),
                                outstanding_create_count - 1, creating - 1)
    BY <1>2 DEF CreateSucceeds
  <2>3. Plan(Len(Append(reserve_builders, b)), Cardinality(active_builders),
             outstanding_create_count - 1, creating - 1)
    <3>1. /\ outstanding_create_count \in Int /\ creating \in Int
          /\ create_errors \in Int /\ launch_failures \in Int /\ leaked_creates \in Int
      BY <1>0, LimitsAssumption DEF TypeOK
    <3>2. MaxReserve \in Int /\ MaxBuilders \in Int
      BY LimitsAssumption
    <3> QED BY <1>0, <2>1, <3>1, <3>2
            DEF CountInv, Plan, OutstandingAccounted, PlannedWithinLimits
  <2>4. /\ IsFiniteSet(active_builders')
        /\ OutstandingAccounted'
        /\ PlannedWithinLimits'
        /\ Len(Append(reserve_builders, b)) + (outstanding_create_count - 1) < 0 =>
             Wedged' /\ creating' <= creating - 1
    BY <1>0, <2>1, <2>2, <2>3, ProcessPendingCounts DEF CountInv, TypeOK
  <2> QED BY <1>0, <2>1, <2>4 DEF TypeOK, Wedged
<1>3. ASSUME NEW b \in Builders, DestroyEnds(b) \/ DestroyFalseSuccess(b) PROVE Goal
  BY <1>3, TopUpCounts DEF DestroyEnds, DestroyFalseSuccess, RemoveActive
<1>4. CASE retry_create_reserve_builders
  BY <1>4, TopUpCounts DEF retry_create_reserve_builders, lists
<1>5. ASSUME NEW b \in Builders,
             DestroyReadError(b) \/ DestroyLaunchError(b) \/ retry_return_builder(b)
      PROVE  Goal
  <2>1. UNCHANGED <<lists, creates>>
    BY <1>5 DEF DestroyReadError, DestroyLaunchError, retry_return_builder
  <2> QED BY <2>1, <1>0 DEF lists, creates,
            CountInv, TypeOK, OutstandingAccounted, PlannedWithinLimits, Wedged
<1>6. ASSUME NEW c \in Handlers, ReturnBuilder(c) PROVE Goal
  BY <1>6, <1>0 DEF ReturnBuilder, creates,
       CountInv, TypeOK, OutstandingAccounted, PlannedWithinLimits, Wedged
<1>7. CASE CreateFails \/ CreateLaunchError
  <2>1. /\ UNCHANGED <<reserve_builders, active_builders, launch_failures, leaked_creates>>
        /\ outstanding_create_count' = outstanding_create_count - 1
        /\ \/ creating' = creating - 1 /\ create_errors' = create_errors
           \/ creating' = creating /\ create_errors' = create_errors - 1
    BY <1>7 DEF CreateFails, CreateLaunchError, lists
  <2>2. /\ outstanding_create_count \in Int /\ creating \in Int
        /\ create_errors \in Int /\ launch_failures \in Int /\ leaked_creates \in Int
        /\ MaxReserve \in Int /\ MaxBuilders \in Int
    BY <1>0, LimitsAssumption DEF TypeOK
  <2>3. OutstandingAccounted'
    BY <2>1, <2>2 DEF CountInv, OutstandingAccounted
  <2>4. PlannedWithinLimits'
    BY <2>1, <2>2, <1>0 DEF CountInv, PlannedWithinLimits
  <2>5. Wedged => Wedged' /\ creating' <= creating
    BY <2>1, <2>2, <1>0 DEF Wedged
  <2> QED BY <2>1, <2>3, <2>4, <2>5 DEF CountInv
<1>8. CASE UNCHANGED vars
  BY <1>8, <1>0 DEF vars, lists, creates,
       CountInv, TypeOK, OutstandingAccounted, PlannedWithinLimits, Wedged
<1> QED BY <1>1, <1>2, <1>3, <1>4, <1>5, <1>6, <1>7, <1>8 DEF Next

\* The counters' strengthening is an invariant.
LEMMA CountInvariant == Spec => []CountInv
<1>1. CountInv /\ TypeOK' /\ [Next]_vars => CountInv'
  BY CountStep
<1> QED BY <1>1, CountInit, TypeCorrect, PTL DEF Spec

\* The queue never plans more builders than its limits allow, whatever fails: the
\* unsigned subtraction in create_reserve_builders never wraps around.
THEOREM LimitsKept == Spec => []PlannedWithinLimits
<1>1. CountInv => PlannedWithinLimits
  BY DEF CountInv
<1> QED BY <1>1, CountInvariant, PTL

\* outstanding_create_count is off by exactly the launches and constructors that
\* failed.
THEOREM CountAccounted == Spec => []OutstandingAccounted
<1>1. CountInv => OutstandingAccounted
  BY DEF CountInv
<1> QED BY <1>1, CountInvariant, PTL

\* A wedged queue launches no create command ever again.
THEOREM WedgeIsPermanent == Spec => WedgedForever
<1>1. CountInv /\ TypeOK' /\ [Next]_vars => [Wedged => Wedged' /\ creating' <= creating]_vars
  BY CountStep
<1> QED BY <1>1, CountInvariant, TypeCorrect, PTL DEF Spec, WedgedForever

-----------------------------------------------------------------------------
(***************************************************************************)
(* Sequences without duplicates.                                           *)
(***************************************************************************)
\* What an Append adds to the elements of a sequence.
LEMMA ElementsAppend ==
    ASSUME NEW S, NEW s \in Seq(S), NEW e \in S
    PROVE  /\ Elements(Append(s, e)) = Elements(s) \cup {e}
           /\ Distinct(s) /\ e \notin Elements(s) => Distinct(Append(s, e))
<1>1. /\ Len(Append(s, e)) = Len(s) + 1 /\ Len(s) \in Nat
      /\ \A i \in 1..Len(s) : Append(s, e)[i] = s[i]
      /\ Append(s, e)[Len(s) + 1] = e
  BY AppendProperties, LenProperties
<1>2. \A i \in 1..Len(s) + 1 : i \in 1..Len(s) \/ i = Len(s) + 1
  BY <1>1
<1>3. Elements(Append(s, e)) = Elements(s) \cup {e}
  BY <1>1, <1>2 DEF Elements
<1>4. ASSUME Distinct(s), e \notin Elements(s),
             NEW i \in 1..Len(Append(s, e)), NEW j \in 1..Len(Append(s, e)),
             Append(s, e)[i] = Append(s, e)[j]
      PROVE  i = j
  <2>1. \A k \in 1..Len(s) : s[k] # e
    BY <1>4 DEF Elements
  <2> QED BY <1>1, <1>2, <1>4, <2>1 DEF Distinct
<1> QED BY <1>3, <1>4 DEF Distinct

\* The elements of a sequence are its head and those of its tail.
LEMMA ElementsHeadTail ==
    ASSUME NEW S, NEW s \in Seq(S), s # <<>>
    PROVE  /\ Head(s) \in S /\ Tail(s) \in Seq(S)
           /\ Elements(s) = Elements(Tail(s)) \cup {Head(s)}
           /\ Distinct(s) => Distinct(Tail(s)) /\ Head(s) \notin Elements(Tail(s))
<1>1. /\ Head(s) = s[1] /\ Head(s) \in S
      /\ Tail(s) \in Seq(S) /\ Len(Tail(s)) = Len(s) - 1
      /\ \A i \in 1..Len(Tail(s)) : Tail(s)[i] = s[i + 1]
  BY HeadTailProperties
<1>2. Len(s) \in Nat /\ Len(s) > 0
  BY LenProperties, EmptySeq
<1>3. Elements(s) \subseteq Elements(Tail(s)) \cup {Head(s)}
  <2> SUFFICES ASSUME NEW i \in 1..Len(s) PROVE s[i] \in Elements(Tail(s)) \cup {Head(s)}
    BY DEF Elements
  <2>1. CASE i = 1
    BY <2>1, <1>1
  <2>2. CASE i # 1
    <3>1. i - 1 \in 1..Len(Tail(s)) /\ Tail(s)[i - 1] = s[i]
      BY <2>2, <1>1, <1>2
    <3> QED BY <3>1 DEF Elements
  <2> QED BY <2>1, <2>2
<1>4. Elements(Tail(s)) \cup {Head(s)} \subseteq Elements(s)
  <2>1. ASSUME NEW i \in 1..Len(Tail(s)) PROVE Tail(s)[i] \in Elements(s)
    <3>1. i + 1 \in 1..Len(s) /\ Tail(s)[i] = s[i + 1]
      BY <1>1, <1>2
    <3> QED BY <3>1 DEF Elements
  <2>2. Head(s) \in Elements(s)
    BY <1>1, <1>2 DEF Elements
  <2> QED BY <2>1, <2>2 DEF Elements
<1>5. ASSUME Distinct(s) PROVE Distinct(Tail(s)) /\ Head(s) \notin Elements(Tail(s))
  <2>1. \A i \in 1..Len(Tail(s)) : i + 1 \in 1..Len(s) /\ i + 1 # 1 /\ Tail(s)[i] = s[i + 1]
    BY <1>1, <1>2
  <2>2. 1 \in 1..Len(s)
    BY <1>2
  <2>3. Distinct(Tail(s))
    BY <1>5, <2>1 DEF Distinct
  <2>4. Head(s) \notin Elements(Tail(s))
    BY <1>1, <1>5, <2>1, <2>2 DEF Distinct, Elements
  <2> QED BY <2>3, <2>4
<1> QED BY <1>1, <1>3, <1>4, <1>5

-----------------------------------------------------------------------------
(***************************************************************************)
(* Who has which builder.  Exclusive and HandedOutAlive are inductive      *)
(* together once it is known that a waiting handler is queued once and has *)
(* no builder: handing one out then overwrites nothing.                    *)
(***************************************************************************)
\* How the builders and the handlers stand, with the queue and the reserve as the
\* caller of process_pending_handler leaves them.
Owned(pending, reserve) ==
    /\ Distinct(pending)
    /\ Distinct(reserve)
    /\ \A c \in Elements(pending) : leased[c] = NoBuilder
    /\ \A b \in Elements(reserve) : b \notin active_builders /\ destroying[b] = "none"
    /\ \A c \in Handlers : leased[c] # NoBuilder =>
         leased[c] \in active_builders /\ destroying[leased[c]] = "none"
    /\ \A c, d \in Handlers : leased[c] # NoBuilder /\ leased[c] = leased[d] => c = d
    /\ \A b \in active_builders : b \in Leased \/ destroying[b] # "none"

\* What is in reserve or handed out exists.
Existing(reserve) ==
    /\ Elements(reserve) \subseteq vms
    /\ \A c \in Handlers : leased[c] # NoBuilder => leased[c] \in vms

OwnershipInv ==
    /\ TypeOK
    /\ Owned(pending_handlers, reserve_builders)
    /\ Existing(reserve_builders)

\* process_pending_handler hands the builder to a handler that has none.
LEMMA ProcessPendingOwned ==
    ASSUME TypeOK, NEW pending \in Seq(Handlers), NEW reserve \in Seq(Builders),
           NEW outstanding, NEW commands, NEW machines,
           Owned(pending, reserve),
           Elements(reserve) \subseteq machines,
           \A c \in Handlers : leased[c] # NoBuilder => leased[c] \in machines,
           process_pending_handler(pending, reserve, outstanding, commands),
           destroying' = destroying, vms' = machines
    PROVE  Owned(pending_handlers, reserve_builders)' /\ Existing(reserve_builders)'
<1>1. CASE pending # <<>> /\ reserve # <<>>
  <2> DEFINE h == Head(pending)
             m == Head(reserve)
  <2>1. /\ pending_handlers' = Tail(pending)
        /\ reserve_builders' = Tail(reserve)
        /\ active_builders' = active_builders \cup {m}
        /\ leased' = [leased EXCEPT ![h] = m]
    BY <1>1 DEF process_pending_handler
  <2>2. /\ h \in Handlers /\ m \in Builders
        /\ Elements(pending) = Elements(Tail(pending)) \cup {h}
        /\ Elements(reserve) = Elements(Tail(reserve)) \cup {m}
        /\ Distinct(Tail(pending)) /\ h \notin Elements(Tail(pending))
        /\ Distinct(Tail(reserve)) /\ m \notin Elements(Tail(reserve))
    BY <1>1, ElementsHeadTail DEF Owned
  <2> HIDE DEF h, m
  <2>3. /\ leased[h] = NoBuilder
        /\ m \notin active_builders
        /\ destroying[m] = "none"
        /\ m \in machines
        /\ m # NoBuilder
    BY <2>2, NoBuilderAssumption DEF Owned
  <2>4. \A c \in Handlers : leased'[c] = IF c = h THEN m ELSE leased[c]
    BY <2>1, <2>2 DEF TypeOK
  <2>5. Elements(Tail(pending)) \subseteq Handlers
    BY <1>1, ElementsHeadTail, LenProperties, ElementOfSeq DEF Elements
  <2>6. /\ Distinct(pending_handlers') /\ Distinct(reserve_builders')
        /\ \A c \in Elements(pending_handlers') : leased'[c] = NoBuilder
        /\ \A b \in Elements(reserve_builders') :
             b \notin active_builders' /\ destroying'[b] = "none"
    BY <2>1, <2>2, <2>4, <2>5 DEF Owned
  <2>7. /\ \A c \in Handlers : leased'[c] # NoBuilder =>
             leased'[c] \in active_builders' /\ destroying'[leased'[c]] = "none"
        /\ \A c, d \in Handlers :
             leased'[c] # NoBuilder /\ leased'[c] = leased'[d] => c = d
    BY <2>1, <2>3, <2>4 DEF Owned
  <2>8. \A b \in active_builders' : b \in Leased' \/ destroying'[b] # "none"
    <3> SUFFICES ASSUME NEW b \in active_builders', destroying[b] = "none"
                 PROVE  \E c \in Handlers : leased'[c] = b /\ b # NoBuilder
      BY DEF Leased
    <3>1. CASE b = m
      BY <3>1, <2>2, <2>3, <2>4
    <3>2. CASE b # m
      <4>1. b \in active_builders
        BY <3>2, <2>1
      <4>2. PICK c \in Handlers : leased[c] = b /\ b # NoBuilder
        BY <4>1 DEF Owned, Leased
      <4> QED BY <4>2, <2>3, <2>4
    <3> QED BY <3>1, <3>2
  <2>9. Existing(reserve_builders)'
    BY <2>1, <2>2, <2>3, <2>4 DEF Existing
  <2> QED BY <2>6, <2>7, <2>8, <2>9 DEF Owned
<1>2. CASE ~(pending # <<>> /\ reserve # <<>>)
  BY <1>2 DEF process_pending_handler, Owned, Existing, Leased
<1> QED BY <1>1, <1>2

\* One step keeps every builder where it belongs.
LEMMA OwnershipStep ==
    ASSUME OwnershipInv, TypeOK', [Next]_vars
    PROVE  OwnershipInv'
<1> SUFFICES Owned(pending_handlers, reserve_builders)' /\ Existing(reserve_builders)'
  BY DEF OwnershipInv
<1> USE DEF OwnershipInv
<1>1. ASSUME NEW c \in Handlers, checkout_builder(c)
      PROVE  Owned(pending_handlers, reserve_builders)' /\ Existing(reserve_builders)'
  <2>1. /\ Append(pending_handlers, c) \in Seq(Handlers)
        /\ Elements(Append(pending_handlers, c)) = Elements(pending_handlers) \cup {c}
        /\ Distinct(Append(pending_handlers, c))
    BY <1>1, ElementsAppend DEF TypeOK, Owned, checkout_builder
  <2>2. Owned(Append(pending_handlers, c), reserve_builders)
    BY <1>1, <2>1 DEF Owned, checkout_builder
  <2>3. /\ process_pending_handler(Append(pending_handlers, c), reserve_builders,
                                   outstanding_create_count, creating)
        /\ destroying' = destroying /\ vms' = vms
    BY <1>1 DEF checkout_builder
  <2>4. /\ Elements(reserve_builders) \subseteq vms
        /\ \A d \in Handlers : leased[d] # NoBuilder => leased[d] \in vms
    BY DEF Existing
  <2> QED BY <2>1, <2>2, <2>3, <2>4, ProcessPendingOwned DEF TypeOK
<1>2. ASSUME NEW b \in Builders, CreateSucceeds(b)
      PROVE  Owned(pending_handlers, reserve_builders)' /\ Existing(reserve_builders)'
  <2>1. Fresh(b)
    BY <1>2 DEF CreateSucceeds
  <2>2. /\ Append(reserve_builders, b) \in Seq(Builders)
        /\ Elements(Append(reserve_builders, b)) = Elements(reserve_builders) \cup {b}
        /\ Distinct(Append(reserve_builders, b))
    BY <2>1, ElementsAppend DEF TypeOK, Owned, Fresh
  <2>3. Owned(pending_handlers, Append(reserve_builders, b))
    BY <2>1, <2>2 DEF Owned, Fresh
  <2>4. /\ process_pending_handler(pending_handlers, Append(reserve_builders, b),
                                   outstanding_create_count - 1, creating - 1)
        /\ destroying' = destroying /\ vms' = vms \cup {b}
    BY <1>2 DEF CreateSucceeds
  <2>5. /\ Elements(Append(reserve_builders, b)) \subseteq vms \cup {b}
        /\ \A d \in Handlers : leased[d] # NoBuilder => leased[d] \in vms \cup {b}
    BY <2>2 DEF Existing
  <2> QED BY <2>2, <2>3, <2>4, <2>5, ProcessPendingOwned DEF TypeOK
<1>3. ASSUME NEW c \in Handlers, ReturnBuilder(c)
      PROVE  Owned(pending_handlers, reserve_builders)' /\ Existing(reserve_builders)'
  <2> DEFINE b == leased[c]
  <2>1. /\ b # NoBuilder /\ b \in Builders
        /\ leased' = [leased EXCEPT ![c] = NoBuilder]
        /\ destroying'[b] # "none"
        /\ \A a \in Builders : a # b => destroying'[a] = destroying[a]
        /\ UNCHANGED <<pending_handlers, reserve_builders, active_builders, vms>>
    BY <1>3 DEF ReturnBuilder, return_builder, ReturnThrows, TypeOK
  <2> HIDE DEF b
  <2>2. \A d \in Handlers : leased'[d] = IF d = c THEN NoBuilder ELSE leased[d]
    BY <2>1 DEF TypeOK
  <2>3. /\ \A d \in Handlers : d # c => leased[d] # b
        /\ b \in active_builders
        /\ b \notin Elements(reserve_builders)
    BY <2>1 DEF b, Owned
  <2>4. /\ Elements(reserve_builders) \subseteq Builders
        /\ Elements(pending_handlers) \subseteq Handlers
    BY ElementOfSeq, LenProperties DEF Elements, TypeOK
  <2>5. /\ \A d \in Elements(pending_handlers') : leased'[d] = NoBuilder
        /\ \A a \in Elements(reserve_builders') :
             a \notin active_builders' /\ destroying'[a] = "none"
    BY <2>1, <2>2, <2>3, <2>4 DEF Owned
  <2>6. /\ \A d \in Handlers : leased'[d] # NoBuilder =>
             leased'[d] \in active_builders' /\ destroying'[leased'[d]] = "none"
        /\ \A d, e \in Handlers :
             leased'[d] # NoBuilder /\ leased'[d] = leased'[e] => d = e
    BY <2>1, <2>2, <2>3 DEF Owned, TypeOK
  <2>7. \A a \in active_builders' : a \in Leased' \/ destroying'[a] # "none"
    <3> SUFFICES ASSUME NEW a \in active_builders, destroying'[a] = "none"
                 PROVE  \E d \in Handlers : leased'[d] = a /\ a # NoBuilder
      BY <2>1 DEF Leased
    <3>1. a # b /\ destroying[a] = "none"
      BY <2>1 DEF TypeOK
    <3>2. PICK d \in Handlers : leased[d] = a /\ a # NoBuilder
      BY <3>1 DEF Owned, Leased
    <3>3. d # c
      BY <3>1, <3>2 DEF b
    <3> QED BY <3>2, <3>3, <2>2
  <2>8. Existing(reserve_builders)'
    BY <2>1, <2>2 DEF Existing
  <2> QED BY <2>1, <2>5, <2>6, <2>7, <2>8 DEF Owned
<1>4. ASSUME NEW b \in Builders, DestroyEnds(b) \/ DestroyFalseSuccess(b)
      PROVE  Owned(pending_handlers, reserve_builders)' /\ Existing(reserve_builders)'
  <2>1. /\ destroying[b] # "none"
        /\ active_builders' = active_builders \ {b}
        /\ \A a \in Builders : a # b => destroying'[a] = destroying[a]
        /\ vms \ {b} \subseteq vms'
        /\ UNCHANGED <<pending_handlers, reserve_builders, leased>>
    BY <1>4 DEF DestroyEnds, DestroyFalseSuccess, RemoveActive, TypeOK
  <2>2. b \notin Elements(reserve_builders) /\ \A c \in Handlers : leased[c] # b
    BY <2>1, NoBuilderAssumption DEF Owned
  <2>3. Elements(reserve_builders) \subseteq Builders
    BY ElementOfSeq, LenProperties DEF Elements, TypeOK
  <2>4. Owned(pending_handlers, reserve_builders)'
    BY <2>1, <2>2, <2>3 DEF Owned, Leased, TypeOK
  <2> QED BY <2>1, <2>2, <2>4 DEF Existing
<1>5. ASSUME NEW b \in Builders,
             DestroyReadError(b) \/ DestroyLaunchError(b) \/ retry_return_builder(b)
      PROVE  Owned(pending_handlers, reserve_builders)' /\ Existing(reserve_builders)'
  <2>1. /\ destroying[b] # "none" /\ destroying'[b] # "none"
        /\ \A a \in Builders : a # b => destroying'[a] = destroying[a]
        /\ vms \ {b} \subseteq vms'
        /\ UNCHANGED lists
    BY <1>5 DEF DestroyReadError, DestroyLaunchError, retry_return_builder,
         return_builder, ReturnThrows, TypeOK
  <2>2. b \notin Elements(reserve_builders) /\ \A c \in Handlers : leased[c] # b
    BY <2>1, NoBuilderAssumption DEF Owned
  <2>3. Elements(reserve_builders) \subseteq Builders
    BY ElementOfSeq, LenProperties DEF Elements, TypeOK
  <2>4. Owned(pending_handlers, reserve_builders)'
    BY <2>1, <2>2, <2>3 DEF Owned, Leased, TypeOK, lists
  <2> QED BY <2>1, <2>2, <2>4 DEF Existing, lists
<1>6. CASE CreateFails \/ CreateLaunchError \/ retry_create_reserve_builders
  <2>1. UNCHANGED <<lists, destroying>> /\ vms \subseteq vms'
    BY <1>6 DEF CreateFails, CreateLaunchError, retry_create_reserve_builders
  <2> QED BY <2>1 DEF lists, Owned, Existing, Leased
<1>7. CASE UNCHANGED vars
  BY <1>7 DEF vars, lists, Owned, Existing, Leased
<1> QED BY <1>1, <1>2, <1>3, <1>4, <1>5, <1>6, <1>7 DEF Next

\* The strengthening holds in every reachable state.
LEMMA OwnershipInvariant == Spec => []OwnershipInv
<1>1. Init => TypeOK /\ Owned(pending_handlers, reserve_builders) /\ Existing(reserve_builders)
  <2> SUFFICES ASSUME Init
               PROVE  TypeOK /\ Owned(pending_handlers, reserve_builders)
                             /\ Existing(reserve_builders)
    OBVIOUS
  <2>1. TypeOK
    BY LimitsAssumption DEF Init, TypeOK, DestroyStates
  <2>2. Elements(<<>>) = {} /\ Distinct(<<>>)
    BY DEF Elements, Distinct
  <2> QED BY <2>1, <2>2 DEF Init, Owned, Existing
<1>2. OwnershipInv /\ TypeOK' /\ [Next]_vars => OwnershipInv'
  BY OwnershipStep
<1> QED BY <1>1, <1>2, TypeCorrect, PTL DEF Spec, OwnershipInv

\* What the invariant says of exclusion, existence and slots.
LEMMA OwnershipGives ==
    ASSUME OwnershipInv
    PROVE  Exclusive /\ HandedOutAlive /\ SlotsRecoverable
<1>1. Exclusive
  <2>1. \A b \in Elements(reserve_builders) : b \notin Leased
    BY DEF OwnershipInv, Owned, Leased
  <2> QED BY <2>1 DEF OwnershipInv, Owned, Exclusive, Leased
<1>2. HandedOutAlive
  BY DEF OwnershipInv, Owned, Existing, HandedOutAlive, Leased
<1>3. SlotsRecoverable
  BY DEF OwnershipInv, Owned, SlotsRecoverable, TypeOK
<1> QED BY <1>1, <1>2, <1>3

\* No two clients ever have the same builder, and none has one that is also in
\* reserve or being destroyed, whatever creates, destroys and launches fail.
THEOREM BuildersExclusive == Spec => []Exclusive
<1>1. OwnershipInv => Exclusive
  BY OwnershipGives
<1> QED BY <1>1, OwnershipInvariant, PTL

\* A builder that is handed out exists and counts as active until it is returned.
THEOREM BuildersAlive == Spec => []HandedOutAlive
<1>1. OwnershipInv => HandedOutAlive
  BY OwnershipGives
<1> QED BY <1>1, OwnershipInvariant, PTL

\* No slot of active_builders is forgotten.
THEOREM SlotsNotLost == Spec => []SlotsRecoverable
<1>1. OwnershipInv => SlotsRecoverable
  BY OwnershipGives
<1> QED BY <1>1, OwnershipInvariant, PTL

-----------------------------------------------------------------------------
(***************************************************************************)
(* The reserve.  That nobody waits beside an idle builder is what lets one *)
(* pair be served at each call of process_pending_handler; that the reserve*)
(* is kept full follows from the counters and from every handler that      *)
(* lowers a count also calling create_reserve_builders or arming a timer.  *)
(***************************************************************************)
ServiceInv ==
    /\ CountInv
    /\ OwnershipInv
    /\ NoIdleBuilder
    /\ Replenished

\* Whoever calls create_reserve_builders with the lists as they will be leaves
\* the reserve replenished.
LEMMA CreateReserveReplenishes ==
    ASSUME TypeOK, IsFiniteSet(active_builders'), reserve_builders' \in Seq(Builders),
           NEW outstanding \in Int, NEW commands \in Nat,
           Plan(Len(reserve_builders'), Cardinality(active_builders'), outstanding, commands),
           create_reserve_builders(Len(reserve_builders'), Cardinality(active_builders'),
                                   outstanding, commands)
    PROVE  Replenished'
<1>1. Len(reserve_builders') \in Nat /\ Cardinality(active_builders') \in Nat
  BY LenProperties, FS_CardinalityType
<1>2. /\ Len(reserve_builders') + outstanding < 0 => outstanding_create_count' = outstanding
      /\ Len(reserve_builders') + outstanding >= 0 /\ leaked_creates' = 0 =>
           \/ Len(reserve_builders') + outstanding_create_count' = MaxReserve
           \/ Len(reserve_builders') + Cardinality(active_builders')
                + outstanding_create_count' = MaxBuilders
  BY <1>1, CreateReserveCounts
<1> QED BY <1>1, <1>2 DEF Replenished

\* process_pending_handler leaves nobody waiting beside an idle builder when it is
\* called with one handler, or one builder, more than before.
LEMMA ProcessPendingServes ==
    ASSUME TypeOK, NEW pending \in Seq(Handlers), NEW reserve \in Seq(Builders),
           NEW outstanding, NEW commands,
           pending = <<>> \/ reserve = <<>> \/ Len(pending) = 1 \/ Len(reserve) = 1,
           process_pending_handler(pending, reserve, outstanding, commands)
    PROVE  NoIdleBuilder'
<1>1. CASE pending # <<>> /\ reserve # <<>>
  <2>1. pending_handlers' = Tail(pending) /\ reserve_builders' = Tail(reserve)
    BY <1>1 DEF process_pending_handler
  <2>2. Len(Tail(pending)) = Len(pending) - 1 /\ Len(Tail(reserve)) = Len(reserve) - 1
    BY <1>1, HeadTailProperties
  <2>3. Tail(pending) = <<>> \/ Tail(reserve) = <<>>
    BY <1>1, <2>2, HeadTailProperties, EmptySeq
  <2> QED BY <2>1, <2>3 DEF NoIdleBuilder
<1>2. CASE ~(pending # <<>> /\ reserve # <<>>)
  BY <1>2 DEF process_pending_handler, NoIdleBuilder
<1> QED BY <1>1, <1>2

\* process_pending_handler leaves the reserve replenished, if it was before the
\* builder or the handler came.
LEMMA ProcessPendingReplenishes ==
    ASSUME TypeOK, IsFiniteSet(active_builders), IsFiniteSet(active_builders'),
           NEW pending \in Seq(Handlers), NEW reserve \in Seq(Builders),
           NEW outstanding \in Int, NEW commands \in Nat,
           Owned(pending, reserve),
           Plan(Len(reserve), Cardinality(active_builders), outstanding, commands),
           Len(reserve) + outstanding = Len(reserve_builders) + outstanding_create_count,
           Replenished, create_retries' = create_retries,
           process_pending_handler(pending, reserve, outstanding, commands)
    PROVE  Replenished'
<1>0. Len(reserve) \in Nat /\ Len(reserve_builders) \in Nat /\ Cardinality(active_builders) \in Nat
  BY LenProperties, FS_CardinalityType DEF TypeOK
<1>1. CASE pending # <<>> /\ reserve # <<>>
  <2>1. /\ reserve_builders' = Tail(reserve)
        /\ active_builders' = active_builders \cup {Head(reserve)}
        /\ create_reserve_builders(Len(reserve) - 1, Cardinality(active_builders) + 1,
                                   outstanding, commands)
    BY <1>1 DEF process_pending_handler
  <2>2. /\ Head(reserve) \notin active_builders
        /\ Tail(reserve) \in Seq(Builders)
        /\ Len(Tail(reserve)) = Len(reserve) - 1
    BY <1>1, ElementsHeadTail, HeadTailProperties DEF Owned
  <2>3. Cardinality(active_builders') = Cardinality(active_builders) + 1
    BY <2>1, <2>2, FS_AddElement
  <2>4. Plan(Len(reserve_builders'), Cardinality(active_builders'), outstanding, commands)
    BY <1>0, <2>1, <2>2, <2>3, LimitsAssumption DEF Plan
  <2>5. create_reserve_builders(Len(reserve_builders'), Cardinality(active_builders'),
                                outstanding, commands)
    BY <2>1, <2>2, <2>3
  <2> QED BY <2>1, <2>2, <2>4, <2>5, CreateReserveReplenishes
<1>2. CASE ~(pending # <<>> /\ reserve # <<>>)
  <2>1. /\ reserve_builders' = reserve
        /\ outstanding_create_count' = outstanding
        /\ UNCHANGED <<active_builders, create_errors, leaked_creates, create_retries>>
    BY <1>2 DEF process_pending_handler
  <2>2. Len(reserve_builders') + outstanding_create_count' =
          Len(reserve_builders) + outstanding_create_count
    BY <2>1
  <2>3. /\ outstanding_create_count \in Int /\ outstanding_create_count' \in Int
        /\ Len(reserve_builders') \in Nat
        /\ Cardinality(active_builders') = Cardinality(active_builders)
    BY <1>0, <2>1 DEF TypeOK
  <2>4. Len(reserve_builders') + Cardinality(active_builders') + outstanding_create_count' =
          Len(reserve_builders) + Cardinality(active_builders) + outstanding_create_count
    <3> DEFINE k == Cardinality(active_builders)
               l == Len(reserve_builders')
               m == Len(reserve_builders)
               n == outstanding_create_count'
               p == outstanding_create_count
    <3>1. k \in Nat /\ l \in Nat /\ m \in Nat /\ n \in Int /\ p \in Int /\ l + n = m + p
      BY <1>0, <2>2, <2>3
    <3> HIDE DEF k, l, m, n, p
    <3>2. l + k + n = m + k + p
      BY <3>1
    <3> QED BY <2>3, <3>2 DEF k, l, m, n, p
  <2> QED BY <2>1, <2>2, <2>4 DEF Replenished
<1> QED BY <1>1, <1>2

\* One step leaves nobody waiting beside an idle builder, and the reserve
\* replenished.
LEMMA ServiceStep ==
    ASSUME ServiceInv, CountInv', OwnershipInv', [Next]_vars
    PROVE  ServiceInv'
<1> SUFFICES NoIdleBuilder' /\ Replenished'
  BY DEF ServiceInv
<1>0. /\ TypeOK /\ TypeOK'
      /\ IsFiniteSet(active_builders) /\ IsFiniteSet(active_builders')
      /\ Len(reserve_builders) \in Nat /\ Cardinality(active_builders) \in Nat
      /\ Owned(pending_handlers, reserve_builders)
  BY LenProperties, FS_CardinalityType DEF ServiceInv, CountInv, OwnershipInv, TypeOK
<1>1. ASSUME NEW c \in Handlers, checkout_builder(c) PROVE NoIdleBuilder' /\ Replenished'
  <2>1. /\ Append(pending_handlers, c) \in Seq(Handlers)
        /\ Elements(Append(pending_handlers, c)) = Elements(pending_handlers) \cup {c}
        /\ Distinct(Append(pending_handlers, c))
        /\ Len(Append(pending_handlers, c)) = Len(pending_handlers) + 1
    BY <1>0, <1>1, ElementsAppend, AppendProperties DEF TypeOK, Owned, checkout_builder
  <2>2. process_pending_handler(Append(pending_handlers, c), reserve_builders,
                                outstanding_create_count, creating)
        /\ create_retries' = create_retries
    BY <1>1 DEF checkout_builder
  <2>3. Owned(Append(pending_handlers, c), reserve_builders)
    BY <1>0, <1>1, <2>1 DEF Owned, checkout_builder
  <2>4. Plan(Len(reserve_builders), Cardinality(active_builders),
             outstanding_create_count, creating)
    BY DEF ServiceInv, CountInv, Plan, OutstandingAccounted, PlannedWithinLimits
  <2>5. reserve_builders = <<>> \/ Len(Append(pending_handlers, c)) = 1
    BY <2>1, EmptySeq DEF ServiceInv, NoIdleBuilder
  <2>6. NoIdleBuilder'
    BY <1>0, <2>1, <2>2, <2>5, ProcessPendingServes DEF TypeOK
  <2>7. Replenished'
    BY <1>0, <2>1, <2>2, <2>3, <2>4, ProcessPendingReplenishes DEF TypeOK, ServiceInv
  <2> QED BY <2>6, <2>7
<1>2. ASSUME NEW b \in Builders, CreateSucceeds(b) PROVE NoIdleBuilder' /\ Replenished'
  <2>1. /\ Append(reserve_builders, b) \in Seq(Builders)
        /\ Elements(Append(reserve_builders, b)) = Elements(reserve_builders) \cup {b}
        /\ Distinct(Append(reserve_builders, b))
        /\ Len(Append(reserve_builders, b)) = Len(reserve_builders) + 1
        /\ outstanding_create_count - 1 \in Int
        /\ creating - 1 \in Nat
    BY <1>0, <1>2, ElementsAppend, AppendProperties DEF TypeOK, Owned, CreateSucceeds, Fresh
  <2>2. process_pending_handler(pending_handlers, Append(reserve_builders, b),
                                outstanding_create_count - 1, creating - 1)
        /\ create_retries' = create_retries
    BY <1>2 DEF CreateSucceeds
  <2>3. Owned(pending_handlers, Append(reserve_builders, b))
    BY <1>0, <1>2, <2>1 DEF Owned, CreateSucceeds, Fresh
  <2>4. Plan(Len(Append(reserve_builders, b)), Cardinality(active_builders),
             outstanding_create_count - 1, creating - 1)
    <3>1. /\ outstanding_create_count \in Int /\ creating \in Int
          /\ create_errors \in Int /\ launch_failures \in Int /\ leaked_creates \in Int
          /\ MaxReserve \in Int /\ MaxBuilders \in Int
      BY <1>0, LimitsAssumption DEF TypeOK
    <3> QED BY <1>0, <2>1, <3>1
            DEF ServiceInv, CountInv, Plan, OutstandingAccounted, PlannedWithinLimits
  <2>5. pending_handlers = <<>> \/ Len(Append(reserve_builders, b)) = 1
    BY <2>1, EmptySeq DEF ServiceInv, NoIdleBuilder
  <2>6. NoIdleBuilder'
    BY <1>0, <2>1, <2>2, <2>5, ProcessPendingServes DEF TypeOK
  <2>7. Len(Append(reserve_builders, b)) + (outstanding_create_count - 1) =
          Len(reserve_builders) + outstanding_create_count
    BY <1>0, <2>1 DEF TypeOK
  <2>8. Replenished'
    BY <1>0, <2>1, <2>2, <2>3, <2>4, <2>7, ProcessPendingReplenishes DEF TypeOK, ServiceInv
  <2> QED BY <2>6, <2>8
<1>3. ASSUME NEW b \in Builders, DestroyEnds(b) \/ DestroyFalseSuccess(b)
      PROVE  NoIdleBuilder' /\ Replenished'
  <2>1. /\ active_builders' = active_builders \ {b}
        /\ create_reserve_builders(Len(reserve_builders), Cardinality(active_builders \ {b}),
                                   outstanding_create_count, creating)
        /\ UNCHANGED <<pending_handlers, reserve_builders>>
    BY <1>3 DEF DestroyEnds, DestroyFalseSuccess, RemoveActive
  <2>2. /\ Cardinality(active_builders') \in Nat
        /\ Cardinality(active_builders') <= Cardinality(active_builders)
    BY <1>0, <2>1, FS_Subset, FS_CardinalityType
  <2>3. Plan(Len(reserve_builders'), Cardinality(active_builders'),
             outstanding_create_count, creating)
    <3>1. outstanding_create_count \in Int /\ MaxBuilders \in Int
      BY <1>0, LimitsAssumption DEF TypeOK
    <3> QED BY <1>0, <2>1, <2>2, <3>1
            DEF ServiceInv, CountInv, Plan, OutstandingAccounted, PlannedWithinLimits
  <2>4. Replenished'
    BY <1>0, <2>1, <2>3, CreateReserveReplenishes DEF TypeOK
  <2> QED BY <2>1, <2>4 DEF ServiceInv, NoIdleBuilder
<1>4. CASE retry_create_reserve_builders
  <2>1. /\ create_reserve_builders(Len(reserve_builders), Cardinality(active_builders),
                                   outstanding_create_count, creating)
        /\ UNCHANGED <<pending_handlers, reserve_builders, active_builders>>
    BY <1>4 DEF retry_create_reserve_builders, lists
  <2>2. Plan(Len(reserve_builders'), Cardinality(active_builders'),
             outstanding_create_count, creating)
    BY <2>1 DEF ServiceInv, CountInv, Plan, OutstandingAccounted, PlannedWithinLimits
  <2>3. Replenished'
    BY <1>0, <2>1, <2>2, CreateReserveReplenishes DEF TypeOK
  <2> QED BY <2>1, <2>3 DEF ServiceInv, NoIdleBuilder
<1>5. CASE CreateFails \/ CreateLaunchError
  <2>1. UNCHANGED lists
    BY <1>5 DEF CreateFails, CreateLaunchError
  <2>2. create_retries' + create_errors' > 0
    <3>1. create_retries' = create_retries + 1
      BY <1>5 DEF CreateFails, CreateLaunchError
    <3>2. create_retries \in Nat /\ create_retries' \in Nat /\ create_errors' \in Nat
      BY <1>0 DEF TypeOK
    <3>3. create_retries' > 0
      BY <3>1, <3>2
    <3>4. \A m, n \in Nat : m > 0 => m + n > 0
      OBVIOUS
    <3> QED BY <3>2, <3>3, <3>4
  <2>3. Replenished'
    BY <2>2 DEF Replenished
  <2> QED BY <2>1, <2>3 DEF ServiceInv, NoIdleBuilder, lists
<1>6. ASSUME NEW b \in Builders,
             DestroyReadError(b) \/ DestroyLaunchError(b) \/ retry_return_builder(b)
      PROVE  NoIdleBuilder' /\ Replenished'
  <2>1. UNCHANGED <<lists, creates, create_retries>>
    BY <1>6 DEF DestroyReadError, DestroyLaunchError, retry_return_builder
  <2> QED BY <2>1 DEF ServiceInv, NoIdleBuilder, Replenished, lists, creates
<1>7. ASSUME NEW c \in Handlers, ReturnBuilder(c) PROVE NoIdleBuilder' /\ Replenished'
  BY <1>7 DEF ReturnBuilder, ServiceInv, NoIdleBuilder, Replenished, creates
<1>8. CASE UNCHANGED vars
  BY <1>8 DEF vars, lists, creates, ServiceInv, NoIdleBuilder, Replenished
<1> QED BY <1>1, <1>2, <1>3, <1>4, <1>5, <1>6, <1>7, <1>8 DEF Next

\* The reserve's properties hold when the constructor has run.
LEMMA ServiceInit ==
    ASSUME Init, CountInv, OwnershipInv
    PROVE  ServiceInv
<1>1. /\ RequestCount(0, 0, 0) \in Nat
      /\ \/ 0 + 0 + RequestCount(0, 0, 0) = MaxReserve
         \/ 0 + 0 + 0 + RequestCount(0, 0, 0) = MaxBuilders
  BY RequestFits, LimitsAssumption
<1>2. /\ Cardinality(active_builders) = 0
      /\ Len(reserve_builders) = 0
      /\ outstanding_create_count = RequestCount(0, 0, 0)
  BY FS_EmptySet DEF Init
<1> QED BY <1>1, <1>2 DEF Init, ServiceInv, NoIdleBuilder, Replenished

\* The reserve's properties hold in every reachable state.
LEMMA ServiceInvariant == Spec => []ServiceInv
<1>1. ServiceInv /\ CountInv' /\ OwnershipInv' /\ [Next]_vars => ServiceInv'
  BY ServiceStep
<1> QED BY <1>1, ServiceInit, CountInvariant, OwnershipInvariant, PTL DEF Spec

\* Nobody waits while a builder is idle.
THEOREM NobodyWaitsInVain == Spec => []NoIdleBuilder
<1>1. ServiceInv => NoIdleBuilder
  BY DEF ServiceInv
<1> QED BY <1>1, ServiceInvariant, PTL

\* The reserve is kept as full as the limits allow, or a retry is coming, unless a
\* launch failure has wedged the queue: nothing else can stop it.
THEOREM ReserveReplenished == Spec => []Replenished
<1>1. ServiceInv => Replenished
  BY DEF ServiceInv
<1> QED BY <1>1, ServiceInvariant, PTL

-----------------------------------------------------------------------------
(***************************************************************************)
(* The queue implements BuilderPool: each handler is one step of the pool, *)
(* or a stutter.                                                           *)
(***************************************************************************)
\* The pool's variables as the queue's steps see them.
PoolRetired == {b \in Builders : destroying[b] # "none"}

\* What an Append to an empty queue gives back.
LEMMA SingletonHeadTail ==
    ASSUME NEW S, NEW e \in S
    PROVE  Append(<<>>, e) # <<>> /\ Head(Append(<<>>, e)) = e /\ Tail(Append(<<>>, e)) = <<>>
OBVIOUS

\* One step of the queue is a step of the pool, or none.
LEMMA PoolStep ==
    ASSUME ServiceInv, TypeOK', [Next]_vars
    PROVE  [Pool!Next]_(Pool!pool)
<1> USE DEF Pool!pool
<1>0. /\ TypeOK /\ NoIdleBuilder /\ Owned(pending_handlers, reserve_builders)
      /\ Elements(<<>>) = {}
  BY DEF ServiceInv, OwnershipInv, Elements
<1>1. ASSUME NEW c \in Handlers, checkout_builder(c) PROVE Pool!Request(c)
  <2>1. /\ process_pending_handler(Append(pending_handlers, c), reserve_builders,
                                   outstanding_create_count, creating)
        /\ c \notin Elements(pending_handlers)
        /\ leased[c] = NoBuilder
        /\ destroying' = destroying
    BY <1>1 DEF checkout_builder
  <2>2. CASE reserve_builders = <<>>
    <3>1. /\ pending_handlers' = Append(pending_handlers, c)
          /\ reserve_builders' = reserve_builders
          /\ leased' = leased
      BY <2>1, <2>2 DEF process_pending_handler
    <3> QED BY <1>0, <2>1, <2>2, <3>1 DEF Pool!Request, Pool!Queued, Elements
  <2>3. CASE reserve_builders # <<>>
    <3>1. pending_handlers = <<>>
      BY <1>0, <2>3 DEF NoIdleBuilder
    <3>2. /\ pending_handlers' = <<>>
          /\ reserve_builders' = Tail(reserve_builders)
          /\ leased' = [leased EXCEPT ![c] = Head(reserve_builders)]
      BY <2>1, <2>3, <3>1, SingletonHeadTail DEF process_pending_handler
    <3>3. /\ Elements(reserve_builders) =
               Elements(Tail(reserve_builders)) \cup {Head(reserve_builders)}
          /\ Head(reserve_builders) \notin Elements(Tail(reserve_builders))
      BY <1>0, <2>3, ElementsHeadTail DEF TypeOK, Owned
    <3>4. /\ Head(reserve_builders) \in Elements(reserve_builders)
          /\ Elements(reserve_builders') =
               Elements(reserve_builders) \ {Head(reserve_builders)}
      BY <3>2, <3>3
    <3> QED BY <2>1, <3>1, <3>2, <3>4 DEF Pool!Request, Pool!Queued, Elements
  <2> QED BY <2>2, <2>3
<1>2. ASSUME NEW b \in Builders, CreateSucceeds(b) PROVE Pool!Provide(b)
  <2>1. /\ process_pending_handler(pending_handlers, Append(reserve_builders, b),
                                   outstanding_create_count - 1, creating - 1)
        /\ Fresh(b)
        /\ destroying' = destroying
    BY <1>2 DEF CreateSucceeds
  <2>2. b \notin Elements(reserve_builders) \cup Pool!Granted \cup PoolRetired
    BY <2>1 DEF Fresh, PoolRetired, Pool!Granted, Leased
  <2>3. CASE pending_handlers = <<>>
    <3>1. /\ pending_handlers' = pending_handlers
          /\ reserve_builders' = Append(reserve_builders, b)
          /\ leased' = leased
      BY <2>1, <2>3 DEF process_pending_handler
    <3>2. Elements(reserve_builders') = Elements(reserve_builders) \cup {b}
      BY <1>0, <3>1, ElementsAppend DEF TypeOK
    <3> QED BY <2>1, <2>2, <2>3, <3>1, <3>2 DEF Pool!Provide, PoolRetired
  <2>4. CASE pending_handlers # <<>>
    <3>1. reserve_builders = <<>>
      BY <1>0, <2>4 DEF NoIdleBuilder
    <3>2. /\ pending_handlers' = Tail(pending_handlers)
          /\ reserve_builders' = <<>>
          /\ leased' = [leased EXCEPT ![Head(pending_handlers)] = b]
      BY <2>1, <2>4, <3>1, SingletonHeadTail DEF process_pending_handler
    <3> QED BY <1>0, <2>1, <2>2, <2>4, <3>1, <3>2 DEF Pool!Provide, PoolRetired
  <2> QED BY <2>3, <2>4
<1>3. ASSUME NEW c \in Handlers, ReturnBuilder(c) PROVE Pool!Release(c)
  <2>1. /\ leased[c] # NoBuilder /\ leased[c] \in Builders
        /\ leased' = [leased EXCEPT ![c] = NoBuilder]
        /\ UNCHANGED <<pending_handlers, reserve_builders>>
    BY <1>0, <1>3 DEF ReturnBuilder, TypeOK
  <2>2. {b \in Builders : destroying'[b] # "none"} = PoolRetired \cup {leased[c]}
    BY <1>0, <1>3, <2>1 DEF ReturnBuilder, return_builder, ReturnThrows, TypeOK, PoolRetired
  <2> QED BY <2>1, <2>2 DEF Pool!Release, PoolRetired
<1>4. ASSUME NEW b \in Builders, DestroyEnds(b) PROVE Pool!Dispose(b)
  <2>1. UNCHANGED <<pending_handlers, reserve_builders, leased>>
    BY <1>4 DEF DestroyEnds
  <2>2. {a \in Builders : destroying'[a] # "none"} = PoolRetired \ {b}
    BY <1>0, <1>4 DEF DestroyEnds, TypeOK, PoolRetired
  <2>3. b \in PoolRetired
    BY <1>4 DEF DestroyEnds, PoolRetired
  <2> QED BY <2>1, <2>2, <2>3 DEF Pool!Dispose, PoolRetired
<1>5. ASSUME NEW b \in Builders,
             \/ DestroyFalseSuccess(b) \/ DestroyReadError(b)
             \/ DestroyLaunchError(b) \/ retry_return_builder(b)
      PROVE  UNCHANGED Pool!pool
  <2>1. UNCHANGED <<pending_handlers, reserve_builders, leased>>
    BY <1>5 DEF DestroyFalseSuccess, DestroyReadError, DestroyLaunchError,
         retry_return_builder, lists
  <2>2. /\ destroying[b] # "none" /\ destroying'[b] # "none"
        /\ \A a \in Builders : a # b => destroying'[a] = destroying[a]
    BY <1>0, <1>5 DEF DestroyFalseSuccess, DestroyReadError, DestroyLaunchError,
         retry_return_builder, return_builder, ReturnThrows, TypeOK
  <2>3. {a \in Builders : destroying'[a] # "none"} = PoolRetired
    BY <2>2 DEF PoolRetired
  <2> QED BY <2>1, <2>3 DEF PoolRetired
<1>6. CASE CreateFails \/ CreateLaunchError \/ retry_create_reserve_builders \/ UNCHANGED vars
  <2>1. UNCHANGED <<lists, destroying>>
    BY <1>6 DEF CreateFails, CreateLaunchError, retry_create_reserve_builders, vars
  <2> QED BY <2>1 DEF lists
<1> QED BY <1>1, <1>2, <1>3, <1>4, <1>5, <1>6 DEF Next, Pool!Next

\* The builder queue keeps the promise of BuilderPool, in every state it can
\* reach: in order, at once when there is stock, and never the same machine twice.
THEOREM QueueImplementsPool == Spec => PoolSpec
<1>1. Init => Pool!Init
  BY DEF Init, Pool!Init, Elements
<1>2. ServiceInv /\ TypeOK' /\ [Next]_vars => [Pool!Next]_(Pool!pool)
  BY PoolStep
<1> QED BY <1>1, <1>2, ServiceInvariant, TypeCorrect, PTL DEF Spec, PoolSpec, Pool!Spec

-----------------------------------------------------------------------------
(***************************************************************************)
(* The limits at work.  RequestCount computes with unsigned numbers, and   *)
(* this is what it computes, wrapped or not.                               *)
(***************************************************************************)
\* For every size that fits into size_t, create_reserve_builders asks for what both
\* limits leave room for, and for nothing once the sum of reserve and outstanding
\* creates is negative; but if the planned total were over max_builder_count it would
\* fill the reserve regardless.  LimitsKept is what keeps it from getting there.
THEOREM RequestCountDefined ==
    ASSUME NEW reserve \in Nat, NEW active \in Nat, NEW outstanding \in Int,
           reserve + outstanding >= MaxReserve - SizeModulus,
           reserve + outstanding + active <= MaxBuilders + SizeModulus - MaxReserve
    PROVE  RequestCount(reserve, active, outstanding) =
             IF reserve + outstanding \in 0..(MaxReserve - 1)
             THEN IF reserve + outstanding + active <= MaxBuilders
                  THEN Smaller(MaxReserve - (reserve + outstanding),
                               MaxBuilders - (reserve + outstanding + active))
                  ELSE MaxReserve - (reserve + outstanding)
             ELSE 0
<1> DEFINE sum == reserve + outstanding
<1>0. sum \in Int /\ MaxReserve \in Nat /\ MaxBuilders \in Nat /\ SizeModulus \in Nat
  BY LimitsAssumption, WidthAssumption
<1>1. CASE sum < 0
  <2>1. Wrap(sum) >= MaxReserve /\ Wrap(sum) \in Int
    BY <1>0, <1>1 DEF Wrap
  <2> QED BY <1>0, <1>1, <2>1 DEF RequestCount
<1>2. CASE sum >= MaxReserve
  <2>1. Wrap(sum) = sum
    BY <1>0, <1>2 DEF Wrap
  <2> QED BY <1>0, <1>2, <2>1 DEF RequestCount
<1>3. CASE sum \in 0..(MaxReserve - 1)
  <2>1. Wrap(sum) = sum
    BY <1>3 DEF Wrap
  <2>2. RequestCount(reserve, active, outstanding) =
          Smaller(MaxReserve - sum, Wrap(MaxBuilders - (sum + active)))
    BY <1>0, <1>3, <2>1 DEF RequestCount
  <2>3. CASE sum + active <= MaxBuilders
    BY <1>0, <1>3, <2>2, <2>3 DEF Wrap
  <2>4. CASE sum + active > MaxBuilders
    <3>1. Wrap(MaxBuilders - (sum + active)) = MaxBuilders - (sum + active) + SizeModulus
      BY <1>0, <2>4 DEF Wrap
    <3>2. MaxReserve - sum <= MaxBuilders - (sum + active) + SizeModulus
      BY <1>0, <1>3, <2>4
    <3>3. Smaller(MaxReserve - sum, Wrap(MaxBuilders - (sum + active))) = MaxReserve - sum
      BY <1>0, <1>3, <3>1, <3>2 DEF Smaller
    <3> QED BY <1>0, <1>3, <2>2, <2>4, <3>3
  <2> QED BY <1>0, <1>3, <2>3, <2>4
<1> QED BY <1>0, <1>1, <1>2, <1>3

\* The number of builders exceeds max_builder_count by at most the number of create
\* commands that could not be launched.
ExcessBounded ==
    Len(reserve_builders) + Cardinality(active_builders) <= MaxBuilders + launch_failures

\* Each launch that fails, which takes its create off the count twice, is worth one
\* builder too many, and nothing else is worth any.
THEOREM ExcessIsLaunchFailures == Spec => []ExcessBounded
<1>1. CountInv => ExcessBounded
  <2> SUFFICES ASSUME CountInv PROVE ExcessBounded
    OBVIOUS
  <2>1. /\ Len(reserve_builders) \in Nat /\ Cardinality(active_builders) \in Nat
        /\ creating \in Nat /\ create_errors \in Nat /\ leaked_creates \in Nat
        /\ launch_failures \in Nat /\ outstanding_create_count \in Int /\ MaxBuilders \in Nat
    BY LenProperties, FS_CardinalityType, LimitsAssumption DEF CountInv, TypeOK
  <2>2. outstanding_create_count >= -launch_failures
    BY <2>1 DEF CountInv, OutstandingAccounted
  <2>3. Len(reserve_builders) + Cardinality(active_builders)
          + outstanding_create_count <= MaxBuilders
    BY DEF CountInv, PlannedWithinLimits
  <2> QED BY <2>1, <2>2, <2>3 DEF ExcessBounded
<1> QED BY <1>1, CountInvariant, PTL

\* What BuilderQueue.h:78 says of the limit is true as long as every create command
\* can be launched: the launch failure is the only cause of its violation.
THEOREM LimitWithoutLaunchFailures == Spec => [](launch_failures = 0 => DocumentedLimit)
<1>1. CountInv /\ ExcessBounded => (launch_failures = 0 => DocumentedLimit)
  BY LimitsAssumption DEF ExcessBounded, DocumentedLimit
<1> QED BY <1>1, CountInvariant, ExcessIsLaunchFailures, PTL

\* A wedge takes more failed launches than there are builders in reserve and creates
\* still counted.
WedgeCaused ==
    Wedged => launch_failures > Len(reserve_builders) + creating + create_errors + leaked_creates

\* The queue can stop creating builders only because create commands could not be
\* launched, and more of them than what it still has or waits for makes up for.
THEOREM WedgeIsLaunchFailures == Spec => []WedgeCaused
<1>1. CountInv => WedgeCaused
  <2> SUFFICES ASSUME CountInv, Len(reserve_builders) + outstanding_create_count < 0
               PROVE  launch_failures > Len(reserve_builders) + creating + create_errors
                                          + leaked_creates
    BY DEF WedgeCaused, Wedged
  <2>1. /\ Len(reserve_builders) \in Nat /\ creating \in Nat /\ create_errors \in Nat
        /\ leaked_creates \in Nat /\ launch_failures \in Nat
    BY LenProperties, LimitsAssumption DEF CountInv, TypeOK
  <2> QED BY <2>1 DEF CountInv, OutstandingAccounted
<1> QED BY <1>1, CountInvariant, PTL

-----------------------------------------------------------------------------
(***************************************************************************)
(* Exceptions.  The constructor of OpenStack may throw; what it leaves     *)
(* behind is never repaired.                                               *)
(***************************************************************************)
\* process_pending_handler moves nothing into active_builders but what was in reserve.
LEMMA ProcessPendingActive ==
    ASSUME NEW pending \in Seq(Handlers), NEW reserve \in Seq(Builders),
           NEW outstanding, NEW commands,
           process_pending_handler(pending, reserve, outstanding, commands)
    PROVE  \A b : b \notin Elements(reserve) => (b \in active_builders' <=> b \in active_builders)
<1>1. CASE pending # <<>> /\ reserve # <<>>
  <2>1. active_builders' = active_builders \cup {Head(reserve)}
    BY <1>1 DEF process_pending_handler
  <2>2. Head(reserve) \in Elements(reserve)
    BY <1>1, ElementsHeadTail
  <2> QED BY <2>1, <2>2
<1>2. CASE ~(pending # <<>> /\ reserve # <<>>)
  BY <1>2 DEF process_pending_handler
<1> QED BY <1>1, <1>2

\* A machine that is in stock or lent after process_pending_handler was in stock
\* or lent before.
LEMMA ProcessEffect ==
    ASSUME TypeOK, NEW pending \in Seq(Handlers), NEW reserve \in Seq(Builders),
           NEW outstanding, NEW commands,
           process_pending_handler(pending, reserve, outstanding, commands)
    PROVE  /\ Elements(reserve_builders') \subseteq Elements(reserve)
           /\ active_builders' \subseteq active_builders \cup Elements(reserve)
           /\ \A c \in Handlers : leased'[c] \in {leased[c]} \cup Elements(reserve)
<1>1. CASE pending # <<>> /\ reserve # <<>>
  <2>1. /\ reserve_builders' = Tail(reserve)
        /\ active_builders' = active_builders \cup {Head(reserve)}
        /\ leased' = [leased EXCEPT ![Head(pending)] = Head(reserve)]
    BY <1>1 DEF process_pending_handler
  <2>2. Elements(reserve) = Elements(Tail(reserve)) \cup {Head(reserve)}
    BY <1>1, ElementsHeadTail
  <2> QED BY <2>1, <2>2 DEF TypeOK
<1>2. CASE ~(pending # <<>> /\ reserve # <<>>)
  BY <1>2 DEF process_pending_handler
<1> QED BY <1>1, <1>2

\* The daemon lends and stocks no machine but those in stock and new ones, never
\* finds again a machine that it has lost track of, and does nothing once it ended.
LEMMA StockEffect ==
    ASSUME OwnershipInv, [Next]_vars
    PROVE  /\ Elements(reserve_builders') \subseteq Elements(reserve_builders) \cup (Builders \ vms)
           /\ \A c \in Handlers : leased'[c] \in {leased[c], NoBuilder}
                                    \cup Elements(reserve_builders) \cup (Builders \ vms)
           /\ Orphans \subseteq Orphans'
           /\ daemon # "running" => UNCHANGED vars
<1> DEFINE Goal == /\ Elements(reserve_builders') \subseteq
                        Elements(reserve_builders) \cup (Builders \ vms)
                   /\ \A c \in Handlers : leased'[c] \in {leased[c], NoBuilder}
                        \cup Elements(reserve_builders) \cup (Builders \ vms)
                   /\ Orphans \subseteq Orphans'
                   /\ daemon # "running" => UNCHANGED vars
<1>0. /\ TypeOK
      /\ \A c \in Handlers : leased[c] # NoBuilder => leased[c] \in active_builders
  BY DEF OwnershipInv, Owned
<1>1. ASSUME NEW c \in Handlers, checkout_builder(c) PROVE Goal
  <2>1. /\ Append(pending_handlers, c) \in Seq(Handlers) /\ reserve_builders \in Seq(Builders)
        /\ process_pending_handler(Append(pending_handlers, c), reserve_builders,
                                   outstanding_create_count, creating)
        /\ UNCHANGED <<destroying, vms>> /\ daemon = "running"
    BY <1>0, <1>1 DEF checkout_builder, TypeOK
  <2>2. /\ Elements(reserve_builders') \subseteq Elements(reserve_builders)
        /\ active_builders' \subseteq active_builders \cup Elements(reserve_builders)
        /\ \A d \in Handlers : leased'[d] \in {leased[d]} \cup Elements(reserve_builders)
    BY <1>0, <2>1, ProcessEffect
  <2> QED BY <2>1, <2>2 DEF Orphans
<1>2. ASSUME NEW b \in Builders, CreateSucceeds(b) PROVE Goal
  <2>1. /\ Append(reserve_builders, b) \in Seq(Builders) /\ pending_handlers \in Seq(Handlers)
        /\ Elements(Append(reserve_builders, b)) = Elements(reserve_builders) \cup {b}
        /\ process_pending_handler(pending_handlers, Append(reserve_builders, b),
                                   outstanding_create_count - 1, creating - 1)
        /\ destroying' = destroying /\ vms' = vms \cup {b} /\ b \notin vms
        /\ daemon = "running"
    BY <1>0, <1>2, ElementsAppend DEF CreateSucceeds, TypeOK, Fresh
  <2>2. /\ Elements(reserve_builders') \subseteq Elements(reserve_builders) \cup {b}
        /\ active_builders' \subseteq active_builders \cup Elements(reserve_builders) \cup {b}
        /\ \A d \in Handlers : leased'[d] \in {leased[d]} \cup Elements(reserve_builders) \cup {b}
    BY <1>0, <2>1, ProcessEffect
  <2> QED BY <2>1, <2>2 DEF Orphans
<1>3. ASSUME NEW c \in Handlers, ReturnBuilder(c) PROVE Goal
  <2>1. /\ leased[c] \in active_builders /\ leased[c] \in Builders
        /\ leased' = [leased EXCEPT ![c] = NoBuilder]
        /\ \A a \in Builders : a # leased[c] => destroying'[a] = destroying[a]
        /\ UNCHANGED <<reserve_builders, active_builders, vms>> /\ daemon = "running"
    BY <1>0, <1>3 DEF ReturnBuilder, return_builder, ReturnThrows, TypeOK
  <2> QED BY <1>0, <2>1 DEF Orphans, TypeOK
<1>4. ASSUME NEW b \in Builders,
             \/ DestroyEnds(b) \/ DestroyFalseSuccess(b) \/ DestroyReadError(b)
             \/ DestroyLaunchError(b) \/ retry_return_builder(b)
      PROVE  Goal
  <2>1. /\ destroying[b] # "none"
        /\ active_builders' \subseteq active_builders
        /\ \A a \in Builders : a # b => destroying'[a] = destroying[a]
        /\ vms \ {b} \subseteq vms'
        /\ UNCHANGED <<reserve_builders, leased>> /\ daemon = "running"
    BY <1>0, <1>4 DEF DestroyEnds, DestroyFalseSuccess, RemoveActive, DestroyReadError,
         DestroyLaunchError, retry_return_builder, return_builder, ReturnThrows, TypeOK, lists
  <2> QED BY <1>0, <2>1 DEF Orphans, TypeOK
<1>5. CASE CreateFails \/ CreateLaunchError \/ retry_create_reserve_builders
  <2>1. UNCHANGED <<lists, destroying>> /\ vms \subseteq vms' /\ daemon = "running"
    BY <1>5 DEF CreateFails, CreateLaunchError, retry_create_reserve_builders
  <2> QED BY <2>1 DEF lists, Orphans
<1>6. CASE UNCHANGED vars
  BY <1>6 DEF vars, lists, Orphans
<1> QED BY <1>1, <1>2, <1>3, <1>4, <1>5, <1>6 DEF Next

\* No step touches a builder that is stranded.
LEMMA StrandedStep ==
    ASSUME OwnershipInv, [Next]_vars, NEW b \in Builders, destroying[b] = "stranded"
    PROVE  destroying'[b] = "stranded" /\ (b \in active_builders' <=> b \in active_builders)
<1> DEFINE Goal == destroying'[b] = "stranded"
                     /\ (b \in active_builders' <=> b \in active_builders)
<1>0. /\ TypeOK /\ b \notin Elements(reserve_builders)
      /\ \A c \in Handlers : leased[c] # b
  BY NoBuilderAssumption DEF OwnershipInv, Owned
<1>1. ASSUME NEW c \in Handlers, checkout_builder(c) PROVE Goal
  <2>1. /\ Append(pending_handlers, c) \in Seq(Handlers) /\ reserve_builders \in Seq(Builders)
        /\ process_pending_handler(Append(pending_handlers, c), reserve_builders,
                                   outstanding_create_count, creating)
        /\ destroying' = destroying
    BY <1>0, <1>1 DEF checkout_builder, TypeOK
  <2> QED BY <1>0, <2>1, ProcessPendingActive
<1>2. ASSUME NEW a \in Builders, CreateSucceeds(a) PROVE Goal
  <2>1. /\ pending_handlers \in Seq(Handlers) /\ Append(reserve_builders, a) \in Seq(Builders)
        /\ process_pending_handler(pending_handlers, Append(reserve_builders, a),
                                   outstanding_create_count - 1, creating - 1)
        /\ destroying' = destroying /\ destroying[a] = "none"
        /\ Elements(Append(reserve_builders, a)) = Elements(reserve_builders) \cup {a}
    BY <1>0, <1>2, ElementsAppend DEF CreateSucceeds, TypeOK, Fresh
  <2> QED BY <1>0, <2>1, ProcessPendingActive
<1>3. ASSUME NEW c \in Handlers, ReturnBuilder(c) PROVE Goal
  <2>1. leased[c] # b /\ UNCHANGED active_builders
    BY <1>0, <1>3 DEF ReturnBuilder
  <2>2. destroying'[b] = destroying[b]
    BY <1>0, <1>3, <2>1 DEF ReturnBuilder, return_builder, ReturnThrows, TypeOK
  <2> QED BY <2>1, <2>2
<1>4. ASSUME NEW a \in Builders,
             \/ DestroyEnds(a) \/ DestroyFalseSuccess(a) \/ DestroyReadError(a)
             \/ DestroyLaunchError(a) \/ retry_return_builder(a)
      PROVE  Goal
  <2>1. a # b
    BY <1>4 DEF DestroyEnds, DestroyFalseSuccess, DestroyReadError, DestroyLaunchError,
         retry_return_builder
  <2>2. destroying'[b] = destroying[b]
    BY <1>0, <1>4, <2>1 DEF DestroyEnds, DestroyFalseSuccess, DestroyReadError,
         DestroyLaunchError, retry_return_builder, return_builder, ReturnThrows, TypeOK
  <2>3. active_builders' \in {active_builders, active_builders \ {a}}
    BY <1>4 DEF DestroyEnds, DestroyFalseSuccess, RemoveActive, DestroyReadError,
         DestroyLaunchError, retry_return_builder, lists
  <2> QED BY <2>1, <2>2, <2>3
<1>5. CASE CreateFails \/ CreateLaunchError \/ retry_create_reserve_builders \/ UNCHANGED vars
  BY <1>5 DEF CreateFails, CreateLaunchError, retry_create_reserve_builders, vars, lists
<1> QED BY <1>1, <1>2, <1>3, <1>4, <1>5 DEF Next

\* A machine that the queue has lost track of is lost for good, and so is a builder
\* whose return threw, with its slot if it has one.
THEOREM LostStays == Spec => LostForever
<1>1. ASSUME OwnershipInv, [Next]_vars, NEW b \in Stranded
      PROVE  b \in Stranded' /\ (b \in active_builders <=> b \in active_builders')
  <2>1. b \in Builders /\ destroying[b] = "stranded"
    BY <1>1 DEF Stranded
  <2>2. destroying'[b] = "stranded" /\ (b \in active_builders' <=> b \in active_builders)
    BY <1>1, <2>1, StrandedStep
  <2>3. b \in Stranded'
    BY <2>1, <2>2 DEF Stranded
  <2> QED BY <2>2, <2>3
<1>2. OwnershipInv /\ [Next]_vars =>
        [/\ Orphans \subseteq Orphans'
         /\ \A b \in Stranded : /\ b \in Stranded'
                               /\ b \in active_builders <=> b \in active_builders']_vars
  BY <1>1, StockEffect
<1> QED BY <1>2, OwnershipInvariant, PTL DEF Spec, LostForever

\* In the step in which the daemon ends a connection gives up its builder, and the
\* builder is stranded: return_builder threw in ~Connection.
EndsByThrow ==
    [][daemon' # daemon =>
         \E c \in Handlers : /\ leased[c] # NoBuilder /\ leased'[c] = NoBuilder
                             /\ leased[c] \in Stranded' \ Stranded]_vars

\* The daemon keeps running, as main.cpp:13 says, but for the throw of the constructor
\* of OpenStack out of the destructor of a connection: no other step ends it.
THEOREM EndIsThrow == Spec => EndsByThrow
<1>1. ASSUME OwnershipInv, [Next]_vars, daemon' # daemon
      PROVE  \E c \in Handlers : /\ leased[c] # NoBuilder /\ leased'[c] = NoBuilder
                                 /\ leased[c] \in Stranded' \ Stranded
  <2>1. PICK c \in Handlers : ReturnBuilder(c)
    BY <1>1 DEF Next, checkout_builder, CreateSucceeds, DestroyEnds, DestroyReadError,
         DestroyLaunchError, DestroyFalseSuccess, retry_return_builder, CreateFails,
         CreateLaunchError, retry_create_reserve_builders, vars
  <2>2. ReturnThrows(leased[c]) /\ leased[c] # NoBuilder
    BY <1>1, <2>1 DEF ReturnBuilder
  <2>3. leased[c] \in Builders /\ leased'[c] = NoBuilder
    BY <1>1, <2>1, <2>2 DEF ReturnBuilder, OwnershipInv, TypeOK
  <2>4. leased[c] \in Stranded'
    BY <1>1, <2>2, <2>3 DEF ReturnThrows, Stranded, OwnershipInv, TypeOK
  <2>5. leased[c] \notin Stranded
    BY <1>1, <2>2, <2>3 DEF Stranded, OwnershipInv, Owned
  <2> QED BY <2>2, <2>3, <2>4, <2>5
<1>2. OwnershipInv /\ [Next]_vars =>
        [daemon' # daemon =>
           \E c \in Handlers : /\ leased[c] # NoBuilder /\ leased'[c] = NoBuilder
                               /\ leased[c] \in Stranded' \ Stranded]_vars
  BY <1>1
<1> QED BY <1>2, OwnershipInvariant, PTL DEF Spec, EndsByThrow

-----------------------------------------------------------------------------
(***************************************************************************)
(* Waiting.  That a client gets a builder in the end is liveness and left  *)
(* to the runs; what is shown here is that it never waits for nothing: the *)
(* state in which all that can still happen has happened and somebody is   *)
(* waiting does not exist, but for the three ways to lose the queue.       *)
(***************************************************************************)
\* Destroy requests with a command, a handler or a timer under way.
AtWork == {b \in Builders : destroying[b] \in DestroyStates \ {"none", "stranded"}}

WaitingFounded ==
    pending_handlers # <<>> =>
      \/ creating + create_errors + create_retries > 0
      \/ Leased # {}
      \/ AtWork # {}
      \/ Wedged
      \/ leaked_creates > 0
      \/ active_builders # {} /\ active_builders \subseteq Stranded

\* Whoever waits for a builder waits for a create command, for a timer, for the
\* client that has the builder, or for its destruction; or the count of creates is
\* wrong for good, or every slot is stranded.
LEMMA FoundedByService ==
    ASSUME ServiceInv, MaxReserve > 0, MaxBuilders > 0
    PROVE  WaitingFounded
<1> SUFFICES ASSUME pending_handlers # <<>>, ~Wedged, leaked_creates = 0,
                    creating = 0, create_errors = 0, create_retries = 0
             PROVE  \/ Leased # {} \/ AtWork # {}
                    \/ active_builders # {} /\ active_builders \subseteq Stranded
  <2>1. /\ creating \in Nat /\ create_errors \in Nat /\ create_retries \in Nat
        /\ leaked_creates \in Nat
    BY DEF ServiceInv, CountInv, TypeOK
  <2>2. creating + create_errors + create_retries > 0 \/ leaked_creates > 0
          \/ (creating = 0 /\ create_errors = 0 /\ create_retries = 0 /\ leaked_creates = 0)
    BY <2>1
  <2> QED BY <2>2 DEF WaitingFounded
<1>1. /\ TypeOK /\ IsFiniteSet(active_builders) /\ reserve_builders = <<>>
      /\ outstanding_create_count \in Int /\ launch_failures \in Nat
  BY LimitsAssumption DEF ServiceInv, CountInv, NoIdleBuilder, TypeOK
<1>2. outstanding_create_count = -launch_failures
  BY <1>1 DEF ServiceInv, CountInv, OutstandingAccounted
<1>3. outstanding_create_count = 0
  <2>1. Len(reserve_builders) = 0
    BY <1>1
  <2> QED BY <1>1, <1>2, <2>1 DEF Wedged
<1>4. Cardinality(active_builders) = MaxBuilders
  <2>1. Len(reserve_builders) = 0 /\ Cardinality(active_builders) \in Nat
    BY <1>1, FS_CardinalityType
  <2> QED BY <1>3, <2>1, LimitsAssumption DEF ServiceInv, Replenished
<1>5. active_builders # {}
  BY <1>4, FS_EmptySet
<1>6. \A b \in active_builders : b \in Leased \/ b \in AtWork \/ b \in Stranded
  BY <1>1 DEF ServiceInv, OwnershipInv, Owned, AtWork, Stranded, TypeOK, DestroyStates
<1> QED BY <1>5, <1>6

\* No client waits for nothing, unless create commands or pipes have failed to start.
THEOREM NobodyWaitsForNothing ==
    ASSUME MaxReserve > 0, MaxBuilders > 0
    PROVE  Spec => []WaitingFounded
<1>1. ServiceInv => WaitingFounded
  BY FoundedByService
<1> QED BY <1>1, ServiceInvariant, PTL

\* A client that asked later is never served before one that waits.
InOrder ==
    [][\A c \in Elements(pending_handlers) : leased'[c] # NoBuilder =>
         c = Head(pending_handlers) /\ pending_handlers' = Tail(pending_handlers)]_vars

\* Clients are served in the order in which they asked, one at a time.
THEOREM ServedInOrder == Spec => InOrder
<1>1. ASSUME ServiceInv, TypeOK', [Next]_vars,
             NEW c \in Elements(pending_handlers), leased'[c] # NoBuilder
      PROVE  c = Head(pending_handlers) /\ pending_handlers' = Tail(pending_handlers)
  <2>0. /\ [Pool!Next]_(Pool!pool) /\ leased[c] = NoBuilder /\ c \in Handlers
        /\ leased \in [Handlers -> Builders \cup {NoBuilder}]
    <3>1. Elements(pending_handlers) \subseteq Handlers
      BY <1>1, ElementOfSeq, LenProperties DEF ServiceInv, OwnershipInv, TypeOK, Elements
    <3> QED BY <1>1, <3>1, PoolStep DEF ServiceInv, OwnershipInv, Owned, TypeOK
  <2>1. ASSUME NEW d \in Handlers, Pool!Request(d) PROVE FALSE
    <3>1. c # d
      BY <2>1 DEF Pool!Request, Pool!Queued, Elements
    <3> QED BY <1>1, <2>0, <2>1, <3>1 DEF Pool!Request
  <2>2. ASSUME NEW d \in Handlers, Pool!Release(d) PROVE FALSE
    BY <1>1, <2>0, <2>2 DEF Pool!Release
  <2>3. ASSUME NEW b \in Builders, Pool!Dispose(b) PROVE FALSE
    BY <1>1, <2>0, <2>3 DEF Pool!Dispose
  <2>4. ASSUME NEW b \in Builders, Pool!Provide(b)
        PROVE  c = Head(pending_handlers) /\ pending_handlers' = Tail(pending_handlers)
    BY <1>1, <2>0, <2>4 DEF Pool!Provide
  <2>5. CASE UNCHANGED Pool!pool
    BY <1>1, <2>0, <2>5 DEF Pool!pool
  <2> QED BY <2>0, <2>1, <2>2, <2>3, <2>4, <2>5 DEF Pool!Next
<1>2. ServiceInv /\ TypeOK' /\ [Next]_vars =>
        [\A c \in Elements(pending_handlers) : leased'[c] # NoBuilder =>
           c = Head(pending_handlers) /\ pending_handlers' = Tail(pending_handlers)]_vars
  BY <1>1
<1> QED BY <1>2, ServiceInvariant, TypeCorrect, PTL DEF Spec, InOrder
=============================================================================
