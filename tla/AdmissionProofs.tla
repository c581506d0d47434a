--------------------------- MODULE AdmissionProofs ---------------------------
(***************************************************************************)
(* Admission is safe for every number of requests and every limit: no slot *)
(* leaks or is released twice, no window counts more than the rate allows, *)
(* and work that outlived its request never exceeds the pool.              *)
(***************************************************************************)
EXTENDS Admission, FiniteSetTheorems, TLAPS

\* The clock a request read is never ahead of the clock.
SeenInPast == \A r \in Runs : req[r].seen <= clock

----------------------------------------------------------------------------
(* Who holds a slot, and which work runs, as a step changes one request.   *)

\* A request that moves to progress `pc` joins or leaves the holders, or stays.
LEMMA HoldersChange ==
    ASSUME NEW r \in Runs, NEW pc \in Progress, TypeOK,
           req' \in [Runs -> [kind : Kinds, pc : Progress, seen : Nat]],
           req'[r].pc = pc,
           \A q \in Runs \ {r} : req'[q].pc = req[q].pc
    PROVE  /\ IsFiniteSet(Holders) /\ Cardinality(Holders) \in Nat
           /\ Cardinality(Holders') = Cardinality(Holders)
                + (IF pc \in Holding THEN 1 ELSE 0)
                - (IF req[r].pc \in Holding THEN 1 ELSE 0)
<1>1. IsFiniteSet(Holders) /\ Cardinality(Holders) \in Nat
  <2>1. Holders \subseteq Runs
      BY DEF Holders
  <2> QED BY <2>1, RunsAssumption, FS_Subset, FS_CardinalityType
<1>2. CASE pc \in Holding /\ req[r].pc \notin Holding
  <2>1. Holders' = Holders \cup {r} /\ r \notin Holders
      BY <1>2 DEF Holders
  <2>2. Cardinality(Holders') = Cardinality(Holders) + 1
      BY <1>1, <2>1, FS_AddElement
  <2> QED BY <1>1, <1>2, <2>2
<1>3. CASE pc \notin Holding /\ req[r].pc \in Holding
  <2>1. Holders' = Holders \ {r} /\ r \in Holders
      BY <1>3 DEF Holders
  <2>2. Cardinality(Holders') = Cardinality(Holders) - 1
      BY <1>1, <2>1, FS_RemoveElement
  <2> QED BY <1>1, <1>3, <2>2
<1>4. CASE pc \in Holding <=> req[r].pc \in Holding
  <2>1. Holders' = Holders
      BY <1>4 DEF Holders
  <2> QED BY <1>1, <1>4, <2>1
<1> QED BY <1>2, <1>3, <1>4

\* Work that starts joins the busy threads; work that ends leaves them.
LEMMA BusyChange ==
    ASSUME NEW r \in Runs, TypeOK, NEW state \in {"none", "queued", "running"},
           job' = [job EXCEPT ![r] = state]
    PROVE  /\ IsFiniteSet(Busy) /\ Cardinality(Busy) \in Nat
           /\ state = "running" /\ job[r] # "running"
                => Cardinality(Busy') = Cardinality(Busy) + 1
           /\ state # "running" => Cardinality(Busy') <= Cardinality(Busy)
<1>1. IsFiniteSet(Busy) /\ Cardinality(Busy) \in Nat
  <2>1. Busy \subseteq Runs
      BY DEF Busy
  <2> QED BY <2>1, RunsAssumption, FS_Subset, FS_CardinalityType
<1>2. ASSUME state = "running", job[r] # "running"
      PROVE  Cardinality(Busy') = Cardinality(Busy) + 1
  <2>1. Busy' = Busy \cup {r} /\ r \notin Busy
      BY <1>2 DEF Busy, TypeOK
  <2> QED BY <1>1, <2>1, FS_AddElement
<1>3. ASSUME state # "running"
      PROVE  Cardinality(Busy') <= Cardinality(Busy)
  <2>1. Busy' \subseteq Busy
      BY <1>3 DEF Busy, TypeOK
  <2> QED BY <1>1, <2>1, FS_Subset
<1> QED BY <1>1, <1>2, <1>3

----------------------------------------------------------------------------
(* Type correctness.                                                       *)

\* Every step keeps the variables typed; a slot is only taken while one is free.
LEMMA NextTyped == TypeOK /\ [Next]_vars => TypeOK'
<1> SUFFICES ASSUME TypeOK, [Next]_vars
             PROVE  TypeOK'
    OBVIOUS
<1> USE DEF TypeOK
<1>1. CASE UNCHANGED vars
    BY <1>1 DEF vars
<1>2. CASE Tick
    BY <1>2 DEF Tick
<1>3. ASSUME NEW r \in Runs, Admit(r)
      PROVE  TypeOK'
  <2>1. CASE ReadClock(r)
      BY <2>1 DEF ReadClock, Progress
  <2>2. CASE CheckRate(r)
    <3>1. CurrentWindow(req[r].seen) \in [start : Nat, count : Nat]
        BY DEF CurrentWindow
    <3> QED BY <2>2, <3>1 DEF CheckRate, Goto, Progress
  <2>3. CASE TakeSlot(r)
      BY <2>3 DEF TakeSlot, SlotFree, Goto, Progress
  <2> QED BY <1>3, <2>1, <2>2, <2>3 DEF Admit
<1>4. ASSUME NEW r \in Runs, Own(r)
      PROVE  TypeOK'
    BY <1>4 DEF Own, RouteEnds, PreparationFails, ResponseOwns, DeliveryEnds,
                ResponseReleases, Release, Abandon, Goto, Progress
<1>5. ASSUME NEW r \in Runs, Work(r)
      PROVE  TypeOK'
    BY <1>5 DEF Work, Submit, StartJob, FinishJob
<1> QED BY <1>1, <1>2, <1>3, <1>4, <1>5 DEF Next

\* Every variable always holds a value of the program's types: in particular the
\* semaphore's value is never negative (access_control._acquire).
THEOREM TypeCorrect == Spec => []TypeOK
<1>1. Init => TypeOK
    BY LimitsAssumption DEF Init, TypeOK, Progress, Kinds
<1> QED BY <1>1, NextTyped, PTL DEF Spec

----------------------------------------------------------------------------
(* The slots.                                                              *)

\* Every step keeps the sum of free and held slots.
LEMMA SlotsStep == TypeOK /\ SlotsConserved /\ [Next]_vars => SlotsConserved'
<1> SUFFICES ASSUME TypeOK, SlotsConserved, [Next]_vars
             PROVE  SlotsConserved'
    OBVIOUS
<1>t. TypeOK'
    BY NextTyped
<1>h. req' \in [Runs -> [kind : Kinds, pc : Progress, seen : Nat]]
    BY <1>t DEF TypeOK
<1>n. free \in Nat /\ free' \in Nat /\ MaxRuns \in Nat
    BY <1>t, LimitsAssumption DEF TypeOK
<1>s. SlotsConserved' <=> free' + Cardinality(Holders') = MaxRuns
    BY <1>n DEF SlotsConserved
<1>0. ASSUME NEW r \in Runs, NEW pc \in Progress, Goto(r, pc)
      PROVE  /\ req'[r].pc = pc
             /\ \A q \in Runs \ {r} : req'[q].pc = req[q].pc
    BY <1>0 DEF Goto, TypeOK
<1>1. ASSUME UNCHANGED <<free, req>>
      PROVE  SlotsConserved'
    BY <1>1 DEF SlotsConserved, Holders
<1>2. ASSUME NEW r \in Runs, NEW pc \in Progress, Goto(r, pc),
             req[r].pc \in Holding <=> pc \in Holding, UNCHANGED free
      PROVE  SlotsConserved'
    BY <1>0, <1>2, <1>h, <1>n, <1>s, HoldersChange DEF SlotsConserved
<1>3. ASSUME NEW r \in Runs, ReadClock(r)
      PROVE  SlotsConserved'
  <2>1. Holders' = Holders
      BY <1>3 DEF ReadClock, Holders, Holding, TypeOK
  <2> QED BY <1>3, <2>1 DEF ReadClock, SlotsConserved
<1>4. ASSUME NEW r \in Runs, CheckRate(r)
      PROVE  SlotsConserved'
    BY <1>4, <1>2 DEF CheckRate, Holding, Progress
<1>5. ASSUME NEW r \in Runs, TakeSlot(r)
      PROVE  SlotsConserved'
  <2>1. CASE SlotFree
    <3>1. Goto(r, "admitted") /\ free' = free - 1 /\ req[r].pc = "slot"
        BY <1>5, <2>1 DEF TakeSlot
    <3>2. /\ Cardinality(Holders) \in Nat
          /\ Cardinality(Holders') = Cardinality(Holders) + 1
        BY <1>0, <1>h, <3>1, HoldersChange DEF Holding, Progress
    <3> QED BY <1>n, <1>s, <3>1, <3>2 DEF SlotsConserved
  <2>2. CASE ~SlotFree
      BY <1>5, <2>2, <1>2 DEF TakeSlot, Holding, Progress
  <2> QED BY <2>1, <2>2
<1>6. ASSUME NEW r \in Runs, Release, Goto(r, "ended"), req[r].pc \in Holding
      PROVE  SlotsConserved'
  <2>1. /\ Cardinality(Holders) \in Nat
        /\ Cardinality(Holders') = Cardinality(Holders) - 1
      BY <1>0, <1>h, <1>6, HoldersChange DEF Holding, Progress
  <2> QED BY <1>n, <1>s, <1>6, <2>1 DEF SlotsConserved, Release
<1>7. ASSUME NEW r \in Runs, Own(r)
      PROVE  SlotsConserved'
  <2>1. CASE RouteEnds(r) \/ PreparationFails(r) \/ ResponseReleases(r)
      BY <1>6, <2>1 DEF RouteEnds, PreparationFails, ResponseReleases, Holding
  <2>2. CASE ResponseOwns(r)
      BY <1>2, <2>2 DEF ResponseOwns, Holding, Progress
  <2>3. CASE DeliveryEnds(r)
      BY <1>2, <2>3 DEF DeliveryEnds, Holding, Progress
  <2> QED BY <1>7, <2>1, <2>2, <2>3 DEF Own
<1>8. ASSUME UNCHANGED vars \/ Tick \/ \E r \in Runs : Work(r)
      PROVE  SlotsConserved'
    BY <1>1, <1>8 DEF vars, Tick, Work, Submit, StartJob, FinishJob
<1> QED BY <1>3, <1>4, <1>5, <1>7, <1>8 DEF Next, Admit

\* Each slot is free or held by one request that has not ended, over every route and
\* every way it can end (require_model_admission, _AdmittedStream, RuntimeStream).
THEOREM SlotsNeverLeak == Spec => []SlotsConserved
<1>1. Init => SlotsConserved
  <2>1. Init => Holders = {}
      BY DEF Init, Holders, Holding
  <2>2. Init => Cardinality(Holders) = 0
      BY <2>1, FS_EmptySet, Zenon
  <2> QED BY <2>2, LimitsAssumption DEF Init, SlotsConserved
<1> QED BY <1>1, SlotsStep, TypeCorrect, PTL DEF Spec

----------------------------------------------------------------------------
(* The rate window and the pool.                                           *)

\* No window counts more than RateLimit requests, and none starts in the future, even
\* for a request that compared it with a clock it had read earlier.
THEOREM RateNeverExceeded == Spec => []RateBounded
<1>1. Init => RateBounded /\ SeenInPast
    BY LimitsAssumption DEF Init, RateBounded, SeenInPast
<1>2. TypeOK /\ RateBounded /\ SeenInPast /\ [Next]_vars => RateBounded' /\ SeenInPast'
  <2> SUFFICES ASSUME TypeOK, RateBounded, SeenInPast, [Next]_vars
               PROVE  RateBounded' /\ SeenInPast'
      OBVIOUS
  <2> USE LimitsAssumption DEF RateBounded, SeenInPast, TypeOK, Goto
  <2>1. CASE Tick
      BY <2>1 DEF Tick
  <2>2. ASSUME NEW r \in Runs, ReadClock(r)
        PROVE  RateBounded' /\ SeenInPast'
      BY <2>2 DEF ReadClock
  <2>3. ASSUME NEW r \in Runs, CheckRate(r)
        PROVE  RateBounded' /\ SeenInPast'
    <3> DEFINE w == CurrentWindow(req[r].seen)
    <3>1. w \in [start : Nat, count : Nat] /\ w.count <= RateLimit /\ w.start <= clock
        BY DEF CurrentWindow
    <3>2. window' = w \/ (Room(w) /\ window' = [w EXCEPT !.count = @ + 1])
        BY <2>3 DEF CheckRate
    <3>3. window'.count <= RateLimit /\ window'.start <= clock
      <4> HIDE DEF w
      <4> QED BY <3>1, <3>2 DEF Room
    <3>4. clock' = clock /\ \A q \in Runs : req'[q].seen = req[q].seen
        BY <2>3 DEF CheckRate
    <3> QED BY <3>3, <3>4
  <2>4. ASSUME NEW r \in Runs, TakeSlot(r) \/ Own(r)
        PROVE  RateBounded' /\ SeenInPast'
      BY <2>4 DEF TakeSlot, Own, RouteEnds, PreparationFails, ResponseOwns, DeliveryEnds,
                  ResponseReleases
  <2>5. ASSUME NEW r \in Runs, Work(r)
        PROVE  RateBounded' /\ SeenInPast'
      BY <2>5 DEF Work, Submit, StartJob, FinishJob
  <2>6. CASE UNCHANGED vars
      BY <2>6 DEF vars
  <2> QED BY <2>1, <2>2, <2>3, <2>4, <2>5, <2>6 DEF Next, Admit
<1> QED BY <1>1, <1>2, TypeCorrect, PTL DEF Spec

\* At most MaxRuns pieces of work run at once, those that outlived their request
\* included (_TrackedExecutor).
THEOREM PoolNeverExceeded == Spec => []PoolBounded
<1>1. Init => PoolBounded
  <2>1. Init => Busy = {}
      BY DEF Init, Busy
  <2> QED BY <2>1, FS_EmptySet, LimitsAssumption DEF PoolBounded
<1>2. TypeOK /\ PoolBounded /\ [Next]_vars => PoolBounded'
  <2> SUFFICES ASSUME TypeOK, PoolBounded, [Next]_vars
               PROVE  PoolBounded'
      OBVIOUS
  <2>1. ASSUME UNCHANGED job
        PROVE  PoolBounded'
      BY <2>1 DEF PoolBounded, Busy
  <2>2. ASSUME NEW r \in Runs, NEW state \in {"none", "queued"},
               job' = [job EXCEPT ![r] = state]
        PROVE  PoolBounded'
    <3>1. Cardinality(Busy') <= Cardinality(Busy) /\ Cardinality(Busy) \in Nat
        BY <2>2, BusyChange
    <3>2. IsFiniteSet(Busy') /\ Cardinality(Busy') \in Nat
      <4>1. Busy' \subseteq Runs
          BY DEF Busy
      <4> QED BY <4>1, RunsAssumption, FS_Subset, FS_CardinalityType
    <3> QED BY <3>1, <3>2, LimitsAssumption DEF PoolBounded
  <2>3. ASSUME NEW r \in Runs, StartJob(r)
        PROVE  PoolBounded'
    <3>1. Cardinality(Busy') = Cardinality(Busy) + 1 /\ Cardinality(Busy) \in Nat
        BY <2>3, BusyChange DEF StartJob
    <3> QED BY <2>3, <3>1, LimitsAssumption DEF StartJob, ThreadFree, PoolBounded
  <2>4. ASSUME NEW r \in Runs, Submit(r)
        PROVE  PoolBounded'
      BY <2>2, <2>4 DEF Submit
  <2>5. ASSUME NEW r \in Runs, FinishJob(r)
        PROVE  PoolBounded'
      BY <2>2, <2>5 DEF FinishJob
  <2>6. ASSUME NEW r \in Runs, Abandon(r)
        PROVE  PoolBounded'
    <3>1. CASE job[r] = "queued"
        BY <2>2, <2>6, <3>1 DEF Abandon
    <3>2. CASE job[r] # "queued"
        BY <2>1, <2>6, <3>2 DEF Abandon, TypeOK
    <3> QED BY <3>1, <3>2
  <2>7. ASSUME NEW r \in Runs, Own(r)
        PROVE  PoolBounded'
      BY <2>1, <2>6, <2>7 DEF Own, RouteEnds, PreparationFails, ResponseOwns,
                              DeliveryEnds, ResponseReleases
  <2>8. ASSUME UNCHANGED vars \/ Tick \/ \E r \in Runs : Admit(r)
        PROVE  PoolBounded'
      BY <2>1, <2>8 DEF vars, Tick, Admit, ReadClock, CheckRate, TakeSlot
  <2> QED BY <2>3, <2>4, <2>5, <2>7, <2>8 DEF Next, Work
<1> QED BY <1>1, <1>2, TypeCorrect, PTL DEF Spec
=============================================================================
