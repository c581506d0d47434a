------------------------------ MODULE Admission ------------------------------
(***************************************************************************)
(* Admission of model-backed requests to one API process                   *)
(* (service/access_control.py) and the worker pool their agent turns share *)
(* (service/agent_execution.py).                                           *)
(*                                                                         *)
(* A request passes the rate window, then takes one of MaxRuns slots, or   *)
(* is rejected.  Who gives the slot back depends on the route:             *)
(*   route   require_model_admission's finally, after the route returns;   *)
(*   stream  _admit_and_prepare_stream until the response exists, then     *)
(*           _AdmittedStream, after it closed its body (service/main.py);  *)
(*   relay   agentcore_transport.stream until the response exists, then    *)
(*           its RuntimeStream, through close().                           *)
(* A turn's blocking work runs on the pool and may outlive the request     *)
(* that a deadline ended; such work holds a pool thread but no slot.       *)
(***************************************************************************)
EXTENDS Naturals, FiniteSets

CONSTANTS
    Runs,         \* the requests of this instance
    MaxRuns,      \* max_concurrent_model_runs: slots, and threads of the pool
    RateLimit,    \* model_rate_limit_per_minute
    Window,       \* the length of the rate window, 60 s in the code
    MaxTime       \* bound on the clock

ASSUME RunsAssumption == IsFiniteSet(Runs)
ASSUME LimitsAssumption ==
    /\ MaxRuns \in Nat \ {0}
    /\ RateLimit \in Nat
    /\ Window \in Nat \ {0}
    /\ MaxTime \in Nat

VARIABLES
    clock,    \* time.monotonic()
    window,   \* _RateWindow: window_started_at and count
    free,     \* the BoundedSemaphore's value
    req,      \* each request: its route, its progress, the clock it read
    job       \* each turn's work on the pool

vars == <<clock, window, free, req, job>>

Kinds == {"route", "stream", "relay"}
\* rate: the clock is read, the window's lock is not taken yet;  admitted: the slot
\* is held by the code that took it;  owned: by the response;  closing: the response
\* returned and its body is being closed.
Progress == {"new", "rate", "slot", "admitted", "owned", "closing", "ended", "rejected"}
Holding == {"admitted", "owned", "closing"}
Holders == {r \in Runs : req[r].pc \in Holding}

Init ==
    /\ clock = 0
    /\ window = [start |-> 0, count |-> 0]
    /\ free = MaxRuns
    /\ req \in [Runs -> [kind : Kinds, pc : {"new"}, seen : {0}]]
    /\ job = [r \in Runs |-> "none"]

Goto(r, pc) == req' = [req EXCEPT ![r].pc = pc]

Tick ==
    /\ clock < MaxTime
    /\ clock' = clock + 1
    /\ UNCHANGED <<window, free, req, job>>

----------------------------------------------------------------------------
(* _acquire: the rate budget first, then a slot.                           *)

\* _RateWindow.allow reads the clock before it takes the lock.
ReadClock(r) ==
    /\ req[r].pc = "new"
    /\ req' = [req EXCEPT ![r] = [@ EXCEPT !.pc = "rate", !.seen = clock]]
    /\ UNCHANGED <<clock, window, free, job>>

\* The window as this request finds it: a new one once the old one is over. A clock
\* read before another request opened a later window never reopens an earlier one.
CurrentWindow(seen) ==
    IF seen >= window.start + Window THEN [start |-> seen, count |-> 0] ELSE window

RoomOffByOne(w) == w.count <= RateLimit
Room(w) == w.count < RateLimit

CheckRate(r) ==
    /\ req[r].pc = "rate"
    /\ LET w == CurrentWindow(req[r].seen) IN
        IF Room(w)
        THEN window' = [w EXCEPT !.count = @ + 1] /\ Goto(r, "slot")
        ELSE window' = w /\ Goto(r, "rejected")
    /\ UNCHANGED <<clock, free, job>>

SlotFreeUnchecked == TRUE
SlotFree == free > 0

\* semaphore.acquire(blocking=False). The rate unit is spent either way.
TakeSlot(r) ==
    /\ req[r].pc = "slot"
    /\ IF SlotFree
       THEN free' = free - 1 /\ Goto(r, "admitted")
       ELSE UNCHANGED free /\ Goto(r, "rejected")
    /\ UNCHANGED <<clock, window, job>>

----------------------------------------------------------------------------
(* Ownership of the slot.                                                  *)

\* Work still queued when its caller stops waiting never starts; work that runs goes on.
Abandon(r) == job' = [job EXCEPT ![r] = IF @ = "queued" THEN "none" ELSE @]
Release == free' = free + 1

\* The route returns, raises, is cancelled or meets its deadline.
RouteEndsJoined(r) ==
    /\ req[r].kind = "route" /\ req[r].pc = "admitted" /\ job[r] # "running"
    /\ Release /\ Abandon(r) /\ Goto(r, "ended")
    /\ UNCHANGED <<clock, window>>
RouteEnds(r) ==
    /\ req[r].kind = "route" /\ req[r].pc = "admitted"
    /\ Release /\ Abandon(r) /\ Goto(r, "ended")
    /\ UNCHANGED <<clock, window>>

\* prepare_request or invoke raises: the slot goes back before any response exists.
PreparationFailsKeeping(r) ==
    /\ req[r].kind \in {"stream", "relay"} /\ req[r].pc = "admitted"
    /\ Goto(r, "ended")
    /\ UNCHANGED <<clock, window, free, job>>
PreparationFails(r) ==
    /\ req[r].kind \in {"stream", "relay"} /\ req[r].pc = "admitted"
    /\ Release /\ Goto(r, "ended")
    /\ UNCHANGED <<clock, window, job>>

\* The response object now owns the slot.
ResponseOwns(r) ==
    /\ req[r].kind \in {"stream", "relay"} /\ req[r].pc = "admitted"
    /\ Goto(r, "owned")
    /\ UNCHANGED <<clock, window, free, job>>

\* super().__call__ returns or raises: completed, failed or abandoned by the client,
\* before the first byte or after it.
DeliveryEnds(r) ==
    /\ req[r].pc = "owned"
    /\ Goto(r, "closing")
    /\ UNCHANGED <<clock, window, free, job>>

\* The body is closed, and whether or not closing it raised, the slot is released.
ResponseReleases(r) ==
    /\ req[r].pc = "closing"
    /\ Release /\ Abandon(r) /\ Goto(r, "ended")
    /\ UNCHANGED <<clock, window>>

----------------------------------------------------------------------------
(* _TrackedExecutor: MaxRuns threads and an unbounded queue.               *)

\* A turn in this process hands its next blocking step to the pool.
Submit(r) ==
    /\ \/ req[r].kind = "route" /\ req[r].pc = "admitted"
       \/ req[r].kind = "stream" /\ req[r].pc = "owned"
    /\ job[r] = "none"
    /\ job' = [job EXCEPT ![r] = "queued"]
    /\ UNCHANGED <<clock, window, free, req>>

Busy == {r \in Runs : job[r] = "running"}

ThreadFree == Cardinality(Busy) < MaxRuns

StartJob(r) ==
    /\ job[r] = "queued" /\ ThreadFree
    /\ job' = [job EXCEPT ![r] = "running"]
    /\ UNCHANGED <<clock, window, free, req>>

FinishJob(r) ==
    /\ job[r] = "running"
    /\ job' = [job EXCEPT ![r] = "none"]
    /\ UNCHANGED <<clock, window, free, req>>

----------------------------------------------------------------------------

Admit(r) == ReadClock(r) \/ CheckRate(r) \/ TakeSlot(r)
Own(r) ==
    \/ RouteEnds(r)
    \/ PreparationFails(r) \/ ResponseOwns(r)
    \/ DeliveryEnds(r) \/ ResponseReleases(r)
Work(r) == Submit(r) \/ StartJob(r) \/ FinishJob(r)

Next == Tick \/ \E r \in Runs : Admit(r) \/ Own(r) \/ Work(r)

Spec == Init /\ [][Next]_vars

\* A request that holds a slot is bounded by its deadline, by the client that reads the
\* stream or leaves, and by the database timeouts of closing. Nothing is assumed of the
\* work on the pool.
FairSpec == Spec /\ \A r \in Runs : WF_vars(Admit(r)) /\ WF_vars(Own(r))

----------------------------------------------------------------------------
(* Properties.                                                             *)

\* Every variable holds a value of the program's types.
TypeOK ==
    /\ clock \in Nat
    /\ window \in [start : Nat, count : Nat]
    /\ free \in Nat
    /\ req \in [Runs -> [kind : Kinds, pc : Progress, seen : Nat]]
    /\ job \in [Runs -> {"none", "queued", "running"}]

\* Over every route and every way it can end, each slot is either free or held by one
\* request that has not ended, and no request is given a slot that is not there: none
\* leaks and none is released twice, which a
\* BoundedSemaphore would answer with ValueError (require_model_admission,
\* _AdmittedStream, agentcore_transport.stream).
SlotsConserved == free >= 0 /\ free + Cardinality(Holders) = MaxRuns

\* No window counts more than RateLimit requests or starts in the future, however stale
\* the clock a request compared it with (_RateWindow.allow).
RateBounded == window.count <= RateLimit /\ window.start <= clock

\* Work that outlives its turn is bounded by the pool, not by the slots: at most MaxRuns
\* threads run at once even when every request that submitted work has ended.
PoolBounded == Cardinality(Busy) <= MaxRuns

\* Every admitted request gives its slot back, even if the work it left on the pool
\* never finishes (run_async never joins a worker).
SlotsComeBack == \A r \in Runs : req[r].pc = "admitted" ~> req[r].pc = "ended"
=============================================================================
