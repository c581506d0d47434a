------------------------------ MODULE AgentTurn ------------------------------
(***************************************************************************)
(* One turn of the Mosaic discovery agent: ProductDiscoveryAgent.answer    *)
(* and .stream (service/agent.py), the tools the model calls               *)
(* (service/agent_tools.py) and the deadline that bounds them              *)
(* (service/agent_execution.py).                                           *)
(*                                                                         *)
(* Two kinds of process share the run-state dictionary `run`:              *)
(*   - the controller, which waits for the model's loop, bounds it with a  *)
(*     deadline, recovers with a fallback, persists the turn and replies;  *)
(*   - the tool workers `Calls`, the concurrent tool calls of one model    *)
(*     turn, each a thread that reads and writes the same dictionary.      *)
(* A worker's step ends where the code does I/O or where another thread    *)
(* can run between a check and the write that depends on it.               *)
(*                                                                         *)
(* The model itself is external: it may ask for any tools with any         *)
(* arguments, in batches, and stop or fail between two batches.            *)
(***************************************************************************)
EXTENDS Naturals, FiniteSets

CONSTANTS
    Products,       \* the catalog products of this instance
    Inherited,      \* the products of the previous answer (context_product_ids)
    Eligible,       \* the products that match the current filters (matches_filters)
    Calls,          \* worker slots: the most tool calls that run at once
    SearchSlots,    \* len(SEARCH_SLOTS), searches allowed in a turn
    ToolLimit,      \* build_agent(max_tool_calls), tool calls allowed in a turn
    PerSearch,      \* PRODUCTS_PER_SEARCH, products one search authorizes
    ResultLimit,    \* max(1, min(result_limit, 4)), the fallback's shortlist
    Modes,          \* the entry points of this instance, from {"answer", "stream"}
    FollowsPrompt   \* whether the model batches its calls as SYSTEM_PROMPT says

ASSUME ProductsAssumption ==
    /\ Inherited \subseteq Products
    /\ Eligible \subseteq Products
    /\ IsFiniteSet(Products)
ASSUME CallsAssumption == IsFiniteSet(Calls)
ASSUME BudgetAssumption ==
    /\ SearchSlots \in Nat
    /\ ToolLimit \in Nat
    /\ PerSearch \in Nat
    /\ ResultLimit \in Nat \ {0}
ASSUME ModeAssumption ==
    /\ Modes \subseteq {"answer", "stream"}
    /\ FollowsPrompt \in BOOLEAN

VARIABLES
    mode,      \* the entry point that runs this turn
    phase,     \* where the controller is
    error,     \* the controller's `error`
    run,       \* the run-state dictionary the controller and the workers share
    detached,  \* whether the controller's `state` is a private copy of `run`
    snap,      \* answer_of_record in that private copy
    torn,      \* whether a worker resized a dictionary while it was being copied
    used,      \* _ToolCallBudget.used
    call,      \* what each worker is doing
    saved,     \* the turn's row: its status and assistant message
    reply      \* what the caller was told

vars == <<mode, phase, error, run, detached, snap, torn, used, call, saved, reply>>

----------------------------------------------------------------------------
(* The answer of record, the run state and the tool calls.                 *)

Origins == {"model", "controller_fallback"}
Reasons == {"unanchored", "unsupported", "no_matching_products"}

\* answer_of_record: None, a cited answer, or an answer that recommends nothing.
NoAnswer == [outcome |-> "none", recommendations |-> {}, reason |-> "none",
             origin |-> "none"]
Grounded(recs, origin) ==
    [outcome |-> "grounded", recommendations |-> recs, reason |-> "none",
     origin |-> origin]
Declined(reason, origin) ==
    [outcome |-> "declined", recommendations |-> {}, reason |-> reason,
     origin |-> origin]

AnswerRecords ==
    {NoAnswer}
    \cup {Grounded(recs, origin) : recs \in SUBSET Products \ {{}}, origin \in Origins}
    \cup {Declined(reason, origin) : reason \in Reasons, origin \in Origins}

\* The dictionary of start_run. `searches` and `failed` count the searches that
\* returned and those that raised; `retrieved` is the union of their product_ids;
\* `explained` counts the successful explain_retrieval steps by the turn that owns
\* the event they replayed; `traced` says that the trace holds a step.
RunStates ==
    [context : SUBSET Products, attempts : Nat, searches : Nat, failed : Nat,
     retrieved : SUBSET Products, products : SUBSET Products,
     evidence : SUBSET Products, compared : SUBSET (SUBSET Products),
     explained : [prior : Nat, current : Nat],
     verdicts : SUBSET {"unanchored", "open"}, traced : BOOLEAN,
     retry : SUBSET Products, record : AnswerRecords]

StartRun(context) ==
    [context |-> context, attempts |-> 0, searches |-> 0, failed |-> 0,
     retrieved |-> {}, products |-> context, evidence |-> {}, compared |-> {},
     explained |-> [prior |-> 0, current |-> 0], verdicts |-> {},
     traced |-> FALSE, retry |-> {}, record |-> NoAnswer]

Tools == {"search", "evidence", "compare", "explain", "synthesize"}
ReadTools == {"evidence", "compare", "explain"}
CompareCount == 2..5
SynthesisCount == 1..6

\* A worker's progress: waiting for the budget hook, started, and one point for
\* each I/O or unprotected gap inside a tool.
Points == {"idle", "queued", "start", "reserved", "clear", "net", "grant",
           "recheck", "gate", "model"}
CallStates == [tool : Tools \cup {"none"}, pc : Points, ids : SUBSET Products,
               event : {"none", "prior", "current"}]
Idle == [tool |-> "none", pc |-> "idle", ids |-> {}, event |-> "none"]
Request(tool, ids, event) ==
    [tool |-> tool, pc |-> "queued", ids |-> ids, event |-> event]

Requests ==
    {Request("search", {}, "none")}
    \cup {Request("evidence", {p}, "none") : p \in Products}
    \cup {Request("explain", {}, e) : e \in {"prior", "current"}}
    \cup {Request("compare", ids, "none") : ids \in SUBSET Products}
    \cup {Request("synthesize", ids, "none") : ids \in SUBSET Products}

Quiet == \A c \in Calls : call[c].pc = "idle"
At(c, tool, pc) == call[c].tool = tool /\ call[c].pc = pc
Goto(c, pc) == call' = [call EXCEPT ![c].pc = pc]
Finish(c) == call' = [call EXCEPT ![c] = Idle]

\* coverage_refusal: at least one verdict and every one of them unanchored.
Refuses(r) == r.verdicts = {"unanchored"}
\* _retrieval_attempted, read from the trace: a search that raised counts too.
AttemptedIfReturned(r) == r.searches > 0
Attempted(r) == r.searches + r.failed > 0
\* _comparison_covers, asked only of selections of more than one product.
ComparisonCovers(r, ids) ==
    Cardinality(ids) > 1 => \E known \in r.compared : ids \subseteq known
Explanations(r) == r.explained.prior + r.explained.current
\* _excluded_inherited_products
Excluded(r, ids) == (ids \cap r.context) \ Eligible

\* The dictionaries whose size changes between two states of the run: copying one
\* of them at that moment raises RuntimeError.
Resizes(old, new) ==
    \/ old.products # new.products
    \/ old.evidence # new.evidence
    \/ (old.attempts = 0) # (new.attempts = 0)
    \/ (old.retry = {}) # (new.retry = {})

\* A worker's write to the shared dictionary.
Write(r) == /\ run' = r
            /\ torn' = (torn \/ (phase = "snapshot" /\ Resizes(run, r)))
Ours == <<mode, phase, detached, snap, saved, reply>>

----------------------------------------------------------------------------
(* The model's loop: batches of tool calls and the tool-call budget.       *)

\* What SYSTEM_PROMPT allows in one batch: searches together, the independent
\* reads together, and synthesis alone.
Prompted(batch) ==
    \/ \A c \in Calls : batch[c].tool \in {"none", "search"}
    \/ \A c \in Calls : batch[c].tool \in {"none"} \cup ReadTools
    \/ \E s \in Calls : \A c \in Calls \ {s} : batch[c].tool = "none"

\* The model asks for a batch of tools once the previous batch has returned.
ModelTurn ==
    /\ phase = "loop" /\ error = "none" /\ Quiet
    /\ \E batch \in [Calls -> Requests \cup {Idle}] :
        /\ \E c \in Calls : batch[c].tool # "none"
        /\ FollowsPrompt => Prompted(batch)
        /\ call' = batch
    /\ UNCHANGED <<error, run, torn, used, Ours>>

\* _ToolCallBudget._before_tool_call: run it, cancel it, or end the loop.
BeforeToolCall(c) ==
    /\ phase = "loop" /\ call[c].pc = "queued"
    /\ used' = used + 1
    /\ IF used' <= ToolLimit THEN Goto(c, "start") ELSE Finish(c)
    /\ error' = IF used' > ToolLimit + 2 /\ error = "none" THEN "other" ELSE error
    /\ UNCHANGED <<run, torn, Ours>>

\* The model ends the conversation, or its own call fails.
LoopEnds ==
    /\ phase = "loop" /\ error = "none" /\ Quiet
    /\ error' \in {"none", "runtime", "other"}
    /\ phase' = "finish"
    /\ UNCHANGED <<mode, run, detached, snap, torn, used, call, saved, reply>>

\* A hook's error ends the loop after the batch has drained.
LoopStopsAtOnce ==
    /\ phase = "loop" /\ error # "none"
    /\ phase' = "finish"
    /\ UNCHANGED <<mode, error, run, detached, snap, torn, used, call, saved, reply>>
LoopStops ==
    /\ phase = "loop" /\ error # "none" /\ Quiet
    /\ phase' = "finish"
    /\ UNCHANGED <<mode, error, run, detached, snap, torn, used, call, saved, reply>>

----------------------------------------------------------------------------
(* The tools. Any of them may refuse its arguments without a trace.        *)

CallRefused(c) ==
    /\ call[c].pc = "start"
    /\ Finish(c)
    /\ UNCHANGED <<error, run, torn, used, Ours>>

\* _stopping_error and _StopOnRunErrors: an AgentSetupError or ModelRuntimeError
\* raised inside a tool ends the loop; once the loop is gone nobody hears it.
Stops ==
    \E stopping \in {"none", "runtime", "other"} :
        error' = IF phase = "loop" /\ error = "none" THEN stopping ELSE error

\* search_products: reserve one of the slots under _SEARCH_SLOT_LOCK.
SlotFreeOffByOne(r) == r.attempts <= SearchSlots
SlotFree(r) == r.attempts < SearchSlots
ReserveDown(r) == [r EXCEPT !.attempts = @ - 1]
Reserve(r) == [r EXCEPT !.attempts = @ + 1]

SearchReserve(c) ==
    /\ At(c, "search", "start")
    /\ IF SlotFree(run)
       THEN Write(Reserve(run)) /\ Goto(c, "reserved")
       ELSE Finish(c) /\ UNCHANGED <<run, torn>>
    /\ UNCHANGED <<error, used, Ours>>

\* Whether this search starts a new retrieval path, read without a lock.
EndsInheritanceIfFound(r) == r.context # {} /\ r.retrieved # {}
EndsInheritance(r) == r.searches = 0 /\ r.context # {}

SearchCheck(c) ==
    /\ At(c, "search", "reserved")
    /\ Goto(c, IF EndsInheritance(run) THEN "clear" ELSE "net")
    /\ UNCHANGED <<error, run, torn, used, Ours>>

SearchClear(c) ==
    /\ At(c, "search", "clear")
    /\ Write([run EXCEPT !.products = {}, !.evidence = {}])
    /\ Goto(c, "net")
    /\ UNCHANGED <<error, used, Ours>>

\* Bad arguments raise before the clear, a failed call after it.
SearchFails(c) ==
    /\ At(c, "search", "reserved") \/ At(c, "search", "net")
    /\ Write([run EXCEPT !.failed = @ + 1, !.traced = TRUE])
    /\ Stops
    /\ Finish(c)
    /\ UNCHANGED <<used, Ours>>

\* The response is recorded first: its verdict, its event, its product_ids.
SearchReturns(c) ==
    /\ At(c, "search", "net")
    /\ \E found \in SUBSET Eligible, verdict \in {"unanchored", "open"} :
        /\ Cardinality(found) <= PerSearch
        /\ Write([run EXCEPT !.searches = @ + 1, !.verdicts = @ \cup {verdict},
                             !.retrieved = @ \cup found,
                             !.traced = @ \/ found = {}])
        /\ call' = [call EXCEPT ![c] =
                      IF found = {} THEN Idle ELSE [@ EXCEPT !.pc = "grant", !.ids = found]]
    /\ UNCHANGED <<error, used, Ours>>

SearchGrants(c) ==
    /\ At(c, "search", "grant")
    /\ Write([run EXCEPT !.products = @ \cup call[c].ids, !.traced = TRUE])
    /\ Finish(c)
    /\ UNCHANGED <<error, used, Ours>>

\* get_product_evidence
EvidenceStart(c) ==
    /\ At(c, "evidence", "start")
    /\ IF call[c].ids \subseteq run.products THEN Goto(c, "net") ELSE Finish(c)
    /\ UNCHANGED <<error, run, torn, used, Ours>>

EvidenceReturns(c) ==
    /\ At(c, "evidence", "net")
    /\ Write([run EXCEPT !.evidence = @ \cup call[c].ids, !.traced = TRUE])
    /\ Finish(c)
    /\ UNCHANGED <<error, used, Ours>>

EvidenceFails(c) ==
    /\ At(c, "evidence", "net")
    /\ Write([run EXCEPT !.traced = TRUE])
    /\ Stops
    /\ Finish(c)
    /\ UNCHANGED <<used, Ours>>

\* compare_products reads only the run.
Compare(c) ==
    /\ At(c, "compare", "start")
    /\ IF Cardinality(call[c].ids) \in CompareCount /\ call[c].ids \subseteq run.products
       THEN Write([run EXCEPT !.compared = @ \cup {call[c].ids}, !.traced = TRUE])
       ELSE UNCHANGED <<run, torn>>
    /\ Finish(c)
    /\ UNCHANGED <<error, used, Ours>>

\* explain_retrieval: once in a turn, for an event this turn may read.
Explainable(r, event) ==
    /\ Explanations(r) = 0
    /\ event = IF r.searches > 0 THEN "current" ELSE "prior"
    /\ event = "prior" => r.context # {}

ExplainStart(c) ==
    /\ At(c, "explain", "start")
    /\ IF Explainable(run, call[c].event) THEN Goto(c, "net") ELSE Finish(c)
    /\ UNCHANGED <<error, run, torn, used, Ours>>

Explained(r, event) ==
    [r EXCEPT !.explained = [prior |-> @.prior + (IF event = "prior" THEN 1 ELSE 0),
                             current |-> @.current + (IF event = "current" THEN 1 ELSE 0)],
              !.traced = TRUE]

ExplainReturns(c) ==
    /\ At(c, "explain", "net")
    /\ Write(Explained(run, call[c].event))
    /\ Finish(c)
    /\ UNCHANGED <<error, used, Ours>>

\* Its read raises out of the tool, with no trace step.
ExplainFails(c) ==
    /\ At(c, "explain", "net")
    /\ Stops
    /\ Finish(c)
    /\ UNCHANGED <<run, torn, used, Ours>>

----------------------------------------------------------------------------
(* synthesize_cited_answer, the tool that writes the answer of record.     *)

\* An existing answer is returned, a failed draft may only be repaired, and a turn
\* whose searches all came back unanchored declines before its products are read.
SynthesisRefusedNoRetry(r, ids) ==
    Cardinality(ids) \notin SynthesisCount \/ ~(ids \subseteq r.products)
SynthesisRefused(r, ids) ==
    \/ r.retry # {} /\ ids # r.retry
    \/ Cardinality(ids) \notin SynthesisCount
    \/ ~(ids \subseteq r.products)

AnswerExistsIfCited(r) == r.record.outcome = "grounded"
AnswerExists(r) == r.record.outcome # "none"
Declines(r, ids) ==
    ~AnswerExists(r) /\ (r.retry = {} \/ ids = r.retry) /\ Refuses(r)

SynthesisStart(c) ==
    /\ At(c, "synthesize", "start")
    /\ LET ids == call[c].ids IN
        \/ /\ Declines(run, ids)
           /\ Write([run EXCEPT !.record = Declined("unanchored", "model"),
                                !.traced = TRUE])
           /\ Finish(c)
        \/ /\ ~Declines(run, ids)
           /\ AnswerExists(run) \/ SynthesisRefused(run, ids)
           /\ Finish(c)
           /\ UNCHANGED <<run, torn>>
        \/ /\ ~Declines(run, ids)
           /\ ~AnswerExists(run) /\ ~SynthesisRefused(run, ids)
           /\ Goto(c, IF ids \cap run.context # {} THEN "recheck" ELSE "gate")
           /\ UNCHANGED <<run, torn>>
    /\ UNCHANGED <<error, used, Ours>>

\* Inherited products are checked against the current filters in Aurora; those that
\* fail leave the turn's scope.
SynthesisRecheck(c) ==
    /\ At(c, "synthesize", "recheck")
    /\ LET excluded == Excluded(run, call[c].ids) IN
        IF excluded # {}
        THEN /\ Write([run EXCEPT !.products = @ \ excluded, !.traced = TRUE])
             /\ Finish(c)
        ELSE Goto(c, "gate") /\ UNCHANGED <<run, torn>>
    /\ UNCHANGED <<error, used, Ours>>

\* What must hold for the draft to be asked for.
GatedUncompared(r, ids) ==
    /\ r.searches > 0 => Explanations(r) = 1
    /\ ids \subseteq r.evidence
GatedUnsourced(r, ids) ==
    /\ r.searches > 0 => Explanations(r) = 1
    /\ ComparisonCovers(r, ids)
Gated(r, ids) ==
    /\ r.searches > 0 => Explanations(r) = 1
    /\ ComparisonCovers(r, ids)
    /\ ids \subseteq r.evidence

\* check_budget: no further model call once the turn's deadline has passed or its
\* stream was closed.
BudgetSpent == error = "deadline" \/ phase = "lost"

SynthesisGate(c) ==
    /\ At(c, "synthesize", "gate")
    /\ LET ids == call[c].ids IN
        \/ /\ ids \subseteq run.products /\ Gated(run, ids) /\ ~BudgetSpent
           /\ Goto(c, "model")
           /\ UNCHANGED <<run, torn>>
        \/ /\ ids \subseteq run.products /\ ~(Gated(run, ids) /\ ~BudgetSpent)
           /\ Write([run EXCEPT !.traced = TRUE])
           /\ Finish(c)
        \/ \* a product was cleared since the scope check: KeyError
           /\ ~(ids \subseteq run.products)
           /\ Finish(c)
           /\ UNCHANGED <<run, torn>>
    /\ UNCHANGED <<error, used, Ours>>

\* The accepted draft may leave out repeated listings of one product.
Publications(ids) == {Grounded(recs, "model") : recs \in SUBSET ids \ {{}}}

SynthesisPublishes(c) ==
    /\ At(c, "synthesize", "model")
    /\ \E answer \in Publications(call[c].ids) :
        Write([run EXCEPT !.record = answer, !.traced = TRUE])
    /\ Finish(c)
    /\ UNCHANGED <<error, used, Ours>>

\* The answerability review declines the whole request.
SynthesisDeclines(c) ==
    /\ At(c, "synthesize", "model")
    /\ Write([run EXCEPT !.record = Declined("unsupported", "model"), !.traced = TRUE])
    /\ Finish(c)
    /\ UNCHANGED <<error, used, Ours>>

\* The draft failed its checks: only the same products may be tried again.
SynthesisRetries(c) ==
    /\ At(c, "synthesize", "model")
    /\ Write([run EXCEPT !.retry = call[c].ids, !.traced = TRUE])
    /\ Finish(c)
    /\ UNCHANGED <<error, used, Ours>>

\* A partly supported selection, or a failed call.
SynthesisFails(c) ==
    /\ At(c, "synthesize", "model")
    /\ Write([run EXCEPT !.traced = TRUE])
    /\ Stops
    /\ Finish(c)
    /\ UNCHANGED <<used, Ours>>

\* An error that no handler of the tool catches: the recheck's query fails, or the
\* evidence belongs to another product. The model only sees a failed tool.
Uncaught(c) ==
    /\ At(c, "synthesize", "recheck") \/ At(c, "evidence", "net")
    /\ Finish(c)
    /\ UNCHANGED <<error, run, torn, used, Ours>>

Worker(c) ==
    \/ CallRefused(c) \/ Uncaught(c)
    \/ SearchReserve(c) \/ SearchCheck(c) \/ SearchClear(c)
    \/ SearchFails(c) \/ SearchReturns(c) \/ SearchGrants(c)
    \/ EvidenceStart(c) \/ EvidenceReturns(c) \/ EvidenceFails(c)
    \/ Compare(c)
    \/ ExplainStart(c) \/ ExplainReturns(c) \/ ExplainFails(c)
    \/ SynthesisStart(c) \/ SynthesisRecheck(c) \/ SynthesisGate(c)
    \/ SynthesisPublishes(c) \/ SynthesisDeclines(c)
    \/ SynthesisRetries(c) \/ SynthesisFails(c)

----------------------------------------------------------------------------
(* The deadline. Tool threads cannot be cancelled and keep running; a call *)
(* whose hook has not run yet never starts.                                *)

Dropped == [c \in Calls |-> IF call[c].pc = "queued" THEN Idle ELSE call[c]]

\* The timer fires whatever the workers do.
TimesOutWhenQuiet == phase = "loop" /\ Quiet
TimesOut == phase = "loop"

LoopDeadline ==
    /\ TimesOut
    /\ phase' = "snapshot" /\ error' = "deadline" /\ call' = Dropped
    /\ UNCHANGED <<mode, run, detached, snap, torn, used, saved, reply>>

\* `state = deepcopy(state); state["answer_of_record"] = None`
DetachKeeping(r) == r.record
Detach(r) == NoAnswer

SnapshotTaken ==
    /\ phase = "snapshot"
    /\ detached' = TRUE /\ snap' = Detach(run)
    /\ phase' = "persist"
    /\ UNCHANGED <<mode, error, run, torn, used, call, saved, reply>>

\* deepcopy iterates dictionaries the workers still resize: RuntimeError escapes
\* the turn before it is persisted.
SnapshotRaises ==
    /\ phase = "snapshot" /\ torn
    /\ phase' = "crashed" /\ reply' = [kind |-> "failure", record |-> NoAnswer]
    /\ UNCHANGED <<mode, error, run, detached, snap, torn, used, call, saved>>

\* stream(): asyncio.timeout cancels the task that consumes the generator. While the
\* generator is suspended at a yield the CancelledError is raised in its consumer,
\* and the generator is closed without reaching its own handler.
DeadlineAtConsumer ==
    /\ mode = "stream" /\ phase = "loop"
    /\ phase' = "lost" /\ error' = "deadline" /\ call' = Dropped
    /\ reply' = [kind |-> "cancelled", record |-> NoAnswer]
    /\ UNCHANGED <<mode, run, detached, snap, torn, used, saved>>

\* stream(): the client leaves during the loop; closing the generator stops it.
LoopDisconnect ==
    /\ mode = "stream" /\ phase = "loop"
    /\ phase' = "lost" /\ call' = Dropped
    /\ reply' = [kind |-> "gone", record |-> NoAnswer]
    /\ UNCHANGED <<mode, error, run, detached, snap, torn, used, saved>>

----------------------------------------------------------------------------
(* The controller after the loop: fallback, persistence, reply.            *)

\* A runtime error skips the fallback; a turn that used no tool at all is declined.
AfterLoop ==
    /\ phase = "finish"
    /\ phase' = IF error = "runtime" THEN "persist" ELSE "fallback"
    /\ run' = IF /\ error = "none" /\ ~AnswerExists(run)
                 /\ run.products = {} /\ ~run.traced
              THEN [run EXCEPT !.record = Declined("unsupported", "controller_fallback")]
              ELSE run
    /\ UNCHANGED <<mode, error, detached, snap, torn, used, call, saved, reply>>

\* set_no_results_answer_of_record
NoMatchesDespiteErrors(r) == r.searches > 0 /\ r.products = {} /\ r.retrieved = {}
NoMatches(r) ==
    r.searches > 0 /\ r.products = {} /\ r.failed = 0 /\ r.retrieved = {}

\* The first ResultLimit in search order, two of each search: any of the products.
Shortlists(pool) == {s \in SUBSET pool : s # {} /\ Cardinality(s) <= ResultLimit}

\* _fallback_product_ids: an explicit comparison, else search order, else the
\* inherited products of a turn that never attempted a retrieval.
FallbackSelections(r) ==
    LET comparisons == {s \in r.compared : s \subseteq r.products /\ Cardinality(s) <= 4}
    IN  IF comparisons # {} THEN comparisons
        ELSE IF r.retrieved # {} THEN Shortlists(r.retrieved)
        ELSE IF Attempted(r) THEN {} ELSE Shortlists(r.products)

\* _fill_missing_steps_then_finalize: compare, then fetch evidence for `sourced`, all of
\* the selection unless a fetch fails, then explain.
Sourced(r, selected, sourced) ==
    [r EXCEPT !.compared = IF ComparisonCovers(r, selected) THEN @ ELSE @ \cup {selected},
              !.evidence = @ \cup sourced, !.traced = TRUE]
Filled(r, selected) ==
    IF r.searches > 0 /\ Explanations(r) = 0
    THEN Explained(Sourced(r, selected, selected), "current")
    ELSE Sourced(r, selected, selected)

\* finalize_retrieved_answer: once a retrieval was attempted, only what a search
\* returned may be recommended.
FinalSelection(r, selected) ==
    IF Attempted(r) THEN selected \cap r.retrieved ELSE selected

Finalizable(r, selected) ==
    LET final == FinalSelection(r, selected) IN
    /\ final # {} /\ final \subseteq r.products
    /\ Excluded(r, final) = {}
    /\ ComparisonCovers(r, final)

FinalAnswers(r, selected) ==
    {Declined("unsupported", "controller_fallback")}
    \cup {Grounded(recs, "controller_fallback") :
            recs \in SUBSET FinalSelection(r, selected) \ {{}}}

\* run_controller_fallback on a private copy of the run: the copies it can end with,
\* whichever of its steps fails. An inherited product that no longer matches the
\* filters leaves the scope.
RecoveredFrom(r, selected) ==
    LET filled == Filled(r, selected)
        final == FinalSelection(r, selected)
    IN  {Sourced(r, selected, sourced) : sourced \in SUBSET selected}
        \cup {[filled EXCEPT !.products = @ \ Excluded(r, final)]}
        \cup {[filled EXCEPT !.record = answer] :
                answer \in IF Finalizable(filled, selected)
                           THEN FinalAnswers(r, selected) ELSE {}}

Recovered(r) ==
    {r} \cup UNION {RecoveredFrom(r, s) :
                     s \in {s \in FallbackSelections(r) : s \subseteq r.products}}

\* _finalize_or_failure and run_controller_fallback: the run a fallback leaves. An
\* existing answer stands; a refused or an empty turn declines without products.
Finalized(r) ==
    IF AnswerExists(r) THEN {r}
    ELSE IF Refuses(r)
    THEN {[r EXCEPT !.record = Declined("unanchored", "controller_fallback")]}
    ELSE IF r.products = {}
    THEN {IF NoMatches(r)
          THEN [r EXCEPT !.record = Declined("no_matching_products", "controller_fallback")]
          ELSE r}
    ELSE Recovered(r)

\* The copy is published into `state` only if it is complete in time.
FallbackReturns ==
    /\ phase = "fallback"
    /\ run' \in Finalized(run)
    /\ error' \in IF AnswerExists(run') THEN {error} ELSE {error, "runtime", "other"}
    /\ phase' = "persist"
    /\ UNCHANGED <<mode, detached, snap, torn, used, call, saved, reply>>

\* stream() publishes it from a task of its own, so the deadline or the client can end
\* the wait after the publication as well as before it.
Published(r) == {r} \cup (IF mode = "stream" THEN Finalized(r) ELSE {})

FallbackDeadline ==
    /\ phase = "fallback"
    /\ run' \in Published(run)
    /\ error' = "deadline" /\ phase' = "persist"
    /\ UNCHANGED <<mode, detached, snap, torn, used, call, saved, reply>>

\* stream(): the client leaves, or the deadline cancels the consumer; closing the
\* generator here still persists, in its finally.
FallbackDisconnect ==
    /\ mode = "stream" /\ phase = "fallback"
    /\ run' \in Published(run)
    /\ phase' = "persist"
    /\ reply' \in {[kind |-> k, record |-> NoAnswer] : k \in {"gone", "cancelled"}}
    /\ UNCHANGED <<mode, error, detached, snap, torn, used, call, saved>>

\* The controller's state["answer_of_record"].
RecordOfRun == run.record
Record == IF detached THEN snap ELSE run.record

\* Only a caller that still waits is answered.
AfterPersistAnyway == "respond"
AfterPersist == IF reply.kind = "waiting" THEN "respond" ELSE "done"

\* persist_completed_run
Persist ==
    /\ phase = "persist"
    /\ saved' = [status |-> IF Record.outcome # "none" THEN "completed" ELSE "failed",
                 record |-> Record]
    /\ phase' = AfterPersist
    /\ UNCHANGED <<mode, error, run, detached, snap, torn, used, call, reply>>

\* The database refuses the write, or a cancelled task drops it before its thread has
\* started: a caller that waits gets an error and the turn stays open.
PersistFails ==
    /\ phase = "persist"
    /\ phase' = "unsaved"
    /\ reply' = IF reply.kind = "waiting"
                THEN [kind |-> "failure", record |-> NoAnswer] ELSE reply
    /\ UNCHANGED <<mode, error, run, detached, snap, torn, used, call, saved>>

\* _response, or the stream's last event.
Respond ==
    /\ phase = "respond"
    /\ reply' = [kind |-> IF Record.outcome # "none" THEN "answer" ELSE "failure",
                 record |-> Record]
    /\ phase' = "done"
    /\ UNCHANGED <<mode, error, run, detached, snap, torn, used, call, saved>>

\* stream(): the client leaves after the turn was persisted.
RespondDisconnect ==
    /\ mode = "stream" /\ phase = "respond"
    /\ phase' = "done" /\ reply' = [kind |-> "gone", record |-> NoAnswer]
    /\ UNCHANGED <<mode, error, run, detached, snap, torn, used, call, saved>>

Controller ==
    \/ LoopDeadline \/ SnapshotTaken \/ SnapshotRaises
    \/ AfterLoop
    \/ FallbackReturns \/ FallbackDeadline
    \/ Persist \/ PersistFails \/ Respond

Client ==
    \/ DeadlineAtConsumer \/ LoopDisconnect
    \/ FallbackDisconnect \/ RespondDisconnect

Init ==
    /\ mode \in Modes
    /\ phase = "loop" /\ error = "none"
    /\ run \in {StartRun({}), StartRun(Inherited)}
    /\ detached = FALSE /\ snap = NoAnswer /\ torn = FALSE
    /\ used = 0 /\ call = [c \in Calls |-> Idle]
    /\ saved = [status |-> "open", record |-> NoAnswer]
    /\ reply = [kind |-> "waiting", record |-> NoAnswer]

Next ==
    \/ ModelTurn \/ LoopEnds \/ LoopStops
    \/ \E c \in Calls : BeforeToolCall(c) \/ Worker(c)
    \/ Controller \/ Client

Spec == Init /\ [][Next]_vars

\* The timers of run_async and asyncio.timeout fire and the controller runs; nothing
\* is assumed of the model, of a worker or of the client.
FairSpec == Spec /\ WF_vars(Controller)

----------------------------------------------------------------------------
(* Properties.                                                             *)

Phases == {"loop", "snapshot", "finish", "fallback", "persist", "respond", "done",
           "lost", "crashed", "unsaved"}

\* Every variable holds a value of the program's types.
TypeOK ==
    /\ mode \in Modes
    /\ phase \in Phases
    /\ error \in {"none", "runtime", "other", "deadline"}
    /\ run \in RunStates
    /\ detached \in BOOLEAN /\ snap \in AnswerRecords /\ torn \in BOOLEAN
    /\ used \in Nat
    /\ call \in [Calls -> CallStates]
    /\ saved \in [status : {"open", "completed", "failed"}, record : AnswerRecords]
    /\ reply \in [kind : {"waiting", "answer", "failure", "gone", "cancelled"},
                   record : AnswerRecords]

\* Searches that hold a slot and have neither returned nor failed.
Searching == {c \in Calls : call[c].tool = "search"
                            /\ call[c].pc \in {"reserved", "clear", "net"}}

\* However searches interleave with each other and with the deadline, each reserved
\* slot is one search in flight or one recorded outcome, and no more than SearchSlots
\* are ever reserved (search_products, _SEARCH_SLOT_LOCK).
SearchSlotsConserved ==
    /\ run.attempts = run.searches + run.failed + Cardinality(Searching)
    /\ run.attempts <= SearchSlots

\* Products recommended together were compared together in this turn, by the model or
\* by the fallback, whatever ran beside the synthesis (_comparison_covers).
ComparedTogether ==
    run.record.outcome = "grounded" =>
        ComparisonCovers(run, run.record.recommendations)

\* The fallback never reaches back to the previous answer's products once this turn
\* attempted a retrieval, successful or not (finalize_retrieved_answer).
FallbackStaysInPool ==
    /\ run.record.outcome = "grounded"
    /\ run.record.origin = "controller_fallback"
    /\ run.searches + run.failed > 0
    => run.record.recommendations \subseteq run.retrieved

\* "No matching products" is said only of a turn whose searches all completed and all
\* came back empty; a failed search is never reported as an empty catalog
\* (set_no_results_answer_of_record).
NoMatchesMeansNoMatches ==
    run.record.reason = "no_matching_products" =>
        run.searches > 0 /\ run.failed = 0 /\ run.retrieved = {}

\* A worker that outlives the deadline cannot change the turn's outcome: what is
\* stored and told afterwards is a failure (the detached snapshot in answer()).
LateWorkersNeverAnswer ==
    detached => saved.status # "completed" /\ reply.kind # "answer"

\* The answer a caller receives is the answer stored for the turn.
ToldIsStored ==
    reply.kind = "answer" =>
        saved = [status |-> "completed", record |-> reply.record]

\* After the loop the run belongs to the controller alone: a tool worker that is
\* still running can only write a dictionary the controller has detached from.
LoopIsDrained ==
    phase \in {"finish", "fallback", "persist", "respond"} => detached \/ Quiet

\* The turn refines the contract it has with its callers.
Contract == INSTANCE TurnContract WITH
                Answers <- AnswerRecords, None <- NoAnswer,
                stored <- saved, told <- reply
KeepsContract == Contract!ContractSpec

\* The answer of record is written at most once in a turn (coverage_refusal).
RecordWrittenOnce ==
    [][run.record # NoAnswer => run'.record = run.record]_vars

\* The gates a synthesis passed before its model call still hold when its answer is
\* published several steps later: it recommends products of this turn's scope that
\* have evidence, were compared and, after a search, have one ranking explanation,
\* and not every search came back unanchored.
GatesHoldAtPublication ==
    [][\A recs \in SUBSET Products :
        run'.record # run.record /\ run'.record = Grounded(recs, "model") =>
            /\ recs \subseteq run.products \cap run.evidence
            /\ ComparisonCovers(run, recs)
            /\ run.searches > 0 => Explanations(run) = 1
            /\ run.verdicts # {"unanchored"}]_vars

\* Once a search has returned, the scope holds only what searches returned: the
\* products of the previous answer are gone, even when the new search was empty or
\* a comparison and its evidence ran beside it (search_products).
PoolIsRetrieved ==
    run.searches > 0 => run.products \subseteq run.retrieved

\* A draft that failed its checks is repaired, never replaced by a draft about other
\* products (synthesis_retry_product_ids).
RetryKeepsSelection ==
    /\ run.record.outcome = "grounded" /\ run.record.origin = "model"
    /\ run.retry # {}
    => run.record.recommendations \subseteq run.retry

\* A recommendation made after a search has the receipt of a search of this turn
\* (synthesize_cited_answer: "newly retrieved products do not have exactly one
\* ranking explanation").
ReceiptIsCurrent ==
    run.record.outcome = "grounded" /\ run.record.recommendations \cap run.retrieved # {}
    => run.explained.current > 0

\* A turn that meets its deadline is recorded as failed ("Persist a detached failure
\* snapshot"): its snapshot is never lost to a worker that is still running.
DeadlineIsRecorded == ~(phase = "crashed" /\ error = "deadline")

\* The stream's deadline always reaches its caller as the turn's own failure, even
\* when it fires while the stream waits for its consumer (_stream_agent_loop).
DeadlineIsTold == reply.kind # "cancelled"

\* Whatever the model, the tools and the client do, the caller gets a reply: the
\* deadline never waits for a worker (run_async).
EventuallyTold == <>(reply.kind # "waiting")
=============================================================================
