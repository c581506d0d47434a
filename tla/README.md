# Mosaic agentic retrieval: a TLA+ verification project

Mosaic is a catalog search and question-answering service over Aurora PostgreSQL. A
shopper's question becomes one *agent turn*: a language model calls five tools (search,
evidence, comparison, ranking explanation, synthesis), and the turn ends with one *answer
of record* or with a failure. This directory holds TLA+ models of the parts where
processes, threads, deadlines and failures meet, the TLC configurations that check them
on small instances, and TLAPS proofs for every value of the constants.

Paths below are relative to the repository.

## 1. Inventory

| Component | State it keeps | Operations | What is hard about it |
|---|---|---|---|
| Agent turn controller (`service/agent.py`, `service/agent_execution.py`) | the controller's `state`, `error`, the turn's row | `answer`, `stream`, `_stream_fallback`, `_finalize_or_failure`, `_persist`, `_response`, `run_async`, `offload` | a deadline that cannot stop threads, a client that leaves at any `yield`, a snapshot taken while workers write |
| Agent tools (`service/agent_tools.py`) | the run-state dictionary: scope, evidence, searches, trace, retry, answer of record | `search_products`, `get_product_evidence`, `compare_products`, `explain_retrieval`, `synthesize_cited_answer`, the controller fallback, `persist_completed_run` | parallel tool threads over one dictionary with one lock (the search slots); checks made seconds before the write they guard |
| Model loop (Strands, Bedrock; external) | the conversation | batches of tool calls, hooks | any arguments, any order, stops or fails |
| Admission (`service/access_control.py`) | rate window, slot semaphore | `_RateWindow.allow`, `_acquire`, release | one slot, three kinds of owner, every way a response can end |
| Streaming routes (`service/main.py`, `service/agentcore_transport.py`) | the response that owns a slot | `_admit_and_prepare_stream`, `_AdmittedStream`, `RuntimeStream` | a disconnect before the first byte, a failing close |
| Conversation and memory (`service/session_memory.py`, `start_run`, `_load_conversation_context`) | sessions and their owners, turn numbers, active session, request ids, memory events | `prepare_request`, `start_run`, `attach_run`, `add_event`, `new_session`, `capture_turn` | row locks taken in different orders, two transactions around a remote call, retries with an idempotency token, concurrent turns of one session |
| Retrieval and fusion (`service/retrieval.py`, `rerank.py`, `db/sql/08`, `09`) | search events and receipts, the cache of query vectors | three channels, rank fusion, rerank, identity promotion, served window | failures between the open event and its receipts, ties, missing ranks, unusable rerank replies, concurrent misses of the cache |
| Retrieval scope (`service/retrieval_scope.py`) | reads search events | scope guard | an event must grant what was served and nothing else |
| Coverage (`service/coverage.py`, `db/sql/11`) | the two vocabularies | `assess`, `decide_coverage`, seeding | a vocabulary that is missing or half there |
| Citation checks (`service/synthesis.py`, `answerability.py`, `claim_review.py`) | one answer in the making | selection rules, answerability review, draft, claim review, one replacement | three replies of models, each checked against a text and a numbering the others may have changed |
| Telemetry and replay | append-only receipts | persist, replay | none of its own |
| Database access (`service/db.py`) | bounded pool | `connect` | exhaustion |
| Lab state (`scripts/lab_state.py`, `scripts/lab_entry.py`, `scripts/prove_lab.py`) | the marked blocks, start records, saved evidence, the SQL Aurora runs | `start`, `advance`, `restart`, `finish`, `skip-to`, apply | a command interrupted between two lasting writes and run again after an edit |
| Deploy record (`service/agent_deploys.py`) | one file under a lock | read-modify-write, atomic replace | concurrent deploys |
| Storefront (`ui/src/components/useAskMosaicConversation.ts`, `usePipelineRun.ts`) | turns of a panel, receipts of a playground, a version each | ask, stop, clear, play, search, follow a trace | callbacks of replaced requests that arrive late |
| Catalog bundle (`scripts/catalog/build_bundle.py`, `real_catalog_cache.py`, `corpus_vocabulary.py`, `deploy/own-account/deploy.py`) | the builder's files and `state.json`, the bucket's objects, the two contracts of the checkout | the resumable build and its upload, `staging up`, `staging down`, `contracts pull`, `publish` | stopped anywhere, steps run out of turn, a bucket read object by object while it is written |
| MCP server, evaluation, provisioning | - | stateless or offline | - |

How they interact: a route acquires a slot from Admission, prepares the request
(Conversation) and runs a turn. The turn's controller starts the model's loop and waits
for it under a deadline. The loop runs tool calls in threads that write the same
dictionary the controller later reads. After the loop the controller may complete the
missing steps itself on a private copy (the fallback), persists the turn, and replies. A
stream replies through a generator whose consumer is the route; the slot goes back when
the ASGI call ends. Work that a deadline abandoned keeps running on a pool that all turns
share.

What makes each modelled component correct:

- **turn**: one answer; it recommends only products in scope, sourced, compared together
  and explained; nothing from the previous answer once a search was attempted; a failed
  search is never called an empty catalog; what is told is what is stored; a deadline is
  final; somebody is always told.
- **conversation**: a session's turns are numbered 1..n and read back as a history that only grows;
  a message sent twice is one event;
  a session keeps its owner and a browser only continues its own; requests that lock rows
  in different orders still end.
- **retrieval**: however a search ends, its event grants nothing or exactly a whole served
  window; an identity is never widened to look-alikes; a reranker's reply is applied to
  all candidates or none; fusion agrees with channels that agree; coverage says nothing
  false of the catalog; repeats of a query share a vector.
- **synthesis**: only what the accepted review supports is recommended, and of the listings of one
  product one; whatever draft is
  delivered passed every check against the evidence it is delivered with; the receipt
  judged that very text.
- **storefront**: a panel shows one conversation; an ended turn stays; no receipt is left
  loading when nothing runs.
- **admission**: slots neither leak nor double; windows never overfill; abandoned work is
  bounded.
- **labs**: however often a command is interrupted and run again, no edit is lost but by a
  reset, and a lab hands off on evidence of the block and the entry it has now.
- **catalog bundle**: an upload recorded as done has delivered what the builder holds; what
  is published is the bundle of one build.

The hazards behind these properties are listed at their lines in `PROJECT.json`.

## 2. Modules

| Module | What it is |
|---|---|
| `AgentTurn` | one turn: controller, tool workers, model, client |
| `TurnContract` | the abstract promise of a turn about its stored row and its reply |
| `Admission` | rate window, slots and their owners, the worker pool |
| `Conversation` | sessions, turns, messages: requests as transactions that wait for rows |
| `History` | the abstract promise of the conversations: a session's turns as a list that is added to |
| `Arrangements` | a finite set in an order |
| `CitedAnswer` | the selection rules and every check of a draft, as operators over sentences and claims |
| `Synthesis` | the three model calls around a draft, for the tool and for the fallback |
| `Ranking` | arms, rank fusion, the rerank reply, final order and window, as operators |
| `Retrieval` | searches, their events and receipts, the vector cache, the vocabularies |
| `AskPanel`, `PipelineRun` | the storefront's two streaming hooks |
| `LabEntry` | the workshop's commands: start, advance, reset, finish, skip-to |
| `CatalogBundle` | the catalog bundle: its resumable build, its upload, the commands that pin and publish it |
| `MCAgentTurn`, `MCAdmission`, `MCConversation`, `MCBundle`, `MCSynthesis`, `MCAnswers`, `MCPanels` | instances for TLC |
| `AgentTurnProofs` | a turn: its types, its outcome, the refinement of `TurnContract`, what its answer recommends, what its searches cost and authorize, what a prompted model may rely on |
| `AdmissionProofs` | the invariants of `Admission` |
| `ConversationProofs` | types, owners, messages and numbering of `Conversation`, its refinement of `History`, and both hooks |
| `ArrangementProofs` | that there is an order, and what it is |
| `SynthesisProofs` | types of `Synthesis`, one listing per product, what is recommended and delivered |
| `RetrievalProofs` | searches: types, coverage, fusion, reranking, grants, shared vectors |
| `LabEntryProofs` | types of the labs, hand-off, kept edits |
| `CatalogBundleProofs` | types of the bundle, finished uploads, what is published |

### AgentTurn and the code

`run` is the dictionary that `start_run` builds. Its fields are reduced to what the
properties tell apart: `products`, `evidence`, `compared` (the successful comparisons of
the trace), `explained` (successful explanations, by the turn that owns the event),
`searches`/`failed` (searches that returned or raised), `retrieved` (all their
`product_ids`), `verdicts`, `retry`, `record`. `call[c]` is a tool thread: which tool,
with which products, and the point it has reached. A worker's step ends exactly where the
code does I/O or where another thread can run between a check and the write that depends
on it:

| Tool | Steps |
|---|---|
| search | `SearchReserve` (under the lock), `SearchCheck` (the unlocked test), `SearchClear`, `SearchReturns` or `SearchFails`, `SearchGrants` |
| evidence | `EvidenceStart`, `EvidenceReturns` or `EvidenceFails` |
| compare | `Compare` |
| explain | `ExplainStart`, `ExplainReturns` or `ExplainFails` |
| synthesize | `SynthesisStart`, `SynthesisRecheck`, `SynthesisGate`, then `SynthesisPublishes`, `SynthesisDeclines`, `SynthesisRetries` or `SynthesisFails` |

`CallRefused` stands for the refusals of malformed arguments, `Uncaught` for errors no
handler of a tool catches. `BeforeToolCall` is the budget hook, `Stops` the errors that
end the loop.

The controller's `phase` follows `answer` and `stream`: `loop`, then `snapshot` (the
deadline fired) or `finish`, `fallback`, `persist`, `respond`, `done`. `lost` is a turn
whose generator was closed or whose consumer was cancelled before anything was persisted,
`crashed` one whose snapshot raised, `unsaved` one whose persist failed. `detached` says
that the controller's `state` is a private copy; `snap` is that copy's answer. The
fallback works on a copy of the run, so its whole effect is one set of possible copies
(`Finalized`), published in one step or not at all; the actions `FallbackReturns`,
`FallbackDeadline` and `FallbackDisconnect` differ in who is told and whether the
publication was in time.

Two entry points share the model. A behaviour of `answer` is a behaviour of `stream` in
which the client stays and the consumer is never suspended when the deadline fires, so
`turn_free` runs `stream` alone.

### Admission and the code

`free` is the semaphore, `window` the `_RateWindow`, `req[r]` a request with its kind of
owner (`route`: the dependency's `finally`; `stream`: `_admit_and_prepare_stream`, then
`_AdmittedStream`; `relay`: `agentcore_transport.stream`, then `RuntimeStream`) and the
clock it read before it took the window's lock. `job[r]` is what the request has on the
pool of `agent_execution`; ending a request abandons queued work and leaves running work
alone.

### Conversation and the code

A step is a transaction, or the part of one up to the next row it must wait for. `lock[row]`
is who holds a session's or a profile's row; `job[p].at` is where a request is. A run goes
through `Prepare` (`prepare_request`), `LoadContext`, `StartNew` or `StartOwned`,
`LockSession`, `TakeNumber`, `InsertTurn` (`start_run`), `AttachLock`, `Claim` or
`AttachRefused` (`attach_run`), the turn itself, and `Answers` with `Persists` or
`PersistsNone`. A post goes through `PostLocks`, `PostRepeats` or `PostOwned`/`PostNew`
with `Reserve`, `PostSends` (the call to AgentCore, whose reply may be lost) and
`PostTakes`/`PostActivates`; a clear through `ClearLocks` and `ClearEnds`. `Dies` is a
worker that ends with its transaction rolled back, `DeadlockVictim` PostgreSQL's detector
ending one transaction of a cycle (`Blockers`). The external part is the behaviour of
PostgreSQL's row locks and foreign keys (`Referable`).

`Histories` is what `_load_conversation_context` and the session's readers see: the turns of each
session in the order of their numbers. `History` says what that list is without any row or lock:
a question is added at the end in one step, stays where it is, and is answered at most once.
`Kept` is the mapping from the one to the other.

### Synthesis, CitedAnswer and the code

A text is three parts: the sentences before the section "Other strong options", those in
it, those after it. A sentence carries its citations in order and its segments, each about
one product mention, with the claims it makes: prices, stock, figures with units, review
stars, compatibility, links. `Validated` is `_validated_output` followed by
`_validate_lead`; turning text into claims is the abstraction, what the checks do with
claims is the code's. `Synthesis` has one action per outcome of each call: `Pick` (the
caller's selection), the six `Review...` actions of `assess_answerability`, `DraftAccepted`,
`DraftRejected`, `DraftCut`, `ClaimsAccepted`, `ClaimsRejected`, `CallFails`. `ReviewNarrows`
is `_synthesize_supported`: the fallback narrows once, the tool reports back to its model.

### Retrieval, Ranking and the code

`search[s]` is a request in the service, `searchEvent[s]` its rows. `Submit` commits the
open event; `CacheHit`, `CacheMiss`, `Embeds` and `Prime` are holds of the cache's lock;
`Fuses`, `Reranks`/`RerankFails`, the coverage actions and `Persists` follow. `CommitUnheard`
is a committed transaction whose confirmation is lost, `Fails` any exception of the `try`,
`MarksFailed` the marker in its own transaction, `Crashes` the process. `Granted` is the
scope guard's reading of an event, `Replayed` the replay's. `Contribution[r]` stands for
`1/(60 + r)`: the module asks only that it is positive and falls with the rank.

### AskPanel, PipelineRun and the code

A step is one callback of the browser. `version` and `ticket` are the hooks' version refs:
a callback whose version is no longer current must do nothing. `Current` and `Latest` are
those tests; `dialog`, `sessionId` and `receipts` are the React state. The service's side of
`AskPanel` is the promise of `Conversation`: a follow-up's turn is stored in the session it
names (`Homes`), a first question's in a fresh one (`Unused`).

### LabEntry and the code

`source` is the marked block in each lab's file, told apart as the commands tell it apart:
the fault, the reference, another repair that passes the contract, a wrong edit, a deleted
file. `aurora` is what the last apply left running, `record`, `completion` and `handoff` the
files under `.local`. `queue` holds the commands still to run (one, or the chain of `finish`
or `skip-to`) and `pc` the place the first has reached. A step of a command ends at its next
lasting write: `start` is `Enter`, `PutBack`, `PlansFault`, `Install`, `Mark`, `Apply`,
`RecordsApply`, `Capture`, `Complete`; `advance` is `AppliesSavedRepairs`, `ChecksRepairs`,
`BindsHandOff`, `Prove`, `SavesHandOff` and then the steps of the next lab's start; `restart`
is `Discard`, the three `Forget...` and `Reapply`. `Interrupt` stops a command, and the chain
it belongs to, between any two steps. `found` and `proved` are history: what a start first
replaced, and what the live checks last passed on.

### CatalogBundle and the code

`disk` is the builder's assets directory with its two contract files, `done` the steps that
`state.json` records, `bucket` the objects with their sha256, `pinned` the two contracts of the
checkout. A file's content is the export that made it (`made`), and for a catalog contract
how many parts it lists. `todo` holds the steps the running build has left: those `state.json`
lacks, or the ones `--only` or `--from` names. `StepBegins` is `invalidate_later_steps`,
`StepRecorded` is `record_step`, and between them each step makes its lasting writes one by
one: `ExportArchive`, `SplitPart`, `SplitEnds`, `RestoreCheck`, `VocabularyFile`,
`VocabularyContract`, `UploadFile`, `Summary`. `BuildStops` ends a build between any two of
them, or within the write of `state.json` (`torn`). `command` is what runs in the operator's
terminal: `PullCatalog`, `PullVocabulary` and `PublishStarts` take the contracts,
`ObjectMatches` looks up one object of the bucket, `PinCatalog` and `PinVocabulary` replace one
file each; `DownChecks` is `require_bundle_uploaded`, `StackDeleted` the end of the builder,
and `CommandEnds` a command refused or stopped anywhere. `uploaded` is history: the pairs of
contracts a builder held when it uploaded.

## 3. Runs

`CHECK_DEADLOCK FALSE` everywhere: a turn ends, requests end, and a browser may be left
alone. The passing runs of the turn and `admission` take about two minutes together,
`conversation` two more and `answers` three.

| Run | Instance | Shows |
|---|---|---|
| `turn_free` | stream; 3 products (2 inherited), all eligible, 2 parallel workers, 2 search slots, 3 tool calls | guarantees that need no cooperation of the model: `TypeOK`, `SearchSlotsConserved`, `ComparedTogether`, `FallbackStaysInPool`, `NoMatchesMeansNoMatches`, `LateWorkersNeverAnswer`, `ToldIsStored`, `LoopIsDrained`, `KeepsContract` |
| `turn_prompted` | answer; 3 products (2 inherited), 2 workers, 2 search slots, 4 tool calls, the model batches its calls as `SYSTEM_PROMPT` asks | `RecordWrittenOnce`, `GatesHoldAtPublication`, `PoolIsRetrieved`, `RetryKeepsSelection` |
| `turn_told` | both entry points, 2 products of which the inherited one is no longer eligible, 1 worker, 3 tool calls, fairness | `EventuallyTold` |
| `admission` | 3 requests of any kind, 1 slot, 2 requests per window of 2 ticks, clock to 2, fairness | `SlotsConserved`, `RateBounded`, `SlotsComeBack` |
| `conversation` | `Conversation`: 2 browsers, an earlier answered turn of either or of nobody, 2 more runs, 2 posts of one request id, 1 clear, any 2 of these at once (`AtOnce`), 4 sessions, fairness. `AskPanel`: 3 versions, 3 sessions. `PipelineRun`: 4 versions, 2 search events | `TurnsAreNumbered`, `OneEventPerRequest`, `SessionsAreOwned`, `OwnersStay`, `KeepsHistory`, `RequestsEnd`, `OneConversation`, `EndedTurnsStay`, `RestIsSettled` |
| `answers` | `Synthesis`: 3 products, one of them another's repeat without evidence, 2 questions, 9 sentences, drafts of 1 to 3 sentences. `Retrieval`: 3 products, 2 searches of 3 kinds, 2 queries, 2 vectors, a cache of 1. `LabEntry`: any commands over the 3 labs with at most 2 edits, interruptions and resets together (`MaxMishaps`). `CatalogBundle`: archives of 1 or 2 parts, at most 4 archives and vocabularies made and builds steered besides the bundle shipped (`MaxMade`) | `SynthesisTypeOK`, `OnlySupportedRecommended`, `OneListingPerProduct`, `DeliveredIsCited`, `ReceiptJudgesTheAnswer`, `GrantIsWhole`, `RerankAllOrNothing`, `FusionRespectsArms`, `CoverageIsHonest`, `RepeatsShareAVector`, `HandOffIsOfThisRepair`, `EditsSurvive`, `DoneMeansUploaded`, `PublishedIsOneBuild` |

`conversation` and `answers` each check modules that share no state. The variable `part` of
`MCPanels` and `MCAnswers` selects one of them, which moves while the others stay at their
beginning, so the state spaces add up instead of multiplying. The types of `Admission`,
`Conversation`, `Retrieval`, `LabEntry` and `CatalogBundle` are theorems (section 5) that no run
repeats.

Why the bounds suffice: every race in the tools is between two calls; the interesting
selections need two products of one origin and one of another; four tool calls reach
comparison, evidence, explanation or a retry, and a synthesis in one turn (`ToolLimit` is
`max_tool_calls`, and calls up to two past it are cancelled, the next one ends the loop).
`PerSearch` is 1, `ResultLimit` 2. In `admission`, three requests with one slot make a
second request wait, be rejected, and meet a pool thread that an ended request still
holds; two ticks with a window of two make a window end and leave a request with an older
clock. Workers are symmetric in the runs that check safety only.

In `conversation`, every race of the code is between two requests (a number, an owner, a
reservation, a pair of locks); two requests at once out of six that may come one after the
other give each pair every history of the others. A third request at once adds waiting, not
another cycle: the code locks at most two rows. In `answers`, a review cites at most one
record per product, and a claim review quotes at most one source per passage and none for a
refused one: more citations or quotes are judged one by one, by the same test. Three
sentences are enough for one before, one in and one after the removable section. A fused
pool of 2 out of 3 products makes the limit drop one, a cache of 1 vector evicts on every
second query. In the hooks, a stale callback needs one replaced request; three versions are
a question, its follow-up or what replaced it, and a stop, clear or unmount of that. The
vocabulary is half there with one pair of searches as with any other. In `LabEntry`, a start
that meets an edit it must keep needs one interruption and one edit, and evidence of another
entry one reset cut short by one interruption; the number of commands is not bounded. In
`CatalogBundle`, four beside the shipped bundle are two whole builds, or one with a step run
again after its upload and the builds steered to do so; two parts are enough for an archive
that shrinks and leaves a part of the earlier one behind. Stops, pulls and publications are
not bounded.

### Disagreements between the code and what it says

Six runs check one claim of a comment, docstring or message each, and TLC shows the code
breaking it. Details and quotations are in `PROJECT.json` under `findings`.

| Run | Claim | What happens |
|---|---|---|
| `two_syntheses` | "The answer of record is written once per turn" (`agent_tools.py:1264`) | two synthesize calls of one batch both pass the check; the second overwrites the first. It holds when the model makes one such call at a time (`turn_prompted`). |
| `torn_snapshot` | "Persist a detached failure snapshot" (`agent.py:643`) | a late worker resizes a dictionary during `deepcopy`; the turn is never recorded |
| `slow_consumer` | `asyncio.timeout` reaches the generator "even while it is suspended at `yield`" (`agent.py:764`) | the cancellation is raised in the consumer; the turn is neither persisted nor reported as a deadline |
| `earlier_receipt` | "newly retrieved products do not have exactly one ranking explanation" (`agent_tools.py:1554`) | the explanation of an earlier turn's search satisfies the gate |
| `follow_up_scope` | "Scope must agree" (`agent_tools.py:183`) | a synthesis that left out a repeated listing records what it was asked for and saves what it recommends; every follow-up on that answer is then refused |
| `builder_is_expendable` | "their presence with sha256 metadata proves completion" (`deploy.py:1966`) | the bucket outlives a build: when a step is run again after an upload, the earlier contracts still answer for a bundle the bucket does not hold, and `staging down` lets the builder go |

`RecordWrittenOnce`, `GatesHoldAtPublication` and `RetryKeepsSelection` are the other side of
the same coin: they fail when the model runs a search beside a synthesis or two syntheses
together, and hold when it follows the prompt, which is the only thing that enforces the
order. `PoolIsRetrieved` needs no prompt: `ScopeRetrieved` proves it for any model.

## 4. Fairness

`AgentTurn!FairSpec` is weak fairness of the controller only: the timers of `run_async`
and `asyncio.timeout` fire whatever anybody else does, and the controller's own code
runs. Nothing is assumed of the model, a worker or the client, which may all stop
forever. For a stream this reads the last step, handing the reply to the consumer, as
one the consumer accepts or refuses by leaving.

`Admission!FairSpec` assumes that a request in progress goes on: its deadline, its client
(who reads or leaves) and the database timeouts of closing bound it. Nothing is assumed
of the work on the pool; `SlotsComeBack` holds even if that work never finishes.

`ConversationSpec` assumes weak fairness of each request's own steps, which its statement
and call timeouts bound, and of the deadlock detector, which PostgreSQL runs after
`deadlock_timeout`. A request that waits for a row is not scheduled fairly against others
that want it; no request here takes a row again and again, so none is needed.
`SynthesisSpec`, `RetrievalSpec`, `PanelSpec`, `PipelineSpec`, `LabSpec` and `BundleSpec` state
no fairness: their properties are safety.

## 5. Proofs

All theorems are for every value of the constants, under the assumptions the modules
name (`ProductsAssumption`, `CallsAssumption`, `BudgetAssumption`, `ModeAssumption`,
`RunsAssumption`, `LimitsAssumption`, `RankingAssumption`, `ContributionFalls`,
`RetrievalAssumption`, `TiersAssumption`, `SynthesisAssumption`, `NoListingIsNone`,
`ListingCovers`, `RanksCompare`, `ConversationAssumption`, `PanelAssumption`, `PipelineAssumption`,
`LabAssumption`, `BundleAssumption`): finite sets, natural-number limits, positive where the
code clamps them, ranks that are natural numbers, scores that are numbers, a contribution that falls with the rank, distinct
file names, placeholders that are none of the values they stand beside. Three theorems about
a turn have `FollowsPrompt` as a further hypothesis and say so.

**`TypeCorrect` (AgentTurnProofs).** `TypeOK` is inductive. The lemmas say what each
record operation returns (`UpdatesTyped`, `ExplainedTyped`, `FinalizedTyped`), then one
step per action.

**`LoopDrained`, `AnswerStored`, `LateWorkers` (AgentTurnProofs).** None of the three is
inductive: whether a reply equals the row depends on who may still write the run when the
controller reads it. `Lifecycle` says exactly that, phase by phase: until the loop is over
nothing is stored or told; from `finish` on, either no worker runs or the controller has
detached; in `respond` the row is the record about to be told. `WorkerFrame` (a worker
acts only while it has a call, and touches nothing of the controller's) carries it over
the workers' steps.

**`TurnKeepsContract` (AgentTurnProofs).** `AgentTurn` implements `TurnContract` with
`stored <- saved`, `told <- reply`: with `TypeOK` and `Lifecycle`, each controller or
client step is `Close`, `TellAnswer`, `TellFailure`, `Leave` or a stutter, and all others
stutter.

**`AnswerCompared`, `FallbackInPool`, `NoMatchesHonest` (AgentTurnProofs).** The inductive
invariant is `Recommends`: the three properties together with `DraftsCompared` (a draft is
asked for only about products already compared; comparisons are never forgotten, so this
survives whatever runs beside the draft) and `RecoveryIsFinal` (an answer of the fallback
exists only when no worker runs any more, so `searches`, `failed` and `retrieved` cannot
change under it). `CoversPart` carries a comparison over to the part of the selection an
answer recommends, `FinalizedAnswers` says what any copy the fallback publishes can hold.
`RecoveryIsFinal` needs `Lifecycle`, that is, the deadline's detachment.

**`SearchSlotsKept` (AgentTurnProofs).** `WorkerSlots` classifies every worker step as
leaving the slots alone, reserving a free one or settling the one it holds;
`SearchingChange` turns that into the cardinality of the searches in flight.

**`ScopeRetrieved` (AgentTurnProofs).** `PoolIsRetrieved` is not inductive: a search that has
cleared the inherited scope has not been counted yet, and another may be about to grant.
`ScopeIsSearched` says it of the turn as soon as nothing was inherited, a search has returned
or one is past its clear, and says that what a search is about to grant is already recorded
as retrieved. Every other step only takes products out of the scope (`ScopeStands`).

**`RetriesKeepSelection`, `RecordIsWrittenOnce`, `GatesStillHold` (AgentTurnProofs).** They
assume `FollowsPrompt`; `two_syntheses` shows what happens without it. The inductive
invariant is `OneSynthesis`: a synthesis has no other call beside it (`Alone`), and what a
synthesis past its first checks has established (no answer yet, not a refused turn, the
draft to repair is its own, before the model call the scope and the gates) is still true
(`Drafts`). `NobodyBeside` gives that no other worker's step can undo it; `Lifecycle` gives
that the controller writes the run only when no worker runs, and `ControllerAnswers` that it
answers only a turn that has no answer.

**`SlotsNeverLeak`, `PoolNeverExceeded` (AdmissionProofs).** `HoldersChange` and
`BusyChange` say how the cardinality of the holders and of the busy threads changes with
one request's progress; each action then moves one unit between the two terms.
`PoolBounded` is proved and not run: it follows from the pool handing out only free threads.
`RateNeverExceeded` needs that a request's clock is never in the future (`SeenInPast`).

**Conversation (ConversationProofs).** `ConversationInv` strengthens the types with what the
requests know between two transactions: a run past `Prepare` is in a session that exists and
is its browser's or nobody's (`RunsInSessions`), a reservation names a session of its browser
(`ReservationsOwned`), a post past its reservation writes to the reserved session
(`PostsReserved`), and no turn exists before `InsertTurn` (`NoTurnYet`). `Grow` says that no
step unmakes a session or changes an owner, which gives `OwnersNeverChange`.
`ActiveSessionIsOwn` adds `SessionsAreOwned`, `RequestsSendOneEvent` adds that an event's token
belongs to one reservation and one session. `NumbersHaveNoGap` needs `RowsHeld` (a run between
`LockSession` and `InsertTurn` holds its session's row) and `NumberIsNext` (the number it took
is still the next one when it writes), that is, that the row lock covers both statements.

`ConversationKeepsHistory` is the refinement of `History`. `HistoryListed` says that turns numbered
without a gap are a list: each number has one turn and each turn a place. `HistoryGrows` is then
`InsertTurn`: the number it took is one past the end (`NumberedIsAsked`), so the new list is the old
one with the question appended, however many transactions of others ran since `LockSession`; every
other step leaves the list and its numbers alone (`HistoryStays`). An answer is added to a turn that
has none because the run that saves it is the one that asked and is not over (`AnsweredOnce`,
`SavedIsAnswered`). So each step is `Ask`, `Answer` or a stutter (`HistoryStep`).

**Synthesis (SynthesisProofs).** `SynthesisInv` carries the checked draft through the claim
review (`DraftChecked`). The step that needs an argument is the section that is cut out of an
accepted draft: the citations were counted before the cut, and the claim review read the text
after it. `StripsOnce` (cutting twice is cutting once) and `StrippedPasses` (a section that is
cut cites nothing and names nothing that the checks asked a citation for) show that what is
delivered passes the same checks with the same citations.

`SelectionInv` gives `SynthesisTypeHolds` and `OneListingIsShown`. What is selected is a list of
distinct listings of distinct products after every step that reorders or narrows it:
`RepeatsLeaveTheBest` is about the operators alone (however the agent ordered its picks, one listing
of each product is left, and none of that product ranked higher), the lead rule keeps the set
(`LeadKeepsPicks`), the fallback's narrowing lists fewer (`FewerRepeats`), and the cards are the
selection in another order (`CardsAreTheSelection`). All of these are orders of a finite set
(`Arrangement`), so they rest on `Arrangeable` and `ArrangedProperties` and need no induction over
the sequences.

**Retrieval (RetrievalProofs).** `CoverageTellsTheTruth`: coverage is judged only with both
halves of the vocabulary seeded, and a seeded half is whole (`CoverageInv`).
`FusionAgreesWithChannels` is about the operators alone: for any arms that list products
without repeats, a product ranked at least as high wherever another is found gets a higher
fused score. It asks for positive weights; with the weight 0 that the comparison of the labs
admits, the two scores may be equal.

`RetrievalInv` carries the rest. Of each search it says (`SearchOK`) that its pool is the fusion
of its own channels and all of it was scored or none (`Ranked`), and that its event is open
while it works, whole when it has receipts, and no longer written to once it answers
(`Recorded`, `Whole`: identities first, and a window that ends with them); of the cache
(`CacheOK`) that it has one vector of a query. `FusionRespectsArms`, `RerankAllOrNothing` and
`GrantIsWhole` read off it; `RepeatsShareAVector` needs in addition that a search gets a vector
from the cache only (`VectorsFromTheCache`) and what the cache is after a touch
(`TouchedProperties`: `Takes` is the one thing a hit and an embedding have in common). The orders
are definite descriptions (`Arrangement` chooses the sequence that an order never contradicts),
so the lemma all of them rest on is that there is one: `Arrangeable` (ArrangementProofs), for any finite set and any
strict order of it. It puts each element after as many as precede it; that this is a place for
each and an element for each place is the pigeonhole principle, and no induction is needed.
`IdentitiesFirst` is the same argument for a window: as many receipts as there are identities
are the identities.

**Hooks (ConversationProofs).** `PipelineInv`: only the version that is current can be streaming
while `running`, and a receipt that reads as asked for is awaited by the current version
(`AwaitedReceipts`), so `PlaygroundSettles`. `PanelInv` follows the current stream through its
events (`CurrentStream`, `FollowsItsSession`), and says that a turn still loading is the
current version's (`EndedWithStream`), so stale callbacks find nothing to change.

**Labs (LabEntryProofs).** `LabInv` adds two parts to the types. `FaultInv`: while a start
writes its fault, what it first found is in its record, so a start that is run again compares
the block with that and not with what an earlier attempt left; `EditsSurvive` is the action
property that `Install` then has. `HandOffInv`: a saved hand-off is the binding that the live
checks last passed on, and while they run the applied block is the one in the file. A reset cut
short may leave the hand-off behind: it is then of another entry, and the binding tells.
`PlacesOf` and `QueueOK` say which commands can be queued and at which place each may stand,
`Part` and `Chain` build the queue of `finish` without recursion.

**Catalog bundle (CatalogBundleProofs).** `UploadInv` gives `DoneMeansUploaded`: while the
upload runs, what it has delivered stays delivered (`UploadAdvances`), the step that is running
is not recorded (`BegunIsUndone`), and no file of the bundle changes but in a step before the
upload, which un-records it. The upload is the only step that needs `at`: the objects it has
passed are as they are on disk. `BuildInv` gives `PublishedIsOneBuild` and holds while no build
is steered: steps are recorded as a prefix of their order (`StepsInOrder`), an archive and a
vocabulary are newer than everything the bucket, the checkout and a pull have of them
(`ExportIsNew`, `VocabularyIsNew`), objects are uploaded in order with the contracts last
(`UploadsInOrder`, `BucketInOrder`), and so contracts of two builders never match the
objects beside them (`PinnedInOrder`, `PullInOrder`, `PublishInOrder`). The number of parts is
any.

Model-checked only: the liveness properties (`EventuallyTold`, `SlotsComeBack`, `RequestsEnd`),
whose proofs need fairness and `ENABLED`, out of the prover's reach. Every invariant and every
action property of a passing run is stated by a theorem above.

## 6. Assumptions of the models

- Strands waits for the tools of a batch before a hook's error leaves the loop, and on
  cancellation stops scheduling but cannot stop a thread.
- The catalog and the turn's filters do not change during a turn, so a search returns
  eligible products only, and the recheck of inherited products gives one answer.
- Search order is abstracted: the fallback's shortlist is any nonempty set of at most
  `ResultLimit` retrieved products, and any qualifying comparison may be the latest one.
- A reply is one step. What a stream sends before it (partials, stages) is left out.
- A task that awaits a request's preparation is not cancelled by a disconnect; the
  server reports one as a message.

- The models of a synthesis reply anything their schema admits; `converse` either returns
  or raises.
- A row lock is granted when its row is free, in any order; a deadlock is broken by ending one
  of its transactions; a worker that dies has its open transaction rolled back.
- A browser runs one callback at a time; callbacks of one stream keep their order, those of
  different streams do not.
- A file of the bundle is written in one step (`state.json` excepted). One build runs at a time,
  under its wrapper's lock, and one command of `deploy.py`, typed in one terminal. Two archives
  or vocabularies never have the same bytes: they carry a time stamp.

Four things read and not checked by a run.

The lead rule moves one better-rated pick to the front and is not asked again
(`lead_with_better_rated`), although its result is called "the picks in the order the answer
recommends them" (`synthesis.py:658`). Of picks of one kind rated 1.8, 3.0 and 4.5 the second is
handed over first, and `_validate_lead`, which applies the same rule to the answer, refuses one
that follows that order.

`_validate_lead` judges the draft before the removable section is cut (`synthesis.py:1868`), and the
cards follow the text without it. A better-rated pick whose first mention stands in that section
satisfies the check and is then shown second, although "the application, not the model, has the
last word on that order" (`docs/use-in-your-app.md:80`).

When Lab 1's evidence was saved and Lab 2's start was then interrupted, `finish` puts
the reference over the participant's own repair of Lab 1, and the hand-off it runs next refuses
because the block is no longer the one the evidence was saved for (`_handoff_mismatch`), with
advice to call the facilitator. `finish_lab` says that a participant can finish "from wherever
they are".

`PublishedIsOneBuild` holds while builds are resumed, never steered. A build started
with `--from vocabulary` after an interrupted export uploads a new vocabulary beside the old
parts, and a pull that read the contracts at the right moment pins the old catalog with the new
vocabulary: nothing in the two contracts says which belongs to which.

## 7. Not modelled

- **Reading text.** How sentences, prices, figures, units and product mentions are found in a
  draft, and how a query is split into terms. `CitedAnswer` starts from the claims.
- **Text search scores, trigram and vector distances, the HNSW scan.** `Ranking` takes any
  scores. The measured plan (`capture_plan`) repeats a query for display.
- **The weighted comparison of the labs** beyond its fusion rule; the contracts a lab's block
  is checked against and its live checks, which `LabEntry` takes as verdicts.
- **Read-only routes, telemetry readers, memory recall, SSE framing.** They change no state that
  another part reads.
- **Database access.** An exhausted or broken pool appears wherever a step takes a connection,
  as that step's failure.
- **Deploy record.** One file rewritten under one lock and replaced atomically. Edits made
  while a lab's command runs, which reads a file and writes it back within one step.
- **The rest of the storefront** (rendering, the shortlist in local storage), the **MCP
  server** (stateless translation), **evaluation, benchmarks and provisioning** (offline
  scripts over files and cloud APIs).
- **The steps of a catalog build before its export**, which leave nothing the bundle is read
  from; what the other commands of `deploy.py` create; a bundle published from the laptop's own
  directory.
- **Limit notes** that the application appends to an answer after its review.
