--------------------------- MODULE AgentTurnProofs ---------------------------
(* Theorems about AgentTurn, for every value of its constants.             *)
EXTENDS AgentTurn, FiniteSetTheorems, TLAPS

----------------------------------------------------------------------------
(* The values the actions write.                                           *)

\* The records the code stores as answer_of_record are answer records.
LEMMA AnswersTyped ==
    /\ NoAnswer \in AnswerRecords
    /\ \A recs \in SUBSET Products \ {{}}, o \in Origins :
            Grounded(recs, o) \in AnswerRecords
    /\ \A reason \in Reasons, o \in Origins : Declined(reason, o) \in AnswerRecords
BY DEF AnswerRecords

\* A batch assigns call states to the workers.
LEMMA RequestsTyped == Requests \cup {Idle} \subseteq CallStates
BY DEF Requests, Request, Idle, CallStates, Tools, Points

\* A run starts as a run state, whatever the products it inherits.
LEMMA StartTyped ==
    ASSUME NEW context \in SUBSET Products
    PROVE  StartRun(context) \in RunStates
BY AnswersTyped DEF StartRun, RunStates

\* Explaining a ranking changes only the count of its owner.
LEMMA ExplainedTyped ==
    ASSUME NEW r \in RunStates, NEW event
    PROVE  Explained(r, event) \in RunStates
<1> DEFINE prior == r.explained.prior + (IF event = "prior" THEN 1 ELSE 0)
           current == r.explained.current + (IF event = "current" THEN 1 ELSE 0)
<1>1. r.explained.prior \in Nat /\ r.explained.current \in Nat
    BY DEF RunStates
<1>2. prior \in Nat /\ current \in Nat
    BY <1>1
<1>3. [prior |-> prior, current |-> current] \in [prior : Nat, current : Nat]
    BY <1>2
<1> HIDE DEF prior, current
<1>4. [r EXCEPT !.explained = [prior |-> prior, current |-> current],
                !.traced = TRUE] \in RunStates
    BY <1>3 DEF RunStates
<1> QED BY <1>4 DEF Explained, prior, current

\* Every copy the fallback can end with is a run state.
LEMMA FinalizedTyped ==
    ASSUME NEW r \in RunStates
    PROVE  Finalized(r) \subseteq RunStates
<1>1. \A s, e \in SUBSET Products : Sourced(r, s, e) \in RunStates
    BY DEF Sourced, RunStates
<1>0. \A s \in SUBSET Products : Filled(r, s) \in RunStates
  <2> SUFFICES ASSUME NEW s \in SUBSET Products
               PROVE  Filled(r, s) \in RunStates
      OBVIOUS
  <2>1. Sourced(r, s, s) \in RunStates
      BY <1>1
  <2>2. Explained(Sourced(r, s, s), "current") \in RunStates
      BY <2>1, ExplainedTyped
  <2> QED BY <2>1, <2>2 DEF Filled
<1>2. \A s \in FallbackSelections(r) : s \in SUBSET Products
    BY DEF FallbackSelections, Shortlists, RunStates
<1>3. ASSUME NEW s \in SUBSET Products, NEW a \in FinalAnswers(r, s)
      PROVE  a \in AnswerRecords
    BY <1>3, AnswersTyped DEF FinalAnswers, FinalSelection, RunStates, Origins, Reasons
<1>4. Recovered(r) \subseteq RunStates
  <2>1. ASSUME NEW f \in RunStates, NEW a \in AnswerRecords, NEW ids
        PROVE  /\ [f EXCEPT !.record = a] \in RunStates
               /\ [f EXCEPT !.products = @ \ ids] \in RunStates
      BY DEF RunStates
  <2>2. ASSUME NEW s \in FallbackSelections(r)
        PROVE  RecoveredFrom(r, s) \subseteq RunStates
    <3>1. s \in SUBSET Products /\ Filled(r, s) \in RunStates
        BY <1>0, <1>2
    <3>2. NoAnswer \in AnswerRecords
        BY AnswersTyped
    <3> QED BY <1>1, <1>3, <2>1, <3>1, <3>2 DEF RecoveredFrom
  <2> QED BY <2>2 DEF Recovered
<1>5. ASSUME NEW reason \in Reasons
      PROVE  [r EXCEPT !.record = Declined(reason, "controller_fallback")] \in RunStates
    BY AnswersTyped DEF RunStates, Origins
<1> QED BY <1>4, <1>5 DEF Finalized, Reasons

----------------------------------------------------------------------------
(* Type correctness.                                                       *)

\* What the fields of a run state hold.
LEMMA RunFields ==
    ASSUME NEW r \in RunStates
    PROVE  /\ r.context \in SUBSET Products
           /\ r.attempts \in Nat /\ r.searches \in Nat /\ r.failed \in Nat
           /\ r.retrieved \in SUBSET Products /\ r.products \in SUBSET Products
           /\ r.evidence \in SUBSET Products
           /\ r.compared \in SUBSET (SUBSET Products)
           /\ r.verdicts \in SUBSET {"unanchored", "open"} /\ r.traced \in BOOLEAN
           /\ r.retry \in SUBSET Products /\ r.record \in AnswerRecords
BY DEF RunStates

\* Each update a worker makes to the run yields a run state.
LEMMA UpdatesTyped ==
    ASSUME NEW r \in RunStates, NEW ids \in SUBSET Products, NEW a \in AnswerRecords,
           NEW verdict \in {"unanchored", "open"}, NEW b \in BOOLEAN
    PROVE  /\ Reserve(r) \in RunStates
           /\ [r EXCEPT !.products = {}, !.evidence = {}] \in RunStates
           /\ [r EXCEPT !.failed = @ + 1, !.traced = TRUE] \in RunStates
           /\ [r EXCEPT !.searches = @ + 1, !.verdicts = @ \cup {verdict},
                         !.retrieved = @ \cup ids, !.traced = @ \/ b] \in RunStates
           /\ [r EXCEPT !.products = @ \cup ids, !.traced = TRUE] \in RunStates
           /\ [r EXCEPT !.evidence = @ \cup ids, !.traced = TRUE] \in RunStates
           /\ [r EXCEPT !.compared = @ \cup {ids}, !.traced = TRUE] \in RunStates
           /\ [r EXCEPT !.products = @ \ ids, !.traced = TRUE] \in RunStates
           /\ [r EXCEPT !.retry = ids, !.traced = TRUE] \in RunStates
           /\ [r EXCEPT !.record = a, !.traced = TRUE] \in RunStates
           /\ [r EXCEPT !.traced = TRUE] \in RunStates
<1>1. [r EXCEPT !.attempts = @ + 1] \in RunStates
    BY DEF RunStates
<1>2. [r EXCEPT !.products = {}, !.evidence = {}] \in RunStates
    BY DEF RunStates
<1>3. [r EXCEPT !.failed = @ + 1, !.traced = TRUE] \in RunStates
  <2> DEFINE failed == r.failed + 1
  <2>1. failed \in Nat
      BY RunFields
  <2> HIDE DEF failed
  <2>2. [r EXCEPT !.failed = failed, !.traced = TRUE] \in RunStates
      BY <2>1 DEF RunStates
  <2> QED BY <2>2 DEF failed
<1>4. [r EXCEPT !.searches = @ + 1, !.verdicts = @ \cup {verdict},
                   !.retrieved = @ \cup ids, !.traced = @ \/ b] \in RunStates
  <2> DEFINE searches == r.searches + 1
             verdicts == r.verdicts \cup {verdict}
             retrieved == r.retrieved \cup ids
             traced == r.traced \/ b
  <2>1. searches \in Nat /\ verdicts \in SUBSET {"unanchored", "open"}
        /\ retrieved \in SUBSET Products /\ traced \in BOOLEAN
      BY RunFields
  <2> HIDE DEF searches, verdicts, retrieved, traced
  <2>2. [r EXCEPT !.searches = searches, !.verdicts = verdicts,
                  !.retrieved = retrieved, !.traced = traced] \in RunStates
      BY <2>1 DEF RunStates
  <2> QED BY <2>2 DEF searches, verdicts, retrieved, traced
<1>5. [r EXCEPT !.products = @ \cup ids, !.traced = TRUE] \in RunStates
    BY DEF RunStates
<1>6. [r EXCEPT !.evidence = @ \cup ids, !.traced = TRUE] \in RunStates
    BY DEF RunStates
<1>7. [r EXCEPT !.compared = @ \cup {ids}, !.traced = TRUE] \in RunStates
    BY DEF RunStates
<1>8. [r EXCEPT !.products = @ \ ids, !.traced = TRUE] \in RunStates
    BY DEF RunStates
<1>9. [r EXCEPT !.retry = ids, !.traced = TRUE] \in RunStates
    BY DEF RunStates
<1>10. [r EXCEPT !.record = a, !.traced = TRUE] \in RunStates
    BY DEF RunStates
<1>11. [r EXCEPT !.traced = TRUE] \in RunStates
    BY DEF RunStates
<1> QED BY <1>1, <1>2, <1>3, <1>4, <1>5, <1>6, <1>7, <1>8, <1>9, <1>10, <1>11 DEF Reserve

\* A worker's step that writes run states, call states and an error is typed.
LEMMA StepTyped ==
    ASSUME TypeOK,
           (\E r \in RunStates : Write(r)) \/ UNCHANGED <<run, torn>>,
           call' \in [Calls -> CallStates],
           Stops \/ UNCHANGED error,
           UNCHANGED <<used, Ours>>
    PROVE  TypeOK'
<1>1. run' \in RunStates /\ torn' \in BOOLEAN
    BY DEF TypeOK, Write
<1>2. error' \in {"none", "runtime", "other", "deadline"}
    BY DEF TypeOK, Stops
<1> QED BY <1>1, <1>2 DEF TypeOK, Ours

\* A worker writes a run state and call states, and leaves the rest alone.
LEMMA WorkerTyped ==
    ASSUME TypeOK, NEW c \in Calls, Worker(c)
    PROVE  TypeOK'
<1> DEFINE Writes == \E r \in RunStates : Write(r)
<1>r. run \in RunStates /\ call \in [Calls -> CallStates] /\ call[c] \in CallStates
    BY DEF TypeOK
<1>s. call[c].ids \in SUBSET Products /\ call[c].event \in {"none", "prior", "current"}
    BY <1>r DEF CallStates
<1>p. \A pc \in Points : Goto(c, pc) => call' \in [Calls -> CallStates]
    BY <1>r DEF CallStates, Goto
<1>f. Finish(c) => call' \in [Calls -> CallStates]
    BY <1>r, RequestsTyped DEF Finish
<1>u. \A ids \in SUBSET Products, a \in AnswerRecords :
        /\ Reserve(run) \in RunStates
        /\ [run EXCEPT !.products = {}, !.evidence = {}] \in RunStates
        /\ [run EXCEPT !.failed = @ + 1, !.traced = TRUE] \in RunStates
        /\ [run EXCEPT !.products = @ \cup ids, !.traced = TRUE] \in RunStates
        /\ [run EXCEPT !.evidence = @ \cup ids, !.traced = TRUE] \in RunStates
        /\ [run EXCEPT !.compared = @ \cup {ids}, !.traced = TRUE] \in RunStates
        /\ [run EXCEPT !.products = @ \ ids, !.traced = TRUE] \in RunStates
        /\ [run EXCEPT !.retry = ids, !.traced = TRUE] \in RunStates
        /\ [run EXCEPT !.record = a, !.traced = TRUE] \in RunStates
        /\ [run EXCEPT !.traced = TRUE] \in RunStates
    BY <1>r, UpdatesTyped
<1>a. {} \in SUBSET Products /\ NoAnswer \in AnswerRecords
    BY AnswersTyped
<1>1. CASE CallRefused(c) \/ Uncaught(c)
    BY <1>1, <1>f, StepTyped DEF CallRefused, Uncaught
<1>2. CASE SearchReserve(c)
    BY <1>2, <1>a, <1>u, <1>f, <1>p, StepTyped DEF SearchReserve, Points
<1>3. CASE SearchCheck(c)
    BY <1>3, <1>p, StepTyped DEF SearchCheck, Points
<1>4. CASE SearchClear(c)
    BY <1>4, <1>a, <1>u, <1>p, StepTyped DEF SearchClear, Points
<1>5. CASE SearchFails(c)
    BY <1>5, <1>a, <1>u, <1>f, StepTyped DEF SearchFails
<1>6. CASE SearchReturns(c)
  <2>1. PICK found \in SUBSET Eligible, verdict \in {"unanchored", "open"} :
          /\ Write([run EXCEPT !.searches = @ + 1, !.verdicts = @ \cup {verdict},
                               !.retrieved = @ \cup found,
                               !.traced = @ \/ found = {}])
          /\ call' = [call EXCEPT ![c] =
                        IF found = {} THEN Idle
                        ELSE [@ EXCEPT !.pc = "grant", !.ids = found]]
      BY <1>6 DEF SearchReturns
  <2>2. found \in SUBSET Products
      BY ProductsAssumption
  <2>3. [run EXCEPT !.searches = @ + 1, !.verdicts = @ \cup {verdict},
                    !.retrieved = @ \cup found, !.traced = @ \/ found = {}] \in RunStates
      BY <1>r, <2>2, <1>a, UpdatesTyped
  <2>4. Writes
      BY <2>1, <2>3
  <2>5. [call[c] EXCEPT !.pc = "grant", !.ids = found] \in CallStates
      BY <1>r, <2>2 DEF CallStates, Points
  <2>6. call' \in [Calls -> CallStates]
      BY <2>1, <2>5, <1>r, RequestsTyped
  <2> QED BY <1>6, <2>4, <2>6, StepTyped DEF SearchReturns
<1>7. CASE SearchGrants(c)
    BY <1>7, <1>a, <1>s, <1>u, <1>f, StepTyped DEF SearchGrants
<1>8. CASE EvidenceStart(c)
    BY <1>8, <1>f, <1>p, StepTyped DEF EvidenceStart, Points
<1>9. CASE EvidenceReturns(c)
    BY <1>9, <1>a, <1>s, <1>u, <1>f, StepTyped DEF EvidenceReturns
<1>10. CASE EvidenceFails(c)
    BY <1>10, <1>a, <1>u, <1>f, StepTyped DEF EvidenceFails
<1>11. CASE Compare(c)
    BY <1>11, <1>a, <1>s, <1>u, <1>f, StepTyped DEF Compare
<1>12. CASE ExplainStart(c)
    BY <1>12, <1>f, <1>p, StepTyped DEF ExplainStart, Points
<1>13. CASE ExplainReturns(c)
    BY <1>13, <1>r, <1>s, <1>f, ExplainedTyped, StepTyped DEF ExplainReturns
<1>14. CASE ExplainFails(c)
    BY <1>14, <1>f, StepTyped DEF ExplainFails
<1>15. CASE SynthesisStart(c)
  <2>1. Declined("unanchored", "model") \in AnswerRecords
      BY AnswersTyped DEF Reasons, Origins
  <2>2. [run EXCEPT !.record = Declined("unanchored", "model"), !.traced = TRUE]
          \in RunStates
      BY <2>1, <1>a, <1>u
  <2>3. Writes \/ UNCHANGED <<run, torn>>
      BY <1>15, <2>2 DEF SynthesisStart
  <2>4. call' \in [Calls -> CallStates]
      BY <1>15, <1>f, <1>p DEF SynthesisStart, Points
  <2> QED BY <1>15, <2>3, <2>4, StepTyped DEF SynthesisStart
<1>16. CASE SynthesisRecheck(c)
  <2>1. \A ids : [run EXCEPT !.products = @ \ Excluded(run, ids), !.traced = TRUE]
                   \in RunStates
      BY <1>r, <1>a, <1>u, RunFields DEF Excluded
  <2> QED BY <1>16, <2>1, <1>f, <1>p, StepTyped DEF SynthesisRecheck, Points
<1>17. CASE SynthesisGate(c)
    BY <1>17, <1>a, <1>u, <1>f, <1>p, StepTyped DEF SynthesisGate, Points
<1>18. CASE SynthesisPublishes(c)
  <2>1. Publications(call[c].ids) \subseteq AnswerRecords
      BY <1>s, AnswersTyped DEF Publications, Origins
  <2>2. Writes
      BY <1>18, <2>1, <1>a, <1>u DEF SynthesisPublishes
  <2> QED BY <1>18, <2>2, <1>f, StepTyped DEF SynthesisPublishes
<1>19. CASE SynthesisDeclines(c)
  <2>1. Declined("unsupported", "model") \in AnswerRecords
      BY AnswersTyped DEF Reasons, Origins
  <2> QED BY <1>19, <2>1, <1>a, <1>u, <1>f, StepTyped DEF SynthesisDeclines
<1>20. CASE SynthesisRetries(c)
    BY <1>20, <1>s, <1>a, <1>u, <1>f, StepTyped DEF SynthesisRetries
<1>21. CASE SynthesisFails(c)
    BY <1>21, <1>a, <1>u, <1>f, StepTyped DEF SynthesisFails
<1> QED
    BY <1>1, <1>2, <1>3, <1>4, <1>5, <1>6, <1>7, <1>8, <1>9, <1>10, <1>11, <1>12,
       <1>13, <1>14, <1>15, <1>16, <1>17, <1>18, <1>19, <1>20, <1>21 DEF Worker

\* A turn starts typed.
LEMMA InitTyped == Init => TypeOK
<1> SUFFICES ASSUME Init PROVE TypeOK
    OBVIOUS
<1>1. run \in RunStates
    BY StartTyped, ProductsAssumption DEF Init
<1>2. call \in [Calls -> CallStates]
    BY RequestsTyped DEF Init
<1> QED BY <1>1, <1>2, AnswersTyped DEF Init, TypeOK, Phases

\* What the controller and the client do keeps the turn typed.
LEMMA ControllerTyped ==
    ASSUME TypeOK, Controller \/ Client
    PROVE  TypeOK'
<1> USE DEF TypeOK, Phases
<1>d. Dropped \in [Calls -> CallStates]
    BY RequestsTyped DEF Dropped
<1>n. NoAnswer \in AnswerRecords
    BY AnswersTyped
<1>r. Record \in AnswerRecords
    BY DEF Record, RunStates
<1>1. CASE LoopDeadline
    BY <1>1, <1>d DEF LoopDeadline
<1>2. CASE SnapshotTaken
    BY <1>2, <1>n DEF SnapshotTaken, Detach
<1>3. CASE SnapshotRaises
    BY <1>3, <1>n DEF SnapshotRaises
<1>4. CASE AfterLoop
  <2>1. [run EXCEPT !.record = Declined("unsupported", "controller_fallback")]
          \in RunStates
      BY AnswersTyped DEF RunStates, Reasons, Origins
  <2> QED BY <1>4, <2>1 DEF AfterLoop
<1>5. CASE FallbackReturns
    BY <1>5, FinalizedTyped DEF FallbackReturns
<1>6. CASE FallbackDeadline
    BY <1>6, FinalizedTyped DEF FallbackDeadline, Published
<1>7. CASE Persist
    BY <1>7, <1>r DEF Persist, AfterPersist
<1>8. CASE PersistFails
    BY <1>8, <1>n DEF PersistFails
<1>9. CASE Respond
    BY <1>9, <1>r DEF Respond
<1>10. CASE DeadlineAtConsumer
    BY <1>10, <1>d, <1>n DEF DeadlineAtConsumer
<1>11. CASE LoopDisconnect
    BY <1>11, <1>d, <1>n DEF LoopDisconnect
<1>12. CASE FallbackDisconnect
    BY <1>12, <1>n, FinalizedTyped DEF FallbackDisconnect, Published
<1>13. CASE RespondDisconnect
    BY <1>13, <1>n DEF RespondDisconnect
<1> QED
    BY <1>1, <1>2, <1>3, <1>4, <1>5, <1>6, <1>7, <1>8, <1>9, <1>10, <1>11, <1>12,
       <1>13 DEF Controller, Client

\* What the model's loop does keeps the turn typed.
LEMMA LoopTyped ==
    ASSUME TypeOK,
           ModelTurn \/ LoopEnds \/ LoopStops \/ \E c \in Calls : BeforeToolCall(c)
    PROVE  TypeOK'
<1> USE DEF TypeOK, Phases
<1>1. CASE ModelTurn
  <2>1. call' \in [Calls -> Requests \cup {Idle}]
      BY <1>1 DEF ModelTurn
  <2>2. call' \in [Calls -> CallStates]
      BY <2>1, RequestsTyped
  <2> QED BY <1>1, <2>2 DEF ModelTurn, Ours
<1>2. CASE LoopEnds
    BY <1>2 DEF LoopEnds
<1>3. CASE LoopStops
    BY <1>3 DEF LoopStops
<1>4. ASSUME NEW c \in Calls, BeforeToolCall(c)
      PROVE  TypeOK'
  <2>1. call' \in [Calls -> CallStates]
      BY <1>4, RequestsTyped DEF BeforeToolCall, Goto, Finish, CallStates, Points
  <2>2. used' \in Nat
      BY <1>4 DEF BeforeToolCall
  <2> QED BY <1>4, <2>1, <2>2 DEF BeforeToolCall, Ours
<1> QED BY <1>1, <1>2, <1>3, <1>4

\* Every step of a turn keeps it typed.
LEMMA NextTyped == TypeOK /\ [Next]_vars => TypeOK'
<1>1. ASSUME TypeOK, UNCHANGED vars
      PROVE  TypeOK'
    BY <1>1 DEF TypeOK, vars
<1> QED BY <1>1, WorkerTyped, ControllerTyped, LoopTyped DEF Next

\* Every variable always holds a value of the program's types, however the model,
\* the workers, the deadline and the client interleave (agent.py, agent_tools.py).
THEOREM TypeCorrect == Spec => []TypeOK
BY InitTyped, NextTyped, PTL DEF Spec
-----------------------------------------------------------------------------
(* What is stored and told of a turn: it implements TurnContract whatever its workers, its *)
(* deadline and its client do.  None of these facts is inductive: they hold because the    *)
(* phase the controller is in fixes who may still write the run, as Lifecycle says.        *)

Unsaved == [status |-> "open", record |-> NoAnswer]
Awaited == [kind |-> "waiting", record |-> NoAnswer]
Departed == {[kind |-> k, record |-> NoAnswer] : k \in {"gone", "cancelled"}}
Stored == [status |-> IF Record.outcome # "none" THEN "completed" ELSE "failed",
           record |-> Record]

\* Where the controller is decides what is stored, what was told and who still runs.
Running == {"loop", "snapshot", "finish", "fallback"}
Lifecycle ==
    /\ detached => snap = NoAnswer
    /\ phase \in Running => ~detached /\ reply = Awaited
    /\ phase \in Running \cup {"persist", "lost", "crashed", "unsaved"} => saved = Unsaved
    /\ phase \in {"finish", "fallback", "persist", "respond"} => detached \/ Quiet
    /\ phase = "persist" => reply = Awaited \/ reply \in Departed
    /\ phase = "respond" => reply = Awaited /\ saved = Stored
    /\ phase \in {"lost", "crashed", "unsaved"} => reply.kind # "answer"
    /\ phase = "done" => ToldIsStored /\ LateWorkersNeverAnswer

----------------------------------------------------------------------------
(* Who may write the run.                                                  *)

\* A worker acts only while it has a call in progress, and touches neither the
\* controller's phase nor its copy, its row or its reply.
LEMMA WorkerFrame ==
    ASSUME NEW c \in Calls, Worker(c)
    PROVE  call[c].pc # "idle" /\ UNCHANGED Ours
<1> USE DEF At
<1>1. CASE CallRefused(c) \/ Uncaught(c)
    BY <1>1 DEF CallRefused, Uncaught
<1>2. CASE SearchReserve(c) \/ SearchCheck(c) \/ SearchClear(c)
    BY <1>2 DEF SearchReserve, SearchCheck, SearchClear
<1>3. CASE SearchFails(c) \/ SearchReturns(c) \/ SearchGrants(c)
    BY <1>3 DEF SearchFails, SearchReturns, SearchGrants
<1>4. CASE EvidenceStart(c) \/ EvidenceReturns(c) \/ EvidenceFails(c)
    BY <1>4 DEF EvidenceStart, EvidenceReturns, EvidenceFails
<1>5. CASE Compare(c) \/ ExplainStart(c) \/ ExplainReturns(c) \/ ExplainFails(c)
    BY <1>5 DEF Compare, ExplainStart, ExplainReturns, ExplainFails
<1>6. CASE SynthesisStart(c) \/ SynthesisRecheck(c) \/ SynthesisGate(c)
    BY <1>6 DEF SynthesisStart, SynthesisRecheck, SynthesisGate
<1>7. CASE SynthesisPublishes(c) \/ SynthesisDeclines(c)
    BY <1>7 DEF SynthesisPublishes, SynthesisDeclines
<1>8. CASE SynthesisRetries(c) \/ SynthesisFails(c)
    BY <1>8 DEF SynthesisRetries, SynthesisFails
<1> QED BY <1>1, <1>2, <1>3, <1>4, <1>5, <1>6, <1>7, <1>8 DEF Worker

\* So a worker's step leaves Lifecycle alone: in the phases that read the run it can
\* only be writing a dictionary the controller has detached from.
LEMMA WorkerKeepsLifecycle ==
    ASSUME Lifecycle, NEW c \in Calls, Worker(c)
    PROVE  Lifecycle'
<1>1. ~Quiet /\ UNCHANGED <<phase, detached, snap, saved, reply>>
    BY WorkerFrame DEF Quiet, Ours
<1>2. phase = "respond" => Stored' = Stored
    BY <1>1 DEF Lifecycle, Stored, Record
<1>3. phase \in {"finish", "fallback", "persist", "respond"} => detached
    BY <1>1 DEF Lifecycle
<1> QED BY <1>1, <1>2, <1>3
        DEF Lifecycle, ToldIsStored, LateWorkersNeverAnswer, Running, Unsaved, Awaited,
            Departed

\* Nor do the steps of the loop: they all happen before it is over.
LEMMA LoopKeepsLifecycle ==
    ASSUME Lifecycle,
           ModelTurn \/ LoopEnds \/ LoopStops \/ \E c \in Calls : BeforeToolCall(c)
    PROVE  Lifecycle'
<1> USE DEF Lifecycle, Running, Unsaved, Awaited, Departed, Ours
<1>1. CASE ModelTurn
    BY <1>1 DEF ModelTurn
<1>2. CASE LoopEnds
    BY <1>2 DEF LoopEnds, Quiet
<1>3. CASE LoopStops
    BY <1>3 DEF LoopStops, Quiet
<1>4. CASE \E c \in Calls : BeforeToolCall(c)
    BY <1>4 DEF BeforeToolCall
<1> QED BY <1>1, <1>2, <1>3, <1>4

\* The controller and the client move the turn from one phase to the next.
LEMMA ControllerKeepsLifecycle ==
    ASSUME Lifecycle, Controller \/ Client
    PROVE  Lifecycle'
<1> USE DEF Lifecycle, Running, Unsaved, Awaited, Departed
<1>1. CASE LoopDeadline
    BY <1>1 DEF LoopDeadline, TimesOut
<1>2. CASE SnapshotTaken
    BY <1>2 DEF SnapshotTaken, Detach
<1>3. CASE SnapshotRaises
    BY <1>3 DEF SnapshotRaises
<1>4. CASE AfterLoop
    BY <1>4 DEF AfterLoop, Quiet
<1>5. CASE FallbackReturns
    BY <1>5 DEF FallbackReturns, Quiet
<1>6. CASE FallbackDeadline
    BY <1>6 DEF FallbackDeadline, Quiet
<1>7. CASE Persist
  <2>1. saved' = Stored /\ Stored' = Stored
      BY <1>7 DEF Persist, Stored, Record
  <2>2. detached => saved'.status = "failed"
      BY <2>1 DEF Stored, Record, NoAnswer
  <2>3. \/ phase' = "respond" /\ reply' = Awaited
        \/ phase' = "done" /\ reply'.kind # "answer"
      BY <1>7 DEF Persist, AfterPersist
  <2>4. phase' = "done" => ToldIsStored' /\ LateWorkersNeverAnswer'
      BY <1>7, <2>1, <2>2, <2>3 DEF Persist, ToldIsStored, LateWorkersNeverAnswer
  <2> QED BY <1>7, <2>1, <2>3, <2>4
          DEF Persist, Quiet
<1>8. CASE PersistFails
    BY <1>8 DEF PersistFails
<1>9. CASE Respond
  <2>1. saved' = Stored /\ (detached => reply'.kind # "answer")
      BY <1>9 DEF Respond, Record, NoAnswer
  <2> QED BY <1>9, <2>1
          DEF Respond, Stored, Record, NoAnswer, ToldIsStored, LateWorkersNeverAnswer
<1>10. CASE DeadlineAtConsumer
    BY <1>10 DEF DeadlineAtConsumer
<1>11. CASE LoopDisconnect
    BY <1>11 DEF LoopDisconnect
<1>12. CASE FallbackDisconnect
    BY <1>12 DEF FallbackDisconnect, Quiet
<1>13. CASE RespondDisconnect
    BY <1>13 DEF RespondDisconnect, Stored, Record, NoAnswer, ToldIsStored,
                 LateWorkersNeverAnswer
<1> QED
    BY <1>1, <1>2, <1>3, <1>4, <1>5, <1>6, <1>7, <1>8, <1>9, <1>10, <1>11, <1>12,
       <1>13 DEF Controller, Client

\* Lifecycle holds initially and every step keeps it.
LEMMA LifecycleInvariant == Spec => []Lifecycle
<1>1. Init => Lifecycle
    BY DEF Init, Lifecycle, Running, Unsaved, Awaited
<1>2. ASSUME Lifecycle, UNCHANGED vars
      PROVE  Lifecycle'
    BY <1>2 DEF vars, Lifecycle, Running, Unsaved, Awaited, Departed, Stored, Record,
                Quiet, ToldIsStored, LateWorkersNeverAnswer
<1>3. Lifecycle /\ [Next]_vars => Lifecycle'
    BY <1>2, WorkerKeepsLifecycle, LoopKeepsLifecycle, ControllerKeepsLifecycle DEF Next
<1> QED BY <1>1, <1>3, PTL DEF Spec

----------------------------------------------------------------------------
(* What it gives the caller.                                               *)

\* After the loop the run belongs to the controller alone, or the controller has left
\* it to the workers that still run (agent_execution.run_async).
THEOREM LoopDrained == Spec => []LoopIsDrained
<1>1. Lifecycle => LoopIsDrained
    BY DEF Lifecycle, LoopIsDrained
<1> QED BY <1>1, LifecycleInvariant, PTL

\* The answer a caller receives is the answer stored for the turn (_persist, _response).
THEOREM AnswerStored == Spec => []ToldIsStored
<1>1. TypeOK /\ Lifecycle => ToldIsStored
    BY DEF TypeOK, Phases, Lifecycle, Running, Awaited, Departed, ToldIsStored
<1> QED BY <1>1, LifecycleInvariant, TypeCorrect, PTL

\* A worker that outlives the deadline never turns the turn into an answer (the
\* detached snapshot of answer() and stream()).
THEOREM LateWorkers == Spec => []LateWorkersNeverAnswer
<1>1. TypeOK /\ Lifecycle => LateWorkersNeverAnswer
    BY DEF TypeOK, Phases, Lifecycle, Running, Unsaved, Awaited, Departed, Stored, Record,
           NoAnswer, LateWorkersNeverAnswer
<1> QED BY <1>1, LifecycleInvariant, TypeCorrect, PTL

----------------------------------------------------------------------------
(* The turn implements TurnContract.                                       *)

\* Only the controller and the client touch the row and the reply.
LEMMA LoopSilent ==
    ASSUME \/ ModelTurn \/ LoopEnds \/ LoopStops
           \/ \E c \in Calls : BeforeToolCall(c) \/ Worker(c)
    PROVE  UNCHANGED <<saved, reply>>
<1>1. CASE ModelTurn \/ LoopEnds \/ LoopStops
    BY <1>1 DEF ModelTurn, LoopEnds, LoopStops, Ours
<1>2. CASE \E c \in Calls : BeforeToolCall(c)
    BY <1>2 DEF BeforeToolCall, Ours
<1>3. CASE \E c \in Calls : Worker(c)
    BY <1>3, WorkerFrame DEF Ours
<1> QED BY <1>1, <1>2, <1>3

\* A record without an outcome is the absence of an answer.
LEMMA RecordCases ==
    ASSUME TypeOK
    PROVE  /\ Record \in AnswerRecords
           /\ Record.outcome = "none" <=> Record = NoAnswer
<1>1. Record \in AnswerRecords
    BY DEF TypeOK, RunStates, Record
<1>2. \A a \in AnswerRecords : a.outcome = "none" <=> a = NoAnswer
    BY DEF AnswerRecords, NoAnswer, Grounded, Declined
<1> QED BY <1>1, <1>2

\* Each step of the controller or the client is a step of the contract or stutters.
LEMMA ControllerKeepsContract ==
    ASSUME TypeOK, Lifecycle, Controller \/ Client
    PROVE  Contract!ContractNext \/ UNCHANGED <<saved, reply>>
<1> USE DEF Contract!ContractNext
<1>l. phase \in Running => saved = Contract!Open /\ reply = Contract!Waiting
    BY DEF Lifecycle, Unsaved, Awaited, Contract!Open, Contract!Waiting, Running
<1>1. CASE LoopDeadline \/ SnapshotTaken \/ AfterLoop \/ FallbackReturns \/ FallbackDeadline
    BY <1>1 DEF LoopDeadline, SnapshotTaken, AfterLoop, FallbackReturns, FallbackDeadline
<1>2. CASE SnapshotRaises
  <2> Contract!TellFailure
      BY <1>2, <1>l DEF SnapshotRaises, Contract!TellFailure, Contract!Open, Running
  <2> QED OBVIOUS
<1>3. CASE Persist
  <2>1. saved = Contract!Open /\ reply.kind \notin {"answer", "failure"}
      BY <1>3 DEF Persist, Lifecycle, Unsaved, Awaited, Departed, Contract!Open
  <2>2. CASE Record.outcome # "none"
      BY <1>3, <2>1, <2>2, RecordCases DEF Persist, Contract!Close
  <2>3. CASE Record.outcome = "none"
      BY <1>3, <2>1, <2>3, RecordCases DEF Persist, Contract!Close
  <2> QED BY <2>2, <2>3
<1>4. CASE PersistFails
  <2>1. saved = Contract!Open /\ (reply = Contract!Waiting \/ reply \in Departed)
      BY <1>4 DEF PersistFails, Lifecycle, Unsaved, Awaited, Contract!Open,
                  Contract!Waiting
  <2>2. CASE reply = Contract!Waiting
      BY <1>4, <2>1, <2>2
         DEF PersistFails, Contract!Open, Contract!Waiting, Contract!TellFailure
  <2>3. CASE reply \in Departed
      BY <1>4, <2>3 DEF PersistFails, Departed
  <2> QED BY <2>1, <2>2, <2>3
<1>5. CASE Respond
  <2>1. reply = Contract!Waiting /\ saved = Stored
      BY <1>5 DEF Respond, Lifecycle, Awaited, Contract!Waiting
  <2>2. CASE Record.outcome # "none"
      BY <1>5, <2>1, <2>2 DEF Respond, Stored, Contract!TellAnswer
  <2>3. CASE Record.outcome = "none"
      BY <1>5, <2>1, <2>3, RecordCases DEF Respond, Stored, Contract!TellFailure
  <2> QED BY <2>2, <2>3
<1>6. CASE DeadlineAtConsumer \/ LoopDisconnect \/ FallbackDisconnect
  <2> Contract!Leave
      BY <1>6, <1>l DEF DeadlineAtConsumer, LoopDisconnect, FallbackDisconnect,
                        Contract!Leave, Running
  <2> QED OBVIOUS
<1>7. CASE RespondDisconnect
  <2>1. reply = Contract!Waiting
      BY <1>7 DEF RespondDisconnect, Lifecycle, Awaited, Contract!Waiting
  <2> QED BY <1>7, <2>1 DEF RespondDisconnect, Contract!Leave
<1> QED BY <1>1, <1>2, <1>3, <1>4, <1>5, <1>6, <1>7 DEF Controller, Client

\* A turn closes its row at most once, tells only the answer it stored, and tells
\* nothing twice, whatever its workers, its deadline and its client do (agent.py).
THEOREM TurnKeepsContract == Spec => KeepsContract
<1>1. Init => Contract!ContractInit
    BY DEF Init, Contract!ContractInit, Contract!Open, Contract!Waiting
<1>2. TypeOK /\ Lifecycle /\ [Next]_vars
        => [Contract!ContractNext]_(Contract!contractVars)
  <2>1. UNCHANGED vars => UNCHANGED <<saved, reply>>
      BY DEF vars
  <2> QED BY <2>1, LoopSilent, ControllerKeepsContract DEF Next, Contract!contractVars
<1> QED BY <1>1, <1>2, TypeCorrect, LifecycleInvariant, PTL
        DEF Spec, KeepsContract, Contract!ContractSpec
-----------------------------------------------------------------------------
(* What the answer of a turn may recommend, and what its searches cost.                    *)

\* A draft is asked for only about products that were compared, and comparisons are
\* never forgotten.
DraftsCompared ==
    \A c \in Calls : At(c, "synthesize", "model") => ComparisonCovers(run, call[c].ids)

\* An answer of the fallback is given once the loop is over and nobody else runs, so
\* what it was derived from does not change any more.
RecoveryIsFinal ==
    /\ run.record.origin = "controller_fallback" =>
        Quiet /\ phase \in {"fallback", "persist", "respond", "done", "unsaved"}
    /\ run.record.reason = "no_matching_products" =>
        run.record.origin = "controller_fallback"

Recommends == DraftsCompared /\ ComparedTogether /\ RecoveryIsFinal
              /\ FallbackStaysInPool /\ NoMatchesMeansNoMatches

----------------------------------------------------------------------------
(* Comparisons.                                                            *)

\* A comparison that covers a selection covers every part of it, and later ones only
\* add to it (_comparison_covers).
LEMMA CoversPart ==
    ASSUME NEW r \in RunStates, NEW q \in RunStates, r.compared \subseteq q.compared,
           NEW ids \in SUBSET Products, NEW part \in SUBSET ids,
           ComparisonCovers(r, ids)
    PROVE  ComparisonCovers(q, part)
<1>1. IsFiniteSet(ids) /\ Cardinality(ids) \in Nat
    BY ProductsAssumption, FS_Subset, FS_CardinalityType
<1>2. Cardinality(part) \in Nat /\ Cardinality(part) <= Cardinality(ids)
    BY <1>1, FS_Subset, FS_CardinalityType
<1> QED BY <1>1, <1>2 DEF ComparisonCovers

----------------------------------------------------------------------------
(* What a worker does to the answer.                                       *)

\* Except for synthesis, the tools leave the answer alone, add to the comparisons and
\* never stand before the model call of a draft.
LEMMA ReadersLeaveAnswer ==
    ASSUME TypeOK, NEW c \in Calls,
           \/ CallRefused(c) \/ Uncaught(c)
           \/ SearchReserve(c) \/ SearchCheck(c) \/ SearchClear(c)
           \/ SearchFails(c) \/ SearchReturns(c) \/ SearchGrants(c)
           \/ EvidenceStart(c) \/ EvidenceReturns(c) \/ EvidenceFails(c)
           \/ Compare(c)
           \/ ExplainStart(c) \/ ExplainReturns(c) \/ ExplainFails(c)
    PROVE  /\ run'.record = run.record /\ run.compared \subseteq run'.compared
           /\ \A d \in Calls \ {c} : call'[d] = call[d]
           /\ call'[c].pc # "model"
<1> DEFINE Leaves == run'.record = run.record /\ run.compared \subseteq run'.compared
           Moves == (\A d \in Calls \ {c} : call'[d] = call[d]) /\ call'[c].pc # "model"
<1>r. run \in RunStates
    BY DEF TypeOK
<1>s. UNCHANGED run => Leaves
    OBVIOUS
<1>f. Finish(c) => Moves
    BY DEF TypeOK, Finish, Idle
<1>g. \A pc \in Points : Goto(c, pc) /\ pc # "model" => Moves
    BY DEF TypeOK, Goto, CallStates
<1> SUFFICES Leaves /\ Moves
    OBVIOUS
<1> HIDE DEF Moves
<1>1. CASE CallRefused(c) \/ Uncaught(c)
    BY <1>1, <1>s, <1>f DEF CallRefused, Uncaught
<1>2. CASE SearchReserve(c)
    BY <1>2, <1>r, <1>s, <1>f, <1>g DEF SearchReserve, Reserve, Write, Points, RunStates
<1>3. CASE SearchCheck(c)
    BY <1>3, <1>s, <1>g DEF SearchCheck, Points
<1>4. CASE SearchClear(c)
    BY <1>4, <1>r, <1>g DEF SearchClear, Write, Points, RunStates
<1>5. CASE SearchFails(c)
    BY <1>5, <1>r, <1>f DEF SearchFails, Write, RunStates
<1>6. CASE SearchReturns(c)
  <2>1. PICK found \in SUBSET Eligible :
              call' = [call EXCEPT ![c] =
                         IF found = {} THEN Idle
                         ELSE [@ EXCEPT !.pc = "grant", !.ids = found]]
      BY <1>6 DEF SearchReturns
  <2>3. call \in [Calls -> CallStates] /\ call[c] \in CallStates
      BY DEF TypeOK
  <2>4. [call[c] EXCEPT !.pc = "grant", !.ids = found].pc = "grant" /\ Idle.pc = "idle"
      BY <2>3 DEF CallStates, Idle
  <2>5. call'[c].pc # "model"
      BY <2>1, <2>3, <2>4
  <2>6. Moves
      BY <2>1, <2>3, <2>5 DEF Moves
  <2>2. Leaves
      BY <1>6, <1>r DEF SearchReturns, Write, RunStates
  <2> QED BY <2>2, <2>6
<1>7. CASE SearchGrants(c)
    BY <1>7, <1>r, <1>f DEF SearchGrants, Write, RunStates
<1>8. CASE EvidenceStart(c)
    BY <1>8, <1>s, <1>f, <1>g DEF EvidenceStart, Points
<1>9. CASE EvidenceReturns(c) \/ EvidenceFails(c)
    BY <1>9, <1>r, <1>f DEF EvidenceReturns, EvidenceFails, Write, RunStates
<1>10. CASE Compare(c)
  <2>1. \/ UNCHANGED run
        \/ run' = [run EXCEPT !.compared = @ \cup {call[c].ids}, !.traced = TRUE]
      BY <1>10 DEF Compare, Write
  <2>2. UNCHANGED run \/ /\ run'.compared = run.compared \cup {call[c].ids}
                         /\ run'.record = run.record
      BY <2>1, <1>r DEF RunStates
  <2> QED BY <1>10, <1>f, <2>2 DEF Compare
<1>11. CASE ExplainStart(c)
    BY <1>11, <1>s, <1>f, <1>g DEF ExplainStart, Points
<1>12. CASE ExplainReturns(c)
    BY <1>12, <1>r, <1>f DEF ExplainReturns, Explained, Write, RunStates
<1>13. CASE ExplainFails(c)
    BY <1>13, <1>s, <1>f DEF ExplainFails
<1> QED BY <1>1, <1>2, <1>3, <1>4, <1>5, <1>6, <1>7, <1>8, <1>9, <1>10, <1>11, <1>12,
           <1>13 DEF Moves

\* Synthesis writes an answer of the model's, about products of a draft it asked for
\* after their comparison.
LEMMA SynthesisAnswers ==
    ASSUME TypeOK, NEW c \in Calls,
           \/ SynthesisStart(c) \/ SynthesisRecheck(c) \/ SynthesisGate(c)
           \/ SynthesisPublishes(c) \/ SynthesisDeclines(c)
           \/ SynthesisRetries(c) \/ SynthesisFails(c)
    PROVE  /\ run.compared = run'.compared
           /\ \A d \in Calls \ {c} : call'[d] = call[d]
           /\ At(c, "synthesize", "model")' => ComparisonCovers(run, call'[c].ids)
           /\ \/ run'.record = run.record
              \/ /\ run'.record.origin = "model"
                 /\ run'.record.reason # "no_matching_products"
                 /\ run'.record.outcome = "grounded" =>
                      /\ At(c, "synthesize", "model")
                      /\ run'.record.recommendations \subseteq call[c].ids
<1> DEFINE Moves == (\A d \in Calls \ {c} : call'[d] = call[d]) /\ call'[c].pc # "model"
<1>r. run \in RunStates
    BY DEF TypeOK
<1>f. Finish(c) => Moves
    BY DEF TypeOK, Finish, Idle
<1>g. \A pc \in Points :
        Goto(c, pc) => /\ \A d \in Calls \ {c} : call'[d] = call[d]
                       /\ call'[c].pc = pc /\ call'[c].ids = call[c].ids
    BY DEF TypeOK, Goto, CallStates
<1> HIDE DEF Moves
<1>1. CASE SynthesisStart(c)
  <2>1. (Finish(c) \/ Goto(c, "recheck") \/ Goto(c, "gate")) => Moves
      BY <1>f, <1>g DEF Points, Moves
  <2>2. Moves
      BY <1>1, <2>1 DEF SynthesisStart
  <2>3. \/ UNCHANGED run
        \/ run' = [run EXCEPT !.record = Declined("unanchored", "model"), !.traced = TRUE]
      BY <1>1 DEF SynthesisStart, Write
  <2>4. \/ UNCHANGED run
        \/ /\ run'.record = Declined("unanchored", "model")
           /\ run'.compared = run.compared
      BY <2>3, <1>r DEF RunStates
  <2> QED BY <2>2, <2>4 DEF Moves, Declined, At
<1>2. CASE SynthesisRecheck(c)
  <2>1. Moves
      BY <1>2, <1>f, <1>g DEF SynthesisRecheck, Points, Moves
  <2>2. run'.record = run.record /\ run'.compared = run.compared
      BY <1>2, <1>r DEF SynthesisRecheck, Write, RunStates
  <2> QED BY <2>1, <2>2 DEF Moves, At
<1>3. CASE SynthesisGate(c)
  <2>1. run'.record = run.record /\ run'.compared = run.compared
      BY <1>3, <1>r DEF SynthesisGate, Write, RunStates
  <2>2. Moves \/ (Gated(run, call[c].ids) /\ Goto(c, "model"))
      BY <1>3, <1>f DEF SynthesisGate
  <2>3. CASE Moves
      BY <2>1, <2>3 DEF Moves, At
  <2>4. CASE Gated(run, call[c].ids) /\ Goto(c, "model")
    <3>1. /\ \A d \in Calls \ {c} : call'[d] = call[d]
          /\ call'[c].ids = call[c].ids
        BY <2>4, <1>g DEF Points
    <3>2. ComparisonCovers(run, call'[c].ids)
        BY <2>4, <3>1 DEF Gated
    <3> QED BY <2>1, <3>1, <3>2
  <2> QED BY <2>2, <2>3, <2>4
<1>4. CASE SynthesisPublishes(c)
  <2>1. PICK answer \in Publications(call[c].ids) :
              run' = [run EXCEPT !.record = answer, !.traced = TRUE]
      BY <1>4 DEF SynthesisPublishes, Write
  <2>2. run'.record = answer /\ run'.compared = run.compared
      BY <2>1, <1>r DEF RunStates
  <2>3. /\ answer.origin = "model" /\ answer.reason = "none"
        /\ answer.recommendations \subseteq call[c].ids
      BY DEF Publications, Grounded
  <2> QED BY <1>4, <2>2, <2>3, <1>f DEF SynthesisPublishes, Moves, At
<1>5. CASE SynthesisDeclines(c)
  <2>1. /\ run'.record = Declined("unsupported", "model")
        /\ run'.compared = run.compared
      BY <1>5, <1>r DEF SynthesisDeclines, Write, RunStates
  <2> QED BY <1>5, <2>1, <1>f DEF SynthesisDeclines, Declined, Moves, At
<1>6. CASE SynthesisRetries(c) \/ SynthesisFails(c)
  <2>1. run'.record = run.record /\ run'.compared = run.compared
      BY <1>6, <1>r DEF SynthesisRetries, SynthesisFails, Write, RunStates
  <2> QED BY <1>6, <2>1, <1>f DEF SynthesisRetries, SynthesisFails, Moves, At
<1> QED BY <1>1, <1>2, <1>3, <1>4, <1>5, <1>6

\* A worker's step keeps Recommends: it can only publish what a draft was asked for,
\* and it does not run beside an answer of the fallback.
LEMMA WorkerRecommends ==
    ASSUME TypeOK, TypeOK', Recommends, NEW c \in Calls, Worker(c)
    PROVE  Recommends'
<1>1. ~Quiet
    BY WorkerFrame DEF Quiet
<1>2. run.record.origin # "controller_fallback"
    BY <1>1 DEF Recommends, RecoveryIsFinal
<1>3. /\ run.compared \subseteq run'.compared
      /\ \A d \in Calls \ {c} : call'[d] = call[d]
      /\ At(c, "synthesize", "model")' => ComparisonCovers(run, call'[c].ids)
      /\ \/ run'.record = run.record
         \/ /\ run'.record.origin = "model"
            /\ run'.record.reason # "no_matching_products"
            /\ run'.record.outcome = "grounded" =>
                 /\ At(c, "synthesize", "model")
                 /\ run'.record.recommendations \subseteq call[c].ids
    BY ReadersLeaveAnswer, SynthesisAnswers DEF Worker, At
<1>4. /\ run \in RunStates /\ run' \in RunStates
      /\ \A d \in Calls : call[d].ids \in SUBSET Products /\ call'[d].ids \in SUBSET Products
    BY DEF TypeOK, CallStates
<1>5. DraftsCompared'
    BY <1>3, <1>4, CoversPart DEF Recommends, DraftsCompared, At
<1>6. ComparedTogether'
  <2> SUFFICES ASSUME run'.record.outcome = "grounded"
               PROVE  ComparisonCovers(run', run'.record.recommendations)
      BY DEF ComparedTogether
  <2>1. CASE run'.record = run.record
    <3>1. ComparisonCovers(run, run.record.recommendations)
        BY <2>1 DEF Recommends, ComparedTogether
    <3>2. run.record.recommendations \in SUBSET Products
        BY <1>4 DEF RunStates, AnswerRecords, NoAnswer, Grounded, Declined
    <3> QED BY <1>3, <1>4, <2>1, <3>1, <3>2, CoversPart
  <2>2. CASE run'.record # run.record
    <3>1. /\ ComparisonCovers(run, call[c].ids)
          /\ run'.record.recommendations \subseteq call[c].ids
        BY <1>3, <2>2 DEF Recommends, DraftsCompared
    <3> QED BY <1>3, <1>4, <3>1, CoversPart
  <2> QED BY <2>1, <2>2
<1>7. run'.record.origin # "controller_fallback"
      /\ run'.record.reason # "no_matching_products"
    BY <1>2, <1>3 DEF Recommends, RecoveryIsFinal
<1>8. RecoveryIsFinal' /\ FallbackStaysInPool' /\ NoMatchesMeansNoMatches'
    BY <1>7 DEF RecoveryIsFinal, FallbackStaysInPool, NoMatchesMeansNoMatches
<1> QED BY <1>5, <1>6, <1>8 DEF Recommends

----------------------------------------------------------------------------
(* What the fallback does to the answer.                                   *)

\* What a run and a copy of it agree on: the searches of the turn and what they
\* returned; comparisons are only added.
SameSearches(r, q) ==
    /\ q.attempts = r.attempts /\ q.searches = r.searches /\ q.failed = r.failed
    /\ q.retrieved = r.retrieved /\ r.compared \subseteq q.compared

\* The steps the fallback fills in are no searches and no answer.
LEMMA FillingKeeps ==
    ASSUME NEW r \in RunStates, NEW s \in SUBSET Products, NEW e \in SUBSET Products
    PROVE  /\ SameSearches(r, Sourced(r, s, e)) /\ Sourced(r, s, e).record = r.record
           /\ SameSearches(r, Filled(r, s)) /\ Filled(r, s).record = r.record
<1>1. \A t \in SUBSET Products :
        SameSearches(r, Sourced(r, s, t)) /\ Sourced(r, s, t).record = r.record
    BY DEF RunStates, Sourced, SameSearches
<1>2. \A q \in RunStates :
        SameSearches(q, Explained(q, "current")) /\ Explained(q, "current").record = q.record
    BY DEF RunStates, Explained, SameSearches
<1>3. Sourced(r, s, s) \in RunStates
    BY DEF RunStates, Sourced
<1>4. Filled(r, s) \in {Sourced(r, s, s), Explained(Sourced(r, s, s), "current")}
    BY DEF Filled
<1> QED BY <1>1, <1>2, <1>3, <1>4 DEF SameSearches

\* What an answer of the fallback recommends was compared together and, after an
\* attempted retrieval, comes from it; "no matching products" needs completed searches
\* only, and empty ones.
FallbackAnswer(q) ==
    /\ q.record.origin = "controller_fallback"
    /\ q.record.outcome = "grounded" =>
         /\ ComparisonCovers(q, q.record.recommendations)
         /\ q.searches + q.failed > 0 => q.record.recommendations \subseteq q.retrieved
    /\ q.record.reason = "no_matching_products" =>
         q.searches > 0 /\ q.failed = 0 /\ q.retrieved = {}

\* A fallback leaves the answer alone or gives one of its own.
LEMMA FinalizedAnswers ==
    ASSUME NEW r \in RunStates, NEW q \in Finalized(r)
    PROVE  SameSearches(r, q) /\ (q.record = r.record \/ FallbackAnswer(q))
<1>1. CASE q = r
    BY <1>1 DEF SameSearches
<1>2. ASSUME NEW reason \in Reasons,
             reason = "no_matching_products" => NoMatches(r),
             q = [r EXCEPT !.record = Declined(reason, "controller_fallback")]
      PROVE  SameSearches(r, q) /\ FallbackAnswer(q)
  <2>1. SameSearches(r, q) /\ q.record = Declined(reason, "controller_fallback")
      BY <1>2 DEF RunStates, SameSearches
  <2> QED BY <1>2, <2>1 DEF FallbackAnswer, Declined, NoMatches, SameSearches
<1>3. ASSUME NEW s \in SUBSET Products, q \in RecoveredFrom(r, s)
      PROVE  SameSearches(r, q) /\ (q.record = r.record \/ FallbackAnswer(q))
  <2> DEFINE filled == Filled(r, s)
             final == FinalSelection(r, s)
  <2>1. /\ SameSearches(r, filled) /\ filled.record = r.record
        /\ filled \in RunStates
    <3>1. Sourced(r, s, s) \in RunStates
        BY DEF RunStates, Sourced
    <3> QED BY <3>1, FillingKeeps, ExplainedTyped DEF Filled
  <2>2. CASE \E e \in SUBSET s : q = Sourced(r, s, e)
      BY <2>2, FillingKeeps
  <2> HIDE DEF filled
  <2>3. CASE q = [filled EXCEPT !.products = @ \ Excluded(r, final)]
      BY <2>1, <2>3 DEF SameSearches, RunStates
  <2>4. ASSUME NEW answer \in FinalAnswers(r, s), Finalizable(filled, s),
               q = [filled EXCEPT !.record = answer]
        PROVE  SameSearches(r, q) /\ FallbackAnswer(q)
    <3>1. /\ SameSearches(r, q) /\ q.record = answer
          /\ q.compared = filled.compared /\ q.retrieved = filled.retrieved
          /\ q.searches = filled.searches /\ q.failed = filled.failed
          /\ q \in RunStates
      <4>1. answer \in AnswerRecords
          BY AnswersTyped DEF FinalAnswers, FinalSelection, Reasons, Origins
      <4> QED BY <2>1, <2>4, <4>1 DEF SameSearches, RunStates
    <3>2. CASE answer = Declined("unsupported", "controller_fallback")
        BY <3>1, <3>2 DEF FallbackAnswer, Declined
    <3>3. CASE \E recs \in SUBSET final \ {{}} :
                 answer = Grounded(recs, "controller_fallback")
      <4>1. PICK recs \in SUBSET final : answer = Grounded(recs, "controller_fallback")
          BY <3>3
      <4>2. Attempted(filled) <=> Attempted(r)
          BY <2>1 DEF Attempted, SameSearches
      <4>3. FinalSelection(filled, s) = final
          BY <2>1, <4>2 DEF FinalSelection, SameSearches
      <4>4. ComparisonCovers(filled, final)
          BY <2>4, <4>3 DEF Finalizable
      <4>5. final \in SUBSET Products
          BY DEF FinalSelection
      <4>6. ComparisonCovers(q, recs)
          BY <2>1, <3>1, <4>1, <4>4, <4>5, CoversPart
      <4>7. q.searches + q.failed > 0 => recs \subseteq q.retrieved
          BY <2>1, <3>1, <4>1 DEF FinalSelection, Attempted, SameSearches
      <4> QED BY <3>1, <4>1, <4>6, <4>7 DEF FallbackAnswer, Grounded
    <3> QED BY <3>2, <3>3 DEF FinalAnswers
  <2> QED BY <1>3, <2>2, <2>3, <2>4 DEF RecoveredFrom, filled
<1>4. \A s \in FallbackSelections(r) : s \in SUBSET Products
    BY DEF FallbackSelections, Shortlists, RunStates
<1> QED BY <1>1, <1>2, <1>3, <1>4 DEF Finalized, Recovered, Reasons

\* Once no worker runs, an answer of the fallback is all that can change.
LEMMA FallbackRecommends ==
    ASSUME TypeOK, TypeOK', Recommends, Quiet', UNCHANGED call,
           phase' \in {"fallback", "persist", "respond", "done", "unsaved"},
           SameSearches(run, run'), run'.record = run.record \/ FallbackAnswer(run')
    PROVE  Recommends'
<1>1. DraftsCompared'
    BY DEF DraftsCompared, Quiet, At
<1>2. CASE run'.record = run.record
  <2>1. RecoveryIsFinal' /\ NoMatchesMeansNoMatches' /\ FallbackStaysInPool'
      BY <1>2 DEF Recommends, RecoveryIsFinal, SameSearches, NoMatchesMeansNoMatches,
                  FallbackStaysInPool
  <2>2. ComparedTogether'
    <3>1. run \in RunStates /\ run' \in RunStates
        BY DEF TypeOK
    <3>2. run.record.recommendations \in SUBSET Products
        BY <3>1 DEF RunStates, AnswerRecords, NoAnswer, Grounded, Declined
    <3> QED BY <1>2, <3>1, <3>2, CoversPart DEF Recommends, ComparedTogether, SameSearches
  <2> QED BY <1>1, <2>1, <2>2 DEF Recommends
<1>3. CASE FallbackAnswer(run')
  <2>1. RecoveryIsFinal' /\ NoMatchesMeansNoMatches' /\ FallbackStaysInPool'
        /\ ComparedTogether'
      BY <1>3 DEF RecoveryIsFinal, FallbackAnswer, NoMatchesMeansNoMatches,
                  FallbackStaysInPool, ComparedTogether
  <2> QED BY <1>1, <2>1 DEF Recommends
<1> QED BY <1>2, <1>3

\* Steps that leave the run alone keep Recommends while the loop or its snapshot lasts,
\* and as long as they start no draft.
LEMMA SilentRecommends ==
    ASSUME Recommends, UNCHANGED run,
           \A c \in Calls : At(c, "synthesize", "model")' => call'[c] = call[c],
           \/ run.record.origin # "controller_fallback"
           \/ /\ UNCHANGED call
              /\ phase' \in {"fallback", "persist", "respond", "done", "unsaved"}
    PROVE  Recommends'
BY DEF Recommends, DraftsCompared, RecoveryIsFinal, ComparedTogether, FallbackStaysInPool,
       NoMatchesMeansNoMatches, Quiet, At

\* The steps of the loop, its deadline and its end are silent.
LEMMA LoopRecommends ==
    ASSUME TypeOK, Recommends,
           \/ ModelTurn \/ LoopEnds \/ LoopStops \/ \E c \in Calls : BeforeToolCall(c)
           \/ LoopDeadline \/ SnapshotTaken \/ SnapshotRaises
           \/ DeadlineAtConsumer \/ LoopDisconnect
    PROVE  Recommends'
<1>1. phase \in {"loop", "snapshot"} /\ UNCHANGED run
    BY DEF ModelTurn, LoopEnds, LoopStops, BeforeToolCall, LoopDeadline, TimesOut,
           SnapshotTaken, SnapshotRaises, DeadlineAtConsumer, LoopDisconnect
<1>2. run.record.origin # "controller_fallback"
    BY <1>1 DEF Recommends, RecoveryIsFinal
<1>3. ASSUME NEW d \in Calls, At(d, "synthesize", "model")'
      PROVE  call'[d] = call[d]
  <2>1. CASE ModelTurn
    <3>1. \A q \in Requests \cup {Idle} : q.pc # "model"
        BY DEF Requests, Request, Idle
    <3> QED BY <1>3, <2>1, <3>1 DEF ModelTurn, At
  <2>2. CASE \E c \in Calls : BeforeToolCall(c)
    <3>1. PICK c \in Calls : BeforeToolCall(c)
        BY <2>2
    <3>2. call' = [call EXCEPT ![c].pc = "start"] \/ call' = [call EXCEPT ![c] = Idle]
        BY <3>1 DEF BeforeToolCall, Goto, Finish
    <3>3. call \in [Calls -> CallStates] /\ call[c] \in CallStates
        BY DEF TypeOK
    <3>4. [call[c] EXCEPT !.pc = "start"].pc = "start" /\ Idle.pc = "idle"
        BY <3>3 DEF CallStates, Idle
    <3> QED BY <1>3, <3>2, <3>3, <3>4 DEF At
  <2>3. CASE call' = Dropped
      BY <1>3, <2>3 DEF Dropped, At, Idle
  <2>4. CASE UNCHANGED call
      BY <2>4
  <2> QED BY <2>1, <2>2, <2>3, <2>4
          DEF LoopEnds, LoopStops, LoopDeadline, SnapshotTaken, SnapshotRaises,
              DeadlineAtConsumer, LoopDisconnect
<1> QED BY <1>1, <1>2, <1>3, SilentRecommends

\* So do the steps of the controller and the client after the loop.
LEMMA OutcomeRecommends ==
    ASSUME TypeOK, TypeOK', Lifecycle, Recommends,
           \/ AfterLoop \/ FallbackReturns \/ FallbackDeadline \/ FallbackDisconnect
           \/ Persist \/ PersistFails \/ Respond \/ RespondDisconnect
    PROVE  Recommends'
<1>1. CASE AfterLoop
  <2>1. Quiet /\ UNCHANGED call
      BY <1>1 DEF AfterLoop, Lifecycle, Running
  <2>2. SameSearches(run, run') /\ (run'.record = run.record \/ FallbackAnswer(run'))
      BY <1>1 DEF AfterLoop, TypeOK, RunStates, SameSearches, FallbackAnswer, Declined
  <2> QED BY <1>1, <2>1, <2>2, FallbackRecommends DEF AfterLoop, Quiet
<1>2. CASE FallbackReturns \/ FallbackDeadline \/ FallbackDisconnect
  <2>1. Quiet /\ UNCHANGED call /\ phase' = "persist"
      BY <1>2 DEF FallbackReturns, FallbackDeadline, FallbackDisconnect, Lifecycle, Running
  <2>2. run' = run \/ run' \in Finalized(run)
      BY <1>2 DEF FallbackReturns, FallbackDeadline, FallbackDisconnect, Published
  <2>3. SameSearches(run, run') /\ (run'.record = run.record \/ FallbackAnswer(run'))
      BY <2>2, FinalizedAnswers DEF TypeOK, SameSearches
  <2> QED BY <2>1, <2>3, FallbackRecommends DEF Quiet
<1>3. CASE Persist \/ PersistFails \/ Respond \/ RespondDisconnect
  <2>1. /\ UNCHANGED <<run, call>>
        /\ phase' \in {"fallback", "persist", "respond", "done", "unsaved"}
      BY <1>3 DEF Persist, AfterPersist, PersistFails, Respond, RespondDisconnect
  <2> QED BY <2>1, SilentRecommends
<1> QED BY <1>1, <1>2, <1>3

\* Recommends holds initially and every step keeps it.
LEMMA RecommendsInvariant == Spec => []Recommends
<1>1. Init => Recommends
    BY DEF Init, StartRun, NoAnswer, Idle, At, Recommends, DraftsCompared, ComparedTogether,
           RecoveryIsFinal, FallbackStaysInPool, NoMatchesMeansNoMatches
<1>2. ASSUME Recommends, UNCHANGED vars
      PROVE  Recommends'
    BY <1>2 DEF vars, Recommends, DraftsCompared, RecoveryIsFinal, ComparedTogether,
                FallbackStaysInPool, NoMatchesMeansNoMatches, Quiet, At
<1>3. TypeOK /\ TypeOK' /\ Lifecycle /\ Recommends /\ [Next]_vars => Recommends'
    BY <1>2, WorkerRecommends, LoopRecommends, OutcomeRecommends DEF Next, Controller, Client
<1> QED BY <1>1, <1>3, TypeCorrect, LifecycleInvariant, PTL DEF Spec

----------------------------------------------------------------------------
(* What it gives the shopper.                                              *)

\* Whatever runs beside a synthesis, products recommended together were compared
\* together, on the model's path and on the fallback's (_comparison_covers).
THEOREM AnswerCompared == Spec => []ComparedTogether
<1>1. Recommends => ComparedTogether
    BY DEF Recommends
<1> QED BY <1>1, RecommendsInvariant, PTL

\* The fallback never recommends the previous answer's products once the turn attempted
\* a retrieval (finalize_retrieved_answer).
THEOREM FallbackInPool == Spec => []FallbackStaysInPool
<1>1. Recommends => FallbackStaysInPool
    BY DEF Recommends
<1> QED BY <1>1, RecommendsInvariant, PTL

\* "No matching products" stays true for as long as it is the answer: every search of
\* the turn completed and was empty (set_no_results_answer_of_record).
THEOREM NoMatchesHonest == Spec => []NoMatchesMeansNoMatches
<1>1. Recommends => NoMatchesMeansNoMatches
    BY DEF Recommends
<1> QED BY <1>1, RecommendsInvariant, PTL

----------------------------------------------------------------------------
(* Search slots.                                                           *)

\* A call that joins or leaves the searches in flight changes their number by one.
LEMMA SearchingChange ==
    ASSUME NEW c \in Calls, \A d \in Calls \ {c} : call'[d] = call[d]
    PROVE  /\ Cardinality(Searching) \in Nat
           /\ Cardinality(Searching') =
                IF c \in Searching' /\ c \notin Searching THEN Cardinality(Searching) + 1
                ELSE IF c \notin Searching' /\ c \in Searching
                THEN Cardinality(Searching) - 1 ELSE Cardinality(Searching)
<1>1. IsFiniteSet(Searching) /\ Cardinality(Searching) \in Nat
  <2>1. Searching \subseteq Calls
      BY DEF Searching
  <2> QED BY <2>1, CallsAssumption, FS_Subset, FS_CardinalityType
<1>2. CASE c \in Searching' /\ c \notin Searching
  <2>1. Searching' = Searching \cup {c}
      BY <1>2 DEF Searching
  <2> QED BY <1>1, <1>2, <2>1, FS_AddElement
<1>3. CASE c \notin Searching' /\ c \in Searching
  <2>1. Searching' = Searching \ {c}
      BY <1>3 DEF Searching
  <2> QED BY <1>1, <1>3, <2>1, FS_RemoveElement
<1>4. CASE c \in Searching' <=> c \in Searching
  <2>1. Searching' = Searching
      BY <1>4 DEF Searching
  <2> QED BY <1>1, <1>4, <2>1
<1> QED BY <1>2, <1>3, <1>4

\* What a step of worker c does to the slots: nothing, reserve one that is free, or
\* record the outcome of the one it holds.
SlotsUntouched(c) ==
    /\ run'.attempts = run.attempts /\ run'.searches = run.searches
    /\ run'.failed = run.failed
    /\ c \in Searching' <=> c \in Searching
SlotReserved(c) ==
    /\ SlotFree(run) /\ run'.attempts = run.attempts + 1
    /\ run'.searches = run.searches /\ run'.failed = run.failed
    /\ c \notin Searching /\ c \in Searching'
SlotSettled(c) ==
    /\ run'.attempts = run.attempts
    /\ \/ run'.searches = run.searches + 1 /\ run'.failed = run.failed
       \/ run'.searches = run.searches /\ run'.failed = run.failed + 1
    /\ c \in Searching /\ c \notin Searching'

\* Only search_products touches the slots, whatever its calls meet.
LEMMA WorkerSlots ==
    ASSUME TypeOK, NEW c \in Calls, Worker(c)
    PROVE  SlotsUntouched(c) \/ SlotReserved(c) \/ SlotSettled(c)
<1> DEFINE Counts == /\ run'.attempts = run.attempts /\ run'.searches = run.searches
                     /\ run'.failed = run.failed
<1>r. run \in RunStates /\ call \in [Calls -> CallStates]
    BY DEF TypeOK
<1>f. Finish(c) => c \notin Searching'
    BY <1>r DEF Finish, Idle, Searching
<1>g. \A pc \in Points :
        Goto(c, pc) =>
          (c \in Searching' <=> call[c].tool = "search" /\ pc \in {"reserved", "clear", "net"})
    BY <1>r DEF Goto, CallStates, Searching
<1>u. UNCHANGED run => Counts
    OBVIOUS
<1>1. CASE CallRefused(c) \/ Uncaught(c)
    BY <1>1, <1>f DEF CallRefused, Uncaught, SlotsUntouched, Searching, At
<1>2. CASE SearchReserve(c)
  <2>1. c \notin Searching
      BY <1>2 DEF SearchReserve, At, Searching
  <2>2. CASE SlotFree(run)
    <3>1. run'.attempts = run.attempts + 1 /\ run'.searches = run.searches
          /\ run'.failed = run.failed
        BY <1>2, <2>2, <1>r DEF SearchReserve, Write, Reserve, RunStates
    <3>2. c \in Searching'
        BY <1>2, <2>2, <1>g DEF SearchReserve, At, Points
    <3> QED BY <2>1, <2>2, <3>1, <3>2 DEF SlotReserved
  <2>3. CASE ~SlotFree(run)
      BY <1>2, <2>1, <2>3, <1>f DEF SearchReserve, SlotsUntouched
  <2> QED BY <2>2, <2>3
<1>3. CASE SearchCheck(c)
  <2>1. c \in Searching /\ c \in Searching'
      BY <1>3, <1>g DEF SearchCheck, At, Points, Searching
  <2> QED BY <1>3, <2>1 DEF SearchCheck, SlotsUntouched
<1>4. CASE SearchClear(c)
  <2>1. c \in Searching /\ c \in Searching'
      BY <1>4, <1>g DEF SearchClear, At, Points, Searching
  <2>2. Counts
      BY <1>4, <1>r DEF SearchClear, Write, RunStates
  <2> QED BY <2>1, <2>2 DEF SlotsUntouched
<1>5. CASE SearchFails(c)
  <2>1. c \in Searching /\ c \notin Searching'
      BY <1>5, <1>f DEF SearchFails, At, Searching
  <2>2. /\ run'.attempts = run.attempts /\ run'.searches = run.searches
        /\ run'.failed = run.failed + 1
      BY <1>5, <1>r DEF SearchFails, Write, RunStates
  <2> QED BY <2>1, <2>2 DEF SlotSettled
<1>6. CASE SearchReturns(c)
  <2>1. PICK found \in SUBSET Eligible :
              call' = [call EXCEPT ![c] =
                         IF found = {} THEN Idle
                         ELSE [@ EXCEPT !.pc = "grant", !.ids = found]]
      BY <1>6 DEF SearchReturns
  <2>2. call[c] \in CallStates
      BY <1>r
  <2>3. [call[c] EXCEPT !.pc = "grant", !.ids = found].pc = "grant" /\ Idle.pc = "idle"
      BY <2>2 DEF CallStates, Idle
  <2>4. c \in Searching /\ c \notin Searching'
      BY <1>6, <1>r, <2>1, <2>3 DEF SearchReturns, At, Searching
  <2>5. /\ run'.attempts = run.attempts /\ run'.searches = run.searches + 1
        /\ run'.failed = run.failed
      BY <1>6, <1>r DEF SearchReturns, Write, RunStates
  <2> QED BY <2>4, <2>5 DEF SlotSettled
<1>7. CASE SearchGrants(c)
  <2>1. Counts
      BY <1>7, <1>r DEF SearchGrants, Write, RunStates
  <2> QED BY <1>7, <2>1, <1>f DEF SearchGrants, At, SlotsUntouched, Searching
<1>8. ASSUME call[c].tool # "search", Counts,
             Finish(c) \/ \E pc \in Points : Goto(c, pc)
      PROVE  SlotsUntouched(c)
    BY <1>8, <1>f, <1>g DEF SlotsUntouched, Searching
<1> HIDE DEF Counts
<1>9. CASE EvidenceStart(c) \/ EvidenceReturns(c) \/ EvidenceFails(c)
  <2>1. Counts
      BY <1>9, <1>r, <1>u DEF EvidenceStart, EvidenceReturns, EvidenceFails, Write,
                              RunStates, Counts
  <2> QED BY <1>9, <2>1, <1>8
          DEF EvidenceStart, EvidenceReturns, EvidenceFails, At, Points
<1>10. CASE Compare(c)
  <2>1. Counts
      BY <1>10, <1>r, <1>u DEF Compare, Write, RunStates, Counts
  <2> QED BY <1>10, <2>1, <1>8 DEF Compare, At
<1>11. CASE ExplainStart(c) \/ ExplainReturns(c) \/ ExplainFails(c)
  <2>1. Counts
      BY <1>11, <1>r, <1>u DEF ExplainStart, ExplainReturns, ExplainFails, Explained,
                               Write, RunStates, Counts
  <2> QED BY <1>11, <2>1, <1>8 DEF ExplainStart, ExplainReturns, ExplainFails, At, Points
<1>12. CASE SynthesisStart(c) \/ SynthesisRecheck(c) \/ SynthesisGate(c)
  <2>1. Counts
      BY <1>12, <1>r, <1>u DEF SynthesisStart, SynthesisRecheck, SynthesisGate, Write,
                               RunStates, Counts
  <2> QED BY <1>12, <2>1, <1>8
          DEF SynthesisStart, SynthesisRecheck, SynthesisGate, At, Points
<1>13. CASE \/ SynthesisPublishes(c) \/ SynthesisDeclines(c)
            \/ SynthesisRetries(c) \/ SynthesisFails(c)
  <2>1. Counts
      BY <1>13, <1>r DEF SynthesisPublishes, SynthesisDeclines, SynthesisRetries,
                         SynthesisFails, Write, RunStates, Counts
  <2> QED BY <1>13, <2>1, <1>8
          DEF SynthesisPublishes, SynthesisDeclines, SynthesisRetries, SynthesisFails, At
<1> QED BY <1>1, <1>2, <1>3, <1>4, <1>5, <1>6, <1>7, <1>9, <1>10, <1>11, <1>12, <1>13
        DEF Worker

\* So a worker's step keeps the account of the slots.
LEMMA WorkerKeepsSlots ==
    ASSUME TypeOK, SearchSlotsConserved, NEW c \in Calls, Worker(c)
    PROVE  SearchSlotsConserved'
<1>1. \A d \in Calls \ {c} : call'[d] = call[d]
    BY ReadersLeaveAnswer, SynthesisAnswers DEF Worker
<1>2. /\ run.attempts \in Nat /\ run.searches \in Nat /\ run.failed \in Nat
      /\ Cardinality(Searching) \in Nat /\ SearchSlots \in Nat
    BY <1>1, SearchingChange, BudgetAssumption, RunFields DEF TypeOK
<1>3. CASE SlotsUntouched(c)
  <2>1. Cardinality(Searching') = Cardinality(Searching)
      BY <1>1, <1>3, SearchingChange DEF SlotsUntouched
  <2> QED BY <1>3, <2>1 DEF SlotsUntouched, SearchSlotsConserved
<1>4. CASE SlotReserved(c)
  <2>1. Cardinality(Searching') = Cardinality(Searching) + 1
      BY <1>1, <1>4, SearchingChange DEF SlotReserved
  <2> QED BY <1>2, <1>4, <2>1 DEF SlotReserved, SlotFree, SearchSlotsConserved
<1>5. CASE SlotSettled(c)
  <2>1. Cardinality(Searching') = Cardinality(Searching) - 1
      BY <1>1, <1>5, SearchingChange DEF SlotSettled
  <2> QED BY <1>2, <1>5, <2>1 DEF SlotSettled, SearchSlotsConserved
<1> QED BY <1>3, <1>4, <1>5, WorkerSlots

\* The other steps neither search nor count: a new batch holds no slot yet, the hook
\* comes before the reservation, and the deadline drops only calls that wait for it.
LEMMA OthersKeepSlots ==
    ASSUME TypeOK, SearchSlotsConserved,
           \/ ModelTurn \/ LoopEnds \/ LoopStops \/ \E c \in Calls : BeforeToolCall(c)
           \/ Controller \/ Client
    PROVE  SearchSlotsConserved'
<1> SUFFICES /\ run'.attempts = run.attempts /\ run'.searches = run.searches
             /\ run'.failed = run.failed
             /\ Searching' = Searching
    BY DEF SearchSlotsConserved
<1>r. run \in RunStates /\ call \in [Calls -> CallStates]
    BY DEF TypeOK
<1>q. UNCHANGED call => Searching' = Searching
    BY DEF Searching
<1>1. CASE ModelTurn
  <2>1. \A q \in Requests \cup {Idle} : q.pc \notin {"reserved", "clear", "net"}
      BY DEF Requests, Request, Idle
  <2>2. Searching = {}
      BY <1>1 DEF ModelTurn, Quiet, Searching
  <2>3. Searching' = {}
      BY <1>1, <2>1 DEF ModelTurn, Searching
  <2> QED BY <1>1, <2>2, <2>3 DEF ModelTurn
<1>2. CASE LoopEnds \/ LoopStops
    BY <1>2, <1>q DEF LoopEnds, LoopStops
<1>3. CASE \E c \in Calls : BeforeToolCall(c)
  <2>1. PICK c \in Calls : BeforeToolCall(c)
      BY <1>3
  <2>2. [call[c] EXCEPT !.pc = "start"].pc = "start" /\ Idle.pc = "idle"
      BY <1>r DEF CallStates, Idle
  <2>3. /\ \A d \in Calls \ {c} : call'[d] = call[d]
        /\ call[c].pc = "queued" /\ call'[c].pc \in {"start", "idle"}
      BY <1>r, <2>1, <2>2 DEF BeforeToolCall, Goto, Finish
  <2>4. Searching' = Searching
      BY <2>3 DEF Searching
  <2> QED BY <2>1, <2>4 DEF BeforeToolCall
<1>4. CASE LoopDeadline \/ DeadlineAtConsumer \/ LoopDisconnect
  <2>1. UNCHANGED run /\ call' = Dropped
      BY <1>4 DEF LoopDeadline, DeadlineAtConsumer, LoopDisconnect
  <2>2. Searching' = Searching
      BY <2>1 DEF Dropped, Searching, Idle
  <2> QED BY <2>1, <2>2
<1>5. CASE AfterLoop
  <2>1. /\ run'.attempts = run.attempts /\ run'.searches = run.searches
        /\ run'.failed = run.failed
      BY <1>5, <1>r DEF AfterLoop, RunStates
  <2> QED BY <1>5, <1>q, <2>1 DEF AfterLoop
<1>6. CASE FallbackReturns \/ FallbackDeadline \/ FallbackDisconnect
  <2>1. UNCHANGED call /\ (run' = run \/ run' \in Finalized(run))
      BY <1>6 DEF FallbackReturns, FallbackDeadline, FallbackDisconnect, Published
  <2> QED BY <1>r, <1>q, <2>1, FinalizedAnswers DEF SameSearches
<1>7. CASE \/ SnapshotTaken \/ SnapshotRaises \/ Persist \/ PersistFails \/ Respond
           \/ RespondDisconnect
    BY <1>7, <1>q DEF SnapshotTaken, SnapshotRaises, Persist, PersistFails, Respond,
                      RespondDisconnect
<1> QED BY <1>1, <1>2, <1>3, <1>4, <1>5, <1>6, <1>7 DEF Controller, Client

\* Each reserved slot is one search in flight or one recorded outcome, and at most
\* SearchSlots are reserved, whatever outlives the deadline (_SEARCH_SLOT_LOCK).
THEOREM SearchSlotsKept == Spec => []SearchSlotsConserved
<1>1. Init => SearchSlotsConserved
  <2> SUFFICES ASSUME Init PROVE SearchSlotsConserved
      OBVIOUS
  <2>1. Searching = {} /\ run.attempts = 0 /\ run.searches = 0 /\ run.failed = 0
      BY DEF Init, StartRun, Searching, Idle
  <2> QED BY <2>1, FS_EmptySet, BudgetAssumption DEF SearchSlotsConserved
<1>2. SearchSlotsConserved /\ UNCHANGED vars => SearchSlotsConserved'
    BY DEF vars, SearchSlotsConserved, Searching
<1>3. TypeOK /\ SearchSlotsConserved /\ [Next]_vars => SearchSlotsConserved'
    BY <1>2, WorkerKeepsSlots, OthersKeepSlots DEF Next
<1> QED BY <1>1, <1>3, TypeCorrect, PTL DEF Spec
-----------------------------------------------------------------------------
(* The scope of a turn after a search: what a search may authorize.                        *)

\* The scope holds only what searches returned as soon as nothing was inherited, one
\* search has returned, or one is past the clear that gives the inherited products up.
Replaced ==
    \/ run.context = {} \/ run.searches > 0
    \/ \E c \in Calls : At(c, "search", "net") \/ At(c, "search", "grant")
ScopeIsSearched ==
    /\ Replaced => run.products \subseteq run.retrieved
    /\ \A c \in Calls : At(c, "search", "grant") => call[c].ids \subseteq run.retrieved

\* What every step but a search's does to the scope, at most: take products out of it.
ScopeShrinks(old, new) ==
    /\ new.context = old.context /\ new.searches = old.searches
    /\ new.retrieved = old.retrieved /\ new.products \subseteq old.products

\* A step that adds nothing to the scope and sends no search past its clear keeps it so.
LEMMA ScopeStands ==
    ASSUME ScopeIsSearched, ScopeShrinks(run, run'),
           \A c \in Calls :
              \/ call'[c] = call[c]
              \/ ~At(c, "search", "net")' /\ ~At(c, "search", "grant")'
    PROVE  ScopeIsSearched'
BY DEF ScopeIsSearched, Replaced, ScopeShrinks, At

\* A worker keeps the scope of the turn what its searches returned.
LEMMA WorkerKeepsScope ==
    ASSUME TypeOK, ScopeIsSearched, NEW c \in Calls, Worker(c)
    PROVE  ScopeIsSearched'
<1> DEFINE Shrinks == ScopeShrinks(run, run')
           Moves == /\ \A d \in Calls \ {c} : call'[d] = call[d]
                    /\ ~At(c, "search", "net")' /\ ~At(c, "search", "grant")'
<1>r. run \in RunStates /\ call \in [Calls -> CallStates] /\ call[c] \in CallStates
    BY DEF TypeOK
<1>s. UNCHANGED run => Shrinks
    BY DEF ScopeShrinks
<1>f. Finish(c) => Moves
    BY <1>r DEF Finish, Idle, At
<1>g. \A pc \in Points :
        Goto(c, pc) => /\ \A d \in Calls \ {c} : call'[d] = call[d]
                       /\ call'[c].tool = call[c].tool /\ call'[c].pc = pc
                       /\ call'[c].ids = call[c].ids
    BY <1>r DEF Goto, CallStates
<1>h. ASSUME Shrinks, Moves
      PROVE  ScopeIsSearched'
    BY <1>h, ScopeStands
<1> HIDE DEF Moves
<1>1. CASE CallRefused(c) \/ Uncaught(c)
    BY <1>1, <1>s, <1>f, <1>h DEF CallRefused, Uncaught
<1>2. CASE SearchReserve(c)
  <2>1. Shrinks
      BY <1>2, <1>r, <1>s DEF SearchReserve, Write, Reserve, ScopeShrinks, RunStates
  <2>2. Goto(c, "reserved") => Moves
      BY <1>g DEF Points, Moves, At
  <2> QED BY <1>2, <1>f, <1>h, <2>1, <2>2 DEF SearchReserve
<1>3. CASE SearchCheck(c)
  <2>1. Shrinks
      BY <1>3, <1>s DEF SearchCheck
  <2>2. CASE EndsInheritance(run)
    <3>1. Moves
        BY <1>3, <2>2, <1>g DEF SearchCheck, Points, Moves, At
    <3> QED BY <2>1, <3>1, <1>h
  <2>3. CASE ~EndsInheritance(run)
    <3>1. Replaced
        BY <2>3, <1>r, RunFields DEF EndsInheritance, Replaced
    <3>2. /\ \A d \in Calls \ {c} : call'[d] = call[d]
          /\ ~At(c, "search", "grant")'
        BY <1>3, <2>3, <1>g DEF SearchCheck, Points, At
    <3>3. run' = run
        BY <1>3 DEF SearchCheck
    <3> QED BY <3>1, <3>2, <3>3 DEF ScopeIsSearched, At
  <2> QED BY <2>2, <2>3
<1>4. CASE SearchClear(c)
  <2>1. /\ \A d \in Calls \ {c} : call'[d] = call[d]
        /\ ~At(c, "search", "grant")'
      BY <1>4, <1>g DEF SearchClear, Points, At
  <2>2. run'.products = {} /\ run'.retrieved = run.retrieved
      BY <1>4, <1>r DEF SearchClear, Write, RunStates
  <2> QED BY <2>1, <2>2 DEF ScopeIsSearched, At
<1>5. CASE SearchFails(c)
  <2>1. Shrinks
      BY <1>5, <1>r DEF SearchFails, Write, ScopeShrinks, RunStates
  <2> QED BY <1>5, <1>f, <1>h, <2>1 DEF SearchFails
<1>6. CASE SearchReturns(c)
  <2>1. PICK found \in SUBSET Eligible, verdict \in {"unanchored", "open"} :
          /\ run' = [run EXCEPT !.searches = @ + 1, !.verdicts = @ \cup {verdict},
                                !.retrieved = @ \cup found,
                                !.traced = @ \/ found = {}]
          /\ call' = [call EXCEPT ![c] =
                        IF found = {} THEN Idle
                        ELSE [@ EXCEPT !.pc = "grant", !.ids = found]]
      BY <1>6 DEF SearchReturns, Write
  <2>2. /\ run'.retrieved = run.retrieved \cup found
        /\ run'.products = run.products
      BY <2>1, <1>r DEF RunStates
  <2>3. Replaced
      BY <1>6 DEF SearchReturns, Replaced
  <2>4. [call[c] EXCEPT !.pc = "grant", !.ids = found].ids = found /\ Idle.pc = "idle"
      BY <1>r DEF CallStates, Idle
  <2>5. /\ \A d \in Calls \ {c} : call'[d] = call[d]
        /\ call'[c].ids = found \/ call'[c].pc = "idle"
      BY <2>1, <2>4, <1>r
  <2> QED BY <2>2, <2>3, <2>5 DEF ScopeIsSearched, At
<1>7. CASE SearchGrants(c)
  <2>1. /\ run'.products = run.products \cup call[c].ids
        /\ run'.retrieved = run.retrieved
      BY <1>7, <1>r DEF SearchGrants, Write, RunStates
  <2>2. Replaced /\ call[c].ids \subseteq run.retrieved
      BY <1>7 DEF SearchGrants, Replaced, ScopeIsSearched
  <2>3. Moves
      BY <1>7, <1>f DEF SearchGrants
  <2> QED BY <2>1, <2>2, <2>3 DEF ScopeIsSearched, Moves, At
<1>8. CASE EvidenceStart(c)
  <2>1. Goto(c, "net") => Moves
      BY <1>8, <1>g DEF EvidenceStart, Points, Moves, At
  <2> QED BY <1>8, <1>s, <1>f, <1>h, <2>1 DEF EvidenceStart
<1>9. CASE EvidenceReturns(c) \/ EvidenceFails(c)
  <2>1. Shrinks
      BY <1>9, <1>r DEF EvidenceReturns, EvidenceFails, Write, ScopeShrinks, RunStates
  <2> QED BY <1>9, <1>f, <1>h, <2>1 DEF EvidenceReturns, EvidenceFails
<1>10. CASE Compare(c)
  <2>1. Shrinks
      BY <1>10, <1>r, <1>s DEF Compare, Write, ScopeShrinks, RunStates
  <2> QED BY <1>10, <1>f, <1>h, <2>1 DEF Compare
<1>11. CASE ExplainStart(c)
  <2>1. Goto(c, "net") => Moves
      BY <1>11, <1>g DEF ExplainStart, Points, Moves, At
  <2> QED BY <1>11, <1>s, <1>f, <1>h, <2>1 DEF ExplainStart
<1>12. CASE ExplainReturns(c) \/ ExplainFails(c)
  <2>1. Shrinks
      BY <1>12, <1>r, <1>s DEF ExplainReturns, ExplainFails, Explained, Write, ScopeShrinks,
                               RunStates
  <2> QED BY <1>12, <1>f, <1>h, <2>1 DEF ExplainReturns, ExplainFails
<1>13. CASE SynthesisStart(c)
  <2>1. Shrinks
      BY <1>13, <1>r, <1>s DEF SynthesisStart, Write, ScopeShrinks, RunStates
  <2>2. (Goto(c, "recheck") \/ Goto(c, "gate")) => Moves
      BY <1>g DEF Points, Moves, At
  <2> QED BY <1>13, <1>f, <1>h, <2>1, <2>2 DEF SynthesisStart
<1>14. CASE SynthesisRecheck(c)
  <2>0. \A x : ScopeShrinks(run, [run EXCEPT !.products = @ \ x, !.traced = TRUE])
      BY <1>r DEF ScopeShrinks, RunStates
  <2>1. Shrinks
      BY <1>14, <1>s, <2>0 DEF SynthesisRecheck, Write
  <2>2. Goto(c, "gate") => Moves
      BY <1>g DEF Points, Moves, At
  <2> QED BY <1>14, <1>f, <1>h, <2>1, <2>2 DEF SynthesisRecheck
<1>15. CASE SynthesisGate(c)
  <2>1. Shrinks
      BY <1>15, <1>r, <1>s DEF SynthesisGate, Write, ScopeShrinks, RunStates
  <2>2. Goto(c, "model") => Moves
      BY <1>g DEF Points, Moves, At
  <2> QED BY <1>15, <1>f, <1>h, <2>1, <2>2 DEF SynthesisGate
<1>16. CASE SynthesisPublishes(c) \/ SynthesisDeclines(c) \/ SynthesisRetries(c)
            \/ SynthesisFails(c)
  <2>1. Shrinks
      BY <1>16, <1>r DEF SynthesisPublishes, SynthesisDeclines, SynthesisRetries,
                         SynthesisFails, Write, ScopeShrinks, RunStates
  <2> QED BY <1>16, <1>f, <1>h, <2>1 DEF SynthesisPublishes, SynthesisDeclines,
                                         SynthesisRetries, SynthesisFails
<1> QED
    BY <1>1, <1>2, <1>3, <1>4, <1>5, <1>6, <1>7, <1>8, <1>9, <1>10, <1>11, <1>12,
       <1>13, <1>14, <1>15, <1>16 DEF Worker

\* The fallback searches nothing and only takes products out of the scope.
LEMMA FinalizedScope ==
    ASSUME NEW r \in RunStates, NEW q \in Finalized(r)
    PROVE  ScopeShrinks(r, q)
<1>1. ASSUME NEW a
      PROVE  ScopeShrinks(r, [r EXCEPT !.record = a])
    BY DEF ScopeShrinks, RunStates
<1>2. ASSUME NEW s \in SUBSET Products, q \in RecoveredFrom(r, s)
      PROVE  ScopeShrinks(r, q)
  <2> DEFINE filled == Filled(r, s)
  <2>1. \A e \in SUBSET Products :
          ScopeShrinks(r, Sourced(r, s, e)) /\ Sourced(r, s, e) \in RunStates
      BY DEF Sourced, ScopeShrinks, RunStates
  <2>2. \A f \in RunStates : ScopeShrinks(f, Explained(f, "current"))
      BY DEF Explained, ScopeShrinks, RunStates
  <2>3. ScopeShrinks(r, filled) /\ filled \in RunStates
      BY <2>1, <2>2, ExplainedTyped DEF Filled, ScopeShrinks
  <2> HIDE DEF filled
  <2>4. \A x : ScopeShrinks(filled, [filled EXCEPT !.products = @ \ x])
               /\ ScopeShrinks(filled, [filled EXCEPT !.record = x])
      BY <2>3 DEF ScopeShrinks, RunStates
  <2>5. CASE \E e \in SUBSET s : q = Sourced(r, s, e)
      BY <2>1, <2>5
  <2>6. CASE \E x : q = [filled EXCEPT !.products = @ \ x]
      BY <2>3, <2>4, <2>6 DEF ScopeShrinks
  <2>7. CASE \E x : q = [filled EXCEPT !.record = x]
      BY <2>3, <2>4, <2>7 DEF ScopeShrinks
  <2> QED BY <1>2, <2>5, <2>6, <2>7 DEF RecoveredFrom, filled
<1>3. \A s \in FallbackSelections(r) : s \in SUBSET Products
    BY DEF FallbackSelections, Shortlists, RunStates
<1>4. ScopeShrinks(r, r)
    BY DEF ScopeShrinks
<1> QED BY <1>1, <1>2, <1>3, <1>4 DEF Finalized, Recovered

\* ScopeIsSearched holds initially and every step keeps it.
LEMMA ScopeInvariant == Spec => []ScopeIsSearched
<1>1. Init => ScopeIsSearched
    BY DEF Init, StartRun, Idle, At, ScopeIsSearched, Replaced
<1>2. ASSUME TypeOK, ScopeIsSearched,
             \/ ModelTurn \/ LoopEnds \/ LoopStops \/ \E c \in Calls : BeforeToolCall(c)
      PROVE  ScopeIsSearched'
  <2>1. ScopeShrinks(run, run')
      BY <1>2 DEF ModelTurn, LoopEnds, LoopStops, BeforeToolCall, ScopeShrinks
  <2>2. CASE ModelTurn
    <3>1. \A q \in Requests \cup {Idle} : q.pc \notin {"net", "grant"}
        BY DEF Requests, Request, Idle
    <3> QED BY <1>2, <2>1, <2>2, <3>1, ScopeStands DEF ModelTurn, At
  <2>3. ASSUME NEW c \in Calls, BeforeToolCall(c)
        PROVE  ScopeIsSearched'
    <3>1. call' = [call EXCEPT ![c].pc = "start"] \/ call' = [call EXCEPT ![c] = Idle]
        BY <2>3 DEF BeforeToolCall, Goto, Finish
    <3>2. call \in [Calls -> CallStates] /\ call[c] \in CallStates
        BY <1>2 DEF TypeOK
    <3>3. [call[c] EXCEPT !.pc = "start"].pc = "start" /\ Idle.pc = "idle"
        BY <3>2 DEF CallStates, Idle
    <3> QED BY <1>2, <2>1, <3>1, <3>2, <3>3, ScopeStands DEF At
  <2> QED BY <1>2, <2>1, <2>2, <2>3, ScopeStands DEF LoopEnds, LoopStops
<1>3. ASSUME TypeOK, ScopeIsSearched, Controller \/ Client
      PROVE  ScopeIsSearched'
  <2>1. \/ run' = run \/ run' \in Finalized(run)
        \/ \E a : run' = [run EXCEPT !.record = a]
      BY <1>3 DEF Controller, Client, LoopDeadline, SnapshotTaken, SnapshotRaises,
          AfterLoop, FallbackReturns, FallbackDeadline, Persist, PersistFails, Respond,
          DeadlineAtConsumer, LoopDisconnect, FallbackDisconnect, RespondDisconnect,
          Published
  <2>2. ScopeShrinks(run, run')
      BY <1>3, <2>1, FinalizedScope DEF ScopeShrinks, TypeOK, RunStates
  <2>3. call' = call \/ call' = Dropped
      BY <1>3 DEF Controller, Client, LoopDeadline, SnapshotTaken, SnapshotRaises,
          AfterLoop, FallbackReturns, FallbackDeadline, Persist, PersistFails, Respond,
          DeadlineAtConsumer, LoopDisconnect, FallbackDisconnect, RespondDisconnect
  <2>4. \A c \in Calls : call'[c] = call[c] \/ call'[c] = Idle
      BY <2>3 DEF Dropped
  <2> QED BY <1>3, <2>2, <2>4, ScopeStands DEF At, Idle
<1>4. ASSUME ScopeIsSearched, UNCHANGED vars
      PROVE  ScopeIsSearched'
    BY <1>4 DEF vars, ScopeIsSearched, Replaced, At
<1>5. TypeOK /\ ScopeIsSearched /\ [Next]_vars => ScopeIsSearched'
    BY <1>2, <1>3, <1>4, WorkerKeepsScope DEF Next
<1> QED BY <1>1, <1>5, TypeCorrect, PTL DEF Spec

\* However searches, comparisons and syntheses interleave, once a search has returned
\* the previous answer's products are out of the scope (search_products).
THEOREM ScopeRetrieved == Spec => []PoolIsRetrieved
<1>1. ScopeIsSearched => PoolIsRetrieved
    BY DEF ScopeIsSearched, Replaced, PoolIsRetrieved
<1> QED BY <1>1, ScopeInvariant, PTL
-----------------------------------------------------------------------------
(* One synthesis at a time: what a turn promises of a model that batches its calls as      *)
(* SYSTEM_PROMPT says.                                                                      *)

\* A synthesis runs alone.
Alone == \A c, d \in Calls : call[c].tool = "synthesize" /\ d # c => call[d] = Idle

\* A synthesis past its first checks: what they established still holds, since nothing
\* runs beside it.
Drafting(c) == call[c].tool = "synthesize" /\ call[c].pc \in {"recheck", "gate", "model"}
Drafts ==
    \A c \in Calls : Drafting(c) =>
        /\ run.record = NoAnswer /\ ~Refuses(run)
        /\ run.retry = {} \/ run.retry = call[c].ids
        /\ call[c].pc = "model" =>
             call[c].ids \subseteq run.products /\ Gated(run, call[c].ids)

OneSynthesis == Alone /\ Drafts /\ RetryKeepsSelection

\* An answer of record that is not one is no answer.
LEMMA NoAnswerIsNone ==
    ASSUME NEW r \in RunStates
    PROVE  AnswerExists(r) <=> r.record # NoAnswer
BY DEF RunStates, AnswerRecords, AnswerExists, NoAnswer, Grounded, Declined

----------------------------------------------------------------------------
(* Who runs beside whom.                                                    *)

\* Except for synthesis, the tools never become one and leave the draft to repair alone.
LEMMA ReadersStandApart ==
    ASSUME TypeOK, NEW c \in Calls,
           \/ CallRefused(c) \/ Uncaught(c)
           \/ SearchReserve(c) \/ SearchCheck(c) \/ SearchClear(c)
           \/ SearchFails(c) \/ SearchReturns(c) \/ SearchGrants(c)
           \/ EvidenceStart(c) \/ EvidenceReturns(c) \/ EvidenceFails(c)
           \/ Compare(c)
           \/ ExplainStart(c) \/ ExplainReturns(c) \/ ExplainFails(c)
    PROVE  run'.retry = run.retry /\ call'[c].tool # "synthesize"
<1>r. run \in RunStates /\ call \in [Calls -> CallStates] /\ call[c] \in CallStates
    BY DEF TypeOK
<1>f. Finish(c) => call'[c].tool # "synthesize"
    BY <1>r DEF Finish, Idle
<1>g. \A pc \in Points : Goto(c, pc) => call'[c].tool = call[c].tool
    BY <1>r DEF Goto, CallStates
<1>1. CASE CallRefused(c) \/ Uncaught(c)
    BY <1>1, <1>f DEF CallRefused, Uncaught
<1>2. CASE SearchReserve(c)
    BY <1>2, <1>r, <1>f, <1>g DEF SearchReserve, Reserve, Write, Points, At, RunStates
<1>3. CASE SearchCheck(c)
    BY <1>3, <1>g DEF SearchCheck, Points, At
<1>4. CASE SearchClear(c)
    BY <1>4, <1>r, <1>g DEF SearchClear, Write, Points, At, RunStates
<1>5. CASE SearchFails(c)
    BY <1>5, <1>r, <1>f DEF SearchFails, Write, RunStates
<1>6. CASE SearchReturns(c)
  <2>1. PICK found \in SUBSET Eligible :
              call' = [call EXCEPT ![c] =
                         IF found = {} THEN Idle
                         ELSE [@ EXCEPT !.pc = "grant", !.ids = found]]
      BY <1>6 DEF SearchReturns
  <2>2. [call[c] EXCEPT !.pc = "grant", !.ids = found].tool = "search"
        /\ Idle.tool = "none"
      BY <1>6, <1>r DEF SearchReturns, At, CallStates, Idle
  <2>3. call'[c].tool # "synthesize"
      BY <1>r, <2>1, <2>2
  <2>4. run'.retry = run.retry
      BY <1>6, <1>r DEF SearchReturns, Write, RunStates
  <2> QED BY <2>3, <2>4
<1>7. CASE SearchGrants(c)
    BY <1>7, <1>r, <1>f DEF SearchGrants, Write, RunStates
<1>8. CASE EvidenceStart(c)
    BY <1>8, <1>f, <1>g DEF EvidenceStart, Points, At
<1>9. CASE EvidenceReturns(c) \/ EvidenceFails(c)
    BY <1>9, <1>r, <1>f DEF EvidenceReturns, EvidenceFails, Write, RunStates
<1>10. CASE Compare(c)
  <2>1. \A x : [run EXCEPT !.compared = x, !.traced = TRUE].retry = run.retry
      BY <1>r DEF RunStates
  <2> QED BY <1>10, <1>f, <2>1 DEF Compare, Write
<1>11. CASE ExplainStart(c)
    BY <1>11, <1>f, <1>g DEF ExplainStart, Points, At
<1>12. CASE ExplainReturns(c) \/ ExplainFails(c)
    BY <1>12, <1>r, <1>f DEF ExplainReturns, ExplainFails, Explained, Write, RunStates
<1> QED BY <1>1, <1>2, <1>3, <1>4, <1>5, <1>6, <1>7, <1>8, <1>9, <1>10, <1>11, <1>12

\* A synthesis that acts does so alone, and nobody acts beside one.
LEMMA NobodyBeside ==
    ASSUME Alone, NEW c \in Calls, Worker(c)
    PROVE  \A d \in Calls \ {c} : call[d].tool # "synthesize"
BY WorkerFrame DEF Alone, Idle

\* Every worker leaves the others' calls alone, and none turns into a synthesis.
LEMMA WorkerKeepsAlone ==
    ASSUME TypeOK, Alone, NEW c \in Calls, Worker(c)
    PROVE  Alone'
<1>1. \A d \in Calls \ {c} : call'[d] = call[d]
    BY ReadersLeaveAnswer, SynthesisAnswers DEF Worker
<1>2. call'[c].tool = "synthesize" => call[c].tool = "synthesize"
    BY ReadersStandApart DEF Worker, SynthesisStart, SynthesisRecheck, SynthesisGate,
       SynthesisPublishes, SynthesisDeclines, SynthesisRetries, SynthesisFails, At
<1> QED BY <1>1, <1>2, NobodyBeside DEF Alone

----------------------------------------------------------------------------
(* The synthesis that runs alone.                                           *)

\* What a worker's step does to the answer, to the draft to repair and to the checks of a
\* draft, when it is the only synthesis.
Steady ==
    /\ run'.retry = run.retry \/ (run.record = NoAnswer /\ run'.record = NoAnswer)
    /\ run.record # NoAnswer => run'.record = run.record
    /\ run'.record # run.record /\ run'.record.outcome = "grounded" =>
         \E c \in Calls : /\ At(c, "synthesize", "model")
                          /\ run'.record \in Publications(call[c].ids)
                          /\ run'.retry = run.retry

\* Each step of a synthesis keeps what its earlier steps have checked.
LEMMA SynthesisKeepsDrafts ==
    ASSUME TypeOK, Alone, Drafts, NEW c \in Calls,
           \/ SynthesisStart(c) \/ SynthesisRecheck(c) \/ SynthesisGate(c)
           \/ SynthesisPublishes(c) \/ SynthesisDeclines(c)
           \/ SynthesisRetries(c) \/ SynthesisFails(c)
    PROVE  Drafts' /\ Steady
<1>r. run \in RunStates /\ call \in [Calls -> CallStates] /\ call[c] \in CallStates
    BY DEF TypeOK
<1>w. Worker(c)
    BY DEF Worker
<1>o. /\ \A d \in Calls \ {c} : ~Drafting(d)'
      /\ call[c].tool = "synthesize"
  <2>1. \A d \in Calls \ {c} : call'[d] = call[d] /\ call[d].tool # "synthesize"
      BY <1>w, SynthesisAnswers, NobodyBeside
  <2>2. call[c].tool = "synthesize"
      BY DEF SynthesisStart, SynthesisRecheck, SynthesisGate, SynthesisPublishes,
             SynthesisDeclines, SynthesisRetries, SynthesisFails, At
  <2> QED BY <2>1, <2>2 DEF Drafting
<1>f. Finish(c) => ~Drafting(c)'
    BY <1>r DEF Finish, Idle, Drafting
<1>g. \A pc \in Points :
        Goto(c, pc) => call'[c].pc = pc /\ call'[c].ids = call[c].ids
    BY <1>r DEF Goto, CallStates
<1>s. UNCHANGED run => Steady
    BY DEF Steady
<1>t. run' = [run EXCEPT !.traced = TRUE] => Steady
    BY <1>r DEF Steady, RunStates
<1>d. ~Drafting(c)' => Drafts'
    BY <1>o DEF Drafts
<1>p. Drafting(c) =>
        /\ run.record = NoAnswer /\ ~Refuses(run)
        /\ run.retry = {} \/ run.retry = call[c].ids
        /\ call[c].pc = "model" =>
             call[c].ids \subseteq run.products /\ Gated(run, call[c].ids)
    BY DEF Drafts
<1>q. ASSUME NEW pc \in {"recheck", "gate", "model"}, Goto(c, pc), UNCHANGED run,
             run.record = NoAnswer /\ ~Refuses(run),
             run.retry = {} \/ run.retry = call[c].ids,
             pc = "model" => call[c].ids \subseteq run.products /\ Gated(run, call[c].ids)
      PROVE  Drafts'
  <2>1. call'[c].pc = pc /\ call'[c].ids = call[c].ids
      BY <1>q, <1>g DEF Points
  <2> QED BY <1>o, <1>q, <2>1 DEF Drafts
<1>1. CASE SynthesisStart(c)
  <2>1. CASE /\ Declines(run, call[c].ids)
             /\ run' = [run EXCEPT !.record = Declined("unanchored", "model"),
                                   !.traced = TRUE]
             /\ Finish(c)
    <3>1. run.record = NoAnswer
        BY <2>1, <1>r, NoAnswerIsNone DEF Declines
    <3>2. run'.record = Declined("unanchored", "model") /\ run'.retry = run.retry
        BY <2>1, <1>r DEF RunStates
    <3> QED BY <2>1, <1>f, <1>d, <3>1, <3>2 DEF Steady, Declined
  <2>2. CASE Finish(c) /\ UNCHANGED run
      BY <2>2, <1>f, <1>d, <1>s
  <2>3. CASE /\ ~Declines(run, call[c].ids)
             /\ ~AnswerExists(run) /\ ~SynthesisRefused(run, call[c].ids)
             /\ Goto(c, IF call[c].ids \cap run.context # {} THEN "recheck" ELSE "gate")
             /\ UNCHANGED run
    <3>1. run.record = NoAnswer /\ (run.retry = {} \/ run.retry = call[c].ids)
        BY <2>3, <1>r, NoAnswerIsNone DEF SynthesisRefused
    <3>2. ~Refuses(run)
        BY <2>3, <3>1 DEF Declines
    <3>3. Goto(c, "recheck") \/ Goto(c, "gate")
        BY <2>3
    <3> QED BY <2>3, <3>1, <3>2, <3>3, <1>q, <1>s
  <2> QED BY <1>1, <2>1, <2>2, <2>3 DEF SynthesisStart, Write
<1>2. CASE SynthesisRecheck(c)
  <2>0. Drafting(c) /\ call[c].pc = "recheck"
      BY <1>2 DEF SynthesisRecheck, At, Drafting
  <2>1. CASE Goto(c, "gate") /\ UNCHANGED run
      BY <2>0, <2>1, <1>p, <1>q, <1>s
  <2>2. CASE Finish(c) /\ \E x : run' = [run EXCEPT !.products = @ \ x, !.traced = TRUE]
    <3>1. run'.record = run.record /\ run'.retry = run.retry
        BY <2>2, <1>r DEF RunStates
    <3> QED BY <2>2, <3>1, <1>f, <1>d DEF Steady
  <2> QED BY <1>2, <2>1, <2>2 DEF SynthesisRecheck, Write
<1>3. CASE SynthesisGate(c)
  <2>0. Drafting(c)
      BY <1>3 DEF SynthesisGate, At, Drafting
  <2>1. CASE /\ call[c].ids \subseteq run.products /\ Gated(run, call[c].ids)
             /\ Goto(c, "model") /\ UNCHANGED run
      BY <2>0, <2>1, <1>p, <1>q, <1>s
  <2>2. CASE /\ Finish(c)
             /\ UNCHANGED run \/ run' = [run EXCEPT !.traced = TRUE]
      BY <2>2, <1>f, <1>d, <1>s, <1>t
  <2> QED BY <1>3, <2>1, <2>2 DEF SynthesisGate, Write
<1>4. CASE SynthesisPublishes(c)
  <2>1. PICK answer \in Publications(call[c].ids) :
              run' = [run EXCEPT !.record = answer, !.traced = TRUE]
      BY <1>4 DEF SynthesisPublishes, Write
  <2>2. run'.record = answer /\ run'.retry = run.retry
      BY <2>1, <1>r DEF RunStates
  <2>3. Drafting(c) /\ At(c, "synthesize", "model") /\ Finish(c)
      BY <1>4 DEF SynthesisPublishes, At, Drafting
  <2> QED BY <2>2, <2>3, <1>p, <1>f, <1>d DEF Steady
<1>5. CASE SynthesisDeclines(c)
  <2>1. /\ run'.record = Declined("unsupported", "model")
        /\ run'.retry = run.retry
      BY <1>5, <1>r DEF SynthesisDeclines, Write, RunStates
  <2>2. Drafting(c) /\ Finish(c)
      BY <1>5 DEF SynthesisDeclines, At, Drafting
  <2> QED BY <2>1, <2>2, <1>p, <1>f, <1>d DEF Steady, Declined
<1>6. CASE SynthesisRetries(c)
  <2>1. run'.record = run.record
      BY <1>6, <1>r DEF SynthesisRetries, Write, RunStates
  <2>2. Drafting(c) /\ Finish(c)
      BY <1>6 DEF SynthesisRetries, At, Drafting
  <2> QED BY <2>1, <2>2, <1>p, <1>f, <1>d DEF Steady
<1>7. CASE SynthesisFails(c)
    BY <1>7, <1>f, <1>d, <1>t DEF SynthesisFails, Write
<1> QED BY <1>1, <1>2, <1>3, <1>4, <1>5, <1>6, <1>7

\* Nobody acts beside a draft, so no other tool can undo what it checked.
LEMMA WorkerKeepsDrafts ==
    ASSUME TypeOK, Alone, Drafts, NEW c \in Calls, Worker(c)
    PROVE  Drafts' /\ Steady
<1>1. CASE \/ SynthesisStart(c) \/ SynthesisRecheck(c) \/ SynthesisGate(c)
           \/ SynthesisPublishes(c) \/ SynthesisDeclines(c)
           \/ SynthesisRetries(c) \/ SynthesisFails(c)
    BY <1>1, SynthesisKeepsDrafts
<1>2. CASE \/ CallRefused(c) \/ Uncaught(c)
           \/ SearchReserve(c) \/ SearchCheck(c) \/ SearchClear(c)
           \/ SearchFails(c) \/ SearchReturns(c) \/ SearchGrants(c)
           \/ EvidenceStart(c) \/ EvidenceReturns(c) \/ EvidenceFails(c)
           \/ Compare(c)
           \/ ExplainStart(c) \/ ExplainReturns(c) \/ ExplainFails(c)
  <2>1. /\ run'.record = run.record /\ run'.retry = run.retry
        /\ call'[c].tool # "synthesize"
        /\ \A d \in Calls \ {c} : call'[d] = call[d]
      BY <1>2, ReadersLeaveAnswer, ReadersStandApart
  <2>2. \A d \in Calls : call'[d].tool # "synthesize"
      BY <2>1, NobodyBeside
  <2> QED BY <2>1, <2>2 DEF Drafts, Drafting, Steady
<1> QED BY <1>1, <1>2 DEF Worker

\* A step that publishes what a draft selected keeps to the products of the failed draft
\* before it.
LEMMA SteadyKeepsSelection ==
    ASSUME TypeOK, TypeOK', Drafts, RetryKeepsSelection, Steady
    PROVE  RetryKeepsSelection'
<1> SUFFICES ASSUME run'.record.outcome = "grounded", run'.record.origin = "model",
                    run'.retry # {}
             PROVE  run'.record.recommendations \subseteq run'.retry
    BY DEF RetryKeepsSelection
<1>1. run'.record # NoAnswer
    BY DEF NoAnswer
<1>2. run'.retry = run.retry
    BY <1>1 DEF Steady
<1>3. CASE run'.record = run.record
    BY <1>2, <1>3 DEF RetryKeepsSelection
<1>4. CASE run'.record # run.record
  <2>1. PICK c \in Calls : /\ At(c, "synthesize", "model")
                           /\ run'.record \in Publications(call[c].ids)
      BY <1>4 DEF Steady
  <2>2. run.retry = call[c].ids
      BY <1>2, <2>1 DEF Drafts, Drafting, At
  <2>3. run'.record.recommendations \subseteq call[c].ids
      BY <2>1 DEF Publications, Grounded
  <2> QED BY <1>2, <2>2, <2>3
<1> QED BY <1>3, <1>4

----------------------------------------------------------------------------
(* The rest of the turn.                                                    *)

\* A prompted batch holds at most one synthesis, and then nothing else.
LEMMA PromptedIsAlone ==
    ASSUME FollowsPrompt, Lifecycle, TypeOK, Alone,
           ModelTurn \/ LoopEnds \/ LoopStops \/ \E c \in Calls : BeforeToolCall(c)
    PROVE  Alone' /\ UNCHANGED run /\ \A c \in Calls : Drafting(c)' => call'[c] = call[c]
<1>1. CASE ModelTurn
  <2>1. call' \in [Calls -> Requests \cup {Idle}] /\ Prompted(call')
      BY <1>1 DEF ModelTurn
  <2>2. \A q \in Requests \cup {Idle} :
          /\ q.tool = "none" => q = Idle
          /\ q.pc \in {"queued", "idle"}
      BY DEF Requests, Request, Idle
  <2>3. Alone'
      BY <2>1, <2>2 DEF Prompted, ReadTools, Alone
  <2>4. \A c \in Calls : ~Drafting(c)'
      BY <2>1, <2>2 DEF Drafting
  <2> QED BY <1>1, <2>3, <2>4 DEF ModelTurn
<1>2. ASSUME NEW c \in Calls, BeforeToolCall(c)
      PROVE  Alone' /\ UNCHANGED run /\ \A d \in Calls : Drafting(d)' => call'[d] = call[d]
  <2>1. call' = [call EXCEPT ![c].pc = "start"] \/ call' = [call EXCEPT ![c] = Idle]
      BY <1>2 DEF BeforeToolCall, Goto, Finish
  <2>2. call \in [Calls -> CallStates] /\ call[c] \in CallStates
      BY DEF TypeOK
  <2>3. /\ [call[c] EXCEPT !.pc = "start"].pc = "start"
        /\ [call[c] EXCEPT !.pc = "start"].tool = call[c].tool
        /\ Idle.pc = "idle" /\ Idle.tool = "none"
      BY <2>2 DEF CallStates, Idle
  <2>4. /\ \A d \in Calls \ {c} : call'[d] = call[d]
        /\ ~Drafting(c)' /\ call'[c].tool \in {call[c].tool, "none"}
      BY <2>1, <2>2, <2>3 DEF Drafting
  <2>5. \A d \in Calls \ {c} : call[d].tool # "synthesize"
      BY <1>2, <2>3 DEF BeforeToolCall, Alone
  <2> QED BY <1>2, <2>4, <2>5 DEF BeforeToolCall, Alone
<1>3. CASE LoopEnds \/ LoopStops
    BY <1>3 DEF LoopEnds, LoopStops, Alone
<1> QED BY <1>1, <1>2, <1>3

\* A fallback repairs no draft.
LEMMA FinalizedRetry ==
    ASSUME NEW r \in RunStates, NEW q \in Finalized(r)
    PROVE  q.retry = r.retry
<1>1. \A a : [r EXCEPT !.record = a].retry = r.retry
    BY DEF RunStates
<1>2. ASSUME NEW s \in SUBSET Products, q \in RecoveredFrom(r, s)
      PROVE  q.retry = r.retry
  <2>1. \A e \in SUBSET Products :
          Sourced(r, s, e).retry = r.retry /\ Sourced(r, s, e) \in RunStates
      BY DEF Sourced, RunStates
  <2>2. \A f \in RunStates : Explained(f, "current").retry = f.retry
      BY DEF Explained, RunStates
  <2>3. Filled(r, s).retry = r.retry /\ Filled(r, s) \in RunStates
      BY <2>1, <2>2, ExplainedTyped DEF Filled
  <2>4. \A x : /\ [Filled(r, s) EXCEPT !.products = @ \ x].retry = r.retry
               /\ [Filled(r, s) EXCEPT !.record = x].retry = r.retry
      BY <2>3 DEF RunStates
  <2>5. \/ \E e \in SUBSET s : q = Sourced(r, s, e)
        \/ \E x : q = [Filled(r, s) EXCEPT !.products = @ \ x]
        \/ \E x : q = [Filled(r, s) EXCEPT !.record = x]
      BY <1>2 DEF RecoveredFrom
  <2>6. CASE \E e \in SUBSET s : q = Sourced(r, s, e)
      BY <2>1, <2>6
  <2>7. CASE \E x : q = [Filled(r, s) EXCEPT !.products = @ \ x]
      BY <2>4, <2>7
  <2>8. CASE \E x : q = [Filled(r, s) EXCEPT !.record = x]
      BY <2>4, <2>8
  <2> QED BY <2>5, <2>6, <2>7, <2>8
<1>3. \A s \in FallbackSelections(r) : s \in SUBSET Products
    BY DEF FallbackSelections, Shortlists, RunStates
<1> QED BY <1>1, <1>2, <1>3 DEF Finalized, Recovered

\* The controller answers only a turn that has no answer, never in the model's name, and
\* when nobody runs.
LEMMA ControllerAnswers ==
    ASSUME TypeOK, Lifecycle, Controller \/ Client
    PROVE  /\ \A c \in Calls : call'[c] = call[c] \/ call'[c] = Idle
           /\ \/ UNCHANGED run
              \/ /\ Quiet
                 /\ run.record # NoAnswer => run'.record = run.record
                 /\ run'.record = run.record \/ run'.record.origin = "controller_fallback"
                 /\ run'.retry = run.retry
<1>0. run \in RunStates
    BY DEF TypeOK
<1>1. call' = call \/ call' = Dropped
    BY DEF Controller, Client, LoopDeadline, SnapshotTaken, SnapshotRaises,
       AfterLoop, FallbackReturns, FallbackDeadline, Persist, PersistFails, Respond,
       DeadlineAtConsumer, LoopDisconnect, FallbackDisconnect, RespondDisconnect
<1>2. CASE AfterLoop
  <2>1. Quiet
      BY <1>2 DEF AfterLoop, Lifecycle, Running
  <2>2. \A a : /\ [run EXCEPT !.record = a].record = a
               /\ [run EXCEPT !.record = a].retry = run.retry
      BY <1>0 DEF RunStates
  <2>3. \/ UNCHANGED run
        \/ /\ run' = [run EXCEPT !.record = Declined("unsupported", "controller_fallback")]
           /\ ~AnswerExists(run)
      BY <1>2 DEF AfterLoop
  <2>4. CASE UNCHANGED run
      BY <1>1, <2>4 DEF Dropped
  <2>5. CASE /\ run' = [run EXCEPT !.record = Declined("unsupported", "controller_fallback")]
             /\ ~AnswerExists(run)
    <3>1. /\ run'.record = Declined("unsupported", "controller_fallback")
          /\ run'.retry = run.retry
        BY <2>2, <2>5
    <3>2. run'.record.origin = "controller_fallback"
        BY <3>1 DEF Declined
    <3>3. run.record = NoAnswer
        BY <1>0, <2>5, NoAnswerIsNone
    <3> QED BY <1>1, <2>1, <3>1, <3>2, <3>3 DEF Dropped
  <2> QED BY <2>3, <2>4, <2>5
<1>3. CASE FallbackReturns \/ FallbackDeadline \/ FallbackDisconnect
  <2>1. Quiet
      BY <1>3 DEF FallbackReturns, FallbackDeadline, FallbackDisconnect, Lifecycle, Running
  <2>2. run' = run \/ run' \in Finalized(run)
      BY <1>3 DEF FallbackReturns, FallbackDeadline, FallbackDisconnect, Published
  <2>3. ASSUME run' \in Finalized(run)
        PROVE  /\ run.record # NoAnswer => run'.record = run.record
               /\ run'.record = run.record \/ run'.record.origin = "controller_fallback"
    <3>1. run.record # NoAnswer => run' = run
        BY <1>0, <2>3, NoAnswerIsNone DEF Finalized
    <3> QED BY <1>0, <2>3, <3>1, FinalizedAnswers DEF FallbackAnswer
  <2>4. run' \in Finalized(run) => run'.retry = run.retry
      BY <1>0, FinalizedRetry
  <2> QED BY <1>1, <2>1, <2>2, <2>3, <2>4 DEF Dropped
<1>4. CASE ~(AfterLoop \/ FallbackReturns \/ FallbackDeadline \/ FallbackDisconnect)
  <2>1. UNCHANGED run
      BY <1>4 DEF Controller, Client, LoopDeadline, SnapshotTaken, SnapshotRaises,
         Persist, PersistFails, Respond, DeadlineAtConsumer, LoopDisconnect,
         RespondDisconnect
  <2> QED BY <1>1, <2>1 DEF Dropped
<1> QED BY <1>2, <1>3, <1>4

\* While the synthesis that drafts has not answered, nothing else has either: without a
\* step of its own nothing changes beneath it.
LEMMA OthersKeepOneSynthesis ==
    ASSUME TypeOK, OneSynthesis, Alone',
           \A c \in Calls : Drafting(c)' => call'[c] = call[c],
           \/ UNCHANGED run
           \/ /\ \A c \in Calls : call'[c].pc = "idle"
              /\ run'.record = run.record \/ run'.record.origin = "controller_fallback"
              /\ run'.retry = run.retry
    PROVE  OneSynthesis'
<1>1. Drafts'
    BY DEF OneSynthesis, Drafts, Drafting
<1>2. RetryKeepsSelection'
    BY DEF OneSynthesis, RetryKeepsSelection
<1> QED BY <1>1, <1>2 DEF OneSynthesis

\* Whatever steps a turn with a prompted model takes keep its synthesis alone and its
\* draft's checks true.
LEMMA OneSynthesisStep ==
    ASSUME FollowsPrompt, TypeOK, TypeOK', Lifecycle, OneSynthesis, [Next]_vars
    PROVE  OneSynthesis'
<1>1. ASSUME NEW c \in Calls, Worker(c)
      PROVE  OneSynthesis'
    BY <1>1, WorkerKeepsAlone, WorkerKeepsDrafts, SteadyKeepsSelection DEF OneSynthesis
<1>2. CASE ModelTurn \/ LoopEnds \/ LoopStops \/ \E c \in Calls : BeforeToolCall(c)
    BY <1>2, PromptedIsAlone, OthersKeepOneSynthesis DEF OneSynthesis
<1>3. CASE Controller \/ Client
  <2>1. /\ \A c \in Calls : call'[c] = call[c] \/ call'[c] = Idle
        /\ Quiet => \A c \in Calls : call'[c].pc = "idle"
      BY <1>3, ControllerAnswers DEF Quiet, Idle
  <2>2. Alone' /\ \A c \in Calls : Drafting(c)' => call'[c] = call[c]
      BY <2>1 DEF OneSynthesis, Alone, Drafting, Idle
  <2> QED BY <1>3, <2>1, <2>2, ControllerAnswers, OthersKeepOneSynthesis
<1>4. CASE UNCHANGED vars
    BY <1>4 DEF vars, OneSynthesis, Alone, Drafts, Drafting, RetryKeepsSelection
<1> QED BY <1>1, <1>2, <1>3, <1>4 DEF Next

\* OneSynthesis holds initially, and always when the model follows its prompt.
LEMMA OneSynthesisInvariant ==
    ASSUME FollowsPrompt
    PROVE  Spec => []OneSynthesis
<1>1. Init => OneSynthesis
    BY DEF Init, StartRun, NoAnswer, Idle, OneSynthesis, Alone, Drafts, Drafting,
           RetryKeepsSelection
<1>2. TypeOK /\ TypeOK' /\ Lifecycle /\ OneSynthesis /\ [Next]_vars => OneSynthesis'
    BY OneSynthesisStep
<1> QED BY <1>1, <1>2, TypeCorrect, LifecycleInvariant, PTL DEF Spec

----------------------------------------------------------------------------
(* What it gives the shopper.                                               *)

\* A draft that failed its checks is only ever repaired: an answer of the model's
\* recommends products of that draft (synthesis_retry_product_ids).
THEOREM RetriesKeepSelection ==
    ASSUME FollowsPrompt
    PROVE  Spec => []RetryKeepsSelection
<1>1. OneSynthesis => RetryKeepsSelection
    BY DEF OneSynthesis
<1> QED BY <1>1, OneSynthesisInvariant, PTL

\* The answer of record, once written, stays: neither a second synthesis, nor the
\* fallback, nor the decline of an unused turn replaces it (coverage_refusal).
THEOREM RecordIsWrittenOnce ==
    ASSUME FollowsPrompt
    PROVE  Spec => RecordWrittenOnce
<1>1. ASSUME TypeOK, Lifecycle, OneSynthesis, [Next]_vars, run.record # NoAnswer
      PROVE  run'.record = run.record
  <2>1. ASSUME NEW c \in Calls, Worker(c)
        PROVE  run'.record = run.record
      BY <1>1, <2>1, WorkerKeepsDrafts DEF OneSynthesis, Steady
  <2>2. CASE ModelTurn \/ LoopEnds \/ LoopStops \/ \E c \in Calls : BeforeToolCall(c)
      BY <2>2 DEF ModelTurn, LoopEnds, LoopStops, BeforeToolCall
  <2>3. CASE Controller \/ Client
      BY <1>1, <2>3, ControllerAnswers
  <2>4. CASE UNCHANGED vars
      BY <2>4 DEF vars
  <2> QED BY <1>1, <2>1, <2>2, <2>3, <2>4 DEF Next
<1>2. TypeOK /\ Lifecycle /\ OneSynthesis /\ [Next]_vars
        => (run.record # NoAnswer => run'.record = run.record)
    BY <1>1
<1>3. TypeOK /\ Lifecycle /\ OneSynthesis /\ [Next]_vars
        => [run.record # NoAnswer => run'.record = run.record]_vars
    BY <1>2
<1> QED BY <1>3, TypeCorrect, LifecycleInvariant, OneSynthesisInvariant, PTL
        DEF Spec, RecordWrittenOnce

\* Every gate a synthesis passed before its model call holds when its answer is published
\* (synthesize_cited_answer): the model call is long, but nothing runs beside it.
THEOREM GatesStillHold ==
    ASSUME FollowsPrompt
    PROVE  Spec => GatesHoldAtPublication
<1> DEFINE Checked(recs) ==
             run'.record # run.record /\ run'.record = Grounded(recs, "model") =>
                 /\ recs \subseteq run.products \cap run.evidence
                 /\ ComparisonCovers(run, recs)
                 /\ run.searches > 0 => Explanations(run) = 1
                 /\ run.verdicts # {"unanchored"}
<1>1. ASSUME TypeOK, Lifecycle, OneSynthesis, [Next]_vars,
             NEW recs \in SUBSET Products,
             run'.record # run.record, run'.record = Grounded(recs, "model")
      PROVE  /\ recs \subseteq run.products \cap run.evidence
             /\ ComparisonCovers(run, recs)
             /\ run.searches > 0 => Explanations(run) = 1
             /\ run.verdicts # {"unanchored"}
  <2>0. run \in RunStates /\ \A c \in Calls : call[c].ids \in SUBSET Products
      BY <1>1 DEF TypeOK, CallStates
  <2>1. \E c \in Calls : Worker(c)
    <3>1. ~(ModelTurn \/ LoopEnds \/ LoopStops \/ \E c \in Calls : BeforeToolCall(c))
        BY <1>1 DEF ModelTurn, LoopEnds, LoopStops, BeforeToolCall
    <3>2. ~(Controller \/ Client)
        BY <1>1, ControllerAnswers DEF Grounded
    <3>3. ~UNCHANGED vars
        BY <1>1 DEF vars
    <3> QED BY <1>1, <3>1, <3>2, <3>3 DEF Next
  <2>2. PICK c \in Calls : /\ At(c, "synthesize", "model")
                           /\ run'.record \in Publications(call[c].ids)
      BY <1>1, <2>1, WorkerKeepsDrafts DEF OneSynthesis, Steady, Grounded
  <2>3. recs \subseteq call[c].ids
    <3>1. run'.record.recommendations = recs
        BY <1>1 DEF Grounded
    <3>2. run'.record.recommendations \subseteq call[c].ids
        BY <2>2 DEF Publications, Grounded
    <3> QED BY <3>1, <3>2
  <2>4. /\ ~Refuses(run) /\ call[c].ids \subseteq run.products
        /\ Gated(run, call[c].ids)
      BY <1>1, <2>2 DEF OneSynthesis, Drafts, Drafting, At
  <2>5. ComparisonCovers(run, recs)
      BY <2>0, <2>3, <2>4, CoversPart DEF Gated
  <2> QED BY <2>3, <2>4, <2>5 DEF Gated, Refuses
<1>2. TypeOK /\ Lifecycle /\ OneSynthesis /\ [Next]_vars
        => [\A recs \in SUBSET Products : Checked(recs)]_vars
    BY <1>1
<1> QED BY <1>2, TypeCorrect, LifecycleInvariant, OneSynthesisInvariant, PTL
        DEF Spec, GatesHoldAtPublication
=============================================================================
