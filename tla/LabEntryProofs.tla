--------------------------- MODULE LabEntryProofs ---------------------------
(***************************************************************************)
(* The workshop's commands, however often they are interrupted, reset and  *)
(* run again: a participant's edit is not overwritten, and a hand-off      *)
(* rests on live checks of the repair that is there.                       *)
(***************************************************************************)
EXTENDS LabEntry, SequenceTheorems, TLAPS

Commands == [name : {"start", "solve", "reset"}, lab : Labs]
            \cup [name : {"advance", "sql", "repeat"}, lab : SqlLabs]
            \cup [name : {"grade"}, lab : {2}]

Prepares == {"enter", "fault", "install", "mark", "apply", "applied", "capture", "complete"}
Advances == {"ready", "check", "bind", "prove", "save"}
Resets == {"discard", "forget_start", "forget_completion", "forget_handoff", "reapply"}

\* Where a command may stand.
PlacesOf(command) ==
    IF command.name = "start" THEN Prepares
    ELSE IF command.name = "advance" THEN Prepares \cup Advances
    ELSE IF command.name = "reset" THEN Prepares \cup Resets
    ELSE {command.name}

QueueOK ==
    /\ queue \in Seq(Commands) /\ (queue = << >>) = (pc = "idle")
    /\ pc # "idle" => pc \in PlacesOf(Active)
    /\ pc \in {"bind", "save"} => Lab = 1

\* No command is in the middle of a hand-off, an install or a reset.
HandsOff == Active = Command("advance", 1)
Fresh ==
    /\ pc \notin {"bind", "prove", "save", "install", "forget_start"}
    /\ ~(pc \in Prepares /\ HandsOff)

LabTyped == LabTypeOK /\ QueueOK /\ found \in [Labs -> Blocks \cup {NoBlock}]

\* What a start found is in its record while it installs the fault.
FaultInv ==
    /\ \A l \in Labs : found[l] # NoBlock =>
           /\ record[l].fault # "none"
           /\ record[l].fault = "installing" => record[l].before = found[l]
    /\ pc = "install" => /\ found[Target] # NoBlock /\ record[Target].fault = "installing"
                         /\ source[Target] = record[Target].before
    /\ pc = "forget_start" => found[Lab] = NoBlock

\* Saved evidence is that of the last live checks, and these run on the saved repair.
HandOffInv ==
    /\ handoff # NoHandOff => handoff = proved
    /\ pc \in {"bind", "prove", "save"} /\ Lab = 1 => aurora[1] = source[1]
    /\ pc \in {"prove", "save"} /\ Lab = 1 => handoff = NoHandOff
    /\ pc = "save" => proved = Binding
    /\ HandOffIsOfThisRepair

LabInv == LabTyped /\ FaultInv /\ HandOffInv
-----------------------------------------------------------------------------
(* Commands and chains of commands.                                        *)

LEMMA CommandsTyped ==
    /\ \A name \in {"start", "solve", "reset"}, l \in Labs : Command(name, l) \in Commands
    /\ \A name \in {"advance", "sql", "repeat"}, l \in SqlLabs : Command(name, l) \in Commands
    /\ Command("grade", 2) \in Commands
BY DEF Command, Commands

LEMMA CommandsFields ==
    ASSUME NEW c \in Commands
    PROVE  /\ c.lab \in Labs /\ c.name \in {"start", "solve", "reset", "advance", "sql", "repeat", "grade"}
           /\ c.name = "advance" => c.lab \in SqlLabs
BY DEF Commands, Labs, SqlLabs

LEMMA FirstStepInPlace ==
    ASSUME NEW c \in Commands
    PROVE  /\ FirstStep(c) \in PlacesOf(c) /\ FirstStep(c) # "idle"
           /\ FirstStep(c) \in Prepares => c # Command("advance", 1)
           /\ FirstStep(c) \notin {"bind", "prove", "save", "install", "forget_start"}
BY CommandsFields DEF FirstStep, PlacesOf, Prepares, Advances, Resets, Command

LEMMA FinishStepsTyped ==
    ASSUME NEW l \in Labs
    PROVE  FinishSteps(l) \in Seq(Commands) /\ FinishSteps(l) # << >>
<1>1. CASE l = 3
  <2>1. <<Command("start", 3), Command("solve", 3)>> \in Seq(Commands)
    BY CommandsTyped DEF Labs
  <2> QED BY <1>1, <2>1 DEF FinishSteps
<1>2. CASE l # 3
  <2> DEFINE first == <<Command("start", l), Command("solve", l), Command("sql", l), Command("repeat", l)>>
             graded == IF l = 2 THEN <<Command("grade", 2)>> ELSE << >>
             last == <<Command("advance", l)>>
  <2>1. l \in SqlLabs
    BY <1>2 DEF Labs, SqlLabs
  <2>2. first \in Seq(Commands) /\ Len(first) = 4
    BY <2>1, CommandsTyped
  <2>3. graded \in Seq(Commands)
    BY CommandsTyped
  <2>4. last \in Seq(Commands)
    BY <2>1, CommandsTyped
  <2>5. FinishSteps(l) = (first \o graded) \o last
    BY <1>2 DEF FinishSteps
  <2> HIDE DEF first, graded, last
  <2>6. first \o graded \in Seq(Commands) /\ Len(first \o graded) = Len(first) + Len(graded)
    BY <2>2, <2>3, ConcatProperties
  <2>7. /\ (first \o graded) \o last \in Seq(Commands)
        /\ Len((first \o graded) \o last) = Len(first \o graded) + Len(last)
    BY <2>4, <2>6, ConcatProperties
  <2>8. Len(graded) \in Nat /\ Len(last) \in Nat /\ Len(<< >>) = 0
    BY <2>3, <2>4, LenProperties, EmptySeq
  <2> QED BY <2>2, <2>5, <2>6, <2>7, <2>8
<1> QED
  BY <1>1, <1>2

LEMMA ChainTyped ==
    ASSUME NEW labs
    PROVE  /\ Chain(labs) \in Seq(Commands)
           /\ labs \cap Labs # {} => Chain(labs) # << >>
<1>1. \A l \in Labs : Part(l, labs) \in Seq(Commands) /\ (l \in labs => Part(l, labs) # << >>)
  BY FinishStepsTyped DEF Part
<1>2. 1 \in Labs /\ 2 \in Labs /\ 3 \in Labs /\ \A l \in Labs : l = 1 \/ l = 2 \/ l = 3
  BY DEF Labs
<1> DEFINE p1 == Part(1, labs)
           p2 == Part(2, labs)
           p3 == Part(3, labs)
<1>3. p1 \in Seq(Commands) /\ p2 \in Seq(Commands) /\ p3 \in Seq(Commands)
  BY <1>1, <1>2
<1>4. labs \cap Labs # {} => p1 # << >> \/ p2 # << >> \/ p3 # << >>
  BY <1>1, <1>2
<1> HIDE DEF p1, p2, p3
<1>5. p1 \o p2 \in Seq(Commands) /\ Len(p1 \o p2) = Len(p1) + Len(p2)
  BY <1>3, ConcatProperties
<1>6. (p1 \o p2) \o p3 \in Seq(Commands) /\ Len((p1 \o p2) \o p3) = Len(p1 \o p2) + Len(p3)
  BY <1>3, <1>5, ConcatProperties
<1>7. \A s \in Seq(Commands) : Len(s) \in Nat /\ (s # << >> => Len(s) > 0) /\ Len(<< >>) = 0
  BY LenProperties, EmptySeq
<1> QED
  BY <1>3, <1>4, <1>5, <1>6, <1>7 DEF Chain, p1, p2, p3
-----------------------------------------------------------------------------
(* The queue.                                                              *)

LEMMA ActiveTyped ==
    ASSUME QueueOK, pc # "idle"
    PROVE  /\ Active \in Commands /\ Lab \in Labs /\ Target \in Labs
           /\ pc \in Advances => Active.name = "advance" /\ Lab \in SqlLabs
           /\ pc \in Resets => Active.name = "reset"
           /\ pc \in Prepares => Active.name \in {"start", "advance", "reset"}
<1>1. Active \in Commands
  BY HeadTailProperties DEF QueueOK, Active
<1>2. Lab \in Labs /\ Target \in Labs
  BY <1>1, CommandsFields DEF Lab, Target, Labs, SqlLabs
<1> QED
  BY <1>1, <1>2, CommandsFields DEF QueueOK, PlacesOf, Prepares, Advances, Resets, Lab

LEMMA BeginsQueue ==
    ASSUME NEW commands \in Seq(Commands), commands # << >>, Begins(commands)
    PROVE  QueueOK' /\ Fresh'
<1>1. Head(commands) \in Commands
  BY HeadTailProperties
<1> QED
  BY <1>1, FirstStepInPlace DEF Begins, QueueOK, Fresh, HandsOff, Active, Lab

LEMMA FinishesQueue ==
    ASSUME QueueOK, pc # "idle", Finishes
    PROVE  QueueOK' /\ Fresh'
<1>1. queue \in Seq(Commands) /\ queue # << >> /\ Len(queue) \in Nat \ {0}
  BY EmptySeq DEF QueueOK
<1>2. /\ Tail(queue) \in Seq(Commands) /\ Len(Tail(queue)) = Len(queue) - 1
      /\ \A i \in 1..Len(Tail(queue)) : Tail(queue)[i] = queue[i + 1]
  BY <1>1, HeadTailProperties
<1>3. CASE Len(queue) = 1
  <2>1. queue' = << >> /\ pc' = "idle"
    BY <1>1, <1>2, <1>3, EmptySeq DEF Finishes
  <2> QED BY <1>2, <2>1 DEF Finishes, QueueOK, Fresh, Prepares
<1>4. CASE Len(queue) # 1
  <2>1. Tail(queue) # << >> /\ 1 \in 1..Len(Tail(queue))
    BY <1>1, <1>2, <1>4, EmptySeq
  <2>2. Head(Tail(queue)) = queue[2]
    BY <1>2, <2>1
  <2>3. queue[2] \in Commands
    BY <1>2, <2>1, <2>2, HeadTailProperties
  <2>4. Active' = queue[2] /\ pc' = FirstStep(queue[2])
    BY <1>4, <2>2 DEF Finishes, Active
  <2> QED
    BY <1>2, <2>1, <2>3, <2>4, FirstStepInPlace DEF Finishes, QueueOK, Fresh, HandsOff, Lab
<1> QED
  BY <1>3, <1>4

LEMMA QuitsQueue ==
    ASSUME Quits
    PROVE  QueueOK' /\ Fresh'
BY EmptySeq DEF Quits, QueueOK, Fresh, Prepares

LEMMA ContinuesQueue ==
    ASSUME QueueOK, pc # "idle", NEW to \in PlacesOf(Active), Continues(to), to # "idle",
           to \in {"bind", "save"} => Lab = 1
    PROVE  QueueOK' /\ Active' = Active /\ Lab' = Lab /\ Target' = Target /\ pc' = to
BY DEF Continues, QueueOK, Active, Lab, Target

\* A command begins, goes on or ends.
LEMMA QueueStep ==
    ASSUME QueueOK, LabNext
    PROVE  /\ QueueOK'
           /\ Fresh' \/ (pc # "idle" /\ pc' # "idle" /\ UNCHANGED queue)
<1>1. ASSUME NEW c \in Commands, Begins(<<c>>) PROVE QueueOK' /\ Fresh'
  <2>1. <<c>> \in Seq(Commands) /\ <<c>> # << >>
    OBVIOUS
  <2> QED BY <1>1, <2>1, BeginsQueue
<1>2. CASE RunsStart \/ RunsAdvance \/ RunsSolution \/ RunsApply \/ RunsReset
  <2>1. 1 \in SqlLabs
    BY DEF SqlLabs
  <2> QED BY <1>1, <1>2, <2>1, CommandsTyped
          DEF RunsStart, RunsAdvance, RunsSolution, RunsApply, RunsReset, Runs
<1>3. CASE Finish
  <2>1. PICK l \in Labs : Begins(Chain(EarlierLabs(l) \cup {l}))
    BY <1>3 DEF Finish
  <2> QED BY <2>1, ChainTyped, BeginsQueue
<1>4. CASE SkipTo
  <2>1. PICK l \in Labs : LET steps == Chain(EarlierLabs(l))
                          IN  Begins(IF steps = << >> THEN <<Command("start", l)>> ELSE steps)
    BY <1>4 DEF SkipTo
  <2> QED BY <1>1, <2>1, CommandsTyped, ChainTyped, BeginsQueue
<1>5. CASE Edit
  BY <1>5 DEF Edit, QueueOK, Fresh, Prepares, commandVars, Active, Lab
<1>6. CASE Interrupt
  BY <1>6, QuitsQueue DEF Interrupt
<1>7. ASSUME pc # "idle", Finishes \/ Quits PROVE QueueOK' /\ Fresh'
  BY <1>7, FinishesQueue, QuitsQueue
<1>8. ASSUME pc # "idle", NEW to \in PlacesOf(Active), Continues(to), to # "idle",
             to \in {"bind", "save"} => Lab = 1
      PROVE  QueueOK' /\ pc # "idle" /\ pc' # "idle" /\ UNCHANGED queue
  BY <1>8, ContinuesQueue DEF Continues
\* A step of start stays among its steps, which advance and reset share.
<1>9. ASSUME pc \in Prepares, NEW to \in Prepares, Continues(to)
      PROVE  QueueOK' /\ pc # "idle" /\ pc' # "idle" /\ UNCHANGED queue
  <2>1. pc # "idle" /\ to # "idle" /\ to \notin {"bind", "save"}
    BY <1>9 DEF Prepares
  <2>2. to \in PlacesOf(Active)
    BY <1>9, <2>1, ActiveTyped DEF PlacesOf
  <2> QED BY <1>8, <1>9, <2>1, <2>2
<1>10. CASE Enter \/ SkipsFault \/ PlansFault \/ Install \/ Mark \/ Apply \/ RecordsApply
            \/ Capture \/ Complete
  BY <1>7, <1>9, <1>10 DEF Enter, SkipsFault, PlansFault, Install, Mark, Apply, RecordsApply, Capture,
                    Complete, AfterFault, Prepares
<1>11. CASE PutBack
  BY <1>11 DEF PutBack, commandVars, QueueOK, Active, Lab
\* And a step of advance or reset, among its own.
<1>12. ASSUME pc \in Advances, NEW to \in Advances \cup {"enter"}, Continues(to),
              to \in {"bind", "save"} => Lab = 1
       PROVE  QueueOK' /\ pc # "idle" /\ pc' # "idle" /\ UNCHANGED queue
  <2>1. pc # "idle" /\ to # "idle"
    BY <1>12 DEF Advances
  <2>2. to \in PlacesOf(Active)
    BY <1>12, <2>1, ActiveTyped DEF PlacesOf, Prepares
  <2> QED BY <1>8, <1>12, <2>1, <2>2
<1>13. CASE AppliesSavedRepairs \/ ChecksRepairs \/ BindsHandOff \/ Prove \/ SavesHandOff
  BY <1>7, <1>12, <1>13 DEF AppliesSavedRepairs, ChecksRepairs, BindsHandOff, Prove, SavesHandOff,
                            Advances
<1>14. ASSUME pc \in Resets, NEW to \in Resets \cup {"enter"}, Continues(to)
       PROVE  QueueOK' /\ pc # "idle" /\ pc' # "idle" /\ UNCHANGED queue
  <2>1. pc # "idle" /\ to # "idle" /\ to \notin {"bind", "save"}
    BY <1>14 DEF Resets
  <2>2. to \in PlacesOf(Active)
    BY <1>14, <2>1, ActiveTyped DEF PlacesOf, Prepares
  <2> QED BY <1>8, <1>14, <2>1, <2>2
<1>15. CASE Discard \/ ForgetStart \/ ForgetCompletion \/ ForgetHandOff \/ Reapply
  BY <1>7, <1>14, <1>15 DEF Discard, ForgetStart, ForgetCompletion, ForgetHandOff, Reapply, Resets
<1>16. CASE Solve \/ Sql \/ Repeat \/ Grade
  BY <1>7, <1>16 DEF Solve, Sql, Repeat, Grade
<1> QED
  BY <1>2, <1>3, <1>4, <1>5, <1>6, <1>10, <1>11, <1>13, <1>15, <1>16 DEF LabNext
-----------------------------------------------------------------------------
(* Types.                                                                  *)

Records == [begun : BOOLEAN, fault : {"none", "installing", "done"},
            before : Blocks \cup {NoBlock}, applied : BOOLEAN,
            evidence : {"none", "failing run", "no failing run", "refusal"},
            completed : BOOLEAN, at : 0..MaxMishaps]

FilesTyped ==
    /\ source \in [Labs -> Blocks] /\ aurora \in [SqlLabs -> Blocks \ {"missing"}]
    /\ record \in [Labs -> Records] /\ completion \subseteq SqlLabs
    /\ found \in [Labs -> Blocks \cup {NoBlock}]
    /\ mishaps \in 0..MaxMishaps /\ resets \in 0..mishaps

LEMMA TypedParts == LabTyped <=> FilesTyped /\ QueueOK
BY DEF LabTyped, LabTypeOK, FilesTyped, QueueOK, Records

\* What Aurora runs after an apply is the two files that were read.
LEMMA AppliedTyped ==
    ASSUME FilesTyped, AppliesSql
    PROVE  aurora' \in [SqlLabs -> Blocks \ {"missing"}] /\ \A l \in SqlLabs : aurora'[l] = source[l]
<1>1. \A i \in 1..2 : source[i] \in Blocks \ {"missing"}
  BY DEF FilesTyped, AppliesSql, CanApply, SqlLabs, Labs
<1>2. /\ SubSeq(source, 1, 2) \in Seq(Blocks \ {"missing"}) /\ Len(SubSeq(source, 1, 2)) = 2
      /\ \A i \in 1..2 : SubSeq(source, 1, 2)[i] = source[i]
  BY <1>1, SubSeqProperties
<1>3. SubSeq(source, 1, 2) \in [1..2 -> Blocks \ {"missing"}]
  BY <1>2, LenProperties
<1> QED
  BY <1>2, <1>3 DEF AppliesSql, SqlLabs

LEMMA SavesTyped ==
    ASSUME record \in [Labs -> Records], NEW l \in Labs, NEW saved \in Records, Saves(l, saved)
    PROVE  /\ record' \in [Labs -> Records]
           /\ \A k \in Labs : k # l => record'[k] = record[k]
           /\ record'[l].fault = saved.fault /\ record'[l].before = saved.before
BY DEF Saves, Records

LEMMA EvidenceTyped ==
    ASSUME FilesTyped, NEW l \in Labs, NEW e \in SearchEvidence(l)
    PROVE  [record[l] EXCEPT !.evidence = e, !.at = IF l = 1 THEN resets ELSE 0] \in Records
<1>1. e \in {"failing run", "no failing run", "refusal"}
  BY DEF SearchEvidence
<1>2. mishaps \in Nat /\ mishaps <= MaxMishaps /\ resets \in 0..mishaps
  BY LabAssumption DEF FilesTyped
<1>3. (IF l = 1 THEN resets ELSE 0) \in 0..MaxMishaps
  BY <1>2, LabAssumption
<1>4. record[l] \in Records
  BY DEF FilesTyped
<1> QED
  BY <1>1, <1>3, <1>4 DEF Records

LEMMA FilesStep ==
    ASSUME LabTyped, LabNext
    PROVE  FilesTyped'
<1>0. FilesTyped /\ QueueOK /\ MaxMishaps \in Nat
  BY TypedParts, LabAssumption
<1>1. pc # "idle" => Lab \in Labs /\ Target \in Labs
  BY <1>0, ActiveTyped
<1>2. {"reference", "broken", "own", "wrong", "missing"} \subseteq Blocks /\ NoBlock \notin Blocks
      /\ NoRecord \in Records
  BY <1>0 DEF Blocks, NoBlock, NoRecord, Records
<1>3. ASSUME UNCHANGED <<source, aurora, record, completion, found, mishaps, resets>>
      PROVE  FilesTyped'
  BY <1>0, <1>3 DEF FilesTyped
<1>4. ASSUME UNCHANGED <<source, aurora, record, completion, found>>,
             mishaps < MaxMishaps, mishaps' = mishaps + 1,
             resets' = resets \/ resets' = resets + 1
      PROVE  FilesTyped'
  BY <1>0, <1>4 DEF FilesTyped
<1>5. CASE RunsStart \/ RunsAdvance \/ RunsSolution \/ RunsApply \/ Finish \/ SkipTo
  BY <1>3, <1>5 DEF RunsStart, RunsAdvance, RunsSolution, RunsApply, Finish, SkipTo, Runs, Begins,
                    historyVars, countVars
<1>6. CASE RunsReset \/ Interrupt
  BY <1>4, <1>6 DEF RunsReset, Interrupt, Begins, historyVars
<1>7. CASE Edit
  BY <1>0, <1>2, <1>7 DEF Edit, FilesTyped, historyVars
<1>8. CASE Enter \/ SkipsFault \/ ChecksRepairs \/ BindsHandOff \/ Repeat \/ Grade \/ SavesHandOff
           \/ ForgetHandOff
  BY <1>3, <1>8 DEF Enter, SkipsFault, ChecksRepairs, BindsHandOff, Repeat, Grade, SavesHandOff,
                    ForgetHandOff, historyVars, countVars
<1>9. CASE PutBack
  <2>1. Target \in Labs \/ source' = source
    BY <1>1, <1>9 DEF PutBack
  <2> QED BY <1>0, <1>2, <1>9, <2>1 DEF PutBack, FilesTyped, historyVars, countVars
<1>10. CASE Install
  BY <1>0, <1>1, <1>2, <1>10 DEF Install, FilesTyped, historyVars, countVars
<1>11. CASE PlansFault
  <2> DEFINE saved == [record[Target] EXCEPT !.fault = "installing", !.before = source[Target]]
  <2>1. Target \in Labs /\ UNCHANGED <<source, aurora, completion, mishaps, resets>>
    BY <1>1, <1>11 DEF PlansFault, countVars
  <2>2. saved \in Records
    BY <1>0, <2>1 DEF FilesTyped, Records
  <2>3. record' = record \/ Saves(Target, saved)
    BY <1>11 DEF PlansFault
  <2>4. record' \in [Labs -> Records]
    BY <1>0, <2>1, <2>2, <2>3, SavesTyped DEF FilesTyped
  <2>5. found' \in [Labs -> Blocks \cup {NoBlock}]
    BY <1>0, <1>11, <2>1 DEF PlansFault, FilesTyped
  <2> QED BY <1>0, <2>1, <2>4, <2>5 DEF FilesTyped
<1>12. ASSUME NEW l \in Labs, NEW saved \in Records, Saves(l, saved),
              UNCHANGED <<source, aurora, completion, found, mishaps, resets>>
       PROVE  FilesTyped'
  BY <1>0, <1>12, SavesTyped DEF FilesTyped
<1>13. CASE Mark
  <2>1. [record[Target] EXCEPT !.fault = "done", !.before = NoBlock] \in Records
    BY <1>0, <1>1, <1>13 DEF Mark, FilesTyped, Records
  <2> QED BY <1>1, <1>12, <1>13, <2>1 DEF Mark, historyVars, countVars
<1>14. CASE RecordsApply
  <2>1. 2 \in Labs /\ [record[2] EXCEPT !.applied = TRUE] \in Records
    <3>1. 2 \in Labs
      BY DEF Labs
    <3>2. record[2] \in Records
      BY <1>0, <3>1 DEF FilesTyped
    <3> QED BY <3>1, <3>2 DEF Records
  <2> QED BY <1>12, <1>14, <2>1 DEF RecordsApply, historyVars, countVars
<1>15. CASE Capture
  <2>1. Target \in Labs
    BY <1>1, <1>15 DEF Capture
  <2>2. \A e \in SearchEvidence(Target) :
           [record[Target] EXCEPT !.evidence = e, !.at = IF Target = 1 THEN resets ELSE 0] \in Records
    BY <1>0, <2>1, EvidenceTyped DEF FilesTyped
  <2> QED BY <1>3, <1>12, <1>15, <2>1, <2>2 DEF Capture, historyVars, countVars
<1>16. CASE Complete
  <2>1. [record[Target] EXCEPT !.completed = TRUE] \in Records
    BY <1>0, <1>1, <1>16 DEF Complete, FilesTyped, Records
  <2> QED BY <1>1, <1>12, <1>16, <2>1 DEF Complete, historyVars, countVars
<1>17. ASSUME AppliesSql \/ aurora' = aurora,
              UNCHANGED <<source, record, completion, found, mishaps, resets>>
       PROVE  FilesTyped'
  BY <1>0, <1>17, AppliedTyped DEF FilesTyped
<1>18. CASE Apply \/ AppliesSavedRepairs \/ Reapply \/ Sql
  BY <1>17, <1>18 DEF Apply, AppliesSavedRepairs, Reapply, Sql, historyVars, countVars
<1>19. CASE Prove
  <2>1. Lab \in SqlLabs
    BY <1>0, <1>19, ActiveTyped DEF Prove, Advances
  <2> QED BY <1>0, <1>19, <2>1 DEF Prove, FilesTyped, countVars
<1>20. CASE Discard
  BY <1>0, <1>1, <1>2, <1>20 DEF Discard, FilesTyped, countVars
<1>21. CASE ForgetStart
  BY <1>0, <1>1, <1>2, <1>21 DEF ForgetStart, FilesTyped, historyVars, countVars
<1>22. CASE ForgetCompletion
  BY <1>0, <1>22 DEF ForgetCompletion, FilesTyped, historyVars, countVars
<1>23. CASE Solve
  BY <1>0, <1>1, <1>2, <1>23 DEF Solve, FilesTyped, historyVars, countVars
<1> QED
  BY <1>5, <1>6, <1>7, <1>8, <1>9, <1>10, <1>11, <1>13, <1>14, <1>15, <1>16, <1>18, <1>19, <1>20,
     <1>21, <1>22, <1>23 DEF LabNext

-----------------------------------------------------------------------------
(* Edits.                                                                  *)

LEMMA FaultStep ==
    ASSUME LabTyped, FaultInv, LabNext
    PROVE  FaultInv'
<1>0. FilesTyped /\ QueueOK
  BY TypedParts
<1>1. pc # "idle" => Lab \in Labs /\ Target \in Labs
  BY <1>0, ActiveTyped
<1>2. \A l \in Labs : found[l] # NoBlock =>
          /\ record[l].fault # "none"
          /\ record[l].fault = "installing" => record[l].before = found[l]
  BY DEF FaultInv
<1>3. ASSUME UNCHANGED found, pc' \notin {"install", "forget_start"},
             \A l \in Labs : /\ record'[l].fault = record[l].fault
                             /\ record'[l].before = record[l].before
      PROVE  FaultInv'
  BY <1>2, <1>3 DEF FaultInv
<1>4. ASSUME UNCHANGED <<found, record>>, pc' \notin {"install", "forget_start"}
      PROVE  FaultInv'
  BY <1>3, <1>4
<1>5. ASSUME UNCHANGED <<found, record>>, Fresh' PROVE FaultInv'
  BY <1>4, <1>5 DEF Fresh
<1>6. CASE RunsStart \/ RunsAdvance \/ RunsSolution \/ RunsApply \/ RunsReset \/ Finish \/ SkipTo
  <2>1. UNCHANGED <<found, record>> /\ pc = "idle"
    BY <1>6 DEF RunsStart, RunsAdvance, RunsSolution, RunsApply, RunsReset, Finish, SkipTo, Runs,
                Begins, historyVars
  <2> QED BY <1>0, <1>5, <2>1, QueueStep
<1>7. CASE Edit \/ Interrupt
  <2>1. UNCHANGED <<found, record>> /\ pc' = "idle"
    BY <1>7 DEF Edit, Interrupt, Quits, commandVars, historyVars
  <2> QED BY <1>4, <2>1
<1>8. ASSUME UNCHANGED <<found, record>>, NEW to, Continues(to), to \notin {"install", "forget_start"}
      PROVE  FaultInv'
  BY <1>4, <1>8 DEF Continues
<1>9. ASSUME UNCHANGED <<found, record>>, pc # "idle", Finishes \/ Quits PROVE FaultInv'
  BY <1>0, <1>5, <1>9, FinishesQueue, QuitsQueue
<1>10. CASE Enter \/ SkipsFault \/ Install \/ Apply \/ AppliesSavedRepairs \/ ChecksRepairs
            \/ BindsHandOff \/ Prove \/ SavesHandOff \/ ForgetCompletion \/ ForgetHandOff \/ Reapply
            \/ Solve \/ Sql \/ Repeat \/ Grade
  BY <1>8, <1>9, <1>10
     DEF Enter, SkipsFault, Install, Apply, AppliesSavedRepairs, ChecksRepairs, BindsHandOff, Prove,
         SavesHandOff, ForgetCompletion, ForgetHandOff, Reapply, Solve, Sql, Repeat, Grade,
         historyVars, AfterFault
<1>11. CASE PutBack
  BY <1>4, <1>11 DEF PutBack, commandVars, historyVars
<1>12. CASE RecordsApply \/ Capture \/ Complete
  <2>1. UNCHANGED found /\ (pc' \in {"capture", "complete"} \/ (Finishes /\ pc # "idle"))
    BY <1>12 DEF RecordsApply, Capture, Complete, Continues, historyVars
  <2>2. pc' \notin {"install", "forget_start"}
    BY <1>0, <2>1, FinishesQueue DEF Fresh
  <2>3. \A l \in Labs : record'[l].fault = record[l].fault /\ record'[l].before = record[l].before
    <3>1. ASSUME NEW k \in Labs, NEW saved, saved.fault = record[k].fault,
                 saved.before = record[k].before, saved \in Records, Saves(k, saved)
          PROVE  \A l \in Labs : /\ record'[l].fault = record[l].fault
                                 /\ record'[l].before = record[l].before
      BY <1>0, <3>1, SavesTyped DEF FilesTyped
    <3>2. CASE RecordsApply
      <4>1. 2 \in Labs
        BY DEF Labs
      <4>2. record[2] \in Records
        BY <1>0, <4>1 DEF FilesTyped
      <4>3. [record[2] EXCEPT !.applied = TRUE] \in Records
        BY <4>2 DEF Records
      <4> QED BY <3>1, <3>2, <4>1, <4>2, <4>3 DEF RecordsApply, Records
    <3>3. CASE Complete
      <4>1. Target \in Labs
        BY <1>1, <3>3 DEF Complete
      <4>2. record[Target] \in Records
        BY <1>0, <4>1 DEF FilesTyped
      <4>3. [record[Target] EXCEPT !.completed = TRUE] \in Records
        BY <4>2 DEF Records
      <4> QED BY <3>1, <3>3, <4>1, <4>2, <4>3 DEF Complete, Records
    <3>4. CASE Capture
      <4> DEFINE saved(e) == [record[Target] EXCEPT !.evidence = e,
                                                    !.at = IF Target = 1 THEN resets ELSE 0]
      <4>1. Target \in Labs
        BY <1>1, <3>4 DEF Capture
      <4>2. record[Target] \in Records
        BY <1>0, <4>1 DEF FilesTyped
      <4>3. record' = record \/ \E e \in SearchEvidence(Target) : Saves(Target, saved(e))
        BY <3>4 DEF Capture
      <4>4. \A e : /\ saved(e).fault = record[Target].fault
                   /\ saved(e).before = record[Target].before
        BY <4>2 DEF Records
      <4>5. \A e \in SearchEvidence(Target) : saved(e) \in Records
        BY <1>0, <4>1, <4>2, EvidenceTyped
      <4> HIDE DEF saved
      <4> QED BY <3>1, <4>1, <4>3, <4>4, <4>5
    <3> QED BY <1>12, <3>2, <3>3, <3>4
  <2> QED BY <1>3, <2>1, <2>2, <2>3
<1>13. CASE Mark
  <2>1. /\ Target \in Labs /\ UNCHANGED found /\ pc' \in {"apply", "capture"}
        /\ Saves(Target, [record[Target] EXCEPT !.fault = "done", !.before = NoBlock])
    BY <1>1, <1>13 DEF Mark, Continues, AfterFault, historyVars
  <2>2. [record[Target] EXCEPT !.fault = "done", !.before = NoBlock] \in Records
    BY <1>0, <2>1 DEF FilesTyped, Records
  <2>3. /\ record'[Target].fault = "done"
        /\ \A l \in Labs : l # Target => record'[l] = record[l]
    BY <1>0, <2>1, <2>2, SavesTyped DEF FilesTyped, Records
  <2> QED BY <1>2, <2>1, <2>3 DEF FaultInv
<1>14. CASE PlansFault
  <2>1. Target \in Labs /\ record[Target] \in Records /\ source[Target] \in Blocks
    BY <1>0, <1>1, <1>14 DEF PlansFault, FilesTyped
  <2>2. CASE KeepsEdits(Target) \/ source[Target] = "broken"
    BY <1>8, <1>14, <2>2 DEF PlansFault
  <2>3. CASE ~(KeepsEdits(Target) \/ source[Target] = "broken")
    <3> DEFINE saved == [record[Target] EXCEPT !.fault = "installing", !.before = source[Target]]
    <3>1. Saves(Target, saved) /\ source' = source /\ pc' = "install" /\ Target' = Target
      BY <1>14, <2>3 DEF PlansFault, Continues, Target, Active
    <3>2. saved \in Records /\ saved.fault = "installing" /\ saved.before = source[Target]
      BY <2>1 DEF Records
    <3>3. /\ record'[Target].fault = "installing" /\ record'[Target].before = source[Target]
          /\ \A l \in Labs : l # Target => record'[l] = record[l]
      BY <1>0, <2>1, <3>1, <3>2, SavesTyped DEF FilesTyped
    <3>4. found'[Target] = source[Target] /\ \A l \in Labs : l # Target => found'[l] = found[l]
      <4>1. CASE found[Target] = NoBlock
        BY <1>0, <1>14, <2>1, <2>3, <4>1 DEF PlansFault, FilesTyped
      \* The fault is being installed, and the block is the one found before.
      <4>2. CASE found[Target] # NoBlock
        <5>1. record[Target].fault = "installing" /\ record[Target].before = found[Target]
          BY <1>2, <1>14, <2>1, <4>2 DEF PlansFault, FaultDone, Records
        <5>2. source[Target] = found[Target]
          BY <2>3, <5>1 DEF KeepsEdits
        <5>3. found'[Target] = found[Target] /\ \A l \in Labs : l # Target => found'[l] = found[l]
          BY <1>0, <1>14, <2>1, <2>3, <4>2 DEF PlansFault, FilesTyped
        <5> QED BY <5>2, <5>3
      <4> QED BY <4>1, <4>2
    <3>5. source[Target] # NoBlock
      BY <2>1 DEF Blocks, NoBlock
    <3> QED BY <1>2, <2>1, <3>1, <3>3, <3>4, <3>5 DEF FaultInv
  <2> QED BY <2>2, <2>3
<1>15. CASE Discard
  <2>1. CASE Unmet(Lab)
    BY <1>9, <1>15, <2>1 DEF Discard
  <2>2. CASE ~Unmet(Lab)
    <3>1. /\ Lab \in Labs /\ found' = [found EXCEPT ![Lab] = NoBlock] /\ record' = record
          /\ pc' = "forget_start" /\ Lab' = Lab
      BY <1>1, <1>15, <2>2 DEF Discard, Continues, Lab, Active
    <3>2. found'[Lab] = NoBlock /\ \A l \in Labs : l # Lab => found'[l] = found[l]
      BY <1>0, <3>1 DEF FilesTyped
    <3> QED BY <1>2, <3>1, <3>2 DEF FaultInv
  <2> QED BY <2>1, <2>2
<1>16. CASE ForgetStart
  <2>1. /\ Lab \in Labs /\ found' = found /\ record' = [record EXCEPT ![Lab] = NoRecord]
        /\ pc' = "forget_completion" /\ found[Lab] = NoBlock
    BY <1>1, <1>16 DEF ForgetStart, Continues, FaultInv, historyVars
  <2>2. \A l \in Labs : l # Lab => record'[l] = record[l]
    BY <1>0, <2>1 DEF FilesTyped
  <2> QED BY <1>2, <2>1, <2>2 DEF FaultInv
<1> QED
  BY <1>6, <1>7, <1>10, <1>11, <1>12, <1>13, <1>14, <1>15, <1>16 DEF LabNext

-----------------------------------------------------------------------------
(* The hand-off.                                                           *)

\* The places at which evidence is gathered and used.
Gathers == {"bind", "prove", "save"}

LEMMA HandOffStep ==
    ASSUME LabTyped, HandOffInv, LabNext
    PROVE  HandOffInv'
<1>0. FilesTyped /\ QueueOK
  BY TypedParts
<1>1. pc # "idle" => Lab \in Labs /\ Target \in Labs
  BY <1>0, ActiveTyped
<1>2. handoff # NoHandOff => handoff = proved
  BY DEF HandOffInv
<1>3. ASSUME UNCHANGED <<handoff, proved>>, pc' \notin Gathers, ~(pc' \in Prepares /\ HandsOff')
      PROVE  HandOffInv'
  BY <1>2, <1>3 DEF HandOffInv, HandOffIsOfThisRepair, Gathers, Prepares, HandsOff
<1>4. ASSUME UNCHANGED <<handoff, proved>>, Fresh' PROVE HandOffInv'
  BY <1>3, <1>4 DEF Fresh, Gathers
\* A start in the middle of a hand-off prepares Lab 2.
<1>5. ASSUME pc \in Prepares, NEW to \in Prepares, Continues(to) \/ (to = pc /\ UNCHANGED <<pc, queue>>),
             UNCHANGED <<handoff, proved>>,
             HandsOff => source'[1] = source[1] /\ record'[1] = record[1]
      PROVE  HandOffInv'
  <2>1. pc' \in Prepares /\ Active' = Active /\ pc' \notin Gathers
    BY <1>5 DEF Continues, Active, Prepares, Gathers
  <2>2. CASE HandsOff
    BY <1>2, <1>5, <2>1, <2>2 DEF HandOffInv, HandOffIsOfThisRepair, Gathers, Prepares, HandsOff
  <2>3. CASE ~HandsOff
    BY <1>3, <1>5, <2>1, <2>3 DEF HandsOff
  <2> QED BY <2>2, <2>3
<1>6. HandsOff => Target = 2
  BY DEF HandsOff, Command, Target
<1>7. ASSUME UNCHANGED <<handoff, proved>>, pc # "idle", Finishes \/ Quits PROVE HandOffInv'
  BY <1>0, <1>4, <1>7, FinishesQueue, QuitsQueue
<1>8. ASSUME pc # "idle", UNCHANGED <<handoff, proved>>, NEW to, Continues(to), to \notin Gathers,
             to \notin Prepares \/ Active.name # "advance"
      PROVE  HandOffInv'
  BY <1>3, <1>8 DEF Continues, HandsOff, Active, Command
<1>9. CASE RunsStart \/ RunsAdvance \/ RunsSolution \/ RunsApply \/ RunsReset \/ Finish \/ SkipTo
  <2>1. UNCHANGED <<handoff, proved>> /\ pc = "idle"
    BY <1>9 DEF RunsStart, RunsAdvance, RunsSolution, RunsApply, RunsReset, Finish, SkipTo, Runs,
                Begins, historyVars
  <2> QED BY <1>0, <1>4, <2>1, QueueStep
<1>10. CASE Edit \/ Interrupt
  <2>1. UNCHANGED <<handoff, proved>> /\ pc' = "idle"
    BY <1>10 DEF Edit, Interrupt, Quits, commandVars, historyVars
  <2> QED BY <1>3, <2>1 DEF Gathers, Prepares
<1>11. CASE Enter \/ SkipsFault \/ Apply
  BY <1>5, <1>7, <1>11 DEF Enter, SkipsFault, Apply, AfterFault, Prepares, historyVars
<1>12. CASE PutBack \/ Install
  <2>1. pc \in Prepares /\ UNCHANGED <<handoff, proved, record>>
        /\ source' = [source EXCEPT ![Target] = "broken"]
    BY <1>12 DEF PutBack, Install, Prepares, historyVars
  <2>2. HandsOff => source'[1] = source[1]
    BY <1>0, <1>6, <2>1 DEF FilesTyped, Labs
  <2> QED BY <1>5, <1>12, <2>1, <2>2 DEF PutBack, Install, Prepares, commandVars
<1>13. CASE PlansFault \/ Mark \/ RecordsApply \/ Capture
  <2>1. /\ pc \in Prepares /\ UNCHANGED <<handoff, proved, source>>
        /\ \E to \in Prepares : Continues(to)
    BY <1>13 DEF PlansFault, Mark, RecordsApply, Capture, AfterFault, Prepares, historyVars
  <2>2. record' = record \/ \E l \in {Target, 2} : \E saved : Saves(l, saved)
    BY <1>13 DEF PlansFault, Mark, RecordsApply, Capture
  <2>3. HandsOff => record'[1] = record[1]
    BY <1>0, <1>6, <2>2 DEF Saves, FilesTyped, Labs
  <2> QED BY <1>5, <2>1, <2>3
<1>14. CASE Complete
  BY <1>7, <1>14 DEF Complete, historyVars
<1>15. CASE AppliesSavedRepairs
  BY <1>7, <1>8, <1>15 DEF AppliesSavedRepairs, Prepares, Gathers, historyVars
<1>16. CASE ChecksRepairs
  <2>1. UNCHANGED <<handoff, proved, source, aurora, record>> /\ pc = "check"
    BY <1>16 DEF ChecksRepairs, historyVars
  <2>2. CASE Unmet(Lab + 1)
    BY <1>7, <1>16, <2>1, <2>2 DEF ChecksRepairs
  <2>3. CASE ~Unmet(Lab + 1)
    <3>1. pc' = (IF Lab = 1 THEN "bind" ELSE "prove") /\ Lab' = Lab
      BY <1>16, <2>3 DEF ChecksRepairs, Continues, Lab, Active
    <3>2. Lab = 1 => aurora[1] = source[1]
      BY <2>3 DEF Unmet, Ready, Applied
    <3> QED BY <1>2, <2>1, <3>1, <3>2 DEF HandOffInv, HandOffIsOfThisRepair
  <2> QED BY <2>2, <2>3
<1>17. CASE BindsHandOff
  <2>1. UNCHANGED <<handoff, proved, source, aurora, record>> /\ pc = "bind" /\ Lab = 1
    BY <1>0, <1>17 DEF BindsHandOff, QueueOK, historyVars
  <2>2. CASE handoff # NoHandOff /\ handoff = Binding
    <3>1. pc' = "enter" /\ proved' = Binding'
      BY <1>2, <1>17, <2>1, <2>2 DEF BindsHandOff, Continues, Binding
    <3> QED BY <1>2, <2>1, <3>1 DEF HandOffInv, HandOffIsOfThisRepair, Binding
  <2>3. CASE handoff = NoHandOff /\ ~(record[2].begun /\ CanMask)
    <3>1. pc' = "prove" /\ Lab' = 1 /\ aurora[1] = source[1]
      BY <1>17, <2>1, <2>3 DEF BindsHandOff, Continues, Lab, Active, HandOffInv
    <3> QED BY <2>1, <2>3, <3>1 DEF HandOffInv, HandOffIsOfThisRepair
  <2> QED BY <1>7, <1>17, <2>1, <2>2, <2>3 DEF BindsHandOff
<1>18. CASE Prove
  <2>1. UNCHANGED <<handoff, source, aurora, record>> /\ pc = "prove"
    BY <1>18 DEF Prove
  <2>2. CASE Quits
    BY <1>7, <1>18, <2>1, <2>2 DEF Prove, Quits, Continues
  <2>3. CASE Lab = 1 /\ Continues("save")
    <3>1. aurora[1] = source[1] /\ handoff = NoHandOff
      BY <2>1, <2>3 DEF HandOffInv
    <3>2. pc' = "save" /\ proved' = [seam |-> aurora[1], entry |-> record[1]]
      BY <1>18, <2>3 DEF Prove, Continues, Quits
    <3> QED BY <2>1, <3>1, <3>2 DEF HandOffInv, HandOffIsOfThisRepair, Binding
  <2>4. CASE Lab # 1 /\ Continues("enter")
    <3>1. proved' = proved
      BY <1>18, <2>4 DEF Prove
    <3>2. pc' = "enter" /\ Active' = Active /\ ~HandsOff
      BY <2>4 DEF Continues, Active, HandsOff, Command, Lab
    <3> QED BY <1>3, <2>1, <3>1, <3>2 DEF Gathers, HandsOff
  <2> QED BY <1>18, <2>2, <2>3, <2>4 DEF Prove
<1>19. CASE SavesHandOff
  <2>1. UNCHANGED <<proved, source, aurora, record>> /\ pc' = "enter" /\ handoff' = Binding
    BY <1>19 DEF SavesHandOff, Continues, historyVars
  <2>2. proved = Binding
    BY <1>19 DEF SavesHandOff, HandOffInv
  <2> QED BY <2>1, <2>2 DEF HandOffInv, HandOffIsOfThisRepair, Binding
<1>20. CASE Discard \/ ForgetStart \/ ForgetCompletion \/ Reapply
  <2>1. pc \in Resets /\ UNCHANGED <<handoff, proved>>
    BY <1>20 DEF Discard, ForgetStart, ForgetCompletion, Reapply, Resets, historyVars
  <2>2. Active.name # "advance" /\ pc # "idle"
    BY <1>0, <2>1, ActiveTyped DEF Resets
  <2>3. Quits \/ \E to : Continues(to) /\ to \notin Gathers
    BY <1>20 DEF Discard, ForgetStart, ForgetCompletion, Reapply, Gathers
  <2> QED BY <1>7, <1>8, <2>1, <2>2, <2>3
<1>21. CASE ForgetHandOff
  BY <1>21 DEF ForgetHandOff, Continues, HandOffInv, HandOffIsOfThisRepair
<1>22. CASE Solve \/ Sql \/ Repeat \/ Grade
  BY <1>7, <1>22 DEF Solve, Sql, Repeat, Grade, historyVars
<1> QED
  BY <1>9, <1>10, <1>11, <1>12, <1>13, <1>14, <1>15, <1>16, <1>17, <1>18, <1>19, <1>20, <1>21,
     <1>22 DEF LabNext

-----------------------------------------------------------------------------
LEMMA LabInvInit == ASSUME LabInit PROVE LabInv
<1>1. /\ source = <<"broken", "reference", "reference">> /\ aurora = <<"broken", "reference">>
      /\ record = [l \in Labs |-> NoRecord] /\ completion = {} /\ handoff = NoHandOff
      /\ queue = << >> /\ pc = "idle" /\ found = [l \in Labs |-> NoBlock]
      /\ mishaps = 0 /\ resets = 0
  BY DEF LabInit
<1>2. source \in [Labs -> Blocks] /\ aurora \in [SqlLabs -> Blocks \ {"missing"}]
  BY <1>1 DEF Labs, SqlLabs, Blocks
<1>3. NoRecord \in Records
  BY LabAssumption DEF NoRecord, Records
<1>4. FilesTyped
  BY <1>1, <1>2, <1>3, LabAssumption DEF FilesTyped
<1>5. QueueOK
  BY <1>1, EmptySeq DEF QueueOK
<1> QED
  BY <1>1, <1>4, <1>5, TypedParts DEF LabInv, FaultInv, HandOffInv, HandOffIsOfThisRepair

LEMMA LabInvStep == ASSUME LabInv, [LabNext]_labVars PROVE LabInv'
<1>1. CASE UNCHANGED labVars
  BY <1>1 DEF labVars, LabInv, LabTyped, LabTypeOK, QueueOK, FaultInv, HandOffInv,
              HandOffIsOfThisRepair, Active, Lab, Target, Binding
<1>2. CASE LabNext
  <2>1. LabTyped'
    <3>1. FilesTyped' /\ QueueOK'
      BY <1>2, FilesStep, QueueStep DEF LabInv, LabTyped
    <3> QED BY <3>1 DEF LabTyped, LabTypeOK, FilesTyped, QueueOK, Records
  <2> QED BY <1>2, <2>1, FaultStep, HandOffStep DEF LabInv
<1> QED
  BY <1>1, <1>2

LEMMA LabInvHolds == LabSpec => []LabInv
BY LabInvInit, LabInvStep, PTL DEF LabSpec

\* Every file and record of the workshop keeps its type, and a command stands somewhere
\* exactly as long as the queue holds one, for any number of mishaps.
THEOREM LabTypeHolds == LabSpec => []LabTypeOK
<1>1. LabInv => LabTypeOK
  BY DEF LabInv, LabTyped
<1> QED
  BY <1>1, LabInvHolds, PTL

\* A hand-off into Lab 2 rests on live checks of the Lab 1 block and entry that are there,
\* whatever was edited, reset or interrupted before.
THEOREM HandOffHolds == LabSpec => []HandOffIsOfThisRepair
<1>1. LabInv => HandOffIsOfThisRepair
  BY DEF LabInv, HandOffInv
<1> QED
  BY <1>1, LabInvHolds, PTL

\* A start writes its fault over a block the participant changed only when that block is
\* what the start first found, however often it is interrupted; only a reset discards it.
THEOREM EditsSurviveHolds == LabSpec => EditsSurvive
<1> DEFINE Survives == \A l \in Labs :
               source'[l] = "broken" /\ source[l] \notin {"broken", "missing"}
               => source[l] = found[l] \/ Active.name = "reset"
<1>1. ASSUME LabInv, [LabNext]_labVars PROVE [Survives]_labVars
  <2> SUFFICES ASSUME LabNext, NEW l \in Labs, source'[l] = "broken",
                      source[l] \notin {"broken", "missing"}
               PROVE  source[l] = found[l] \/ Active.name = "reset"
    BY <1>1
  <2>0. FilesTyped /\ QueueOK
    BY <1>1, TypedParts DEF LabInv
  <2>1. source' # source
    OBVIOUS
  <2>2. ~Edit
    <3>1. SUFFICES ASSUME Edit PROVE FALSE
      OBVIOUS
    <3>2. PICK k \in Labs, block \in {"own", "wrong", "missing"} :
              source' = [source EXCEPT ![k] = block]
      BY <3>1 DEF Edit
    <3> QED BY <2>0, <3>2 DEF FilesTyped
  <2>3. ~Solve
    BY <2>0 DEF Solve, FilesTyped
  <2>4. ~PutBack
    BY <2>0 DEF PutBack, FilesTyped
  <2>5. CASE Install
    <3>1. l = Target
      BY <2>0, <2>5 DEF Install, FilesTyped
    <3>2. source[Target] = record[Target].before /\ record[Target].fault = "installing"
      BY <1>1, <2>5 DEF Install, LabInv, FaultInv
    <3>3. found[Target] # NoBlock
      BY <1>1, <2>5 DEF Install, LabInv, FaultInv
    <3>4. Target \in Labs
      BY <3>1
    <3> QED BY <1>1, <3>1, <3>2, <3>3, <3>4 DEF LabInv, FaultInv
  <2>6. CASE Discard
    BY <2>0, <2>6, ActiveTyped DEF Discard, Resets
  <2> QED
    BY <2>1, <2>2, <2>3, <2>4, <2>5, <2>6
       DEF LabNext, RunsStart, RunsAdvance, RunsSolution, RunsApply, RunsReset, Finish, SkipTo, Runs,
           Begins, Interrupt, Enter, SkipsFault, PlansFault, Mark, Apply, RecordsApply, Capture,
           Complete, AppliesSavedRepairs, ChecksRepairs, BindsHandOff, Prove, SavesHandOff,
           ForgetStart, ForgetCompletion, ForgetHandOff, Reapply, Sql, Repeat, Grade
<1> QED
  BY <1>1, LabInvHolds, PTL DEF LabSpec, EditsSurvive
=============================================================================
