------------------------------ MODULE LabEntry ------------------------------
(***************************************************************************)
(* The workshop's commands (scripts/lab_entry.py and scripts/lab_state.py, *)
(* with the live checks of scripts/prove_lab.py): start prepares a lab     *)
(* once, advance proves a SQL lab and starts the next, reset discards a    *)
(* lab's edits, finish and skip-to run these as a chain of commands.       *)
(*                                                                         *)
(* A step is what a command does up to and including its next lasting      *)
(* write: to a lab's file, to its start record, to the saved hand-off or   *)
(* to Aurora.  Between two steps a command may be interrupted, or fail,    *)
(* and is then run again.  One terminal runs one command at a time, and    *)
(* the participant edits a lab's block while no command runs.              *)
(*                                                                         *)
(* A marked block is told apart by what the commands tell apart: the       *)
(* exercise's fault, the reference answer, another repair that passes the  *)
(* contract, an edit that does not, and a deleted file.                    *)
(***************************************************************************)
EXTENDS Naturals, Sequences

CONSTANT MaxMishaps     \* the bound on edits, interrupts and resets together

ASSUME LabAssumption == MaxMishaps \in Nat

Labs == 1..3
SqlLabs == 1..2
Blocks == {"broken", "reference", "own", "wrong", "missing"}
Repaired(block) == block \in {"reference", "own"}

NoBlock == "none"
NoRecord == [begun |-> FALSE, fault |-> "none", before |-> NoBlock, applied |-> FALSE,
             evidence |-> "none", completed |-> FALSE, at |-> 0]
NoHandOff == [seam |-> NoBlock, entry |-> NoRecord]

VARIABLES
    source,        \* the marked block saved in each lab's file
    aurora,        \* the block of each SQL lab that Aurora runs
    record,        \* .local/lab-N/start.json
    completion,    \* the labs with a .local/lab-N/completion.json
    handoff,       \* .local/lab-1/handoff.json: the binding of Lab 1's evidence
    queue,         \* the commands to run, the one that runs first
    pc,            \* where the running command stands
    found,         \* history: the block a lab's start found when it first replaced it
    proved,        \* history: the block Lab 1's live checks last ran, and its entry
    mishaps,       \* the edits, interrupts and resets so far
    resets         \* the resets among them

labVars == <<source, aurora, record, completion, handoff, queue, pc,
             found, proved, mishaps, resets>>
commandVars == <<queue, pc>>
historyVars == <<found, proved>>
countVars == <<mishaps, resets>>

\* Lab 1's fault ships installed and applied, the other labs ship repaired.
LabInit ==
    /\ source = <<"broken", "reference", "reference">> /\ aurora = <<"broken", "reference">>
    /\ record = [l \in Labs |-> NoRecord] /\ completion = {} /\ handoff = NoHandOff
    /\ queue = << >> /\ pc = "idle"
    /\ found = [l \in Labs |-> NoBlock] /\ proved = NoHandOff
    /\ mishaps = 0 /\ resets = 0

-----------------------------------------------------------------------------
Command(name, lab) == [name |-> name, lab |-> lab]
Active == Head(queue)

\* The lab being prepared: a hand-off prepares the next one.
Target == IF Active.name = "advance" THEN Active.lab + 1 ELSE Active.lab

FirstStep(command) ==
    CASE command.name = "start" -> "enter"
      [] command.name = "advance" -> "ready"
      [] command.name = "reset" -> "discard"
      [] OTHER -> command.name

Finishes ==
    /\ queue' = Tail(queue)
    /\ pc' = IF Len(queue) = 1 THEN "idle" ELSE FirstStep(queue[2])

\* Whatever stops a command stops the chain it belongs to.
Quits == queue' = << >> /\ pc' = "idle"

Continues(to) == pc' = to /\ UNCHANGED queue

\* What Aurora runs is compared block for block in Lab 1, by its effect in Lab 2.
Applied(l) ==
    CASE l = 1 -> aurora[1] = source[1] /\ Repaired(aurora[1])
      [] l = 2 -> Repaired(aurora[2])

Ready(l) == Repaired(source[l]) /\ Applied(l)

\* The earlier repairs a lab needs: none is made for the participant.
Unmet(l) == \E earlier \in 1..(l - 1) : ~Ready(earlier)

CanMask == ~Ready(2)
Entered(l) == record[l].completed

\* Applying sends the SQL files of both labs, in one transaction, and reads them first:
\* it fails on a deleted file, and Aurora may reject a wrong edit, which changes nothing.
CanApply == \A l \in SqlLabs : source[l] # "missing"
CanReject == \E l \in SqlLabs : source[l] \in {"missing", "wrong"}
AppliesSql == CanApply /\ aurora' = SubSeq(source, 1, 2)

-----------------------------------------------------------------------------
(* The commands a participant runs.                                        *)

FinishSteps(l) ==
    IF l = 3 THEN <<Command("start", 3), Command("solve", 3)>>
    ELSE <<Command("start", l), Command("solve", l), Command("sql", l), Command("repeat", l)>>
         \o (IF l = 2 THEN <<Command("grade", 2)>> ELSE << >>)
         \o <<Command("advance", l)>>

\* The steps of several labs, in the labs' order.
Part(l, labs) == IF l \in labs THEN FinishSteps(l) ELSE << >>
Chain(labs) == Part(1, labs) \o Part(2, labs) \o Part(3, labs)

\* The labs before this one that have not handed off: their next lab has not started.
EarlierLabs(l) == {k \in 1..(l - 1) : ~Entered(k + 1)}

Begins(commands) ==
    /\ pc = "idle"
    /\ queue' = commands /\ pc' = FirstStep(Head(commands))
    /\ UNCHANGED <<source, aurora, record, completion, handoff, historyVars>>

Runs(name, labs) ==
    \E l \in labs : Begins(<<Command(name, l)>>) /\ UNCHANGED countVars

RunsStart == Runs("start", Labs)
RunsAdvance == Runs("advance", SqlLabs)
RunsSolution == Runs("solve", Labs)
RunsApply == Runs("sql", {1})

RunsReset ==
    /\ mishaps < MaxMishaps
    /\ \E l \in Labs : Begins(<<Command("reset", l)>>)
    /\ mishaps' = mishaps + 1 /\ resets' = resets + 1

Finish ==
    \E l \in Labs : Begins(Chain(EarlierLabs(l) \cup {l})) /\ UNCHANGED countVars

SkipTo ==
    \E l \in Labs :
        /\ LET steps == Chain(EarlierLabs(l))
           IN  Begins(IF steps = << >> THEN <<Command("start", l)>> ELSE steps)
        /\ UNCHANGED countVars

\* The participant saves a block of their own, or deletes the file.
Edit ==
    /\ pc = "idle" /\ mishaps < MaxMishaps
    /\ \E l \in Labs, block \in {"own", "wrong", "missing"} :
        /\ source[l] # block
        /\ source' = [source EXCEPT ![l] = block]
    /\ mishaps' = mishaps + 1 /\ UNCHANGED resets
    /\ UNCHANGED <<aurora, record, completion, handoff, commandVars, historyVars>>

\* Ctrl-C, a lost connection, a model or the API that fails.
Interrupt ==
    /\ pc # "idle" /\ mishaps < MaxMishaps
    /\ Quits
    /\ mishaps' = mishaps + 1 /\ UNCHANGED resets
    /\ UNCHANGED <<source, aurora, record, completion, handoff, historyVars>>

-----------------------------------------------------------------------------
(* start: each step is recorded before it acts and when it is done.        *)

Saves(l, saved) == record' = [record EXCEPT ![l] = [saved EXCEPT !.begun = TRUE]]

Enter ==
    /\ pc = "enter"
    /\ \/ Entered(Target) /\ Finishes
       \/ /\ ~Entered(Target)
          /\ IF Unmet(Target) \/ (Target = 1 /\ source[1] = "missing") THEN Quits
             ELSE Continues(IF Target = 1 THEN "capture" ELSE "fault")
    /\ UNCHANGED <<source, aurora, record, completion, handoff, historyVars, countVars>>

AfterFault == IF Target = 2 THEN "apply" ELSE "capture"

FaultDone == record[Target].fault = "done"

SkipsFault ==
    /\ pc = "fault" /\ FaultDone
    /\ Continues(AfterFault)
    /\ UNCHANGED <<source, aurora, record, completion, handoff, historyVars, countVars>>

PutBack ==
    /\ pc = "fault" /\ ~FaultDone /\ source[Target] = "missing"
    /\ source' = [source EXCEPT ![Target] = "broken"]
    /\ UNCHANGED <<aurora, record, completion, handoff, commandVars, historyVars, countVars>>

\* An interrupted install keeps a block that is neither what it found nor the fault.
KeepsEditsNever(l) == FALSE
KeepsEdits(l) ==
    record[l].fault = "installing" /\ source[l] \notin {record[l].before, "broken"}

PlansFault ==
    /\ pc = "fault" /\ ~FaultDone /\ source[Target] # "missing"
    /\ IF KeepsEdits(Target) \/ source[Target] = "broken"
       THEN Continues("mark") /\ UNCHANGED <<record, found>>
       ELSE /\ Saves(Target, [record[Target] EXCEPT !.fault = "installing",
                                                    !.before = source[Target]])
            /\ found' = [found EXCEPT ![Target] = IF @ = NoBlock THEN source[Target] ELSE @]
            /\ Continues("install")
    /\ UNCHANGED <<source, aurora, completion, handoff, proved, countVars>>

Install ==
    /\ pc = "install"
    /\ source' = [source EXCEPT ![Target] = "broken"]
    /\ Continues("mark")
    /\ UNCHANGED <<aurora, record, completion, handoff, historyVars, countVars>>

Mark ==
    /\ pc = "mark"
    /\ Saves(Target, [record[Target] EXCEPT !.fault = "done", !.before = NoBlock])
    /\ Continues(AfterFault)
    /\ UNCHANGED <<source, aurora, completion, handoff, historyVars, countVars>>

Apply ==
    /\ pc = "apply"
    /\ \/ record[2].applied /\ Continues("capture") /\ UNCHANGED aurora
       \/ ~record[2].applied /\ AppliesSql /\ Continues("applied")
       \/ ~record[2].applied /\ CanReject /\ Quits /\ UNCHANGED aurora
    /\ UNCHANGED <<source, record, completion, handoff, historyVars, countVars>>

RecordsApply ==
    /\ pc = "applied"
    /\ Saves(2, [record[2] EXCEPT !.applied = TRUE])
    /\ Continues("capture")
    /\ UNCHANGED <<source, aurora, completion, handoff, historyVars, countVars>>

\* Lab 2's ranking fault can keep what a repaired Lab 1 finds off the shortlist, and
\* an edit that fails the contract may still find the product.
CanMiss(l) == ~Repaired(aurora[l]) \/ (l = 1 /\ ~Repaired(aurora[2]))
CanFind(l) == aurora[l] # "broken"

SearchEvidence(l) ==
    IF l = 3 THEN {"refusal"}
    ELSE IF Applied(l) THEN {"no failing run"}
    ELSE {e \in {"failing run", "no failing run"} :
            IF e = "failing run" THEN CanMiss(l) ELSE CanFind(l)}

\* Lab 1's record is told apart from that of an earlier entry by the times it holds.
Capture ==
    /\ pc = "capture"
    /\ IF record[Target].evidence # "none" THEN UNCHANGED record
       ELSE \E e \in SearchEvidence(Target) :
            Saves(Target, [record[Target] EXCEPT
                             !.evidence = e, !.at = IF Target = 1 THEN resets ELSE 0])
    /\ Continues("complete")
    /\ UNCHANGED <<source, aurora, completion, handoff, historyVars, countVars>>

Complete ==
    /\ pc = "complete"
    /\ Saves(Target, [record[Target] EXCEPT !.completed = TRUE])
    /\ Finishes
    /\ UNCHANGED <<source, aurora, completion, handoff, historyVars, countVars>>

-----------------------------------------------------------------------------
(* advance: the live proof, its evidence, and the start of the next lab.   *)

Lab == Active.lab

\* A repair that is saved and not applied is applied here, when every earlier block
\* is repaired; then the prerequisites are checked as a start checks them.
AppliesSavedRepairs ==
    /\ pc = "ready"
    /\ IF source[Lab] = "missing" \/ (Lab = 2 /\ ~Entered(2)) THEN Quits /\ UNCHANGED aurora
       ELSE IF ~(\A l \in 1..Lab : Repaired(source[l])) \/ (\A l \in 1..Lab : Applied(l))
       THEN Continues("check") /\ UNCHANGED aurora
       ELSE \/ AppliesSql /\ Continues("check")
            \/ CanReject /\ Quits /\ UNCHANGED aurora
    /\ UNCHANGED <<source, record, completion, handoff, historyVars, countVars>>

ChecksRepairs ==
    /\ pc = "check"
    /\ IF Unmet(Lab + 1) THEN Quits ELSE Continues(IF Lab = 1 THEN "bind" ELSE "prove")
    /\ UNCHANGED <<source, aurora, record, completion, handoff, historyVars, countVars>>

BindingOfSeam == [seam |-> source[1], entry |-> handoff.entry]
BindingOfEntry == [seam |-> handoff.seam, entry |-> record[1]]
Binding == [seam |-> source[1], entry |-> record[1]]

\* Saved evidence is used again only for the block and the entry it was saved for,
\* and none is gathered while Lab 2's fault can hide Lab 1's repair.
BindsHandOff ==
    /\ pc = "bind"
    /\ IF handoff # NoHandOff
       THEN IF handoff = Binding THEN Continues("enter") ELSE Quits
       ELSE IF record[2].begun /\ CanMask THEN Quits ELSE Continues("prove")
    /\ UNCHANGED <<source, aurora, record, completion, handoff, historyVars, countVars>>

\* The live checks can fail under Lab 2's fault, never pass without the repair.
Prove ==
    /\ pc = "prove"
    /\ \/ /\ Repaired(aurora[Lab])
          /\ completion' = completion \cup {Lab}
          /\ proved' = IF Lab = 1 THEN [seam |-> aurora[1], entry |-> record[1]] ELSE proved
          /\ Continues(IF Lab = 1 THEN "save" ELSE "enter")
       \/ CanMiss(Lab) /\ Quits /\ UNCHANGED <<completion, proved>>
    /\ UNCHANGED <<source, aurora, record, handoff, found, countVars>>

SavesHandOff ==
    /\ pc = "save"
    /\ handoff' = Binding
    /\ Continues("enter")
    /\ UNCHANGED <<source, aurora, record, completion, historyVars, countVars>>

-----------------------------------------------------------------------------
(* reset, and the other commands of a chain.                               *)

Discard ==
    /\ pc = "discard"
    /\ IF Unmet(Lab) THEN Quits /\ UNCHANGED <<source, found>>
       ELSE /\ source' = [source EXCEPT ![Lab] = "broken"]
            /\ found' = [found EXCEPT ![Lab] = NoBlock]
            /\ Continues("forget_start")
    /\ UNCHANGED <<aurora, record, completion, handoff, proved, countVars>>

ForgetStart ==
    /\ pc = "forget_start"
    /\ record' = [record EXCEPT ![Lab] = NoRecord]
    /\ Continues("forget_completion")
    /\ UNCHANGED <<source, aurora, completion, handoff, historyVars, countVars>>

ForgetCompletion ==
    /\ pc = "forget_completion"
    /\ completion' = completion \ {Lab}
    /\ Continues(IF Lab = 1 THEN "forget_handoff" ELSE "enter")
    /\ UNCHANGED <<source, aurora, record, handoff, historyVars, countVars>>

ForgetHandOff ==
    /\ pc = "forget_handoff"
    /\ handoff' = NoHandOff
    /\ Continues("reapply")
    /\ UNCHANGED <<source, aurora, record, completion, historyVars, countVars>>

\* Lab 1's start never applies, so its reset does.
Reapply ==
    /\ pc = "reapply"
    /\ \/ AppliesSql /\ Continues("enter")
       \/ CanReject /\ Quits /\ UNCHANGED aurora
    /\ UNCHANGED <<source, record, completion, handoff, historyVars, countVars>>

Solve ==
    /\ pc = "solve"
    /\ source' = [source EXCEPT ![Lab] = "reference"]
    /\ Finishes
    /\ UNCHANGED <<aurora, record, completion, handoff, historyVars, countVars>>

Sql ==
    /\ pc = "sql"
    /\ \/ AppliesSql /\ Finishes
       \/ CanReject /\ Quits /\ UNCHANGED aurora
    /\ UNCHANGED <<source, record, completion, handoff, historyVars, countVars>>

\* Lab 1's request is not repeated under Lab 2's fault: its saved evidence stands in.
Repeat ==
    /\ pc = "repeat"
    /\ IF Lab = 1 /\ record[2].begun /\ CanMask /\ handoff = NoHandOff THEN Quits ELSE Finishes
    /\ UNCHANGED <<source, aurora, record, completion, handoff, historyVars, countVars>>

Grade ==
    /\ pc = "grade"
    /\ IF Applied(2) THEN Finishes ELSE Quits
    /\ UNCHANGED <<source, aurora, record, completion, handoff, historyVars, countVars>>

LabNext ==
    \/ RunsStart \/ RunsAdvance \/ RunsSolution \/ RunsApply \/ RunsReset \/ Finish \/ SkipTo
    \/ Edit \/ Interrupt
    \/ Enter \/ SkipsFault \/ PutBack \/ PlansFault \/ Install \/ Mark
    \/ Apply \/ RecordsApply \/ Capture \/ Complete
    \/ AppliesSavedRepairs \/ ChecksRepairs \/ BindsHandOff \/ Prove \/ SavesHandOff
    \/ Discard \/ ForgetStart \/ ForgetCompletion \/ ForgetHandOff \/ Reapply
    \/ Solve \/ Sql \/ Repeat \/ Grade

LabSpec == LabInit /\ [][LabNext]_labVars

-----------------------------------------------------------------------------
LabTypeOK ==
    /\ source \in [Labs -> Blocks] /\ aurora \in [SqlLabs -> Blocks \ {"missing"}]
    /\ record \in [Labs -> [begun : BOOLEAN, fault : {"none", "installing", "done"},
                            before : Blocks \cup {NoBlock}, applied : BOOLEAN,
                            evidence : {"none", "failing run", "no failing run", "refusal"},
                            completed : BOOLEAN, at : 0..MaxMishaps]]
    /\ completion \subseteq SqlLabs
    /\ (queue = << >>) = (pc = "idle")
    /\ mishaps \in 0..MaxMishaps /\ resets \in 0..mishaps

\* However often a start is interrupted and run again, beside edits of the block, it writes
\* its fault over no other block than the one it first found: only a reset discards more
\* (_install_fault, start).
EditsSurvive ==
    [][\A l \in Labs :
        source'[l] = "broken" /\ source[l] \notin {"broken", "missing"}
        => source[l] = found[l] \/ Active.name = "reset"]_labVars

\* When a hand-off prepares Lab 2, the live checks have passed on the Lab 1 block that is
\* in the file, in the entry that is on record: neither an edit, a reset nor a reset that
\* was cut short lets earlier evidence count (_advance_lab_1, restart).
HandOffIsOfThisRepair ==
    pc \in {"enter", "fault", "install", "mark", "apply", "applied", "capture", "complete"}
        /\ Active = Command("advance", 1)
    => proved = [seam |-> source[1], entry |-> record[1]]
=============================================================================
