---------------------------- MODULE CatalogBundle ----------------------------
(***************************************************************************)
(* The catalog bundle on its way from a temporary builder to the bucket    *)
(* and into the checkout: the resumable build of                           *)
(* scripts/catalog/build_bundle.py, and the commands staging up, staging   *)
(* down, contracts pull and publish of deploy/own-account/deploy.py.       *)
(*                                                                         *)
(* A step is one lasting write (a file on the builder, state.json, an      *)
(* object of the bucket, a file of the checkout) or one read of the        *)
(* bucket.  A build may stop between any two, and is then run again; a     *)
(* command may stop too.  One build and one command run at a time, each    *)
(* beside the other: the builder's wrapper takes a lock, and the commands  *)
(* are typed in one terminal.                                              *)
(*                                                                         *)
(* A file's content is told apart by the export that made it: archives and *)
(* vocabularies are compressed with a time stamp, so no two are alike.     *)
(***************************************************************************)
EXTENDS Naturals, Sequences, Functions

CONSTANTS
    MaxMade,      \* the bound on archives and vocabularies made and builds steered
    PartNames     \* the names of an archive's parts, in order

WholeNames == {"vocabulary", "catalog-contract", "vocabulary-contract"}

ASSUME BundleAssumption ==
    /\ MaxMade \in Nat \ {0}
    /\ PartNames \in Seq(STRING) /\ PartNames # << >>
    /\ \A i, j \in DOMAIN PartNames : PartNames[i] = PartNames[j] => i = j
    /\ \A i \in DOMAIN PartNames : PartNames[i] \notin WholeNames

Keys == Range(PartNames) \cup WholeNames

\* The steps before export leave nothing the bundle is read from: they are one, evidence.
StepOrder == <<"evidence", "export", "restore-check", "vocabulary", "upload", "summary">>
Steps == Range(StepOrder)
After(step) == {StepOrder[j] : j \in {j \in DOMAIN StepOrder :
                                        \E i \in 1..(j - 1) : StepOrder[i] = step}}

\* What a file holds: the export it comes from, and for a catalog contract its parts.
Content(made, parts) == [made |-> made, parts |-> parts]
Absent == Content(0, 0)
Shipped == Content(1, Len(PartNames))

NoCommand == [name |-> "none", at |-> 0, catalog |-> Absent, vocabulary |-> Absent]

VARIABLES
    stack,       \* whether the staging stack and its builder exist
    disk,        \* the builder's assets directory and its two contract files
    done,        \* state.json: the steps recorded as finished
    todo,        \* the steps the running build has left
    phase,       \* the first of them: not begun, at work, or worked but not recorded
    at,          \* how many writes of that step are made
    bucket,      \* the objects, each with the sha256 of its content
    pinned,      \* the two contracts of the checkout
    command,     \* the command in the terminal
    made,        \* the archives and vocabularies made so far
    steered,     \* the builds started with --only or --from so far
    uploaded     \* history: the pairs of contracts a builder held when it uploaded

buildVars == <<disk, done, todo, phase, at, made, steered>>
bundleVars == <<stack, buildVars, bucket, pinned, command, uploaded>>

BundleInit ==
    /\ stack = "absent" /\ disk = [k \in Keys |-> Absent] /\ done = {}
    /\ todo = {} /\ phase = "next" /\ at = 0
    /\ bucket = [k \in Keys |-> Absent]
    /\ pinned = [catalog |-> Shipped, vocabulary |-> Shipped]
    /\ command = NoCommand /\ made = 1 /\ steered = 0 /\ uploaded = {}

-----------------------------------------------------------------------------
(* The build. *)

WithinBound == made + steered < MaxMade

Running == todo # {}
Leads(step) == step \in todo /\ todo \subseteq {step} \cup After(step)
At(step) == Leads(step) /\ phase = "work"

Only == {{step} : step \in Steps}
From == {{step} \cup After(step) : step \in Steps}
StepsLeft == Steps \ done

\* A build runs the one step of --only, those of --from, or those state.json lacks.
BuildStarts ==
    /\ stack = "up" /\ ~Running
    /\ \/ todo' = StepsLeft /\ UNCHANGED steered
       \/ todo' \in Only \cup From /\ WithinBound /\ steered' = steered + 1
    /\ UNCHANGED <<stack, disk, done, phase, at, made, bucket, pinned, command, uploaded>>

\* A command fails, or the builder is stopped; the steps recorded stay recorded.  A stop
\* within the write of state.json leaves a file that the next build refuses to read; it
\* is moved aside, and every step runs again.
BuildStops(torn) ==
    /\ Running
    /\ torn => phase # "work"
    /\ done' = IF torn THEN {} ELSE done
    /\ todo' = {} /\ phase' = "next" /\ at' = 0
    /\ UNCHANGED <<stack, disk, made, steered, bucket, pinned, command, uploaded>>

StepBeginsAlone(step) ==
    /\ Leads(step) /\ phase = "next"
    /\ done' = done \ {step}
    /\ phase' = "work" /\ at' = 0
    /\ UNCHANGED <<stack, disk, todo, made, steered, bucket, pinned, command, uploaded>>

\* A step that begins is no longer recorded, and no later one is.
StepBegins(step) ==
    /\ Leads(step) /\ phase = "next"
    /\ done' = done \ ({step} \cup After(step))
    /\ phase' = "work" /\ at' = 0
    /\ UNCHANGED <<stack, disk, todo, made, steered, bucket, pinned, command, uploaded>>

StepRecorded(step) ==
    /\ Leads(step) /\ phase = "worked"
    /\ done' = done \cup ({step} \ {"summary"})
    /\ todo' = todo \ {step} /\ phase' = "next" /\ at' = 0
    /\ UNCHANGED <<stack, disk, made, steered, bucket, pinned, command, uploaded>>

Writes(key, content) == disk' = [disk EXCEPT ![key] = content]
Worked == phase' = "worked" /\ UNCHANGED at
WritesOn == at' = at + 1 /\ UNCHANGED phase
OnBuilder == UNCHANGED <<stack, done, todo, steered, bucket, pinned, command, uploaded>>

EvidenceStep == At("evidence") /\ Worked /\ OnBuilder /\ UNCHANGED <<disk, made>>

\* export writes the archive and a contract that lists no parts yet,
ExportArchive ==
    /\ At("export") /\ at = 0 /\ WithinBound
    /\ made' = made + 1 /\ Writes("catalog-contract", Content(made', 0))
    /\ WritesOn /\ OnBuilder

\* split writes the parts, as many as the archive fills,
SplitPart ==
    /\ At("export") /\ at \in DOMAIN PartNames
    /\ Writes(PartNames[at], Content(disk["catalog-contract"].made, 0))
    /\ WritesOn /\ OnBuilder /\ UNCHANGED made

\* and then, once the part after the last proved empty and is removed, the contract that
\* lists them.
SplitEnds ==
    /\ At("export") /\ at > 1
    /\ disk' = [k \in Keys |->
                   IF k = "catalog-contract" THEN Content(disk[k].made, at - 1)
                   ELSE IF at \in DOMAIN PartNames /\ k = PartNames[at] THEN Absent
                   ELSE disk[k]]
    /\ Worked /\ OnBuilder /\ UNCHANGED made

\* The objects two contracts describe, in the order they are listed.
Entries(catalog, vocabulary) ==
    [i \in 1..catalog.parts |-> <<PartNames[i], Content(catalog.made, 0)>>]
        \o <<<<"vocabulary", vocabulary>>>>

\* The copied parts join into the contract's archive, which restores and verifies.
RestoreCheck ==
    /\ At("restore-check") /\ disk["catalog-contract"].parts > 0
    /\ \A i \in 1..disk["catalog-contract"].parts :
          disk[PartNames[i]] = Content(disk["catalog-contract"].made, 0)
    /\ Worked /\ OnBuilder /\ UNCHANGED <<disk, made>>

VocabularyFile ==
    /\ At("vocabulary") /\ at = 0 /\ WithinBound
    /\ made' = made + 1 /\ Writes("vocabulary", Content(made', 0))
    /\ WritesOn /\ OnBuilder

VocabularyContract ==
    /\ At("vocabulary") /\ at = 1
    /\ Writes("vocabulary-contract", disk["vocabulary"])
    /\ Worked /\ OnBuilder /\ UNCHANGED made

UploadPlan == SubSeq(PartNames, 1, disk["catalog-contract"].parts)
              \o <<"vocabulary", "catalog-contract", "vocabulary-contract">>

OnDisk == [catalog |-> disk["catalog-contract"], vocabulary |-> disk["vocabulary-contract"]]

Delivered(objects) == \A i \in DOMAIN UploadPlan : objects[UploadPlan[i]] = disk[UploadPlan[i]]

\* One object, with its sha256; one that matches already is skipped.
UploadFile ==
    /\ At("upload") /\ at < Len(UploadPlan)
    /\ LET key == UploadPlan[at + 1]
       IN  disk[key] # Absent /\ bucket' = [bucket EXCEPT ![key] = disk[key]]
    /\ uploaded' = uploaded \cup {OnDisk}
    /\ IF at + 1 = Len(UploadPlan) THEN Worked ELSE WritesOn
    /\ UNCHANGED <<stack, disk, done, todo, made, steered, pinned, command>>

\* summary checks the layout: the contract's parts and no others, and the vocabulary.
Summary ==
    /\ At("summary") /\ disk["vocabulary"] # Absent
    /\ \A i \in DOMAIN PartNames :
          disk[PartNames[i]] # Absent <=> i <= disk["catalog-contract"].parts
    /\ Worked /\ OnBuilder /\ UNCHANGED <<disk, made>>

Build ==
    \/ BuildStarts \/ \E step \in Steps : StepBegins(step) \/ StepRecorded(step)
    \/ \E torn \in BOOLEAN : BuildStops(torn)
    \/ EvidenceStep \/ ExportArchive \/ SplitPart \/ SplitEnds \/ RestoreCheck
    \/ VocabularyFile \/ VocabularyContract \/ UploadFile \/ Summary

-----------------------------------------------------------------------------
(* The commands. *)

Idle == command = NoCommand
ByHand == UNCHANGED <<stack, buildVars, bucket, uploaded>>

\* A command is refused, fails or is stopped, wherever it stands; what it wrote stays.
CommandEnds ==
    /\ ~Idle /\ command' = NoCommand
    /\ ByHand /\ UNCHANGED pinned

\* The builder clones the checkout's commit: its contracts are the pinned ones.
StagingUp ==
    /\ Idle /\ stack = "absent" /\ stack' = "up"
    /\ disk' = [k \in Keys |-> CASE k = "catalog-contract" -> pinned.catalog
                                 [] k = "vocabulary-contract" -> pinned.vocabulary
                                 [] OTHER -> Absent]
    /\ done' = {} /\ todo' = {} /\ phase' = "next" /\ at' = 0
    /\ UNCHANGED <<made, steered, bucket, pinned, command, uploaded>>

\* staging down: both contracts are in the bucket, or the operator forces it,
BothUploaded == Absent \notin {bucket["catalog-contract"], bucket["vocabulary-contract"]}

DownChecks(force) ==
    /\ Idle /\ stack = "up" /\ (BothUploaded \/ force)
    /\ command' = [NoCommand EXCEPT !.name = IF BothUploaded THEN "down" ELSE "forced"]
    /\ ByHand /\ UNCHANGED pinned

\* and the stack goes, with the builder, its disk and whatever it runs.
StackDeleted ==
    /\ command.name \in {"down", "forced"}
    /\ stack' = "absent" /\ command' = NoCommand
    /\ disk' = [k \in Keys |-> Absent] /\ done' = {}
    /\ todo' = {} /\ phase' = "next" /\ at' = 0
    /\ UNCHANGED <<made, steered, bucket, pinned, uploaded>>

\* contracts pull fetches one contract after the other;
PullCatalog ==
    /\ Idle /\ bucket["catalog-contract"] # Absent
    /\ command' = [NoCommand EXCEPT !.name = "pulling", !.catalog = bucket["catalog-contract"]]
    /\ ByHand /\ UNCHANGED pinned

\* a catalog contract that lists no parts is malformed.
PullVocabulary ==
    /\ command.name = "pulling" /\ bucket["vocabulary-contract"] # Absent
    /\ command.catalog.parts > 0
    /\ command' = [command EXCEPT !.name = "pull", !.vocabulary = bucket["vocabulary-contract"]]
    /\ ByHand /\ UNCHANGED pinned

PublishStarts ==
    /\ Idle
    /\ command' = [name |-> "publish", at |-> 0,
                   catalog |-> pinned.catalog, vocabulary |-> pinned.vocabulary]
    /\ ByHand /\ UNCHANGED pinned

\* pull and publish look up one object after another, and refuse one that differs.
Described == Entries(command.catalog, command.vocabulary)
MatchesByName(entry) == bucket[entry[1]] # Absent
Matches(entry) == bucket[entry[1]] = entry[2]

ObjectMatches ==
    /\ command.name \in {"pull", "publish"} /\ command.at < Len(Described)
    /\ Matches(Described[command.at + 1])
    /\ command' = [command EXCEPT !.at = @ + 1]
    /\ ByHand /\ UNCHANGED pinned

AllMatch == command.at = Len(Described)

\* Each contract file is replaced by a rename: a stop in between leaves one of each pull.
PinCatalog ==
    /\ command.name = "pull" /\ AllMatch
    /\ pinned' = [pinned EXCEPT !.catalog = command.catalog]
    /\ command' = [command EXCEPT !.name = "pinning"]
    /\ ByHand

PinVocabulary ==
    /\ command.name = "pinning"
    /\ pinned' = [pinned EXCEPT !.vocabulary = command.vocabulary]
    /\ command' = NoCommand
    /\ ByHand

Publishes ==
    /\ command.name = "publish" /\ AllMatch
    /\ command' = NoCommand
    /\ ByHand /\ UNCHANGED pinned

Commands ==
    \/ CommandEnds \/ StagingUp \/ StackDeleted
    \/ \E force \in BOOLEAN : DownChecks(force)
    \/ PullCatalog \/ PullVocabulary \/ PublishStarts \/ ObjectMatches
    \/ PinCatalog \/ PinVocabulary \/ Publishes

BundleNext == Build \/ Commands

BundleSpec == BundleInit /\ [][BundleNext]_bundleVars
-----------------------------------------------------------------------------
Contents == [made : 0..MaxMade, parts : 0..Len(PartNames)]
Pairs == [catalog : Contents, vocabulary : Contents]

BundleTypeOK ==
    /\ stack \in {"absent", "up"} /\ disk \in [Keys -> Contents]
    /\ done \subseteq Steps \ {"summary"} /\ todo \subseteq Steps
    /\ phase \in {"next", "work", "worked"} /\ at \in 0..Len(PartNames) + 2
    /\ bucket \in [Keys -> Contents] /\ pinned \in Pairs
    /\ command \in [name : {"none", "down", "forced", "pulling", "pull", "pinning", "publish"},
                    at : 0..Len(PartNames) + 1, catalog : Contents, vocabulary : Contents]
    /\ made \in 0..MaxMade /\ steered \in 0..MaxMade /\ uploaded \subseteq Pairs

\* While state.json says that the upload is done, every object of the builder's bundle is
\* in the bucket as it is on the builder's disk, whichever steps were run again, one alone
\* or from one on, and wherever a build stopped (invalidate_later_steps, record_step).
DoneMeansUploaded ==
    "upload" \in done => Delivered(bucket)

\* As long as builds are resumed and never steered, what publish finds whole in the bucket
\* is the bundle of one builder: not the catalog of one build with the vocabulary of
\* another, though the bucket is read object by object while a build writes it, an upload
\* can be cut short and followed by another builder's, and a pull can be cut short between
\* its two files (verify_bucket_bundle, pull_contracts).
PublishedIsOneBuild ==
    command.name = "publish" /\ AllMatch /\ steered = 0 => pinned \in uploaded

\* The claim of staging down: the two contracts are uploaded last, so their presence
\* proves completion, and a builder that made a bundle is expendable when it finds both
\* (require_bundle_uploaded).
BuilderIsExpendable ==
    [][command'.name = "down" /\ "vocabulary" \in done => Delivered(bucket)]_bundleVars
=============================================================================
