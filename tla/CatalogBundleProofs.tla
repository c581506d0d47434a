------------------------- MODULE CatalogBundleProofs -------------------------
(***************************************************************************)
(* The catalog bundle for every number of parts and of builds: an upload   *)
(* recorded as done has delivered what the builder holds, and what publish *)
(* finds whole in the bucket is the bundle of one build.                   *)
(***************************************************************************)
EXTENDS CatalogBundle, SequenceTheorems, TLAPS

\* The step at work, and how far it is.
Has(step) == Leads(step) /\ phase = "worked"
Finished(step) == step \in done \/ Has(step)

\* A build at work has steps left, and an export writes one part past those it has.
BuildRuns ==
    /\ phase # "next" => \E step \in Steps : Leads(step)
    /\ At("export") => at <= Len(PartNames) + 1

\* A step that began is not recorded as done, and no later one is.
BegunIsUndone ==
    \A step \in Steps : Leads(step) /\ phase # "next" =>
        done \cap ({step} \cup After(step)) = {}

\* An upload has delivered the objects it has passed.
UploadAdvances ==
    /\ At("upload") => \A i \in 1..at : i \in DOMAIN UploadPlan =>
                           bucket[UploadPlan[i]] = disk[UploadPlan[i]]
    /\ Has("upload") => Delivered(bucket)

UploadInv == BundleTypeOK /\ BuildRuns /\ BegunIsUndone /\ UploadAdvances /\ DoneMeansUploaded

-----------------------------------------------------------------------------
(* One build of many.                                                      *)

FirstPart == PartNames[1]
MadeOf(key) == bucket[key].made

\* A build that is resumed runs the steps that are left, in their order.
StepsInOrder ==
    /\ \A step \in done, earlier \in Steps : step \in After(earlier) => earlier \in done
    /\ Running => todo = StepsLeft

\* Nothing comes from an archive that was not made yet.
NothingUnmade ==
    /\ made >= 1
    /\ \A key \in Keys : disk[key].made <= made
    /\ \A pair \in uploaded : pair.catalog.made <= made /\ pair.vocabulary.made <= made
    /\ pinned.catalog.made <= made /\ pinned.vocabulary.made <= made

\* The restored archive is whole on the disk.
RestoredIsWhole ==
    Finished("restore-check") =>
        /\ disk["catalog-contract"].parts > 0
        /\ \A i \in 1..disk["catalog-contract"].parts :
              disk[PartNames[i]] = Content(disk["catalog-contract"].made, 0)

CatalogOf(pair) == pair.catalog.made
VocabularyOf(pair) == pair.vocabulary.made

Exported == "export" \in done \/ Has("export") \/ (At("export") /\ at > 0)

\* A catalog is exported after whatever was uploaded, and uploaded with one vocabulary.
ExportIsNew ==
    Exported =>
        /\ disk["catalog-contract"].made > 1
        /\ \A pair \in uploaded :
              \/ VocabularyOf(pair) < disk["catalog-contract"].made
              \/ pair = OnDisk /\ "vocabulary" \in done

\* The vocabulary is made after the catalog it describes.
VocabularyIsNew ==
    /\ At("vocabulary") /\ at > 0 =>
           disk["vocabulary"].made > disk["catalog-contract"].made /\ disk["vocabulary"].parts = 0
    /\ Finished("vocabulary") =>
           /\ disk["vocabulary"].made > disk["catalog-contract"].made
           /\ disk["vocabulary"].parts = 0 /\ disk["vocabulary-contract"] = disk["vocabulary"]

\* Uploaded pairs come one after the other.
UploadsInOrder ==
    /\ \A pair \in uploaded : /\ 1 < CatalogOf(pair) /\ CatalogOf(pair) < VocabularyOf(pair)
                              /\ pair.catalog.parts > 0 /\ pair.vocabulary.parts = 0
    /\ \A p, q \in uploaded :
          p = q \/ VocabularyOf(p) < CatalogOf(q) \/ VocabularyOf(q) < CatalogOf(p)

\* Each object is an uploaded build's: the vocabulary's is no older than the catalog
\* contract's, the first part's no older than the vocabulary contract's.
BucketInOrder ==
    /\ bucket["catalog-contract"] # Absent =>
           /\ \E pair \in uploaded : bucket["catalog-contract"] = pair.catalog
           /\ MadeOf("catalog-contract") < MadeOf("vocabulary")
    /\ bucket["vocabulary"] # Absent =>
           \E pair \in uploaded : bucket["vocabulary"] = pair.vocabulary
    /\ bucket[FirstPart] # Absent =>
           \E pair \in uploaded : MadeOf(FirstPart) = CatalogOf(pair)
    /\ bucket["vocabulary-contract"] # Absent =>
           \E pair \in uploaded : /\ bucket["vocabulary-contract"] = pair.vocabulary
                                  /\ CatalogOf(pair) <= MadeOf(FirstPart)

\* What is pinned came from the bucket, and its catalog is no older than its vocabulary.
PinnedInOrder ==
    /\ pinned.catalog # Shipped =>
           /\ \E pair \in uploaded : pinned.catalog = pair.catalog
           /\ pinned.catalog.made <= MadeOf("catalog-contract")
    /\ pinned.catalog = Shipped => pinned.vocabulary = Shipped
    /\ pinned.vocabulary # Shipped =>
           \E pair \in uploaded : /\ pinned.vocabulary = pair.vocabulary
                                  /\ CatalogOf(pair) <= pinned.catalog.made

Pulls == {"pulling", "pull", "pinning"}

\* A pull holds contracts of the bucket, the catalog's no older than the pinned one, and
\* once it has matched a part no older than the vocabulary's.
PullInOrder ==
    /\ command.name \in Pulls =>
           /\ \E pair \in uploaded : command.catalog = pair.catalog
           /\ command.catalog.made <= MadeOf("catalog-contract")
           /\ pinned.catalog.made <= command.catalog.made
    /\ command.name = "pulling" => command.at = 0
    /\ command.name \in {"pull", "pinning"} =>
           \E pair \in uploaded :
               /\ command.vocabulary = pair.vocabulary
               /\ CatalogOf(pair) <= MadeOf(FirstPart)
               /\ command.at > 0 => CatalogOf(pair) <= command.catalog.made
    /\ command.name = "pinning" => command.at > 0 /\ pinned.catalog = command.catalog

PublishInOrder ==
    command.name = "publish" =>
        /\ command.catalog = pinned.catalog /\ command.vocabulary = pinned.vocabulary
        /\ AllMatch => /\ pinned.vocabulary # Shipped
                       /\ pinned.catalog.made < pinned.vocabulary.made

OneBuild ==
    /\ StepsInOrder /\ NothingUnmade /\ RestoredIsWhole /\ ExportIsNew /\ VocabularyIsNew
    /\ UploadsInOrder /\ BucketInOrder /\ PinnedInOrder /\ PullInOrder /\ PublishInOrder

\* Builds that were never steered.
BuildInv == steered = 0 => OneBuild
-----------------------------------------------------------------------------
(* The steps, the names and the plans.                                     *)

LEMMA StepsListed ==
    /\ Steps = {"evidence", "export", "restore-check", "vocabulary", "upload", "summary"}
    /\ After("evidence") = {"export", "restore-check", "vocabulary", "upload", "summary"}
    /\ After("export") = {"restore-check", "vocabulary", "upload", "summary"}
    /\ After("restore-check") = {"vocabulary", "upload", "summary"}
    /\ After("vocabulary") = {"upload", "summary"}
    /\ After("upload") = {"summary"}
    /\ After("summary") = {}
<1>1. DOMAIN StepOrder = 1..6
  BY DEF StepOrder
<1>2. /\ StepOrder[1] = "evidence" /\ StepOrder[2] = "export"
      /\ StepOrder[3] = "restore-check" /\ StepOrder[4] = "vocabulary"
      /\ StepOrder[5] = "upload" /\ StepOrder[6] = "summary"
  BY DEF StepOrder
<1> HIDE DEF StepOrder
<1>3. Steps = {StepOrder[1], StepOrder[2], StepOrder[3], StepOrder[4], StepOrder[5], StepOrder[6]}
  BY <1>1 DEF Steps, Range
<1>4. \A n \in 1..6 : After(StepOrder[n]) = {StepOrder[j] : j \in (n + 1)..6}
  <2> TAKE n \in 1..6
  <2>1. \A i, j \in 1..6 : StepOrder[i] = StepOrder[j] => i = j
    BY <1>2
  <2>2. \A j \in 1..6 : (\E i \in 1..(j - 1) : StepOrder[i] = StepOrder[n]) <=> j \in (n + 1)..6
    BY <2>1
  <2> QED BY <1>1, <2>2 DEF After
<1>5. \A n \in 1..6 : \A x : x \in After(StepOrder[n]) <=>
         \E j \in 1..6 : n < j /\ x = StepOrder[j]
  BY <1>4
<1> QED
  BY <1>2, <1>3, <1>5

\* One step leads at a time.
LEMMA OneLeads ==
    ASSUME NEW s \in Steps, NEW r \in Steps, Leads(s), Leads(r)
    PROVE  s = r
BY StepsListed DEF Leads

LEMMA Names ==
    /\ Len(PartNames) \in Nat \ {0} /\ DOMAIN PartNames = 1..Len(PartNames)
    /\ WholeNames \subseteq Keys
    /\ \A i \in 1..Len(PartNames) : PartNames[i] \in Keys \ WholeNames
    /\ \A i, j \in 1..Len(PartNames) : PartNames[i] = PartNames[j] => i = j
<1>1. Len(PartNames) \in Nat \ {0} /\ DOMAIN PartNames = 1..Len(PartNames)
  BY BundleAssumption, EmptySeq, LenProperties
<1> QED
  BY <1>1, BundleAssumption DEF Keys, Range

LEMMA PlanShape ==
    ASSUME NEW n \in 0..Len(PartNames)
    PROVE  LET plan == SubSeq(PartNames, 1, n)
                       \o <<"vocabulary", "catalog-contract", "vocabulary-contract">>
           IN  /\ Len(plan) = n + 3 /\ DOMAIN plan = 1..(n + 3)
               /\ \A i \in 1..n : plan[i] = PartNames[i]
               /\ plan[n + 1] = "vocabulary" /\ plan[n + 2] = "catalog-contract"
               /\ plan[n + 3] = "vocabulary-contract"
               /\ \A i \in 1..(n + 3) : plan[i] \in Keys
<1> DEFINE parts == SubSeq(PartNames, 1, n)
           whole == <<"vocabulary", "catalog-contract", "vocabulary-contract">>
<1>0. Len(PartNames) \in Nat /\ n \in Nat
  BY Names
<1>1. parts \in Seq(Keys) /\ Len(parts) = n /\ \A i \in 1..n : parts[i] = PartNames[i]
  <2>1. \A i \in 1..n : PartNames[i] \in Keys
    BY <1>0, Names
  <2> QED BY <1>0, <2>1, BundleAssumption, SubSeqProperties
<1>2. whole \in Seq(Keys) /\ Len(whole) = 3
  <2>1. Len(whole) = 3 /\ DOMAIN whole = 1..3
    OBVIOUS
  <2>2. "vocabulary" \in Keys /\ "catalog-contract" \in Keys /\ "vocabulary-contract" \in Keys
    BY Names DEF WholeNames
  <2>3. whole \in Seq(Keys)
    BY <2>2
  <2> QED BY <2>1, <2>3
<1>3. whole[1] = "vocabulary" /\ whole[2] = "catalog-contract" /\ whole[3] = "vocabulary-contract"
  OBVIOUS
<1> HIDE DEF parts, whole
<1>4. /\ parts \o whole \in Seq(Keys) /\ Len(parts \o whole) = n + 3
      /\ \A i \in 1..(n + 3) : (parts \o whole)[i] = IF i <= n THEN parts[i] ELSE whole[i - n]
  <2>1. parts \o whole \in Seq(Keys) /\ Len(parts \o whole) = Len(parts) + Len(whole)
    BY <1>1, <1>2, ConcatProperties
  <2>2. \A i \in 1..(Len(parts) + Len(whole)) :
           (parts \o whole)[i] = IF i <= Len(parts) THEN parts[i] ELSE whole[i - Len(parts)]
    BY <1>1, <1>2, ConcatProperties
  <2> QED BY <1>1, <1>2, <2>1, <2>2
<1>5. DOMAIN (parts \o whole) = 1..(n + 3)
  BY <1>4, LenProperties
<1>6. /\ (parts \o whole)[n + 1] = "vocabulary" /\ (parts \o whole)[n + 2] = "catalog-contract"
      /\ (parts \o whole)[n + 3] = "vocabulary-contract"
  BY <1>0, <1>3, <1>4
<1>7. \A i \in 1..n : (parts \o whole)[i] = PartNames[i]
  BY <1>0, <1>1, <1>4
<1>8. \A i \in 1..(n + 3) : (parts \o whole)[i] \in Keys
  <2> TAKE i \in 1..(n + 3)
  <2>1. i \in 1..n \/ i = n + 1 \/ i = n + 2 \/ i = n + 3
    BY <1>0
  <2>2. \A j \in 1..n : j \in 1..Len(PartNames)
    BY <1>0
  <2>3. {"vocabulary", "catalog-contract", "vocabulary-contract"} \subseteq Keys
    BY Names DEF WholeNames
  <2> QED BY <1>6, <1>7, <2>1, <2>2, <2>3, Names
<1> QED
  BY <1>4, <1>5, <1>6, <1>7, <1>8 DEF parts, whole

LEMMA EntriesShape ==
    ASSUME NEW catalog \in Contents, NEW vocabulary
    PROVE  LET n == catalog.parts
               entries == Entries(catalog, vocabulary)
           IN  /\ n \in 0..Len(PartNames) /\ Len(entries) = n + 1
               /\ \A i \in 1..n : entries[i] = <<PartNames[i], Content(catalog.made, 0)>>
               /\ entries[n + 1] = <<"vocabulary", vocabulary>>
<1> DEFINE n == catalog.parts
           parts == [i \in 1..n |-> <<PartNames[i], Content(catalog.made, 0)>>]
           last == <<<<"vocabulary", vocabulary>>>>
           S == {parts[i] : i \in 1..n} \cup {<<"vocabulary", vocabulary>>}
<1>1. n \in 0..Len(PartNames) /\ n \in Nat
  BY Names DEF Contents
<1>2. parts \in Seq(S) /\ Len(parts) = n
  <2>1. \A i \in 1..n : parts[i] \in S
    OBVIOUS
  <2>2. parts \in [1..n -> S]
    BY <2>1
  <2> HIDE DEF parts, S
  <2> QED BY <1>1, <2>2, SeqDef, LenProperties
<1>3. last \in Seq(S) /\ Len(last) = 1 /\ last[1] = <<"vocabulary", vocabulary>>
  OBVIOUS
<1>4. Entries(catalog, vocabulary) = parts \o last
  BY DEF Entries
<1>5. \A i \in 1..n : parts[i] = <<PartNames[i], Content(catalog.made, 0)>>
  OBVIOUS
<1> HIDE DEF n, parts, last, S
<1>6. /\ Len(parts \o last) = n + 1
      /\ \A i \in 1..(n + 1) : (parts \o last)[i] = IF i <= n THEN parts[i] ELSE last[i - n]
  <2>1. Len(parts \o last) = Len(parts) + Len(last)
    BY <1>2, <1>3, ConcatProperties
  <2>2. \A i \in 1..(Len(parts) + Len(last)) :
           (parts \o last)[i] = IF i <= Len(parts) THEN parts[i] ELSE last[i - Len(parts)]
    BY <1>2, <1>3, ConcatProperties
  <2> QED BY <1>2, <1>3, <2>1, <2>2
<1>7. (parts \o last)[n + 1] = <<"vocabulary", vocabulary>>
  BY <1>1, <1>3, <1>6
<1>8. \A i \in 1..n : (parts \o last)[i] = <<PartNames[i], Content(catalog.made, 0)>>
  BY <1>1, <1>5, <1>6
<1> QED
  BY <1>1, <1>4, <1>6, <1>7, <1>8 DEF n

LEMMA UploadPlanShape ==
    ASSUME BundleTypeOK
    PROVE  LET n == disk["catalog-contract"].parts
           IN  /\ n \in 0..Len(PartNames)
               /\ Len(UploadPlan) = n + 3 /\ DOMAIN UploadPlan = 1..(n + 3)
               /\ \A i \in 1..n : UploadPlan[i] = PartNames[i]
               /\ UploadPlan[n + 1] = "vocabulary" /\ UploadPlan[n + 2] = "catalog-contract"
               /\ UploadPlan[n + 3] = "vocabulary-contract"
               /\ \A i \in 1..(n + 3) : UploadPlan[i] \in Keys
<1>1. disk["catalog-contract"].parts \in 0..Len(PartNames)
  BY Names DEF BundleTypeOK, Contents, WholeNames
<1> QED
  BY <1>1, PlanShape DEF UploadPlan

-----------------------------------------------------------------------------
(* Types.                                                                  *)

LEMMA ContentTyped ==
    ASSUME NEW m \in 0..MaxMade, NEW n \in 0..Len(PartNames)
    PROVE  Content(m, n) \in Contents /\ Content(m, n).made = m /\ Content(m, n).parts = n
BY DEF Content, Contents

LEMMA TypeInit == ASSUME BundleInit PROVE BundleTypeOK /\ BuildRuns
<1>1. Absent \in Contents
  BY Names, BundleAssumption, ContentTyped DEF Absent
<1>2. Shipped \in Contents
  BY Names, BundleAssumption, ContentTyped DEF Shipped
<1>3. [catalog |-> Shipped, vocabulary |-> Shipped] \in Pairs
  BY <1>2 DEF Pairs
<1>4. NoCommand \in [name : {"none", "down", "forced", "pulling", "pull", "pinning", "publish"},
                     at : 0..Len(PartNames) + 1, catalog : Contents, vocabulary : Contents]
  BY <1>1, Names DEF NoCommand
<1> QED
  BY <1>1, <1>3, <1>4, Names, BundleAssumption, StepsListed
     DEF BundleInit, BundleTypeOK, BuildRuns, At, Leads

\* What a build does at the head of a step, or of itself, leaves the files alone.
LEMMA TypeBuildStep ==
    ASSUME BundleTypeOK, BuildRuns, Build
    PROVE  BundleTypeOK' /\ BuildRuns'
<1> USE Names DEF BundleTypeOK
<1>1. CASE BuildStarts
  <2>1. todo' \subseteq Steps
    <3>1. \A step \in Steps : After(step) \subseteq Steps
      BY DEF After, Steps, Range
    <3> QED BY <1>1, <3>1 DEF BuildStarts, StepsLeft, Only, From
  <2>2. steered' \in 0..MaxMade
    BY <1>1, BundleAssumption DEF BuildStarts, WithinBound
  <2>3. phase = "next"
    BY <1>1 DEF BuildStarts, BuildRuns, Running, Leads
  <2> QED BY <1>1, <2>1, <2>2, <2>3 DEF BuildStarts, BuildRuns, At
<1>2. ASSUME NEW torn \in BOOLEAN, BuildStops(torn) PROVE BundleTypeOK' /\ BuildRuns'
  <2>1. done' \subseteq done /\ todo' = {} /\ phase' = "next" /\ at' = 0
    BY <1>2 DEF BuildStops
  <2> QED BY <1>2, <2>1 DEF BuildStops, BuildRuns, At
<1>3. ASSUME NEW step \in Steps, StepBegins(step) PROVE BundleTypeOK' /\ BuildRuns'
  <2>1. done' \subseteq done /\ phase' = "work" /\ at' = 0 /\ Leads(step)'
    BY <1>3 DEF StepBegins, Leads
  <2> QED BY <1>3, <2>1 DEF StepBegins, BuildRuns
<1>4. ASSUME NEW step \in Steps, StepRecorded(step) PROVE BundleTypeOK' /\ BuildRuns'
  BY <1>4 DEF StepRecorded, BuildRuns, At
<1>5. CASE EvidenceStep
  BY <1>5 DEF EvidenceStep, Worked, OnBuilder, BuildRuns, At, Leads
<1>6. CASE ExportArchive
  <2>1. made' \in 0..MaxMade
    BY <1>6, BundleAssumption DEF ExportArchive, WithinBound
  <2>3. Content(made', 0) \in Contents
    BY <2>1, ContentTyped
  <2>2. disk' \in [Keys -> Contents]
    BY <1>6, <2>3 DEF ExportArchive, Writes
  <2> QED BY <1>6, <2>1, <2>2 DEF ExportArchive, WritesOn, OnBuilder, BuildRuns, At, Leads
<1>7. CASE SplitPart
  <2>1. disk["catalog-contract"].made \in 0..MaxMade
    BY DEF Contents, WholeNames
  <2>2. disk' \in [Keys -> Contents]
    BY <1>7, <2>1, ContentTyped DEF SplitPart, Writes
  <2> QED BY <1>7, <2>2 DEF SplitPart, WritesOn, OnBuilder, BuildRuns, At, Leads
<1>8. CASE SplitEnds
  <2>1. disk["catalog-contract"].made \in 0..MaxMade /\ Absent \in Contents
    BY ContentTyped, BundleAssumption DEF Contents, WholeNames, Absent
  <2>2. at - 1 \in 0..Len(PartNames)
    BY <1>8 DEF SplitEnds, BuildRuns
  <2>3. Content(disk["catalog-contract"].made, at - 1) \in Contents
    BY <2>1, <2>2, ContentTyped
  <2>4. disk' \in [Keys -> Contents]
    BY <1>8, <2>1, <2>3 DEF SplitEnds
  <2> QED BY <1>8, <2>4 DEF SplitEnds, Worked, OnBuilder, BuildRuns, At, Leads
<1>9. CASE RestoreCheck
  BY <1>9 DEF RestoreCheck, Worked, OnBuilder, BuildRuns, At, Leads
<1>10. CASE VocabularyFile
  <2>1. made' \in 0..MaxMade
    BY <1>10, BundleAssumption DEF VocabularyFile, WithinBound
  <2>3. Content(made', 0) \in Contents
    BY <2>1, ContentTyped
  <2>2. disk' \in [Keys -> Contents]
    BY <1>10, <2>3 DEF VocabularyFile, Writes
  <2> QED BY <1>10, <2>1, <2>2 DEF VocabularyFile, WritesOn, OnBuilder, BuildRuns, At, Leads
<1>11. CASE VocabularyContract
  <2>1. disk' \in [Keys -> Contents]
    BY <1>11 DEF VocabularyContract, Writes, WholeNames
  <2> QED BY <1>11, <2>1 DEF VocabularyContract, Worked, OnBuilder, BuildRuns, At, Leads
<1>12. CASE UploadFile
  <2> DEFINE key == UploadPlan[at + 1]
  <2>1. key \in Keys /\ at + 1 \in 1..Len(UploadPlan)
    <3>1. at \in Nat /\ at < Len(UploadPlan)
      BY <1>12 DEF UploadFile
    <3>2. disk["catalog-contract"].parts \in Nat
      BY UploadPlanShape
    <3> HIDE DEF BundleTypeOK
    <3> QED BY <3>1, <3>2, UploadPlanShape
  <2>2. bucket' \in [Keys -> Contents]
    BY <1>12, <2>1 DEF UploadFile
  <2>3. uploaded' \subseteq Pairs
    BY <1>12 DEF UploadFile, OnDisk, Pairs, WholeNames
  <2>4. at' \in 0..Len(PartNames) + 2 /\ phase' \in {"work", "worked"}
    <3>1. at \in Nat /\ at + 1 <= Len(UploadPlan) /\ Len(UploadPlan) \in Nat
      BY <2>1, UploadPlanShape
    <3>2. Len(UploadPlan) <= Len(PartNames) + 3
      <4> HIDE DEF BundleTypeOK
      <4> QED BY UploadPlanShape
    <3> QED BY <1>12, <3>1, <3>2 DEF UploadFile, Worked, WritesOn, At
  <2>5. \E step \in Steps : Leads(step)'
    BY <1>12 DEF UploadFile, At, Leads
  <2>6. ~At("export")'
    BY <1>12, OneLeads, StepsListed DEF UploadFile, At, Leads
  <2> QED BY <1>12, <2>2, <2>3, <2>4, <2>5, <2>6 DEF UploadFile, BuildRuns
<1>13. CASE Summary
  BY <1>13 DEF Summary, Worked, OnBuilder, BuildRuns, At, Leads
<1> QED
  BY <1>1, <1>2, <1>3, <1>4, <1>5, <1>6, <1>7, <1>8, <1>9, <1>10, <1>11, <1>12, <1>13 DEF Build

LEMMA TypeCommandStep ==
    ASSUME BundleTypeOK, BuildRuns, Commands
    PROVE  BundleTypeOK' /\ BuildRuns'
<1> DEFINE Typed == command' \in
               [name : {"none", "down", "forced", "pulling", "pull", "pinning", "publish"},
                at : 0..Len(PartNames) + 1, catalog : Contents, vocabulary : Contents]
<1>1. \A key \in Keys : bucket[key] \in Contents
  BY DEF BundleTypeOK
<1>2. /\ {"catalog-contract", "vocabulary-contract"} \subseteq Keys
      /\ pinned.catalog \in Contents /\ pinned.vocabulary \in Contents
  BY Names DEF BundleTypeOK, WholeNames, Pairs
<1>3. Absent \in Contents
  BY Names, BundleAssumption, ContentTyped DEF Absent
<1>4. ASSUME ByHand, Typed, pinned' \in Pairs PROVE BundleTypeOK' /\ BuildRuns'
  BY <1>4 DEF ByHand, buildVars, BundleTypeOK, BuildRuns, At, Leads
<1>5. CASE CommandEnds
  <2>1. Typed
    BY <1>3, <1>5, Names DEF CommandEnds, NoCommand
  <2> QED BY <1>4, <1>5, <2>1 DEF CommandEnds, BundleTypeOK
<1>6. CASE StagingUp
  <2>1. disk' \in [Keys -> Contents]
    BY <1>2, <1>3, <1>6 DEF StagingUp
  <2> QED BY <1>6, <2>1 DEF StagingUp, BundleTypeOK, BuildRuns, At
<1>7. CASE StackDeleted
  <2>1. Typed
    BY <1>3, <1>7, Names DEF StackDeleted, NoCommand
  <2> QED BY <1>3, <1>7, <2>1 DEF StackDeleted, BundleTypeOK, BuildRuns, At
<1>8. ASSUME NEW force \in BOOLEAN, DownChecks(force) PROVE BundleTypeOK' /\ BuildRuns'
  <2>1. Typed
    BY <1>3, <1>8, Names DEF DownChecks, NoCommand
  <2> QED BY <1>4, <1>8, <2>1 DEF DownChecks, BundleTypeOK
<1>9. CASE PullCatalog
  <2>1. Typed
    <3>1. command' = [name |-> "pulling", at |-> 0, catalog |-> bucket["catalog-contract"],
                      vocabulary |-> Absent]
      BY <1>9 DEF PullCatalog, NoCommand
    <3> QED BY <1>1, <1>2, <1>3, <3>1, Names
  <2> QED BY <1>4, <1>9, <2>1 DEF PullCatalog, BundleTypeOK
<1>10. CASE PullVocabulary
  <2>1. Typed
    BY <1>1, <1>2, <1>10 DEF PullVocabulary, BundleTypeOK
  <2> QED BY <1>4, <1>10, <2>1 DEF PullVocabulary, BundleTypeOK
<1>11. CASE PublishStarts
  <2>1. Typed
    BY <1>2, <1>11, Names DEF PublishStarts
  <2> QED BY <1>4, <1>11, <2>1 DEF PublishStarts, BundleTypeOK
<1>12. CASE ObjectMatches
  <2>1. command.at + 1 \in 0..Len(PartNames) + 1
    BY <1>12, EntriesShape, Names DEF ObjectMatches, Described, BundleTypeOK
  <2>2. Typed
    BY <1>12, <2>1 DEF ObjectMatches, BundleTypeOK
  <2> QED BY <1>4, <1>12, <2>2 DEF ObjectMatches, BundleTypeOK
<1>13. CASE PinCatalog
  <2>1. Typed /\ pinned' \in Pairs
    BY <1>13 DEF PinCatalog, BundleTypeOK, Pairs
  <2> QED BY <1>4, <1>13, <2>1 DEF PinCatalog
<1>14. CASE PinVocabulary
  <2>1. Typed /\ pinned' \in Pairs
    BY <1>3, <1>14, Names DEF PinVocabulary, BundleTypeOK, Pairs, NoCommand
  <2> QED BY <1>4, <1>14, <2>1 DEF PinVocabulary
<1>15. CASE Publishes
  <2>1. Typed
    BY <1>3, <1>15, Names DEF Publishes, NoCommand
  <2> QED BY <1>4, <1>15, <2>1 DEF Publishes, BundleTypeOK
<1> QED
  BY <1>5, <1>6, <1>7, <1>8, <1>9, <1>10, <1>11, <1>12, <1>13, <1>14, <1>15 DEF Commands

LEMMA TypeStep ==
    ASSUME BundleTypeOK, BuildRuns, [BundleNext]_bundleVars
    PROVE  BundleTypeOK' /\ BuildRuns'
<1>1. CASE UNCHANGED bundleVars
  BY <1>1 DEF bundleVars, buildVars, BundleTypeOK, BuildRuns, At, Leads
<1> QED
  BY <1>1, TypeBuildStep, TypeCommandStep DEF BundleNext

-----------------------------------------------------------------------------
(* What is recorded as uploaded is delivered.                              *)

\* A command leaves the build and the bucket alone, or takes the builder away.
LEMMA CommandShape ==
    ASSUME Commands
    PROVE  \/ UNCHANGED <<buildVars, bucket, uploaded>>
           \/ /\ done' = {} /\ todo' = {} /\ phase' = "next" /\ at' = 0
              /\ UNCHANGED <<bucket, made, steered, uploaded>>
BY DEF Commands, CommandEnds, StagingUp, StackDeleted, DownChecks, PullCatalog, PullVocabulary,
       PublishStarts, ObjectMatches, PinCatalog, PinVocabulary, Publishes, ByHand

\* The step at work, and what a build writes in it.
WorksAt(step) ==
    /\ At(step) /\ phase' \in {"work", "worked"}
    /\ UNCHANGED <<stack, done, todo, steered, pinned, command>>

LEMMA WorkShape ==
    ASSUME Build, ~BuildStarts, \A torn \in BOOLEAN : ~BuildStops(torn),
           \A step \in Steps : ~StepBegins(step) /\ ~StepRecorded(step)
    PROVE  \/ /\ WorksAt("evidence") \/ WorksAt("restore-check") \/ WorksAt("summary")
              /\ phase' = "worked" /\ UNCHANGED <<disk, made, at, bucket, uploaded>>
           \/ (WorksAt("export") \/ WorksAt("vocabulary")) /\ UNCHANGED <<bucket, uploaded>>
           \/ WorksAt("upload") /\ UploadFile
<1>1. CASE EvidenceStep
  BY <1>1 DEF EvidenceStep, WorksAt, Worked, OnBuilder
<1>2. CASE RestoreCheck
  BY <1>2 DEF RestoreCheck, WorksAt, Worked, OnBuilder
<1>3. CASE Summary
  BY <1>3 DEF Summary, WorksAt, Worked, OnBuilder
<1>4. CASE ExportArchive \/ SplitPart \/ SplitEnds
  BY <1>4 DEF ExportArchive, SplitPart, SplitEnds, WorksAt, Worked, WritesOn, OnBuilder, At
<1>5. CASE VocabularyFile \/ VocabularyContract
  BY <1>5 DEF VocabularyFile, VocabularyContract, WorksAt, Worked, WritesOn, OnBuilder, At
<1>6. CASE UploadFile
  BY <1>6 DEF UploadFile, WorksAt, Worked, WritesOn, At
<1> QED
  BY <1>1, <1>2, <1>3, <1>4, <1>5, <1>6 DEF Build

LEMMA BegunStep ==
    ASSUME UploadInv, [BundleNext]_bundleVars
    PROVE  BegunIsUndone'
<1>1. CASE UNCHANGED bundleVars
  BY <1>1 DEF bundleVars, buildVars, UploadInv, BegunIsUndone, Leads
<1>2. CASE Commands
  BY <1>2, CommandShape DEF buildVars, UploadInv, BegunIsUndone, Leads
<1>3. CASE BuildStarts
  BY <1>3 DEF BuildStarts, UploadInv, BuildRuns, BegunIsUndone, Leads, Running
<1>4. ASSUME NEW torn \in BOOLEAN, BuildStops(torn) PROVE BegunIsUndone'
  BY <1>4 DEF BuildStops, BegunIsUndone
<1>5. ASSUME NEW s \in Steps, StepBegins(s) PROVE BegunIsUndone'
  <2> SUFFICES ASSUME NEW step \in Steps, Leads(step)'
               PROVE  done' \cap ({step} \cup After(step)) = {}
    BY DEF BegunIsUndone
  <2>1. Leads(s) /\ Leads(step)
    BY <1>5 DEF StepBegins, Leads
  <2>2. s = step
    BY <2>1, OneLeads
  <2> QED BY <1>5, <2>2 DEF StepBegins
<1>6. ASSUME NEW s \in Steps, StepRecorded(s) PROVE BegunIsUndone'
  BY <1>6 DEF StepRecorded, BegunIsUndone
<1>7. ASSUME NEW s, WorksAt(s) PROVE BegunIsUndone'
  BY <1>7 DEF WorksAt, UploadInv, BegunIsUndone, At, Leads
<1> QED
  BY <1>1, <1>2, <1>3, <1>4, <1>5, <1>6, <1>7, WorkShape DEF BundleNext, Build

\* An upload goes on from what it has delivered.
LEMMA DeliveredOn ==
    ASSUME UploadInv, UploadFile
    PROVE  UploadAdvances'
<1> DEFINE key == UploadPlan[at + 1]
<1>1. /\ At("upload") /\ at \in Nat /\ at < Len(UploadPlan) /\ Len(UploadPlan) \in Nat
      /\ DOMAIN UploadPlan = 1..Len(UploadPlan)
      /\ \A i \in 1..Len(UploadPlan) : UploadPlan[i] \in Keys
  <2>1. BundleTypeOK /\ disk["catalog-contract"].parts \in Nat
    BY UploadPlanShape DEF UploadInv
  <2>2. at \in Nat
    BY <2>1, Names DEF BundleTypeOK
  <2> QED BY <2>1, <2>2, UploadPlanShape DEF UploadFile
<1>2. UploadPlan' = UploadPlan /\ disk' = disk /\ todo' = todo
  BY DEF UploadFile, UploadPlan
<1>3. bucket' = [bucket EXCEPT ![key] = disk[key]] /\ bucket \in [Keys -> Contents]
  BY DEF UploadFile, UploadInv, BundleTypeOK
<1>4. \A i \in 1..at : bucket[UploadPlan[i]] = disk[UploadPlan[i]]
  BY <1>1 DEF UploadInv, UploadAdvances
<1>5. \A i \in 1..(at + 1) : bucket'[UploadPlan[i]] = disk[UploadPlan[i]]
  <2> TAKE i \in 1..(at + 1)
  <2>1. UploadPlan[i] \in Keys /\ (i \in 1..at \/ UploadPlan[i] = key)
    BY <1>1
  <2> QED BY <1>3, <1>4, <2>1
<1>6. CASE at + 1 = Len(UploadPlan)
  <2>1. ~At("upload")'
    BY <1>6 DEF UploadFile, Worked, At
  <2>2. Delivered(bucket)'
    BY <1>1, <1>2, <1>5, <1>6 DEF Delivered
  <2> QED BY <2>1, <2>2 DEF UploadAdvances
<1>7. CASE at + 1 # Len(UploadPlan)
  <2>1. ~Has("upload")' /\ at' = at + 1
    BY <1>1, <1>7 DEF UploadFile, WritesOn, Has, At
  <2> QED BY <1>2, <1>5, <2>1 DEF UploadAdvances
<1> QED
  BY <1>6, <1>7

LEMMA UploadStep ==
    ASSUME UploadInv, [BundleNext]_bundleVars
    PROVE  UploadAdvances' /\ DoneMeansUploaded'
<1> USE DEF UploadAdvances, DoneMeansUploaded
<1>1. CASE UNCHANGED <<buildVars, bucket>>
  BY <1>1 DEF buildVars, UploadInv, Delivered, UploadPlan, At, Has, Leads
<1>2. CASE done' = {} /\ todo' = {}
  BY <1>2 DEF At, Has, Leads
<1>3. ASSUME UNCHANGED <<disk, bucket>>, phase' = "next", done' \subseteq done
      PROVE  UploadAdvances' /\ DoneMeansUploaded'
  BY <1>3 DEF UploadInv, Delivered, UploadPlan, At, Has
<1>4. CASE BuildStarts
  <2>1. phase' = "next"
    BY <1>4 DEF BuildStarts, UploadInv, BuildRuns, Leads, Running
  <2> QED BY <1>3, <1>4, <2>1 DEF BuildStarts
<1>5. ASSUME NEW torn \in BOOLEAN, BuildStops(torn) PROVE UploadAdvances' /\ DoneMeansUploaded'
  <2>1. done' \subseteq done
    BY <1>5 DEF BuildStops
  <2> QED BY <1>3, <1>5, <2>1 DEF BuildStops
<1>6. ASSUME NEW s \in Steps, StepBegins(s) PROVE UploadAdvances' /\ DoneMeansUploaded'
  <2>1. done' \subseteq done /\ at' = 0 /\ phase' = "work" /\ UNCHANGED <<disk, bucket>>
    BY <1>6 DEF StepBegins
  <2>2. UploadAdvances'
    BY <2>1 DEF Has
  <2>3. DoneMeansUploaded'
    BY <2>1 DEF UploadInv, Delivered, UploadPlan
  <2> QED BY <2>2, <2>3
<1>7. ASSUME NEW s \in Steps, StepRecorded(s) PROVE UploadAdvances' /\ DoneMeansUploaded'
  <2>1. phase' = "next" /\ UNCHANGED <<disk, bucket>> /\ done' = done \cup ({s} \ {"summary"})
    BY <1>7 DEF StepRecorded
  <2>2. s = "upload" => Has("upload")
    BY <1>7 DEF StepRecorded, Has
  <2> QED BY <2>1, <2>2 DEF UploadInv, Delivered, UploadPlan, At, Has
<1>8. ASSUME NEW s \in Steps \ {"upload"}, WorksAt(s) PROVE UploadAdvances'
  <2>1. ~Leads("upload") /\ todo' = todo
    BY <1>8, OneLeads, StepsListed DEF WorksAt, At
  <2> QED BY <2>1 DEF Leads, At, Has
<1>9. ASSUME NEW s \in {"export", "vocabulary", "upload"}, WorksAt(s) PROVE DoneMeansUploaded'
  <2>1. done \cap ({s} \cup After(s)) = {} /\ done' = done
    BY <1>9, StepsListed DEF WorksAt, At, UploadInv, BegunIsUndone
  <2>2. "upload" \in {s} \cup After(s)
    BY StepsListed
  <2> QED BY <2>1, <2>2
<1>10. ASSUME NEW s \in {"evidence", "restore-check", "summary"}, WorksAt(s),
             UNCHANGED <<disk, bucket>>
       PROVE  DoneMeansUploaded'
  BY <1>10 DEF WorksAt, UploadInv, Delivered, UploadPlan
<1>11. CASE Commands
  BY <1>1, <1>2, <1>11, CommandShape
<1>12. CASE Build
  <2>1. {"evidence", "export", "restore-check", "vocabulary", "summary"} \subseteq Steps \ {"upload"}
    BY StepsListed
  <2> QED BY <1>4, <1>5, <1>6, <1>7, <1>8, <1>9, <1>10, <1>12, <2>1, WorkShape, DeliveredOn DEF Build
<1>13. CASE UNCHANGED bundleVars
  BY <1>1, <1>13 DEF bundleVars
<1> QED
  BY <1>11, <1>12, <1>13 DEF BundleNext

LEMMA UploadInvInit == ASSUME BundleInit PROVE UploadInv
BY TypeInit DEF BundleInit, UploadInv, BegunIsUndone, UploadAdvances, DoneMeansUploaded, At, Has, Leads

LEMMA UploadInvStep == ASSUME UploadInv, [BundleNext]_bundleVars PROVE UploadInv'
BY TypeStep, BegunStep, UploadStep DEF UploadInv

LEMMA UploadInvHolds == BundleSpec => []UploadInv
BY UploadInvInit, UploadInvStep, PTL DEF BundleSpec

\* Every variable of the bundle keeps its type: a build's position stays within its plan,
\* and no contract lists more parts than an archive has.
THEOREM BundleTypeHolds == BundleSpec => []BundleTypeOK
<1>1. UploadInv => BundleTypeOK
  BY DEF UploadInv
<1> QED
  BY <1>1, UploadInvHolds, PTL

\* While state.json records the upload, the bucket holds the builder's bundle as it is on
\* its disk, however builds were stopped, resumed or steered.
THEOREM DoneMeansUploadedHolds == BundleSpec => []DoneMeansUploaded
<1>1. UploadInv => DoneMeansUploaded
  BY DEF UploadInv
<1> QED
  BY <1>1, UploadInvHolds, PTL

-----------------------------------------------------------------------------
(* What is published is one build's.                                       *)

\* A build that is resumed has done every step before the one that leads, and none after.
LEMMA Leading ==
    ASSUME UploadInv, StepsInOrder, NEW s \in Steps, Leads(s)
    PROVE  /\ s \notin done /\ todo = StepsLeft /\ done \cap After(s) = {}
           /\ \A r \in Steps : r \notin {s} \cup After(s) => r \in done
<1>1. todo = StepsLeft
  BY DEF StepsInOrder, Running, Leads
<1>2. s \notin done
  BY <1>1 DEF Leads, StepsLeft
<1> QED
  BY <1>1, <1>2 DEF StepsInOrder, Leads, StepsLeft

\* What an upload may rely on.
LEMMA LeadingUpload ==
    ASSUME UploadInv, StepsInOrder, Leads("upload")
    PROVE  {"export", "restore-check", "vocabulary"} \subseteq done
BY Leading, StepsListed

\* A build that works has not done the steps from there on.
LEMMA LeadingAlone ==
    ASSUME UploadInv, StepsInOrder, NEW s \in Steps, Leads(s), NEW r \in {s} \cup After(s)
    PROVE  ~Finished(r) \/ r = s
<1>1. r \in Steps
  BY DEF After, Steps, Range
<1> QED
  BY <1>1, Leading, OneLeads DEF Finished, Has

LEMMA StepsInOrderStep ==
    ASSUME UploadInv, StepsInOrder, BundleNext, steered' = steered
    PROVE  StepsInOrder'
<1>0. todo \subseteq Steps /\ done \subseteq Steps /\ "summary" \notin done /\ steered \in Nat
  BY DEF UploadInv, BundleTypeOK
<1>1. CASE Commands
  BY <1>1, CommandShape DEF buildVars, StepsInOrder, Running, StepsLeft
<1>2. CASE BuildStarts
  BY <1>0, <1>2 DEF BuildStarts, StepsInOrder, StepsLeft
<1>3. ASSUME NEW torn \in BOOLEAN, BuildStops(torn) PROVE StepsInOrder'
  BY <1>3 DEF BuildStops, StepsInOrder, Running
<1>4. ASSUME NEW s \in Steps, StepBegins(s) PROVE StepsInOrder'
  <2>1. done' = done /\ todo' = todo
    BY <1>4, Leading DEF StepBegins
  <2> QED BY <2>1 DEF StepsInOrder, Running, StepsLeft
<1>5. ASSUME NEW s \in Steps, StepRecorded(s) PROVE StepsInOrder'
  <2>1. /\ Leads(s) /\ s \notin done /\ todo = StepsLeft
        /\ \A r \in Steps : r \notin {s} \cup After(s) => r \in done
    BY <1>5, Leading DEF StepRecorded
  <2>2. \A r \in Steps : s \in After(r) => r \notin {s} \cup After(s)
    BY StepsListed
  <2>3. CASE s = "summary"
    <3>1. todo' = {} /\ done' = done
      BY <1>5, <2>1, <2>3, StepsListed DEF StepRecorded, Leads
    <3> QED BY <3>1 DEF StepsInOrder, Running
  <2>4. CASE s # "summary"
    <3>1. done' = done \cup {s} /\ todo' = todo \ {s}
      BY <1>5, <2>4 DEF StepRecorded
    <3>2. \A step \in done', r \in Steps : step \in After(r) => r \in done'
      BY <2>1, <2>2, <3>1 DEF StepsInOrder
    <3> QED BY <2>1, <3>1, <3>2 DEF StepsInOrder, StepsLeft
  <2> QED BY <2>3, <2>4
<1>6. ASSUME NEW s \in Steps, WorksAt(s) PROVE StepsInOrder'
  BY <1>6 DEF WorksAt, StepsInOrder, Running, StepsLeft
<1> QED
  BY <1>1, <1>2, <1>3, <1>4, <1>5, <1>6, WorkShape, StepsListed DEF BundleNext

LEMMA ContentsFields ==
    ASSUME NEW c \in Contents
    PROVE  /\ c.made \in Nat /\ c.parts \in Nat /\ c.parts <= Len(PartNames)
           /\ c = Content(c.made, c.parts)
BY Names, BundleAssumption DEF Contents, Content

LEMMA ContentOf ==
    ASSUME NEW m, NEW n
    PROVE  Content(m, n).made = m /\ Content(m, n).parts = n
BY DEF Content

\* The fields of the files, the objects and the contracts in hand are numbers.
LEMMA Fields ==
    ASSUME BundleTypeOK
    PROVE  /\ made \in Nat /\ steered \in Nat /\ at \in Nat
           /\ \A key \in Keys : /\ disk[key].made \in Nat /\ disk[key].parts \in Nat
                                /\ bucket[key].made \in Nat /\ bucket[key].parts \in Nat
           /\ \A pair \in uploaded : /\ pair.catalog.made \in Nat /\ pair.vocabulary.made \in Nat
                                     /\ pair = [catalog |-> pair.catalog,
                                                vocabulary |-> pair.vocabulary]
           /\ pinned.catalog.made \in Nat /\ pinned.vocabulary.made \in Nat
           /\ pinned = [catalog |-> pinned.catalog, vocabulary |-> pinned.vocabulary]
           /\ command.at \in Nat /\ command.catalog \in Contents
           /\ command.catalog.made \in Nat /\ command.catalog.parts \in Nat
<1>1. made \in Nat /\ steered \in Nat /\ at \in Nat /\ command.at \in Nat
  BY Names, BundleAssumption DEF BundleTypeOK
<1>2. /\ \A key \in Keys : disk[key] \in Contents /\ bucket[key] \in Contents
      /\ pinned \in Pairs /\ uploaded \subseteq Pairs /\ command.catalog \in Contents
  BY DEF BundleTypeOK
<1>3. \A pair \in Pairs : /\ pair.catalog \in Contents /\ pair.vocabulary \in Contents
                          /\ pair = [catalog |-> pair.catalog, vocabulary |-> pair.vocabulary]
  BY DEF Pairs
<1> QED
  BY <1>1, <1>2, <1>3, ContentsFields

LEMMA KeysNamed ==
    /\ {"vocabulary", "catalog-contract", "vocabulary-contract"} \subseteq Keys
    /\ \A i \in 1..Len(PartNames) : PartNames[i] \in Keys
    /\ \A i \in 1..Len(PartNames) :
          PartNames[i] \notin {"vocabulary", "catalog-contract", "vocabulary-contract"}
BY Names DEF WholeNames

LEMMA UnmadeStep ==
    ASSUME UploadInv, OneBuild, BundleNext
    PROVE  NothingUnmade'
<1>0. /\ made >= 1 /\ \A key \in Keys : disk[key].made <= made
      /\ \A pair \in uploaded : pair.catalog.made <= made /\ pair.vocabulary.made <= made
      /\ pinned.catalog.made <= made /\ pinned.vocabulary.made <= made
  BY DEF OneBuild, NothingUnmade
<1>1. BundleTypeOK /\ disk \in [Keys -> Contents]
  BY DEF UploadInv, BundleTypeOK
<1>2. ASSUME UNCHANGED <<uploaded, pinned>>, made' \in Nat, made' >= made,
             \A key \in Keys : disk'[key].made <= made'
      PROVE  NothingUnmade'
  BY <1>0, <1>1, <1>2, Fields DEF NothingUnmade
<1>3. ASSUME NEW key \in Keys, NEW m, NEW n, disk' = [disk EXCEPT ![key] = Content(m, n)],
             m <= made', made' \in Nat, made' >= made
      PROVE  \A k \in Keys : disk'[k].made <= made'
  BY <1>0, <1>1, <1>3, Fields, ContentOf
<1>4. CASE ExportArchive
  <2>1. made' = made + 1 /\ UNCHANGED <<uploaded, pinned>>
    BY <1>4 DEF ExportArchive, OnBuilder
  <2>2. disk' = [disk EXCEPT !["catalog-contract"] = Content(made', 0)]
    BY <1>4 DEF ExportArchive, Writes
  <2>3. /\ made \in Nat /\ made' \in Nat /\ made' >= made /\ made' <= made'
        /\ "catalog-contract" \in Keys
    BY <1>1, <2>1, Fields, KeysNamed
  <2>4. \A key \in Keys : disk'[key].made <= made'
    BY <1>3, <2>2, <2>3
  <2> QED BY <1>2, <2>1, <2>3, <2>4
<1>5. CASE VocabularyFile
  <2>1. made' = made + 1 /\ UNCHANGED <<uploaded, pinned>>
    BY <1>5 DEF VocabularyFile, OnBuilder
  <2>2. disk' = [disk EXCEPT !["vocabulary"] = Content(made', 0)]
    BY <1>5 DEF VocabularyFile, Writes
  <2>3. /\ made \in Nat /\ made' \in Nat /\ made' >= made /\ made' <= made'
        /\ "vocabulary" \in Keys
    BY <1>1, <2>1, Fields, KeysNamed
  <2>4. \A key \in Keys : disk'[key].made <= made'
    BY <1>3, <2>2, <2>3
  <2> QED BY <1>2, <2>1, <2>3, <2>4
<1>6. CASE SplitPart
  <2>1. made' = made /\ UNCHANGED <<uploaded, pinned>> /\ PartNames[at] \in Keys
    BY <1>6, Names DEF SplitPart, OnBuilder
  <2>2. disk' = [disk EXCEPT ![PartNames[at]] = Content(disk["catalog-contract"].made, 0)]
    BY <1>6 DEF SplitPart, Writes
  <2>3. made \in Nat /\ made' \in Nat /\ made' >= made /\ PartNames[at] \in Keys
    BY <1>1, <2>1, Fields, KeysNamed
  <2>4. \A key \in Keys : disk'[key].made <= made'
    BY <1>0, <1>3, <2>1, <2>2, <2>3, KeysNamed
  <2> QED BY <1>2, <2>1, <2>3, <2>4
<1>7. CASE SplitEnds
  <2>1. made' = made /\ UNCHANGED <<uploaded, pinned>>
    BY <1>7 DEF SplitEnds, OnBuilder
  <2>2. Content(disk["catalog-contract"].made, at - 1).made = disk["catalog-contract"].made
        /\ Absent.made = 0
    BY ContentOf DEF Absent
  <2>3. \A key \in Keys : disk'[key].made <= made'
    BY <1>0, <1>1, <1>7, <2>1, <2>2, Fields DEF SplitEnds
  <2> QED BY <1>1, <1>2, <2>1, <2>3, Fields
<1>8. CASE VocabularyContract
  <2>1. made' = made /\ UNCHANGED <<uploaded, pinned>>
    BY <1>8 DEF VocabularyContract, OnBuilder
  <2>2. \A key \in Keys : disk'[key].made <= made'
    BY <1>0, <1>1, <1>8, <2>1, Fields, KeysNamed DEF VocabularyContract, Writes
  <2> QED BY <1>1, <1>2, <2>1, <2>2, Fields
<1>9. CASE UploadFile
  <2>1. uploaded' = uploaded \cup {OnDisk} /\ UNCHANGED <<made, disk, pinned>>
    BY <1>9 DEF UploadFile
  <2>2. OnDisk.catalog.made <= made /\ OnDisk.vocabulary.made <= made
    BY <1>0, KeysNamed DEF OnDisk
  <2> QED BY <1>0, <2>1, <2>2 DEF NothingUnmade
<1>10. CASE StagingUp
  <2>1. made' = made /\ UNCHANGED <<uploaded, pinned>> /\ Absent.made = 0
    BY <1>10, ContentOf DEF StagingUp, Absent
  <2>2. \A key \in Keys : disk'[key].made <= made'
    BY <1>0, <1>1, <1>10, <2>1, Fields DEF StagingUp
  <2> QED BY <1>1, <1>2, <2>1, <2>2, Fields
<1>11. CASE StackDeleted
  <2>1. made' = made /\ UNCHANGED <<uploaded, pinned>> /\ Absent.made = 0
    BY <1>11, ContentOf DEF StackDeleted, Absent
  <2>2. \A key \in Keys : disk'[key].made <= made'
    BY <1>0, <1>1, <1>11, <2>1, Fields DEF StackDeleted
  <2> QED BY <1>1, <1>2, <2>1, <2>2, Fields
<1>12. CASE PinCatalog \/ PinVocabulary
  <2>1. UNCHANGED <<made, disk, uploaded>>
    BY <1>12 DEF PinCatalog, PinVocabulary, ByHand, buildVars
  <2>2. command.name \in {"pull", "pinning"}
    BY <1>12 DEF PinCatalog, PinVocabulary
  <2>3. /\ \E pair \in uploaded : command.catalog = pair.catalog
        /\ \E pair \in uploaded : command.vocabulary = pair.vocabulary
    BY <2>2 DEF OneBuild, PullInOrder, Pulls
  <2>4. command.catalog.made <= made /\ command.vocabulary.made <= made
    BY <1>0, <2>3
  <2>5. /\ pinned'.catalog \in {pinned.catalog, command.catalog}
        /\ pinned'.vocabulary \in {pinned.vocabulary, command.vocabulary}
    BY <1>1, <1>12 DEF PinCatalog, PinVocabulary, BundleTypeOK, Pairs
  <2> QED BY <1>0, <2>1, <2>4, <2>5 DEF NothingUnmade
<1>13. CASE UNCHANGED <<disk, made, uploaded, pinned>>
  BY <1>0, <1>13 DEF NothingUnmade
<1>14. CASE Commands
  BY <1>10, <1>11, <1>12, <1>13, <1>14
     DEF Commands, CommandEnds, DownChecks, PullCatalog, PullVocabulary, PublishStarts,
         ObjectMatches, Publishes, ByHand, buildVars
<1>15. CASE Build
  BY <1>4, <1>5, <1>6, <1>7, <1>8, <1>9, <1>13, <1>15
     DEF Build, BuildStarts, BuildStops, StepBegins, StepRecorded, EvidenceStep, RestoreCheck,
         Summary, OnBuilder
<1> QED
  BY <1>14, <1>15 DEF BundleNext

\* Work on one step finishes no other.
LEMMA WorkIsOwn ==
    ASSUME UploadInv, NEW r \in Steps, WorksAt(r), NEW s \in Steps, s # r
    PROVE  ~At(s)' /\ (Finished(s)' => s \in done)
BY OneLeads DEF WorksAt, At, Has, Finished, Leads

LEMMA ExportWorks ==
    ASSUME ExportArchive \/ SplitPart \/ SplitEnds
    PROVE  WorksAt("export") /\ UNCHANGED <<bucket, uploaded>>
BY DEF ExportArchive, SplitPart, SplitEnds, WorksAt, Worked, WritesOn, OnBuilder, At

LEMMA VocabularyWorks ==
    ASSUME VocabularyFile \/ VocabularyContract
    PROVE  WorksAt("vocabulary") /\ UNCHANGED <<bucket, uploaded>>
BY DEF VocabularyFile, VocabularyContract, WorksAt, Worked, WritesOn, OnBuilder, At

LEMMA UploadWorks == ASSUME UploadFile PROVE WorksAt("upload") /\ UNCHANGED disk
BY DEF UploadFile, WorksAt, Worked, WritesOn, At

\* What a step changes on the builder.
LEMMA DiskStep ==
    ASSUME UploadInv, BundleNext
    PROVE  \/ done' = {} /\ todo' = {}
           \/ UNCHANGED <<buildVars, uploaded>>
           \/ /\ UNCHANGED <<disk, uploaded>> /\ phase' = "next"
              /\ done' \subseteq done \cup {s \in Steps : Has(s)}
           \/ /\ \E s \in Steps : StepBegins(s)
              /\ UNCHANGED <<disk, uploaded>> /\ phase' = "work" /\ at' = 0 /\ done' \subseteq done
           \/ EvidenceStep \/ ExportArchive \/ SplitPart \/ SplitEnds \/ RestoreCheck
           \/ VocabularyFile \/ VocabularyContract \/ UploadFile \/ Summary
<1>1. CASE Commands
  BY <1>1, CommandShape
<1>2. CASE BuildStarts
  BY <1>2 DEF BuildStarts, UploadInv, BuildRuns, Leads, Running
<1>3. ASSUME NEW torn \in BOOLEAN, BuildStops(torn)
      PROVE  UNCHANGED <<disk, uploaded>> /\ phase' = "next" /\ done' \subseteq done
  BY <1>3 DEF BuildStops
<1>4. ASSUME NEW s \in Steps, StepBegins(s)
      PROVE  UNCHANGED <<disk, uploaded>> /\ phase' = "work" /\ at' = 0 /\ done' \subseteq done
  BY <1>4 DEF StepBegins
<1>5. ASSUME NEW s \in Steps, StepRecorded(s)
      PROVE  UNCHANGED <<disk, uploaded>> /\ phase' = "next"
             /\ done' \subseteq done \cup {r \in Steps : Has(r)}
  BY <1>5 DEF StepRecorded, Has
<1> QED
  BY <1>1, <1>2, <1>3, <1>4, <1>5 DEF BundleNext, Build

\* The ways a step comes to be finished, and a vocabulary or an export to be under way.
LEMMA FinishedBy ==
    ASSUME UploadInv, BundleNext, NEW s \in Steps, Finished(s)'
    PROVE  \/ /\ Finished(s)
              /\ \/ UNCHANGED <<disk, uploaded>> \/ ExportArchive \/ SplitPart \/ SplitEnds
                 \/ VocabularyFile \/ VocabularyContract \/ UploadFile
           \/ s = "restore-check" /\ RestoreCheck
           \/ s = "vocabulary" /\ VocabularyContract
           \/ s \notin {"restore-check", "vocabulary"}
<1>1. CASE done' = {} /\ todo' = {}
  BY <1>1 DEF Finished, Has, Leads
<1>2. CASE UNCHANGED <<buildVars, uploaded>>
  BY <1>2 DEF buildVars, Finished, Has, Leads
<1>3. CASE /\ UNCHANGED <<disk, uploaded>> /\ phase' \in {"next", "work"}
           /\ done' \subseteq done \cup {r \in Steps : Has(r)}
  BY <1>3 DEF Finished, Has
<1>4. CASE EvidenceStep \/ Summary
  <2>1. /\ WorksAt("evidence") \/ WorksAt("summary")
        /\ UNCHANGED <<disk, uploaded>>
    BY <1>4 DEF EvidenceStep, Summary, WorksAt, Worked, OnBuilder, At
  <2>2. s \in done \/ s \in {"evidence", "summary"}
    BY <2>1, WorkIsOwn, StepsListed
  <2> QED BY <2>1, <2>2 DEF Finished
<1>10. CASE RestoreCheck
  <2>1. WorksAt("restore-check") /\ UNCHANGED <<disk, uploaded>>
    BY <1>10 DEF RestoreCheck, WorksAt, Worked, OnBuilder, At
  <2>2. s \in done \/ s = "restore-check"
    BY <2>1, WorkIsOwn, StepsListed
  <2> QED BY <1>10, <2>1, <2>2 DEF Finished
<1>5. CASE ExportArchive \/ SplitPart
  <2>1. WorksAt("export") /\ ~Has("export")'
    BY <1>5, ExportWorks DEF ExportArchive, SplitPart, WritesOn, Has, At
  <2>2. s \in done
    BY <2>1, WorkIsOwn, StepsListed DEF Finished, WorksAt
  <2> QED BY <1>5, <2>2 DEF Finished
<1>6. CASE SplitEnds
  <2>1. s \in done \/ s = "export"
    BY <1>6, ExportWorks, WorkIsOwn, StepsListed
  <2> QED BY <1>6, <2>1 DEF Finished
<1>7. CASE VocabularyFile
  <2>1. WorksAt("vocabulary") /\ ~Has("vocabulary")'
    BY <1>7, VocabularyWorks DEF VocabularyFile, WritesOn, Has, At
  <2>2. s \in done
    BY <2>1, WorkIsOwn, StepsListed DEF Finished, WorksAt
  <2> QED BY <1>7, <2>2 DEF Finished
<1>8. CASE VocabularyContract
  <2>1. s \in done \/ s = "vocabulary"
    BY <1>8, VocabularyWorks, WorkIsOwn, StepsListed
  <2> QED BY <1>8, <2>1 DEF Finished
<1>9. CASE UploadFile
  <2>1. s \in done \/ s = "upload"
    BY <1>9, UploadWorks, WorkIsOwn, StepsListed
  <2> QED BY <1>9, <2>1 DEF Finished
<1> QED
  BY <1>1, <1>2, <1>3, <1>4, <1>5, <1>6, <1>7, <1>8, <1>9, <1>10, DiskStep

LEMMA RestoredStep ==
    ASSUME UploadInv, OneBuild, BundleNext
    PROVE  RestoredIsWhole'
<1> DEFINE Whole == /\ disk["catalog-contract"].parts > 0
                    /\ \A i \in 1..disk["catalog-contract"].parts :
                          disk[PartNames[i]] = Content(disk["catalog-contract"].made, 0)
<1> SUFFICES ASSUME Finished("restore-check")' PROVE Whole'
  BY DEF RestoredIsWhole
<1>1. StepsInOrder /\ (Finished("restore-check") => Whole)
  BY DEF OneBuild, RestoredIsWhole
<1>2. CASE RestoreCheck
  BY <1>2 DEF RestoreCheck
<1>3. CASE Finished("restore-check") /\ UNCHANGED disk
  BY <1>1, <1>3
<1>4. ASSUME Finished("restore-check"), ExportArchive \/ SplitPart \/ SplitEnds
      PROVE  FALSE
  BY <1>1, <1>4, ExportWorks, LeadingAlone, StepsListed DEF WorksAt, At
<1>5. CASE Finished("restore-check") /\ (VocabularyFile \/ VocabularyContract)
  <2>1. disk \in [Keys -> Contents] /\ disk["catalog-contract"].parts \in 0..Len(PartNames)
    BY UploadPlanShape DEF UploadInv, BundleTypeOK
  <2>2. \E c : disk' = [disk EXCEPT !["vocabulary"] = c]
               \/ disk' = [disk EXCEPT !["vocabulary-contract"] = c]
    BY <1>5 DEF VocabularyFile, VocabularyContract, Writes
  <2>3. /\ disk'["catalog-contract"] = disk["catalog-contract"]
        /\ \A i \in 1..Len(PartNames) : disk'[PartNames[i]] = disk[PartNames[i]]
    BY <2>1, <2>2, KeysNamed
  <2>4. \A i \in 1..disk["catalog-contract"].parts : i \in 1..Len(PartNames)
    BY <2>1, Names
  <2> QED BY <1>1, <1>5, <2>3, <2>4
<1>6. CASE Finished("restore-check") /\ UploadFile
  BY <1>3, <1>6, UploadWorks
<1>7. "restore-check" \in Steps
  BY StepsListed
<1> QED
  BY <1>2, <1>3, <1>4, <1>5, <1>6, <1>7, FinishedBy

\* An export under way or done was begun by the archive it wrote.
LEMMA ExportedBy ==
    ASSUME UploadInv, BundleNext, Exported'
    PROVE  \/ ExportArchive
           \/ Exported /\ UNCHANGED <<disk, uploaded>>
           \/ Exported /\ (SplitPart \/ SplitEnds)
           \/ "export" \in done /\ (VocabularyFile \/ VocabularyContract \/ UploadFile)
<1>1. CASE done' = {} /\ todo' = {}
  BY <1>1 DEF Exported, At, Has, Leads
<1>2. CASE UNCHANGED <<buildVars, uploaded>>
  BY <1>2 DEF buildVars, Exported, At, Has, Leads
<1>3. CASE /\ UNCHANGED <<disk, uploaded>> /\ phase' = "next"
           /\ done' \subseteq done \cup {r \in Steps : Has(r)}
  BY <1>3 DEF Exported, At, Has
<1>4. CASE /\ UNCHANGED <<disk, uploaded>> /\ phase' = "work" /\ at' = 0 /\ done' \subseteq done
  BY <1>4 DEF Exported, At, Has
<1>5. ASSUME NEW r \in Steps \ {"export"}, WorksAt(r) PROVE "export" \in done
  BY <1>5, WorkIsOwn, StepsListed DEF Exported, Finished
<1>6. CASE EvidenceStep \/ RestoreCheck \/ Summary
  <2>1. /\ WorksAt("evidence") \/ WorksAt("restore-check") \/ WorksAt("summary")
        /\ UNCHANGED <<disk, uploaded>>
    BY <1>6 DEF EvidenceStep, RestoreCheck, Summary, WorksAt, Worked, OnBuilder, At
  <2> QED BY <1>5, <2>1, StepsListed DEF Exported
<1>7. CASE SplitPart \/ SplitEnds
  <2>1. at > 0
    BY <1>7, Names DEF SplitPart, SplitEnds, UploadInv, BundleTypeOK
  <2> QED BY <1>7, <2>1 DEF SplitPart, SplitEnds, Exported
<1>8. CASE VocabularyFile \/ VocabularyContract \/ UploadFile
  BY <1>5, <1>8, VocabularyWorks, UploadWorks, StepsListed
<1> QED
  BY <1>1, <1>2, <1>3, <1>4, <1>6, <1>7, <1>8, DiskStep

\* What is done stays done, until the builder or its state.json is gone.
LEMMA DoneGrows ==
    ASSUME UploadInv, StepsInOrder, BundleNext
    PROVE  (done' = {} /\ todo' = {}) \/ done \subseteq done'
<1>1. CASE Commands
  BY <1>1, CommandShape DEF buildVars
<1>2. ASSUME NEW torn \in BOOLEAN, BuildStops(torn)
      PROVE  (done' = {} /\ todo' = {}) \/ done \subseteq done'
  BY <1>2 DEF BuildStops
<1>3. ASSUME NEW s \in Steps, StepBegins(s) PROVE done \subseteq done'
  BY <1>3, Leading DEF StepBegins
<1> QED
  BY <1>1, <1>2, <1>3, WorkShape DEF BundleNext, Build, BuildStarts, StepRecorded, WorksAt

LEMMA ExportStep ==
    ASSUME UploadInv, OneBuild, BundleNext, steered' = steered
    PROVE  ExportIsNew'
<1> SUFFICES ASSUME Exported' PROVE ExportIsNew'
  BY DEF ExportIsNew
<1>1. StepsInOrder /\ BundleTypeOK /\ disk \in [Keys -> Contents]
  BY DEF OneBuild, UploadInv, BundleTypeOK
<1>2. Exported => /\ disk["catalog-contract"].made > 1
                  /\ \A pair \in uploaded :
                        \/ VocabularyOf(pair) < disk["catalog-contract"].made
                        \/ pair = OnDisk /\ "vocabulary" \in done
  BY DEF OneBuild, ExportIsNew
<1>3. ASSUME Exported, UNCHANGED uploaded, disk'["catalog-contract"].made = disk["catalog-contract"].made,
             "vocabulary" \notin done
      PROVE  ExportIsNew'
  BY <1>2, <1>3 DEF ExportIsNew, VocabularyOf
<1>4. CASE ExportArchive
  <2>1. made \in Nat /\ made >= 1 /\ \A pair \in uploaded : pair.vocabulary.made <= made
    BY <1>1, Fields DEF OneBuild, NothingUnmade
  <2>2. disk'["catalog-contract"].made = made + 1 /\ uploaded' = uploaded
    BY <1>1, <1>4, KeysNamed, ContentOf, ExportWorks DEF ExportArchive, Writes
  <2>3. \A pair \in uploaded : pair.vocabulary.made \in Nat
    BY <1>1, Fields
  <2> QED BY <2>1, <2>2, <2>3 DEF ExportIsNew, VocabularyOf
<1>5. CASE Exported /\ UNCHANGED <<disk, uploaded>>
  <2>1. "vocabulary" \in done => "vocabulary" \in done'
    BY <1>1, DoneGrows DEF Exported, At, Has, Leads
  <2> QED BY <1>2, <1>5, <2>1 DEF ExportIsNew, VocabularyOf, OnDisk
<1>6. CASE Exported /\ (SplitPart \/ SplitEnds)
  <2>1. "vocabulary" \notin done
    BY <1>1, <1>6, ExportWorks, LeadingAlone, StepsListed DEF WorksAt, At, Finished
  <2>2. disk'["catalog-contract"].made = disk["catalog-contract"].made
    <3>1. CASE SplitPart
      <4>1. PartNames[at] # "catalog-contract"
        BY <3>1, KeysNamed, Names DEF SplitPart
      <4> QED BY <1>1, <3>1, <4>1, KeysNamed DEF SplitPart, Writes
    <3>2. CASE SplitEnds
      BY <3>2, KeysNamed, ContentOf DEF SplitEnds
    <3> QED BY <1>6, <3>1, <3>2
  <2> QED BY <1>3, <1>6, <2>1, <2>2, ExportWorks
<1>7. CASE "export" \in done /\ (VocabularyFile \/ VocabularyContract)
  <2>1. "vocabulary" \notin done
    BY <1>1, <1>7, VocabularyWorks, Leading, StepsListed DEF WorksAt, At
  <2>2. disk'["catalog-contract"] = disk["catalog-contract"]
    BY <1>1, <1>7, KeysNamed DEF VocabularyFile, VocabularyContract, Writes
  <2> QED BY <1>3, <1>7, <2>1, <2>2, VocabularyWorks DEF Exported
<1>8. CASE "export" \in done /\ UploadFile
  <2>1. "vocabulary" \in done /\ done' = done
    BY <1>1, <1>8, LeadingUpload DEF UploadFile, At
  <2>2. uploaded' = uploaded \cup {OnDisk} /\ disk' = disk /\ OnDisk' = OnDisk
    BY <1>8 DEF UploadFile, OnDisk
  <2> QED BY <1>2, <1>8, <2>1, <2>2 DEF Exported, ExportIsNew, VocabularyOf
<1> QED
  BY <1>4, <1>5, <1>6, <1>7, <1>8, ExportedBy

LEMMA VocabularyStep ==
    ASSUME UploadInv, OneBuild, BundleNext
    PROVE  VocabularyIsNew'
<1>1. StepsInOrder /\ BundleTypeOK /\ disk \in [Keys -> Contents] /\ NothingUnmade
  BY DEF OneBuild, UploadInv, BundleTypeOK
<1> DEFINE Newer == disk["vocabulary"].made > disk["catalog-contract"].made
                    /\ disk["vocabulary"].parts = 0
           Begun == At("vocabulary") /\ at > 0
<1>2. /\ Begun => Newer
      /\ Finished("vocabulary") => Newer /\ disk["vocabulary-contract"] = disk["vocabulary"]
  BY DEF OneBuild, VocabularyIsNew
<1>3. Begun' => \/ Begun /\ UNCHANGED disk
                \/ VocabularyFile
  <2> SUFFICES ASSUME Begun', ~VocabularyFile PROVE Begun /\ UNCHANGED disk
    OBVIOUS
  <2>1. ~(done' = {} /\ todo' = {}) /\ phase' = "work" /\ at' > 0
    BY DEF At, Leads
  <2>2. ASSUME NEW r \in Steps, WorksAt(r) PROVE r = "vocabulary"
    BY <2>2, WorkIsOwn, StepsListed
  <2>3. ~(ExportArchive \/ SplitPart \/ SplitEnds \/ UploadFile)
    BY <2>2, ExportWorks, UploadWorks, StepsListed
  <2>4. ~(EvidenceStep \/ RestoreCheck \/ Summary \/ VocabularyContract)
    BY <2>1 DEF EvidenceStep, RestoreCheck, Summary, VocabularyContract, Worked
  <2>5. UNCHANGED <<buildVars, uploaded>>
    BY <2>1, <2>3, <2>4, DiskStep
  <2> QED BY <2>5 DEF buildVars, At, Leads
<1>4. ASSUME VocabularyFile PROVE Newer' /\ ~Finished("vocabulary")'
  <2>1. made \in Nat /\ disk["catalog-contract"].made \in Nat /\ disk["catalog-contract"].made <= made
    BY <1>1, Fields, KeysNamed DEF NothingUnmade
  <2>2. /\ disk'["vocabulary"].made = made + 1 /\ disk'["vocabulary"].parts = 0
        /\ disk'["catalog-contract"] = disk["catalog-contract"]
    BY <1>1, <1>4, KeysNamed, ContentOf DEF VocabularyFile, Writes
  <2>3. "vocabulary" \notin done /\ done' = done /\ phase' = "work"
    BY <1>1, <1>4, Leading, StepsListed DEF VocabularyFile, OnBuilder, WritesOn, At
  <2> QED BY <2>1, <2>2, <2>3 DEF Finished, Has
<1>5. Begun' => Newer'
  BY <1>2, <1>3, <1>4
<1>6. ASSUME Finished("vocabulary")'
      PROVE  Newer' /\ disk'["vocabulary-contract"] = disk'["vocabulary"]
  <2>1. CASE Finished("vocabulary") /\ UNCHANGED disk
    BY <1>2, <2>1
  <2>2. CASE VocabularyContract
    <3>1. At("vocabulary") /\ at > 0
      BY <2>2 DEF VocabularyContract
    <3>2. /\ disk'["vocabulary"] = disk["vocabulary"]
          /\ disk'["catalog-contract"] = disk["catalog-contract"]
          /\ disk'["vocabulary-contract"] = disk["vocabulary"]
      BY <1>1, <2>2, KeysNamed DEF VocabularyContract, Writes
    <3> QED BY <1>2, <3>1, <3>2
  <2>3. ASSUME Finished("vocabulary"), ExportArchive \/ SplitPart \/ SplitEnds PROVE FALSE
    BY <1>1, <2>3, ExportWorks, LeadingAlone, StepsListed DEF WorksAt, At
  <2>4. "vocabulary" \in Steps
    BY StepsListed
  <2> QED BY <1>4, <1>6, <2>1, <2>2, <2>3, <2>4, FinishedBy, UploadWorks
<1> QED
  BY <1>5, <1>6 DEF VocabularyIsNew

\* Only an upload writes the bucket.
LEMMA BucketStep ==
    ASSUME BundleNext
    PROVE  UNCHANGED <<bucket, uploaded>> \/ (UploadFile /\ UNCHANGED <<disk, pinned, command>>)
<1>1. CASE Commands
  BY <1>1, CommandShape
<1>2. CASE Build
  BY <1>2, ExportWorks, VocabularyWorks, UploadWorks
     DEF Build, BuildStarts, BuildStops, StepBegins, StepRecorded, EvidenceStep, RestoreCheck,
         Summary, OnBuilder, WorksAt
<1> QED
  BY <1>1, <1>2 DEF BundleNext

\* What an upload holds, when builds are resumed: a whole archive, its vocabulary, and
\* nothing older than what was uploaded.
LEMMA UploadHolds ==
    ASSUME UploadInv, OneBuild, UploadFile
    PROVE  /\ 1 < CatalogOf(OnDisk) /\ CatalogOf(OnDisk) < VocabularyOf(OnDisk)
           /\ OnDisk.catalog.parts > 0 /\ OnDisk.vocabulary.parts = 0
           /\ CatalogOf(OnDisk) \in Nat /\ VocabularyOf(OnDisk) \in Nat
           /\ OnDisk.vocabulary = disk["vocabulary"]
           /\ \A i \in 1..OnDisk.catalog.parts :
                 disk[PartNames[i]] = Content(CatalogOf(OnDisk), 0)
           /\ \A pair \in uploaded : VocabularyOf(pair) < CatalogOf(OnDisk) \/ pair = OnDisk
<1>1. {"export", "restore-check", "vocabulary"} \subseteq done
  BY LeadingUpload DEF OneBuild, UploadFile, At
<1>2. /\ OnDisk.catalog = disk["catalog-contract"]
      /\ OnDisk.vocabulary = disk["vocabulary-contract"]
  BY DEF OnDisk
<1>3. /\ disk["catalog-contract"].made \in Nat /\ disk["vocabulary-contract"].made \in Nat
  BY Fields, KeysNamed DEF UploadInv
<1> QED
  BY <1>1, <1>2, <1>3
     DEF OneBuild, ExportIsNew, Exported, VocabularyIsNew, RestoredIsWhole, Finished,
         CatalogOf, VocabularyOf

LEMMA UploadsStep ==
    ASSUME UploadInv, OneBuild, BundleNext
    PROVE  UploadsInOrder'
<1>1. UploadsInOrder
  BY DEF OneBuild
<1>2. CASE UNCHANGED uploaded
  BY <1>1, <1>2 DEF UploadsInOrder, CatalogOf, VocabularyOf
<1>3. CASE UploadFile
  <2>1. uploaded' = uploaded \cup {OnDisk}
    BY <1>3 DEF UploadFile
  <2> QED BY <1>1, <1>3, <2>1, UploadHolds DEF UploadsInOrder, CatalogOf, VocabularyOf
<1> QED
  BY <1>2, <1>3, BucketStep

\* An upload never puts an older catalog contract, vocabulary or first part in the bucket.
LEMMA BucketGrows ==
    ASSUME UploadInv, OneBuild, UploadFile
    PROVE  /\ MadeOf("catalog-contract") <= CatalogOf(OnDisk)
           /\ MadeOf("vocabulary") <= VocabularyOf(OnDisk)
           /\ MadeOf(FirstPart) <= CatalogOf(OnDisk)
<1>1. \A pair \in uploaded : /\ CatalogOf(pair) \in Nat /\ VocabularyOf(pair) \in Nat
                             /\ CatalogOf(pair) <= CatalogOf(OnDisk)
                             /\ VocabularyOf(pair) <= VocabularyOf(OnDisk)
  <2>1. \A pair \in uploaded : CatalogOf(pair) \in Nat /\ VocabularyOf(pair) \in Nat
    BY Fields DEF UploadInv, CatalogOf, VocabularyOf
  <2> QED BY <2>1, UploadHolds DEF OneBuild, UploadsInOrder
<1>2. CatalogOf(OnDisk) \in Nat /\ VocabularyOf(OnDisk) \in Nat /\ Absent.made = 0
  BY UploadHolds, ContentOf DEF Absent
<1>3. BucketInOrder
  BY DEF OneBuild
<1>4. MadeOf("catalog-contract") <= CatalogOf(OnDisk)
  BY <1>1, <1>2, <1>3 DEF BucketInOrder, MadeOf, CatalogOf
<1>5. MadeOf("vocabulary") <= VocabularyOf(OnDisk)
  BY <1>1, <1>2, <1>3 DEF BucketInOrder, MadeOf, VocabularyOf
<1>6. MadeOf(FirstPart) <= CatalogOf(OnDisk)
  BY <1>1, <1>2, <1>3 DEF BucketInOrder, MadeOf
<1> QED
  BY <1>4, <1>5, <1>6

\* The object an upload writes, and where it stands in the plan.
LEMMA UploadKey ==
    ASSUME UploadInv, OneBuild, UploadFile
    PROVE  \E key \in Keys :
               /\ bucket' = [bucket EXCEPT ![key] = disk[key]] /\ bucket \in [Keys -> Contents]
               /\ \/ key = FirstPart
                  \/ key = "vocabulary"
                  \/ key = "catalog-contract" /\ bucket["vocabulary"] = disk["vocabulary"]
                  \/ key = "vocabulary-contract" /\ bucket[FirstPart] = disk[FirstPart]
                  \/ key \notin {FirstPart, "vocabulary", "catalog-contract", "vocabulary-contract"}
<1> DEFINE n == disk["catalog-contract"].parts
<1>1. BundleTypeOK /\ bucket \in [Keys -> Contents]
  BY DEF UploadInv, BundleTypeOK
<1>2. n \in Nat /\ n > 0 /\ n <= Len(PartNames) /\ Len(PartNames) \in Nat
  BY <1>1, UploadHolds, UploadPlanShape, Names DEF OnDisk
<1>3. at \in Nat /\ at < n + 3 /\ At("upload")
  BY <1>1, <1>2, Fields, UploadPlanShape DEF UploadFile
<1>4. /\ \A i \in 1..n : UploadPlan[i] = PartNames[i]
      /\ UploadPlan[n + 1] = "vocabulary" /\ UploadPlan[n + 2] = "catalog-contract"
      /\ UploadPlan[n + 3] = "vocabulary-contract"
      /\ DOMAIN UploadPlan = 1..(n + 3) /\ \A i \in 1..(n + 3) : UploadPlan[i] \in Keys
  BY <1>1, UploadPlanShape
<1>5. \A i \in 1..at : bucket[UploadPlan[i]] = disk[UploadPlan[i]]
  BY <1>2, <1>3, <1>4 DEF UploadInv, UploadAdvances
<1> HIDE DEF n
<1> DEFINE key == UploadPlan[at + 1]
<1>6. key \in Keys /\ bucket' = [bucket EXCEPT ![key] = disk[key]]
  BY <1>2, <1>3, <1>4 DEF UploadFile
<1>7. CASE at = 0
  <2>1. at + 1 = 1 /\ 1 \in 1..n
    BY <1>2, <1>7
  <2>2. key = FirstPart
    BY <1>4, <2>1 DEF FirstPart
  <2> QED BY <1>1, <1>6, <2>2
<1>8. CASE at > 0 /\ at < n
  <2>1. at + 1 \in 1..n /\ at + 1 \in 1..Len(PartNames) /\ 1 \in 1..Len(PartNames) /\ at + 1 # 1
    BY <1>2, <1>3, <1>8
  <2>2. key = PartNames[at + 1]
    BY <1>4, <2>1
  <2>3. key \notin {FirstPart, "vocabulary", "catalog-contract", "vocabulary-contract"}
    BY <2>1, <2>2, Names, KeysNamed DEF FirstPart
  <2> QED BY <1>1, <1>6, <2>3
<1>9. CASE at = n
  BY <1>1, <1>4, <1>6, <1>9
<1>10. CASE at = n + 1
  <2>1. key = "catalog-contract" /\ n + 1 \in 1..at
    BY <1>2, <1>4, <1>10
  <2> QED BY <1>1, <1>4, <1>5, <1>6, <2>1
<1>11. CASE at = n + 2
  <2>1. key = "vocabulary-contract" /\ 1 \in 1..at /\ 1 \in 1..n
    BY <1>2, <1>4, <1>11
  <2> QED BY <1>1, <1>4, <1>5, <1>6, <2>1 DEF FirstPart
<1> QED
  BY <1>2, <1>3, <1>7, <1>8, <1>9, <1>10, <1>11

LEMMA FirstPartNamed ==
    /\ FirstPart \in Keys
    /\ FirstPart \notin {"vocabulary", "catalog-contract", "vocabulary-contract"}
BY KeysNamed, Names DEF FirstPart

LEMMA BucketInOrderStep ==
    ASSUME UploadInv, OneBuild, BundleNext
    PROVE  /\ BucketInOrder'
           /\ MadeOf("catalog-contract") <= MadeOf("catalog-contract")'
           /\ MadeOf(FirstPart) <= MadeOf(FirstPart)'
<1>1. BundleTypeOK /\ BucketInOrder
  BY DEF OneBuild, UploadInv
<1>2. /\ MadeOf("catalog-contract") \in Nat /\ MadeOf("vocabulary") \in Nat
      /\ MadeOf(FirstPart) \in Nat
  BY <1>1, Fields, KeysNamed, FirstPartNamed DEF MadeOf
<1>3. CASE UNCHANGED <<bucket, uploaded>>
  BY <1>1, <1>2, <1>3 DEF BucketInOrder, MadeOf, CatalogOf
<1>4. CASE UploadFile
  <2>1. uploaded' = uploaded \cup {OnDisk}
    BY <1>4 DEF UploadFile
  <2>2. /\ CatalogOf(OnDisk) < VocabularyOf(OnDisk) /\ OnDisk.vocabulary = disk["vocabulary"]
        /\ CatalogOf(OnDisk) \in Nat /\ VocabularyOf(OnDisk) \in Nat
        /\ disk[FirstPart].made = CatalogOf(OnDisk)
    <3>1. 1 \in 1..OnDisk.catalog.parts
      <4>1. OnDisk.catalog.parts \in Nat
        BY <1>1, Fields, KeysNamed DEF OnDisk
      <4> QED BY <1>4, <4>1, UploadHolds
    <3> QED BY <1>4, <3>1, UploadHolds, ContentOf DEF FirstPart
  <2>3. /\ OnDisk.catalog = disk["catalog-contract"]
        /\ disk["vocabulary-contract"] = disk["vocabulary"]
    BY <1>4, UploadHolds DEF OnDisk
  <2>4. /\ MadeOf("catalog-contract") <= CatalogOf(OnDisk)
        /\ MadeOf("vocabulary") <= VocabularyOf(OnDisk) /\ MadeOf(FirstPart) <= CatalogOf(OnDisk)
    BY <1>4, BucketGrows
  <2>5. PICK key \in Keys :
            /\ bucket' = [bucket EXCEPT ![key] = disk[key]] /\ bucket \in [Keys -> Contents]
            /\ \/ key = FirstPart
               \/ key = "vocabulary"
               \/ key = "catalog-contract" /\ bucket["vocabulary"] = disk["vocabulary"]
               \/ key = "vocabulary-contract" /\ bucket[FirstPart] = disk[FirstPart]
               \/ key \notin {FirstPart, "vocabulary", "catalog-contract", "vocabulary-contract"}
    BY <1>4, UploadKey
  <2>6. CASE key = FirstPart
    <3>1. /\ bucket'[FirstPart] = disk[FirstPart]
          /\ bucket'["catalog-contract"] = bucket["catalog-contract"]
          /\ bucket'["vocabulary"] = bucket["vocabulary"]
          /\ bucket'["vocabulary-contract"] = bucket["vocabulary-contract"]
      BY <2>5, <2>6, KeysNamed, FirstPartNamed
    <3>2. MadeOf(FirstPart)' = CatalogOf(OnDisk) /\ MadeOf(FirstPart) <= MadeOf(FirstPart)'
      BY <2>2, <2>4, <3>1 DEF MadeOf
    <3>3. OnDisk \in uploaded' /\ uploaded \subseteq uploaded'
      BY <2>1
    <3>4. bucket["vocabulary-contract"] # Absent =>
              \E pair \in uploaded' : /\ bucket["vocabulary-contract"] = pair.vocabulary
                                      /\ CatalogOf(pair) <= MadeOf(FirstPart)'
      <4> SUFFICES ASSUME bucket["vocabulary-contract"] # Absent
                   PROVE  \E pair \in uploaded' : /\ bucket["vocabulary-contract"] = pair.vocabulary
                                                  /\ CatalogOf(pair) <= MadeOf(FirstPart)'
        OBVIOUS
      <4>1. PICK pair \in uploaded : /\ bucket["vocabulary-contract"] = pair.vocabulary
                                     /\ CatalogOf(pair) <= MadeOf(FirstPart)
        BY <1>1 DEF BucketInOrder
      <4>2. CatalogOf(pair) \in Nat
        BY <1>1, Fields DEF CatalogOf
      <4>3. CatalogOf(pair) <= MadeOf(FirstPart)'
        BY <1>2, <2>2, <3>2, <4>1, <4>2
      <4> QED BY <3>3, <4>1, <4>3
    <3>5. BucketInOrder'
      BY <1>1, <3>1, <3>2, <3>3, <3>4 DEF BucketInOrder, MadeOf, CatalogOf
    <3> QED BY <1>2, <3>1, <3>2, <3>5 DEF MadeOf
  <2>7. CASE key = "vocabulary"
    BY <1>1, <1>2, <2>1, <2>2, <2>4, <2>5, <2>7, KeysNamed, FirstPartNamed
       DEF BucketInOrder, MadeOf, CatalogOf, VocabularyOf
  <2>8. CASE key = "catalog-contract" /\ bucket["vocabulary"] = disk["vocabulary"]
    BY <1>1, <1>2, <2>1, <2>2, <2>3, <2>4, <2>5, <2>8, KeysNamed, FirstPartNamed
       DEF BucketInOrder, MadeOf, CatalogOf, VocabularyOf
  <2>9. CASE key = "vocabulary-contract" /\ bucket[FirstPart] = disk[FirstPart]
    BY <1>1, <1>2, <2>1, <2>2, <2>3, <2>4, <2>5, <2>9, KeysNamed, FirstPartNamed
       DEF BucketInOrder, MadeOf, CatalogOf, VocabularyOf
  <2>10. CASE key \notin {FirstPart, "vocabulary", "catalog-contract", "vocabulary-contract"}
    BY <1>1, <1>2, <2>1, <2>5, <2>10, KeysNamed, FirstPartNamed
       DEF BucketInOrder, MadeOf, CatalogOf
  <2> QED BY <2>5, <2>6, <2>7, <2>8, <2>9, <2>10
<1> QED
  BY <1>3, <1>4, BucketStep

\* The commands, by what they do to the command in hand.
LEMMA CommandStep ==
    ASSUME BundleNext, command' # command
    PROVE  \/ command' = NoCommand
           \/ \E force \in BOOLEAN : DownChecks(force)
           \/ PullCatalog \/ PullVocabulary \/ PublishStarts \/ ObjectMatches \/ PinCatalog
<1>1. ~Build
  BY ExportWorks, VocabularyWorks, UploadWorks
     DEF Build, BuildStarts, BuildStops, StepBegins, StepRecorded, EvidenceStep, RestoreCheck,
         Summary, OnBuilder, WorksAt
<1> QED
  BY <1>1 DEF BundleNext, Commands, CommandEnds, StagingUp, StackDeleted, PinVocabulary, Publishes

LEMMA PinStep ==
    ASSUME BundleNext
    PROVE  pinned' = pinned \/ PinCatalog \/ PinVocabulary
<1>1. Build => pinned' = pinned
  BY ExportWorks, VocabularyWorks, UploadWorks
     DEF Build, BuildStarts, BuildStops, StepBegins, StepRecorded, EvidenceStep, RestoreCheck,
         Summary, OnBuilder, WorksAt
<1> QED
  BY <1>1 DEF BundleNext, Commands, CommandEnds, StagingUp, StackDeleted, DownChecks, PullCatalog,
              PullVocabulary, PublishStarts, ObjectMatches, Publishes

LEMMA UploadedGrows == ASSUME BundleNext PROVE uploaded \subseteq uploaded'
BY BucketStep DEF UploadFile

\* A contract that was uploaded is not the one the repository ships.
LEMMA UploadedIsNotShipped ==
    ASSUME UploadInv, OneBuild, NEW pair \in uploaded
    PROVE  pair.catalog # Shipped /\ pair.vocabulary # Shipped /\ pair.vocabulary # Absent
<1>1. /\ 1 < pair.catalog.made /\ pair.vocabulary.parts = 0
      /\ pair.catalog.made < pair.vocabulary.made
      /\ pair.catalog.made \in Nat /\ pair.vocabulary.made \in Nat
  BY Fields DEF OneBuild, UploadsInOrder, CatalogOf, VocabularyOf, UploadInv
<1>2. Shipped.made = 1 /\ Shipped.parts # 0 /\ Absent.made = 0
  BY ContentOf, Names DEF Shipped, Absent
<1> QED
  BY <1>1, <1>2

\* The bucket's contents are numbered before a step and after it.
LEMMA MadeNat ==
    ASSUME UploadInv, BundleNext, NEW key \in Keys
    PROVE  MadeOf(key) \in Nat /\ MadeOf(key)' \in Nat
<1>1. UploadInv'
  BY UploadInvStep
<1>2. bucket[key] \in Contents /\ bucket'[key] \in Contents
  BY <1>1 DEF UploadInv, BundleTypeOK
<1> QED
  BY <1>2, ContentsFields DEF MadeOf

LEMMA PinnedStep ==
    ASSUME UploadInv, OneBuild, BundleNext
    PROVE  PinnedInOrder'
<1>1. BundleTypeOK /\ PinnedInOrder /\ PullInOrder
  BY DEF OneBuild, UploadInv
<1>2. /\ MadeOf("catalog-contract") <= MadeOf("catalog-contract")'
      /\ uploaded \subseteq uploaded'
      /\ MadeOf("catalog-contract") \in Nat /\ MadeOf("catalog-contract")' \in Nat
  BY BucketInOrderStep, UploadedGrows, KeysNamed, MadeNat
<1>3. pinned.catalog.made \in Nat /\ command.catalog.made \in Nat
      /\ \A pair \in uploaded : CatalogOf(pair) \in Nat
  BY <1>1, Fields DEF CatalogOf
<1>4. CASE pinned' = pinned
  <2>1. pinned.catalog # Shipped =>
            /\ \E pair \in uploaded' : pinned.catalog = pair.catalog
            /\ pinned.catalog.made <= MadeOf("catalog-contract")'
    BY <1>1, <1>2, <1>3 DEF PinnedInOrder
  <2>2. pinned.vocabulary # Shipped =>
            \E pair \in uploaded' : /\ pinned.vocabulary = pair.vocabulary
                                    /\ CatalogOf(pair) <= pinned.catalog.made
    BY <1>1, <1>2 DEF PinnedInOrder
  <2> QED BY <1>1, <1>4, <2>1, <2>2 DEF PinnedInOrder, CatalogOf
<1>5. CASE PinCatalog
  <2>1. command.name = "pull" /\ pinned' = [pinned EXCEPT !.catalog = command.catalog]
    BY <1>5 DEF PinCatalog
  <2>2. pinned'.catalog = command.catalog /\ pinned'.vocabulary = pinned.vocabulary
    BY <1>1, <2>1 DEF BundleTypeOK, Pairs
  <2>3. /\ \E pair \in uploaded : command.catalog = pair.catalog
        /\ command.catalog.made <= MadeOf("catalog-contract")
        /\ pinned.catalog.made <= command.catalog.made
    BY <1>1, <2>1 DEF PullInOrder, Pulls
  <2>4. command.catalog # Shipped
    BY <2>3, UploadedIsNotShipped
  <2>5. pinned.vocabulary # Shipped =>
            \E pair \in uploaded' : /\ pinned.vocabulary = pair.vocabulary
                                    /\ CatalogOf(pair) <= command.catalog.made
    BY <1>1, <1>2, <1>3, <2>3 DEF PinnedInOrder
  <2>6. command.catalog.made <= MadeOf("catalog-contract")'
    BY <1>2, <1>3, <2>3
  <2> QED BY <1>2, <2>2, <2>3, <2>4, <2>5, <2>6 DEF PinnedInOrder, CatalogOf
<1>6. CASE PinVocabulary
  <2>1. command.name = "pinning" /\ pinned' = [pinned EXCEPT !.vocabulary = command.vocabulary]
    BY <1>6 DEF PinVocabulary
  <2>2. pinned'.catalog = pinned.catalog /\ pinned'.vocabulary = command.vocabulary
    BY <1>1, <2>1 DEF BundleTypeOK, Pairs
  <2>3. /\ command.at > 0 /\ pinned.catalog = command.catalog
        /\ \E pair \in uploaded : command.catalog = pair.catalog
        /\ command.catalog.made <= MadeOf("catalog-contract")
        /\ \E pair \in uploaded : /\ command.vocabulary = pair.vocabulary
                                  /\ CatalogOf(pair) <= command.catalog.made
    BY <1>1, <2>1 DEF PullInOrder, Pulls
  <2>4. pinned.catalog # Shipped
    BY <2>3, UploadedIsNotShipped
  <2>5. pinned.catalog.made <= MadeOf("catalog-contract")'
    BY <1>2, <1>3, <2>3
  <2> QED BY <1>2, <2>2, <2>3, <2>4, <2>5 DEF PinnedInOrder, CatalogOf
<1> QED
  BY <1>4, <1>5, <1>6, PinStep

LEMMA PullStep ==
    ASSUME UploadInv, OneBuild, BundleNext
    PROVE  PullInOrder'
<1>1. BundleTypeOK /\ BucketInOrder /\ PinnedInOrder /\ PullInOrder
  BY DEF OneBuild, UploadInv
<1>2. /\ MadeOf("catalog-contract") <= MadeOf("catalog-contract")'
      /\ MadeOf(FirstPart) <= MadeOf(FirstPart)' /\ uploaded \subseteq uploaded'
      /\ MadeOf("catalog-contract") \in Nat /\ MadeOf("catalog-contract")' \in Nat
      /\ MadeOf(FirstPart) \in Nat /\ MadeOf(FirstPart)' \in Nat
  BY BucketInOrderStep, UploadedGrows, KeysNamed, FirstPartNamed, MadeNat
<1>3. /\ pinned.catalog.made \in Nat /\ command.catalog.made \in Nat /\ command.at \in Nat
      /\ \A pair \in uploaded : CatalogOf(pair) \in Nat
  BY <1>1, Fields DEF CatalogOf
<1>4. CASE command'.name \notin Pulls
  BY <1>4 DEF PullInOrder, Pulls
\* A command in hand goes on beside a build.
<1>5. ASSUME command.name \in {"pull", "pinning"}
      PROVE  \E pair \in uploaded' :
                 /\ command.vocabulary = pair.vocabulary /\ CatalogOf(pair) <= MadeOf(FirstPart)'
                 /\ command.at > 0 => CatalogOf(pair) <= command.catalog.made
  BY <1>1, <1>2, <1>3, <1>5 DEF PullInOrder
<1>6. ASSUME command.name \in Pulls
      PROVE  /\ \E pair \in uploaded' : command.catalog = pair.catalog
             /\ command.catalog.made <= MadeOf("catalog-contract")'
             /\ pinned.catalog.made <= command.catalog.made
  BY <1>1, <1>2, <1>3, <1>6 DEF PullInOrder
<1>7. CASE UNCHANGED <<command, pinned>>
  BY <1>1, <1>5, <1>6, <1>7 DEF PullInOrder, CatalogOf, Pulls
<1>8. CASE PullCatalog
  <2>1. /\ bucket["catalog-contract"] # Absent /\ pinned' = pinned
        /\ command'.name = "pulling" /\ command'.at = 0
        /\ command'.catalog = bucket["catalog-contract"]
    BY <1>8 DEF PullCatalog, NoCommand
  <2>2. PICK pair \in uploaded : bucket["catalog-contract"] = pair.catalog
    BY <1>1, <2>1 DEF BucketInOrder
  <2>3. MadeOf("catalog-contract") = CatalogOf(pair) /\ 1 < CatalogOf(pair)
    BY <2>2 DEF MadeOf, CatalogOf, OneBuild, UploadsInOrder
  <2>4. pinned.catalog.made <= MadeOf("catalog-contract")
    <3>1. CASE pinned.catalog = Shipped
      BY <1>2, <2>3, <3>1, ContentOf DEF Shipped
    <3>2. CASE pinned.catalog # Shipped
      BY <1>1, <3>2 DEF PinnedInOrder
    <3> QED BY <3>1, <3>2
  <2> QED BY <1>2, <2>1, <2>2, <2>4 DEF PullInOrder, Pulls, MadeOf
<1>9. CASE PullVocabulary
  <2>1. /\ bucket["vocabulary-contract"] # Absent /\ pinned' = pinned
        /\ command.name = "pulling" /\ command'.name = "pull" /\ command'.at = command.at
        /\ command'.catalog = command.catalog
        /\ command'.vocabulary = bucket["vocabulary-contract"]
    BY <1>1, <1>9 DEF PullVocabulary, ByHand, BundleTypeOK
  <2>2. command.at = 0
    BY <1>1, <2>1 DEF PullInOrder
  <2>3. \E pair \in uploaded' : /\ bucket["vocabulary-contract"] = pair.vocabulary
                                /\ CatalogOf(pair) <= MadeOf(FirstPart)'
    BY <1>1, <1>2, <1>3, <2>1 DEF BucketInOrder
  <2> QED BY <1>6, <2>1, <2>2, <2>3 DEF PullInOrder, Pulls, CatalogOf
<1>10. CASE ObjectMatches
  <2>1. /\ command.name \in {"pull", "publish"} /\ pinned' = pinned
        /\ command'.name = command.name /\ command'.at = command.at + 1
        /\ command'.catalog = command.catalog /\ command'.vocabulary = command.vocabulary
    BY <1>1, <1>10 DEF ObjectMatches, BundleTypeOK
  <2>2. CASE command.name = "pull"
    <3>1. \E pair \in uploaded' :
              /\ command.vocabulary = pair.vocabulary /\ CatalogOf(pair) <= MadeOf(FirstPart)'
              /\ CatalogOf(pair) <= command.catalog.made
      <4>1. CASE command.at > 0
        BY <1>5, <2>2, <4>1
      <4>2. CASE command.at = 0
        <5>1. PICK p \in uploaded : command.catalog = p.catalog
          BY <1>1, <2>2 DEF PullInOrder, Pulls
        <5>2. command.catalog.parts > 0 /\ command.catalog.parts \in Nat
          BY <1>1, <5>1, Fields DEF OneBuild, UploadsInOrder
        <5>3. Described[1] = <<PartNames[1], Content(command.catalog.made, 0)>>
          <6>1. command.catalog \in Contents /\ 1 \in 1..command.catalog.parts
            BY <1>1, <5>2, Fields
          <6> QED BY <6>1, EntriesShape DEF Described
        <5>4. bucket[FirstPart] = Content(command.catalog.made, 0)
          BY <1>10, <4>2, <5>3 DEF ObjectMatches, Matches, FirstPart
        <5>5. MadeOf(FirstPart) = command.catalog.made
          BY <5>4, ContentOf DEF MadeOf
        <5>6. PICK q \in uploaded : /\ command.vocabulary = q.vocabulary
                                    /\ CatalogOf(q) <= MadeOf(FirstPart)
          BY <1>1, <2>2 DEF PullInOrder
        <5> QED BY <1>2, <1>3, <5>5, <5>6
      <4> QED BY <1>3, <4>1, <4>2
    <3> QED BY <1>6, <2>1, <2>2, <3>1 DEF PullInOrder, Pulls, CatalogOf
  <2> QED BY <1>4, <2>1, <2>2 DEF Pulls
<1>11. CASE PinCatalog
  <2>1. /\ command.name = "pull" /\ AllMatch
        /\ command'.name = "pinning" /\ command'.at = command.at
        /\ command'.catalog = command.catalog /\ command'.vocabulary = command.vocabulary
        /\ pinned'.catalog = command.catalog
    BY <1>1, <1>11 DEF PinCatalog, BundleTypeOK, Pairs
  <2>2. command.at > 0
    <3>1. Len(Described) = command.catalog.parts + 1 /\ command.catalog.parts \in Nat
      BY <1>1, Fields, EntriesShape DEF Described
    <3> QED BY <2>1, <3>1 DEF AllMatch
  <2> QED BY <1>3, <1>5, <1>6, <2>1, <2>2 DEF PullInOrder, Pulls, CatalogOf
<1>12. ASSUME NEW force \in BOOLEAN, DownChecks(force) PROVE command'.name \notin Pulls
  BY <1>12 DEF DownChecks, NoCommand, Pulls
<1>13. CASE PublishStarts \/ command' = NoCommand
  BY <1>4, <1>13 DEF PublishStarts, NoCommand, Pulls
<1>14. PinVocabulary => command' = NoCommand
  BY DEF PinVocabulary
<1> QED
  BY <1>4, <1>7, <1>8, <1>9, <1>10, <1>11, <1>12, <1>13, <1>14, CommandStep, PinStep

LEMMA PublishStep ==
    ASSUME UploadInv, OneBuild, BundleNext
    PROVE  PublishInOrder'
<1>1. BundleTypeOK /\ BucketInOrder /\ PinnedInOrder /\ PublishInOrder
  BY DEF OneBuild, UploadInv
<1>2. CASE command'.name # "publish"
  BY <1>2 DEF PublishInOrder
<1>3. CASE UNCHANGED <<command, pinned>>
  BY <1>1, <1>3 DEF PublishInOrder, AllMatch, Described
<1>4. CASE PublishStarts
  <2>1. /\ command'.at = 0 /\ command'.catalog = pinned.catalog
        /\ command'.vocabulary = pinned.vocabulary /\ pinned' = pinned
        /\ pinned.catalog \in Contents
    BY <1>1, <1>4 DEF PublishStarts, BundleTypeOK, Pairs
  <2>2. Len(Described') = pinned.catalog.parts + 1 /\ pinned.catalog.parts \in Nat
    BY <2>1, EntriesShape, ContentsFields DEF Described
  <2>3. ~AllMatch'
    BY <2>1, <2>2 DEF AllMatch
  <2> QED BY <2>1, <2>3 DEF PublishInOrder
<1>5. CASE ObjectMatches /\ command.name = "publish"
  <2>1. /\ pinned' = pinned /\ command'.name = command.name /\ command'.at = command.at + 1
        /\ command'.catalog = command.catalog /\ command'.vocabulary = command.vocabulary
    BY <1>1, <1>5 DEF ObjectMatches, BundleTypeOK
  <2>2. command.catalog = pinned.catalog /\ command.vocabulary = pinned.vocabulary
    BY <1>1, <1>5 DEF PublishInOrder
  <2>3. Described' = Described
    BY <2>1 DEF Described
  <2>4. ASSUME AllMatch'
        PROVE  pinned.vocabulary # Shipped /\ pinned.catalog.made < pinned.vocabulary.made
    <3>1. Described[command.at + 1] = <<"vocabulary", command.vocabulary>>
      BY <1>1, <2>1, <2>3, <2>4, Fields, EntriesShape DEF AllMatch, Described
    <3>2. bucket["vocabulary"] = pinned.vocabulary
      BY <1>5, <2>2, <3>1 DEF ObjectMatches, Matches
    <3>3. bucket["vocabulary"] # Shipped
      <4>1. CASE bucket["vocabulary"] = Absent
        BY <4>1, ContentOf, Names DEF Absent, Shipped
      <4>2. CASE bucket["vocabulary"] # Absent
        BY <1>1, <4>2, UploadedIsNotShipped DEF BucketInOrder
      <4> QED BY <4>1, <4>2
    <3>4. PICK p \in uploaded : pinned.catalog = p.catalog
      BY <1>1, <3>2, <3>3 DEF PinnedInOrder
    <3>5. pinned.catalog.made <= MadeOf("catalog-contract") /\ 1 < pinned.catalog.made
      BY <1>1, <3>2, <3>3, <3>4 DEF PinnedInOrder, OneBuild, UploadsInOrder, CatalogOf
    <3>6. /\ pinned.catalog.made \in Nat /\ MadeOf("catalog-contract") \in Nat
          /\ MadeOf("vocabulary") \in Nat
      BY <1>1, Fields, MadeNat, KeysNamed
    <3>7. bucket["catalog-contract"] # Absent
      BY <3>5, <3>6, ContentOf DEF MadeOf, Absent
    <3>8. MadeOf("catalog-contract") < MadeOf("vocabulary")
      BY <1>1, <3>7 DEF BucketInOrder
    <3> QED BY <3>2, <3>3, <3>5, <3>6, <3>8 DEF MadeOf
  <2> QED BY <2>1, <2>2, <2>4 DEF PublishInOrder
<1>6. ASSUME NEW force \in BOOLEAN, DownChecks(force) PROVE command'.name # "publish"
  BY <1>6 DEF DownChecks, NoCommand
<1>7. CASE PullCatalog \/ PullVocabulary \/ PinCatalog \/ command' = NoCommand
  <2>1. command' = NoCommand => command'.name # "publish"
    BY DEF NoCommand
  <2>3. PullCatalog => command'.name # "publish"
    BY DEF PullCatalog, NoCommand
  <2>2. PullVocabulary \/ PinCatalog => command'.name \in {"pull", "pinning"}
    BY <1>1 DEF PullVocabulary, PinCatalog, BundleTypeOK
  <2> QED BY <1>2, <1>7, <2>1, <2>2, <2>3
<1>8. CASE ObjectMatches /\ command.name # "publish"
  BY <1>1, <1>2, <1>8 DEF ObjectMatches, BundleTypeOK
<1>9. PinVocabulary => command' = NoCommand
  BY DEF PinVocabulary
<1> QED
  BY <1>2, <1>3, <1>4, <1>5, <1>6, <1>7, <1>8, <1>9, CommandStep, PinStep

LEMMA BuildInvInit == ASSUME BundleInit PROVE BuildInv
<1>1. /\ done = {} /\ todo = {} /\ uploaded = {} /\ made = 1 /\ command = NoCommand
      /\ bucket = [k \in Keys |-> Absent] /\ disk = [k \in Keys |-> Absent]
      /\ pinned = [catalog |-> Shipped, vocabulary |-> Shipped]
  BY DEF BundleInit
<1>2. Absent.made = 0 /\ Shipped.made = 1
  BY ContentOf DEF Absent, Shipped
<1>3. StepsInOrder /\ RestoredIsWhole /\ ExportIsNew /\ VocabularyIsNew /\ UploadsInOrder
  BY <1>1 DEF StepsInOrder, RestoredIsWhole, ExportIsNew, VocabularyIsNew, UploadsInOrder,
              Running, Finished, Has, At, Leads, Exported
<1>4. NothingUnmade
  BY <1>1, <1>2 DEF NothingUnmade
<1>5. BucketInOrder
  BY <1>1, KeysNamed, FirstPartNamed DEF BucketInOrder
<1>6. PinnedInOrder
  BY <1>1 DEF PinnedInOrder
<1>7. PullInOrder /\ PublishInOrder
  BY <1>1 DEF PullInOrder, PublishInOrder, NoCommand, Pulls
<1> QED
  BY <1>3, <1>4, <1>5, <1>6, <1>7 DEF BuildInv, OneBuild

LEMMA BuildInvStep ==
    ASSUME UploadInv, BuildInv, [BundleNext]_bundleVars
    PROVE  BuildInv'
<1>1. CASE UNCHANGED bundleVars
  BY <1>1 DEF bundleVars, buildVars, BuildInv, OneBuild, StepsInOrder, NothingUnmade,
              RestoredIsWhole, ExportIsNew, VocabularyIsNew, UploadsInOrder, BucketInOrder,
              PinnedInOrder, PullInOrder, PublishInOrder, Running, StepsLeft, Finished, Has, At,
              Leads, Exported, OnDisk, CatalogOf, VocabularyOf, MadeOf, AllMatch, Described
<1>2. CASE BundleNext
  <2> SUFFICES ASSUME steered' = 0 PROVE OneBuild'
    BY DEF BuildInv
  <2>1. steered' = steered
    <3>1. steered \in Nat
      BY Fields DEF UploadInv
    <3>2. steered' = steered \/ steered' = steered + 1
      BY <1>2, CommandShape, WorkShape
         DEF BundleNext, Build, BuildStarts, BuildStops, StepBegins, StepRecorded, WorksAt, buildVars
    <3> QED BY <3>1, <3>2
  <2>2. OneBuild
    BY <2>1 DEF BuildInv
  <2>3. StepsInOrder'
    BY <1>2, <2>1, <2>2, StepsInOrderStep DEF OneBuild
  <2> QED
    BY <1>2, <2>1, <2>2, <2>3, UnmadeStep, RestoredStep, ExportStep, VocabularyStep, UploadsStep,
       BucketInOrderStep, PinnedStep, PullStep, PublishStep DEF OneBuild
<1> QED
  BY <1>1, <1>2

LEMMA BuildInvHolds == BundleSpec => []BuildInv
BY BuildInvInit, BuildInvStep, UploadInvHolds, PTL DEF BundleSpec

\* What publish finds whole in the bucket is the bundle of one builder, whatever other
\* builds, uploads and pulls were stopped in between, as long as none was steered.
THEOREM PublishedIsOneBuildHolds == BundleSpec => []PublishedIsOneBuild
<1>1. UploadInv /\ BuildInv => PublishedIsOneBuild
  <2> SUFFICES ASSUME UploadInv, OneBuild, command.name = "publish", AllMatch
               PROVE  pinned \in uploaded
    BY DEF BuildInv, PublishedIsOneBuild
  <2>1. BundleTypeOK
    BY DEF UploadInv
  <2>2. pinned.vocabulary # Shipped /\ pinned.catalog.made < pinned.vocabulary.made
    BY DEF OneBuild, PublishInOrder
  <2>3. PICK q \in uploaded : /\ pinned.vocabulary = q.vocabulary
                              /\ CatalogOf(q) <= pinned.catalog.made
    BY <2>2 DEF OneBuild, PinnedInOrder
  <2>4. PICK p \in uploaded : pinned.catalog = p.catalog
    BY <2>2 DEF OneBuild, PinnedInOrder
  <2>5. p = q \/ VocabularyOf(p) < CatalogOf(q) \/ VocabularyOf(q) < CatalogOf(p)
    BY DEF OneBuild, UploadsInOrder
  <2>6. CatalogOf(p) < VocabularyOf(p)
    BY DEF OneBuild, UploadsInOrder
  <2>7. /\ CatalogOf(p) \in Nat /\ VocabularyOf(p) \in Nat
        /\ CatalogOf(q) \in Nat /\ VocabularyOf(q) \in Nat
    BY <2>1, Fields DEF CatalogOf, VocabularyOf
  <2>8. p = q
    BY <2>2, <2>3, <2>4, <2>5, <2>6, <2>7 DEF CatalogOf, VocabularyOf
  <2>9. p = [catalog |-> p.catalog, vocabulary |-> p.vocabulary]
    BY <2>1, Fields
  <2>10. pinned = [catalog |-> pinned.catalog, vocabulary |-> pinned.vocabulary]
    BY <2>1, Fields
  <2>11. pinned = p
    BY <2>3, <2>4, <2>8, <2>9, <2>10
  <2> QED BY <2>4, <2>11
<1> QED
  BY <1>1, UploadInvHolds, BuildInvHolds, PTL
=============================================================================
