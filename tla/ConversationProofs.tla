------------------------- MODULE ConversationProofs -------------------------
(***************************************************************************)
(* Conversations are safe for every number of shoppers, sessions and       *)
(* requests: a session keeps its first owner, a browser's active session   *)
(* is its own, a request to write a message makes one event, and the turns *)
(* of a session are numbered without a gap or a repeat.                    *)
(***************************************************************************)
EXTENDS Conversation, AskPanel, PipelineRun, FiniteSetTheorems, SequenceTheorems, TLAPS

Exists(S) == S \in Sessions /\ sessions[S].exists

\* Only a session that was made has an owner, or turns.
OwnedExist == \A S \in Sessions : sessions[S].owner # NoShopper => sessions[S].exists

TurnsExist == \A r \in Runs : turns[r].session # NoSession => Exists(turns[r].session)

AtWork == {"locking", "numbering", "inserting", "attaching", "claiming", "running",
           "persisting"}

\* A run at work asks in a session that was made, and only a browser's attaches.
RunsInSessions ==
    \A r \in Runs :
        /\ job[r].at \in AtWork => Exists(job[r].session)
        /\ job[r].at = "starting" =>
              /\ job[r].session # NoSession => Exists(job[r].session)
              /\ job[r].context # NoRun => turns[job[r].context].session # NoSession
        /\ job[r].at \in {"attaching", "claiming"} => job[r].shopper \in Shoppers

\* A reserved request belongs to its shopper's session, and a post that sends has
\* reserved.
ReservationsOwned ==
    \A s \in Shoppers, q \in Requests : reserved[s][q] # NoReservation =>
        /\ reserved[s][q].session \in Sessions
        /\ sessions[reserved[s][q].session].owner = s

PostsReserved ==
    \A p \in Posts :
        /\ job[p].at \in {"posting", "reserving", "sending", "activating", "referring"} =>
              job[p].shopper \in Shoppers /\ job[p].request \in Requests
        /\ job[p].at \in {"sending", "activating", "referring"} =>
              /\ Reservation(p) # NoReservation
              /\ Reservation(p).session = job[p].session

\* A run has no turn before it is numbered.
NoTurnYet ==
    \A r \in Runs : job[r].at \in {"idle", "starting", "locking", "numbering", "inserting"}
        => turns[r].session = NoSession

ClearsKnown == \A n \in Clears : job[n].at \in {"clearing", "ending"} => job[n].shopper \in Shoppers

ConversationInv ==
    /\ ConversationTypeOK /\ OwnedExist /\ TurnsExist /\ RunsInSessions
    /\ ReservationsOwned /\ PostsReserved /\ ClearsKnown /\ NoTurnYet

-----------------------------------------------------------------------------
(* What one step may do to the sessions.                                   *)

\* A session that a browser or a request may be given was not there before.
LEMMA FreshIsNew ==
    ASSUME RoomForSession
    PROVE  Fresh \in Sessions /\ ~sessions[Fresh].exists
BY DEF RoomForSession, Fresh

\* Sessions are never unmade and never change hands.
Grow ==
    \A S \in Sessions :
        /\ sessions[S].exists => sessions'[S].exists
        /\ sessions[S].owner # NoShopper => sessions'[S].owner = sessions[S].owner

LEMMA SessionsGrow == ConversationInv /\ [ConversationNext]_conversationVars => Grow
<1> SUFFICES ASSUME ConversationInv, [ConversationNext]_conversationVars
             PROVE  Grow
    OBVIOUS
<1>1. CASE UNCHANGED sessions
    BY <1>1 DEF Grow
<1>2. ASSUME NEW r \in Runs, StartNew(r)
      PROVE  Grow
    BY <1>2, FreshIsNew DEF StartNew, Grow, ConversationInv, ConversationTypeOK, OwnedExist
<1>3. ASSUME NEW r \in Runs, Claim(r)
      PROVE  Grow
    BY <1>3 DEF Claim, Grow, ConversationInv, ConversationTypeOK, OwnedByOther, RunsInSessions,
       Exists, At
<1>4. ASSUME NEW p \in Posts, PostNew(p)
      PROVE  Grow
    BY <1>4, FreshIsNew DEF PostNew, Grow, ConversationInv, ConversationTypeOK, OwnedExist
<1>5. ASSUME NEW n \in Clears, ClearEnds(n)
      PROVE  Grow
    BY <1>5 DEF ClearEnds, Grow, ConversationInv, ConversationTypeOK
<1>6. CASE \E r \in Runs : Asks(r)
    BY <1>1, <1>6 DEF Asks, Prepare
<1>7. CASE (\E p \in Posts : Writes(p)) \/ \E n \in Clears, s \in Shoppers : ClearBegins(n, s)
    BY <1>1, <1>7 DEF Writes, PostBegins, ClearBegins
<1>8. CASE \E p \in Processes : Dies(p) \/ DeadlockVictim(p)
    BY <1>1, <1>8 DEF Dies, DeadlockVictim
<1>9. ASSUME NEW r \in Runs, RunStep(r)
      PROVE  Grow
    BY <1>1, <1>2, <1>3, <1>9
       DEF RunStep, LoadContext, StartOwned, LockSession, TakeNumber, InsertTurn, AttachLock,
           AttachRefused, PersistsNone, Answers, Persists
<1>10. ASSUME NEW p \in Posts, PostStep(p)
       PROVE  Grow
    BY <1>1, <1>4, <1>10
       DEF PostStep, PostLocks, PostRepeats, PostOwned, PostTakes, PostActivates, PostSends
<1>11. ASSUME NEW n \in Clears, ClearStep(n)
       PROVE  Grow
    BY <1>1, <1>5, <1>11 DEF ClearStep, ClearLocks
<1> QED BY <1>1, <1>6, <1>7, <1>8, <1>9, <1>10, <1>11 DEF ConversationNext, Works, conversationVars

-----------------------------------------------------------------------------
(* Type correctness.                                                       *)

LEMMA NumbersAreNatural ==
    ASSUME NEW n \in 1..(Cardinality(Runs) + 1)
    PROVE  n \in Nat
BY FS_CardinalityType, ConversationAssumption

\* Every place a process may move to is one.
LEMMA PlaceNames ==
    /\ "starting" \in Places /\ "locking" \in Places /\ "numbering" \in Places
    /\ "inserting" \in Places /\ "attaching" \in Places /\ "claiming" \in Places
    /\ "running" \in Places /\ "persisting" \in Places /\ "posting" \in Places
    /\ "reserving" \in Places /\ "sending" \in Places /\ "activating" \in Places
    /\ "referring" \in Places /\ "clearing" \in Places /\ "ending" \in Places
    /\ "done" \in Places /\ "refused" \in Places /\ "failed" \in Places
BY DEF Places, Finished

Jobs == [at : Places, shopper : Shoppers \cup {NoShopper}, session : Sessions \cup {NoSession},
         context : Runs \cup {NoRun}, number : Nat, request : Requests \cup {NoRun}]

Turns == [session : Sessions \cup {NoSession}, number : Nat, answered : BOOLEAN,
          scope : SUBSET Products, saved : SUBSET Products]

Reservations == [session : Sessions \cup {NoSession}, requested : Sessions \cup {NoSession}]

SessionRecords == [exists : BOOLEAN, owner : Shoppers \cup {NoShopper}, ended : BOOLEAN]

JobTyped == job \in [Processes -> Jobs]
LockTyped == lock \in [Rows -> Processes \cup {Nobody}]
SessionTyped == sessions \in [Sessions -> SessionRecords]
ActiveTyped == active \in [Shoppers -> Sessions \cup {NoSession}]
ReservedTyped == reserved \in [Shoppers -> [Requests -> Reservations]]
TurnsTyped == turns \in [Runs -> Turns]
EventsTyped == events \subseteq [token : Runs \cup (Shoppers \X Requests), session : Sessions]

LEMMA TypeParts ==
    ConversationTypeOK <=>
        /\ JobTyped /\ LockTyped /\ SessionTyped /\ ActiveTyped /\ ReservedTyped
        /\ TurnsTyped /\ EventsTyped
BY DEF ConversationTypeOK, JobTyped, LockTyped, SessionTyped, ActiveTyped, ReservedTyped,
       TurnsTyped, EventsTyped, Jobs, Turns, Reservations, SessionRecords

LEMMA TypePartsNext ==
    ConversationTypeOK' <=>
        /\ JobTyped' /\ LockTyped' /\ SessionTyped' /\ ActiveTyped' /\ ReservedTyped'
        /\ TurnsTyped' /\ EventsTyped'
BY TypeParts, PTL

\* A variable that stays keeps its type.
LEMMA StaysTyped ==
    ASSUME ConversationTypeOK
    PROVE  /\ UNCHANGED job => JobTyped'
           /\ UNCHANGED lock => LockTyped'
           /\ UNCHANGED sessions => SessionTyped'
           /\ UNCHANGED active => ActiveTyped'
           /\ UNCHANGED reserved => ReservedTyped'
           /\ UNCHANGED turns => TurnsTyped'
           /\ UNCHANGED events => EventsTyped'
BY TypeParts DEF JobTyped, LockTyped, SessionTyped, ActiveTyped, ReservedTyped, TurnsTyped,
                 EventsTyped

LEMMA MovesTyped ==
    ASSUME JobTyped, NEW p \in Processes, NEW place \in Places, Moves(p, place)
    PROVE  JobTyped'
BY DEF JobTyped, Moves, Jobs

LEMMA ChangesTyped ==
    ASSUME JobTyped, NEW p \in Processes, NEW new \in Jobs, job' = [job EXCEPT ![p] = new]
    PROVE  JobTyped'
BY DEF JobTyped

\* Rows are taken by a process or given back.
LEMMA RowsTyped ==
    ASSUME LockTyped, NEW p \in Processes,
           lock' = Released(p) \/ \E row \in Rows : Locks(p, row)
    PROVE  LockTyped'
BY DEF LockTyped, Released, Locks

LEMMA RunTyped ==
    ASSUME ConversationInv, NEW r \in Runs, RunStep(r) \/ Asks(r)
    PROVE  ConversationTypeOK'
<1> SUFFICES JobTyped' /\ LockTyped' /\ SessionTyped' /\ ActiveTyped' /\ ReservedTyped'
             /\ TurnsTyped' /\ EventsTyped'
    BY TypePartsNext
<1>0. /\ ConversationTypeOK /\ JobTyped /\ LockTyped /\ r \in Processes /\ job[r] \in Jobs
      /\ SessionTyped /\ TurnsTyped /\ ActiveTyped /\ EventsTyped
    BY TypeParts DEF ConversationInv, Processes, JobTyped
<1> USE <1>0, PlaceNames
<1>1. CASE Asks(r)
  <2>1. PICK shopper \in Shoppers \cup {NoShopper}, session \in Sessions \cup {NoSession},
             context \in Runs \cup {NoRun} : Prepare(r, shopper, session, context)
      BY <1>1 DEF Asks
  <2>2. Restored(session) \in Runs \cup {NoRun}
      BY DEF Restored, TurnsOf
  <2>3. JobTyped'
      BY <2>1, <2>2, ChangesTyped DEF Prepare, Jobs
  <2> QED BY <2>1, <2>3, StaysTyped DEF Prepare
<1>2. CASE LoadContext(r)
  <2>1. turns[job[r].context].session \in Sessions \cup {NoSession}
      BY <1>2 DEF LoadContext, TurnsTyped, Turns, Jobs
  <2>2. JobTyped'
      BY <1>2, <2>1, MovesTyped, ChangesTyped DEF LoadContext, Jobs
  <2> QED BY <1>2, <2>2, StaysTyped DEF LoadContext
<1>3. CASE StartNew(r)
  <2>1. Fresh \in Sessions
      BY <1>3, FreshIsNew DEF StartNew
  <2>2. AfterStart(r) \in Places
      BY DEF AfterStart
  <2>3. JobTyped'
      BY <1>3, <2>1, <2>2, ChangesTyped DEF StartNew, Jobs
  <2>4. SessionTyped' /\ TurnsTyped'
      BY <1>3, <2>1 DEF StartNew, SessionTyped, SessionRecords, TurnsTyped, Turns, NoTurn
  <2> QED BY <1>3, <2>3, <2>4, StaysTyped DEF StartNew
<1>4. CASE StartOwned(r) \/ PersistsNone(r)
    BY <1>4, MovesTyped, StaysTyped DEF StartOwned, PersistsNone
<1>5. CASE LockSession(r) \/ AttachLock(r)
  <2>1. job[r].session \in Rows
      BY <1>5 DEF LockSession, AttachLock, ConversationInv, RunsInSessions, AtWork, Exists, At, Rows
  <2> QED BY <1>5, <2>1, MovesTyped, RowsTyped, StaysTyped DEF LockSession, AttachLock
<1>6. CASE AttachRefused(r)
    BY <1>6, MovesTyped, RowsTyped, StaysTyped DEF AttachRefused
<1>7. CASE TakeNumber(r)
  <2>1. PICK n \in 1..(Cardinality(Runs) + 1) :
            job' = [job EXCEPT ![r] = [@ EXCEPT !.at = "inserting", !.number = n]]
      BY <1>7 DEF TakeNumber
  <2>2. JobTyped'
      BY <2>1, NumbersAreNatural, ChangesTyped DEF Jobs
  <2> QED BY <1>7, <2>2, StaysTyped DEF TakeNumber
<1>8. CASE InsertTurn(r)
  <2>1. AfterStart(r) \in Places
      BY DEF AfterStart
  <2>2. TurnsTyped'
      BY <1>8 DEF InsertTurn, TurnsTyped, Turns, NoTurn, Jobs
  <2> QED BY <1>8, <2>1, <2>2, MovesTyped, RowsTyped, StaysTyped DEF InsertTurn
<1>9. CASE Claim(r)
  <2>1. job[r].session \in Sessions /\ job[r].shopper \in Shoppers
      BY <1>9 DEF Claim, ConversationInv, RunsInSessions, AtWork, Exists, At
  <2>2. SessionTyped' /\ ActiveTyped'
      BY <1>9, <2>1 DEF Claim, SessionTyped, SessionRecords, ActiveTyped
  <2> QED BY <1>9, <2>2, MovesTyped, RowsTyped, StaysTyped DEF Claim
<1>10. ASSUME NEW stored \in BOOLEAN, Answers(r, stored)
       PROVE  JobTyped' /\ LockTyped' /\ SessionTyped' /\ ActiveTyped' /\ ReservedTyped'
              /\ TurnsTyped' /\ EventsTyped'
  <2>1. job[r].session \in Sessions
      BY <1>10 DEF Answers, ConversationInv, RunsInSessions, AtWork, Exists, At
  <2>2. EventsTyped'
      BY <1>10, <2>1 DEF Answers, EventsTyped
  <2> QED BY <1>10, <2>2, MovesTyped, StaysTyped DEF Answers
<1>11. ASSUME NEW scope \in SUBSET Products, NEW kept \in SUBSET Products,
              Persists(r, scope, kept)
       PROVE  JobTyped' /\ LockTyped' /\ SessionTyped' /\ ActiveTyped' /\ ReservedTyped'
              /\ TurnsTyped' /\ EventsTyped'
  <2>1. TurnsTyped'
      BY <1>11 DEF Persists, TurnsTyped, Turns
  <2> QED BY <1>11, <2>1, MovesTyped, StaysTyped DEF Persists
<1> QED BY <1>1, <1>2, <1>3, <1>4, <1>5, <1>6, <1>7, <1>8, <1>9, <1>10, <1>11 DEF RunStep

LEMMA PostTyped ==
    ASSUME ConversationInv, NEW p \in Posts, PostStep(p) \/ Writes(p)
    PROVE  ConversationTypeOK'
<1> SUFFICES JobTyped' /\ LockTyped' /\ SessionTyped' /\ ActiveTyped' /\ ReservedTyped'
             /\ TurnsTyped' /\ EventsTyped'
    BY TypePartsNext
<1>0. /\ ConversationTypeOK /\ JobTyped /\ LockTyped /\ p \in Processes /\ job[p] \in Jobs
      /\ SessionTyped /\ ActiveTyped /\ ReservedTyped /\ EventsTyped
    BY TypeParts DEF ConversationInv, Processes, JobTyped
<1> USE <1>0, PlaceNames
<1>1. CASE Writes(p)
  <2>1. PICK shopper \in Shoppers, request \in Requests, session \in Sessions \cup {NoSession} :
            PostBegins(p, shopper, request, session)
      BY <1>1 DEF Writes
  <2>2. JobTyped'
      BY <2>1, ChangesTyped DEF PostBegins, Jobs
  <2> QED BY <2>1, <2>2, StaysTyped DEF PostBegins
<1>2. CASE PostLocks(p) \/ PostTakes(p)
  <2>1. job[p].shopper \in Rows
      BY <1>2 DEF PostLocks, PostTakes, ConversationInv, PostsReserved, At, Rows
  <2> QED BY <1>2, <2>1, MovesTyped, RowsTyped, StaysTyped DEF PostLocks, PostTakes
<1>3. CASE PostRepeats(p)
  <2>1. Reservation(p).session \in Sessions \cup {NoSession}
      BY <1>3 DEF PostRepeats, ConversationInv, PostsReserved, At, Reservation, ReservedTyped,
                  Reservations
  <2>2. JobTyped'
      BY <1>3, <2>1, MovesTyped, ChangesTyped DEF PostRepeats, Jobs
  <2> QED BY <1>3, <2>2, RowsTyped, StaysTyped DEF PostRepeats
<1>4. ASSUME NEW session \in Sessions \cup {NoSession}, Reserve(p, session), At(p, "reserving")
      PROVE  ReservedTyped' /\ JobTyped' /\ LockTyped'
  <2>1. job[p].shopper \in Shoppers /\ job[p].request \in Requests
      BY <1>4 DEF ConversationInv, PostsReserved, At
  <2>2. ReservedTyped'
      BY <1>4, <2>1 DEF Reserve, ReservedTyped, Reservations, Jobs
  <2>3. JobTyped'
      BY <1>4, ChangesTyped DEF Reserve, Jobs
  <2> QED BY <1>4, <2>2, <2>3, RowsTyped DEF Reserve
<1>5. CASE PostOwned(p)
  <2>1. job[p].session \in Sessions
      BY <1>5 DEF PostOwned, Jobs
  <2> QED BY <1>4, <1>5, <2>1, MovesTyped, RowsTyped, StaysTyped DEF PostOwned
<1>6. CASE PostNew(p)
  <2>1. Fresh \in Sessions
      BY <1>6, FreshIsNew DEF PostNew
  <2>2. SessionTyped'
      BY <1>6, <2>1 DEF PostNew, SessionTyped, SessionRecords, Jobs
  <2> QED BY <1>4, <1>6, <2>1, <2>2, StaysTyped DEF PostNew
<1>7. CASE PostActivates(p)
  <2>1. ActiveTyped'
      BY <1>7 DEF PostActivates, ActiveTyped, Jobs
  <2> QED BY <1>7, <2>1, MovesTyped, RowsTyped, StaysTyped DEF PostActivates
<1>8. ASSUME NEW stored \in BOOLEAN, NEW heard \in BOOLEAN, PostSends(p, stored, heard)
      PROVE  JobTyped' /\ LockTyped' /\ SessionTyped' /\ ActiveTyped' /\ ReservedTyped'
             /\ TurnsTyped' /\ EventsTyped'
  <2>1. /\ job[p].session \in Sessions
        /\ <<job[p].shopper, job[p].request>> \in Shoppers \X Requests
      BY <1>8 DEF PostSends, ConversationInv, PostsReserved, ReservationsOwned, Reservation, At
  <2>2. EventsTyped'
      BY <1>8, <2>1 DEF PostSends, EventsTyped
  <2> QED BY <1>8, <2>2, MovesTyped, StaysTyped DEF PostSends
<1> QED BY <1>1, <1>2, <1>3, <1>5, <1>6, <1>7, <1>8 DEF PostStep

LEMMA ClearTyped ==
    ASSUME ConversationInv, NEW n \in Clears,
           ClearStep(n) \/ \E shopper \in Shoppers : ClearBegins(n, shopper)
    PROVE  ConversationTypeOK'
<1> SUFFICES JobTyped' /\ LockTyped' /\ SessionTyped' /\ ActiveTyped' /\ ReservedTyped'
             /\ TurnsTyped' /\ EventsTyped'
    BY TypePartsNext
<1>0. /\ ConversationTypeOK /\ JobTyped /\ LockTyped /\ n \in Processes /\ job[n] \in Jobs
      /\ SessionTyped /\ ActiveTyped
    BY TypeParts DEF ConversationInv, Processes, JobTyped
<1> USE <1>0, PlaceNames
<1>1. CASE \E shopper \in Shoppers : ClearBegins(n, shopper)
  <2>1. JobTyped'
      BY <1>1, ChangesTyped DEF ClearBegins, Jobs
  <2> QED BY <1>1, <2>1, StaysTyped DEF ClearBegins
<1>2. CASE ClearLocks(n)
  <2>1. job[n].shopper \in Shoppers /\ job[n].shopper \in Rows
      BY <1>2 DEF ClearLocks, ConversationInv, ClearsKnown, At, Rows
  <2>2. JobTyped'
      BY <1>2, <2>1, ChangesTyped DEF ClearLocks, Jobs, ActiveTyped
  <2> QED BY <1>2, <2>1, <2>2, RowsTyped, StaysTyped DEF ClearLocks
<1>3. CASE ClearEnds(n)
  <2>1. SessionTyped'
      BY <1>3 DEF ClearEnds, SessionTyped, SessionRecords, Jobs
  <2>2. ActiveTyped'
      BY <1>3 DEF ClearEnds, ActiveTyped
  <2> QED BY <1>3, <2>1, <2>2, MovesTyped, RowsTyped, StaysTyped DEF ClearEnds
<1> QED BY <1>1, <1>2, <1>3 DEF ClearStep

LEMMA GiveUpTyped ==
    ASSUME ConversationInv, NEW p \in Processes, Dies(p) \/ DeadlockVictim(p)
    PROVE  ConversationTypeOK'
<1>1. ConversationTypeOK /\ JobTyped /\ LockTyped
    BY TypeParts DEF ConversationInv
<1>2. JobTyped' /\ LockTyped'
    BY <1>1, PlaceNames, MovesTyped, RowsTyped DEF Dies, DeadlockVictim
<1> QED BY <1>1, <1>2, StaysTyped, TypePartsNext DEF Dies, DeadlockVictim

LEMMA StepTyped ==
    ASSUME ConversationInv, [ConversationNext]_conversationVars
    PROVE  ConversationTypeOK'
<1>1. CASE UNCHANGED conversationVars
    BY <1>1 DEF conversationVars, ConversationInv, ConversationTypeOK
<1>2. CASE ConversationNext
    BY <1>2, RunTyped, PostTyped, ClearTyped, GiveUpTyped DEF ConversationNext, Works
<1> QED BY <1>1, <1>2

-----------------------------------------------------------------------------
(* One process takes a step at a time.                                     *)

StepOf(p) ==
    \/ p \in Runs /\ (Asks(p) \/ RunStep(p))
    \/ p \in Posts /\ (Writes(p) \/ PostStep(p))
    \/ p \in Clears /\ (ClearStep(p) \/ \E shopper \in Shoppers : ClearBegins(p, shopper))
    \/ Dies(p) \/ DeadlockVictim(p)

LEMMA OneAtATime == ConversationNext => \E p \in Processes : StepOf(p)
BY DEF ConversationNext, Works, StepOf, Processes

LEMMA OthersWait ==
    ASSUME JobTyped, NEW p \in Processes, StepOf(p), NEW q \in Processes \ {p}
    PROVE  job'[q] = job[q]
<1> USE DEF JobTyped, Moves
<1>1. CASE p \in Runs /\ Asks(p)
    BY <1>1 DEF Asks, Prepare
<1>2. CASE p \in Runs /\ RunStep(p)
    BY <1>2 DEF RunStep, LoadContext, StartOwned, LockSession, TakeNumber, InsertTurn, StartNew,
                AttachLock, AttachRefused, Claim, PersistsNone, Answers, Persists
<1>3. CASE p \in Posts /\ (Writes(p) \/ PostStep(p))
    BY <1>3 DEF Writes, PostBegins, PostStep, PostLocks, PostRepeats, PostOwned, PostNew,
                Reserve, PostTakes, PostActivates, PostSends
<1>4. CASE p \in Clears /\ (ClearStep(p) \/ \E shopper \in Shoppers : ClearBegins(p, shopper))
    BY <1>4 DEF ClearStep, ClearLocks, ClearEnds, ClearBegins
<1>5. CASE Dies(p) \/ DeadlockVictim(p)
    BY <1>5 DEF Dies, DeadlockVictim
<1> QED BY <1>1, <1>2, <1>3, <1>4, <1>5 DEF StepOf

\* Where a run goes once it has its turn.
LEMMA TurnMade ==
    ASSUME JobTyped, NEW r \in Runs, StartNew(r) \/ InsertTurn(r)
    PROVE  job'[r].at = AfterStart(r) /\ job'[r].shopper = job[r].shopper
<1>0. r \in Processes /\ job[r] \in Jobs
    BY DEF JobTyped, Processes
<1>1. CASE StartNew(r)
    BY <1>0, <1>1 DEF StartNew, JobTyped, Jobs
<1>2. CASE InsertTurn(r)
    BY <1>0, <1>2 DEF InsertTurn, Moves, JobTyped, Jobs
<1> QED BY <1>1, <1>2

\* A turn stays in its session.
TurnsStay == \A r \in Runs : turns[r].session # NoSession => turns'[r].session = turns[r].session

LEMMA TurnsDoStay ==
    ASSUME ConversationInv, [ConversationNext]_conversationVars
    PROVE  TurnsStay
<1>0. TurnsTyped
    BY TypeParts DEF ConversationInv
<1>1. CASE UNCHANGED turns
    BY <1>1 DEF TurnsStay
<1>2. ASSUME NEW r \in Runs, StartNew(r) \/ InsertTurn(r)
      PROVE  TurnsStay
    BY <1>0, <1>2 DEF StartNew, InsertTurn, At, ConversationInv, NoTurnYet, TurnsStay, TurnsTyped,
                      Turns
<1>3. ASSUME NEW r \in Runs, NEW scope \in SUBSET Products, NEW kept \in SUBSET Products,
             Persists(r, scope, kept)
      PROVE  TurnsStay
    BY <1>0, <1>3 DEF Persists, TurnsStay, TurnsTyped, Turns
<1>4. ASSUME NEW p \in Processes, StepOf(p)
      PROVE  TurnsStay
  <2>1. CASE p \in Runs /\ (Asks(p) \/ RunStep(p))
      BY <1>1, <1>2, <1>3, <2>1
         DEF Asks, Prepare, RunStep, LoadContext, StartOwned, LockSession, TakeNumber, AttachLock,
             AttachRefused, Claim, PersistsNone, Answers
  <2>2. CASE p \in Posts /\ (Writes(p) \/ PostStep(p))
      BY <1>1, <2>2 DEF Writes, PostBegins, PostStep, PostLocks, PostRepeats, PostOwned, PostNew,
                        PostTakes, PostActivates, PostSends
  <2>3. CASE p \in Clears /\ (ClearStep(p) \/ \E shopper \in Shoppers : ClearBegins(p, shopper))
      BY <1>1, <2>3 DEF ClearStep, ClearLocks, ClearEnds, ClearBegins
  <2>4. CASE Dies(p) \/ DeadlockVictim(p)
      BY <1>1, <2>4 DEF Dies, DeadlockVictim
  <2> QED BY <1>4, <2>1, <2>2, <2>3, <2>4 DEF StepOf
<1> QED BY <1>1, <1>4, OneAtATime DEF conversationVars

-----------------------------------------------------------------------------
(* The sessions of runs, posts and clears.                                 *)

LEMMA OwnedExistStep ==
    ASSUME ConversationInv, [ConversationNext]_conversationVars
    PROVE  OwnedExist'
<1>0. SessionTyped /\ OwnedExist
    BY TypeParts DEF ConversationInv
<1>1. CASE UNCHANGED sessions
    BY <1>0, <1>1 DEF OwnedExist
<1>2. ASSUME NEW r \in Runs, StartNew(r) \/ Claim(r)
      PROVE  OwnedExist'
  <2>1. CASE StartNew(r)
      BY <1>0, <2>1, FreshIsNew DEF StartNew, OwnedExist, SessionTyped, SessionRecords
  <2>2. CASE Claim(r)
    <3>1. sessions[job[r].session].exists
        BY <2>2 DEF Claim, ConversationInv, RunsInSessions, AtWork, Exists, At
    <3> QED BY <1>0, <2>2, <3>1 DEF Claim, OwnedExist, SessionTyped, SessionRecords
  <2> QED BY <1>2, <2>1, <2>2
<1>3. ASSUME NEW p \in Posts, PostNew(p)
      PROVE  OwnedExist'
    BY <1>0, <1>3, FreshIsNew DEF PostNew, OwnedExist, SessionTyped, SessionRecords
<1>4. ASSUME NEW n \in Clears, ClearEnds(n)
      PROVE  OwnedExist'
    BY <1>0, <1>4 DEF ClearEnds, OwnedExist, SessionTyped, SessionRecords
<1>5. ASSUME NEW p \in Processes, StepOf(p)
      PROVE  OwnedExist'
  <2>1. CASE p \in Runs /\ (Asks(p) \/ RunStep(p))
      BY <1>1, <1>2, <2>1
         DEF Asks, Prepare, RunStep, LoadContext, StartOwned, LockSession, TakeNumber, InsertTurn,
             AttachLock, AttachRefused, PersistsNone, Answers, Persists
  <2>2. CASE p \in Posts /\ (Writes(p) \/ PostStep(p))
      BY <1>1, <1>3, <2>2 DEF Writes, PostBegins, PostStep, PostLocks, PostRepeats, PostOwned,
                              PostTakes, PostActivates, PostSends
  <2>3. CASE p \in Clears /\ (ClearStep(p) \/ \E shopper \in Shoppers : ClearBegins(p, shopper))
      BY <1>1, <1>4, <2>3 DEF ClearStep, ClearLocks, ClearBegins
  <2>4. CASE Dies(p) \/ DeadlockVictim(p)
      BY <1>1, <2>4 DEF Dies, DeadlockVictim
  <2> QED BY <1>5, <2>1, <2>2, <2>3, <2>4 DEF StepOf
<1> QED BY <1>1, <1>5, OneAtATime DEF conversationVars

\* What existed still exists.
Lasts(S) == S \in Sessions /\ sessions'[S].exists

LEMMA ExistsStays ==
    ASSUME ConversationInv, [ConversationNext]_conversationVars
    PROVE  \A S : Exists(S) => Lasts(S)
<1> SUFFICES ASSUME NEW S, Exists(S)
             PROVE  Lasts(S)
    OBVIOUS
<1>1. S \in Sessions /\ sessions[S].exists
    BY DEF Exists
<1> QED BY <1>1, SessionsGrow DEF Grow, Lasts

LEMMA RunsInSessionsStep ==
    ASSUME ConversationInv, [ConversationNext]_conversationVars
    PROVE  RunsInSessions'
<1> DEFINE Within(r) ==
        /\ job[r].at \in AtWork => Exists(job[r].session)
        /\ job[r].at = "starting" =>
              /\ job[r].session # NoSession => Exists(job[r].session)
              /\ job[r].context # NoRun => turns[job[r].context].session # NoSession
        /\ job[r].at \in {"attaching", "claiming"} => job[r].shopper \in Shoppers
<1> SUFFICES ASSUME NEW r \in Runs
             PROVE  Within(r)'
    BY DEF RunsInSessions
<1>0. /\ JobTyped /\ TurnsTyped /\ SessionTyped /\ JobTyped' /\ r \in Processes
      /\ job[r] \in Jobs /\ NoSession \notin Sessions /\ NoShopper \notin Shoppers
    BY TypeParts, TypePartsNext, StepTyped, ConversationAssumption
       DEF ConversationInv, JobTyped, Processes
<1>1. Within(r) /\ TurnsStay
    BY TurnsDoStay DEF ConversationInv, RunsInSessions
<1>2. CASE job'[r] = job[r]
  <2>1. job[r].at \in AtWork => Lasts(job[r].session)
      BY <1>1, ExistsStays
  <2>2. job[r].at = "starting" /\ job[r].session # NoSession => Lasts(job[r].session)
      BY <1>1, ExistsStays
  <2>3. job[r].at = "starting" /\ job[r].context # NoRun =>
            turns'[job[r].context].session # NoSession
      BY <1>0, <1>1 DEF TurnsStay, Jobs
  <2> QED BY <1>1, <1>2, <2>1, <2>2, <2>3 DEF Exists, Lasts
<1>3. CASE Asks(r)
  <2>1. PICK shopper \in Shoppers \cup {NoShopper}, session \in Sessions \cup {NoSession},
             context \in Runs \cup {NoRun} : Prepare(r, shopper, session, context)
      BY <1>3 DEF Asks
  <2>2. /\ job'[r].at = "starting" /\ job'[r].session = session
        /\ job'[r].context = IF context = NoRun /\ session # NoSession
                             THEN Restored(session) ELSE context
        /\ UNCHANGED <<sessions, turns>>
      BY <1>0, <2>1 DEF Prepare, JobTyped, Jobs
  <2>3. session # NoSession => Lasts(session)
      BY <1>0, <2>1, <2>2 DEF Prepare, ConversationInv, OwnedExist, Lasts
  <2>4. session # NoSession /\ Restored(session) # NoRun =>
            turns[Restored(session)].session = session
      BY DEF Restored, TurnsOf
  <2>5. job'[r].context # NoRun => turns'[job'[r].context].session # NoSession
      BY <2>1, <2>2, <2>4 DEF Prepare
  <2> QED BY <2>2, <2>3, <2>5 DEF AtWork, Exists, Lasts
<1>4. CASE LoadContext(r)
  <2>1. job[r].context \in Runs
      BY <1>0, <1>4 DEF LoadContext, Jobs
  <2>2. Lasts(turns[job[r].context].session)
      BY <1>1, <1>4, <2>1, ExistsStays DEF LoadContext, At, ConversationInv, TurnsExist
  <2>3. /\ job'[r].at \in {"locking", "refused"}
        /\ job'[r].at = "locking" => job'[r].session = turns[job[r].context].session
    <3>1. CASE Authorized(job[r].context)
        BY <1>0, <1>4, <3>1 DEF LoadContext, JobTyped, Jobs
    <3>2. CASE ~Authorized(job[r].context)
        BY <1>0, <1>4, <3>2 DEF LoadContext, Moves, JobTyped, Jobs
    <3> QED BY <3>1, <3>2
  <2> QED BY <2>2, <2>3 DEF AtWork, Exists, Lasts
<1>5. CASE StartNew(r)
  <2>1. Fresh \in Sessions
      BY <1>5, FreshIsNew DEF StartNew
  <2>2. /\ job'[r].session = Fresh /\ job'[r].at = AfterStart(r)
        /\ job'[r].shopper = job[r].shopper
      BY <1>0, <1>5 DEF StartNew, JobTyped, Jobs
  <2>3. sessions'[Fresh].exists
      BY <1>0, <1>5, <2>1 DEF StartNew, SessionTyped
  <2> QED BY <1>0, <2>1, <2>2, <2>3 DEF AfterStart, Exists, Lasts, Jobs
<1>6. CASE StartOwned(r)
  <2>1. job'[r].at = "locking" /\ job'[r].session = job[r].session
      BY <1>0, <1>6 DEF StartOwned, Moves, JobTyped, Jobs
  <2>2. Lasts(job[r].session)
      BY <1>1, <1>6, ExistsStays DEF StartOwned, At
  <2> QED BY <2>1, <2>2 DEF Exists, Lasts
<1>7. CASE LockSession(r) \/ TakeNumber(r) \/ InsertTurn(r)
  <2>1. /\ job'[r].session = job[r].session /\ job'[r].shopper = job[r].shopper
        /\ job'[r].at \in {"numbering", "inserting", AfterStart(r)} /\ job[r].at \in AtWork
    <3>1. CASE LockSession(r)
        BY <1>0, <3>1 DEF LockSession, Moves, JobTyped, Jobs, At, AtWork
    <3>2. CASE TakeNumber(r)
        BY <1>0, <3>2 DEF TakeNumber, JobTyped, Jobs, At, AtWork
    <3>3. CASE InsertTurn(r)
        BY <1>0, <3>3 DEF InsertTurn, Moves, JobTyped, Jobs, At, AtWork
    <3> QED BY <1>7, <3>1, <3>2, <3>3
  <2>2. Lasts(job[r].session)
      BY <1>1, <2>1, ExistsStays
  <2> QED BY <1>0, <2>1, <2>2 DEF Exists, Lasts, AfterStart, Jobs
<1>8. CASE AttachLock(r) \/ Claim(r) \/ \E stored \in BOOLEAN : Answers(r, stored)
  <2>1. /\ job'[r].session = job[r].session /\ job'[r].shopper = job[r].shopper
        /\ job'[r].at \in {"claiming", "running", "persisting"} /\ job[r].at \in AtWork
        /\ job'[r].at = "claiming" => job[r].at = "attaching"
      BY <1>0, <1>8 DEF AttachLock, Claim, Answers, Moves, JobTyped, Jobs, At, AtWork
  <2>2. Lasts(job[r].session)
      BY <1>1, <2>1, ExistsStays
  <2> QED BY <1>1, <2>1, <2>2 DEF Exists, Lasts
<1>9. CASE \/ AttachRefused(r) \/ PersistsNone(r) \/ Dies(r) \/ DeadlockVictim(r)
           \/ \E scope, kept \in SUBSET Products : Persists(r, scope, kept)
  <2>1. job'[r].at \in {"refused", "failed", "done"}
    <3>1. Moves(r, "refused") \/ Moves(r, "failed") \/ Moves(r, "done")
        BY <1>9 DEF AttachRefused, PersistsNone, Dies, DeadlockVictim, Persists
    <3> QED BY <1>0, <3>1 DEF Moves, JobTyped, Jobs
  <2> QED BY <2>1 DEF AtWork
<1>10. CASE StepOf(r)
  <2>1. r \notin Posts /\ r \notin Clears
      BY ConversationAssumption
  <2> QED BY <1>3, <1>4, <1>5, <1>6, <1>7, <1>8, <1>9, <1>10, <2>1 DEF StepOf, RunStep
<1> QED BY <1>0, <1>2, <1>10, OneAtATime, OthersWait DEF conversationVars

LEMMA TurnsExistStep ==
    ASSUME ConversationInv, [ConversationNext]_conversationVars
    PROVE  TurnsExist'
<1>0. JobTyped /\ TurnsTyped
    BY TypeParts DEF ConversationInv
<1> SUFFICES ASSUME NEW r \in Runs, turns'[r].session # NoSession
             PROVE  Exists(turns[r].session)'
    BY DEF TurnsExist
<1>1. CASE turns'[r].session = turns[r].session
  <2>1. Lasts(turns[r].session)
      BY <1>1, ExistsStays DEF ConversationInv, TurnsExist
  <2> QED BY <1>1, <2>1 DEF Exists, Lasts
<1>2. CASE InsertTurn(r)
  <2>1. turns'[r].session = job[r].session
      BY <1>0, <1>2 DEF InsertTurn, TurnsTyped
  <2>2. Lasts(job[r].session)
      BY <1>2, ExistsStays DEF InsertTurn, At, AtWork, ConversationInv, RunsInSessions
  <2> QED BY <2>1, <2>2 DEF Exists, Lasts
<1>3. CASE StartNew(r)
  <2>1. Fresh \in Sessions /\ turns'[r].session = Fresh /\ sessions'[Fresh].exists
      BY <1>0, <1>3, FreshIsNew, TypeParts DEF StartNew, TurnsTyped, ConversationInv, SessionTyped
  <2> QED BY <2>1 DEF Exists, Lasts
<1>4. ASSUME NEW p \in Processes, StepOf(p)
      PROVE  Exists(turns[r].session)'
  <2>1. CASE p \in Runs /\ (Asks(p) \/ RunStep(p))
    <3>1. CASE p # r /\ (StartNew(p) \/ InsertTurn(p))
        BY <1>0, <1>1, <2>1, <3>1 DEF StartNew, InsertTurn, TurnsTyped
    <3>2. CASE \E scope, kept \in SUBSET Products : Persists(p, scope, kept)
        BY <1>0, <1>1, <2>1, <3>2 DEF Persists, TurnsTyped, Turns
    <3> QED BY <1>1, <1>2, <1>3, <2>1, <3>1, <3>2
            DEF Asks, Prepare, RunStep, LoadContext, StartOwned, LockSession, TakeNumber,
                AttachLock, AttachRefused, Claim, PersistsNone, Answers
  <2>2. CASE p \in Posts /\ (Writes(p) \/ PostStep(p))
      BY <1>1, <2>2 DEF Writes, PostBegins, PostStep, PostLocks, PostRepeats, PostOwned, PostNew,
                        PostTakes, PostActivates, PostSends
  <2>3. CASE p \in Clears /\ (ClearStep(p) \/ \E shopper \in Shoppers : ClearBegins(p, shopper))
      BY <1>1, <2>3 DEF ClearStep, ClearLocks, ClearEnds, ClearBegins
  <2>4. CASE Dies(p) \/ DeadlockVictim(p)
      BY <1>1, <2>4 DEF Dies, DeadlockVictim
  <2> QED BY <1>4, <2>1, <2>2, <2>3, <2>4 DEF StepOf
<1> QED BY <1>1, <1>4, OneAtATime DEF conversationVars

LEMMA NoTurnYetStep ==
    ASSUME ConversationInv, [ConversationNext]_conversationVars
    PROVE  NoTurnYet'
<1>0. JobTyped /\ TurnsTyped
    BY TypeParts DEF ConversationInv
<1> SUFFICES ASSUME NEW r \in Runs,
                    job'[r].at \in {"idle", "starting", "locking", "numbering", "inserting"}
             PROVE  turns'[r].session = NoSession
    BY DEF NoTurnYet
<1>1. r \in Processes /\ job[r] \in Jobs
    BY <1>0 DEF JobTyped, Processes
<1>2. CASE job'[r] = job[r] /\ UNCHANGED turns
    BY <1>2 DEF ConversationInv, NoTurnYet
<1>3. CASE StepOf(r)
  <2>1. r \notin Posts /\ r \notin Clears
      BY ConversationAssumption
  <2>2. CASE Asks(r) \/ LoadContext(r) \/ StartOwned(r) \/ LockSession(r) \/ TakeNumber(r)
    <3>1. job[r].at \in {"idle", "starting", "locking", "numbering"} /\ UNCHANGED turns
        BY <2>2 DEF Asks, Prepare, Begins, LoadContext, StartOwned, LockSession, TakeNumber, At
    <3> QED BY <3>1 DEF ConversationInv, NoTurnYet
  <2>3. CASE StartNew(r) \/ InsertTurn(r)
    <3>1. job'[r].at \in {"running", "attaching"}
        BY <1>0, <2>3, TurnMade DEF AfterStart
    <3> QED BY <3>1
  <2>4. CASE AttachLock(r) \/ Claim(r) \/ \E stored \in BOOLEAN : Answers(r, stored)
    <3>1. job'[r].at \in {"claiming", "running", "persisting"}
        BY <1>0, <1>1, <2>4 DEF AttachLock, Claim, Answers, Moves, JobTyped, Jobs
    <3> QED BY <3>1
  <2>5. CASE \/ AttachRefused(r) \/ PersistsNone(r) \/ Dies(r) \/ DeadlockVictim(r)
             \/ \E scope, kept \in SUBSET Products : Persists(r, scope, kept)
    <3>1. Moves(r, "refused") \/ Moves(r, "failed") \/ Moves(r, "done")
        BY <2>5 DEF AttachRefused, PersistsNone, Dies, DeadlockVictim, Persists
    <3>2. job'[r].at \in {"refused", "failed", "done"}
        BY <1>0, <1>1, <3>1 DEF Moves, JobTyped, Jobs
    <3> QED BY <3>2
  <2> QED BY <1>3, <2>1, <2>2, <2>3, <2>4, <2>5 DEF StepOf, RunStep
<1>4. ASSUME NEW p \in Processes \ {r}, StepOf(p)
      PROVE  turns'[r].session = NoSession
  <2>1. job'[r] = job[r]
      BY <1>0, <1>1, <1>4, OthersWait
  <2>2. turns'[r] = turns[r]
    <3>1. CASE p \in Runs /\ (Asks(p) \/ RunStep(p))
        BY <1>0, <1>4, <3>1
           DEF Asks, Prepare, RunStep, LoadContext, StartOwned, StartNew, LockSession, TakeNumber,
               InsertTurn, AttachLock, AttachRefused, Claim, PersistsNone, Answers, Persists,
               TurnsTyped
    <3>2. CASE p \in Posts /\ (Writes(p) \/ PostStep(p))
        BY <3>2 DEF Writes, PostBegins, PostStep, PostLocks, PostRepeats, PostOwned, PostNew,
                    PostTakes, PostActivates, PostSends
    <3>3. CASE p \in Clears /\ (ClearStep(p) \/ \E shopper \in Shoppers : ClearBegins(p, shopper))
        BY <3>3 DEF ClearStep, ClearLocks, ClearEnds, ClearBegins
    <3>4. CASE Dies(p) \/ DeadlockVictim(p)
        BY <3>4 DEF Dies, DeadlockVictim
    <3> QED BY <1>4, <3>1, <3>2, <3>3, <3>4 DEF StepOf
  <2> QED BY <2>1, <2>2 DEF ConversationInv, NoTurnYet
<1> QED BY <1>2, <1>3, <1>4, OneAtATime DEF conversationVars

LEMMA ClearsKnownStep ==
    ASSUME ConversationInv, [ConversationNext]_conversationVars
    PROVE  ClearsKnown'
<1>0. JobTyped
    BY TypeParts DEF ConversationInv
<1> SUFFICES ASSUME NEW n \in Clears, job'[n].at \in {"clearing", "ending"}
             PROVE  job'[n].shopper \in Shoppers
    BY DEF ClearsKnown
<1>1. n \in Processes /\ job[n] \in Jobs /\ n \notin Runs /\ n \notin Posts
    BY <1>0, ConversationAssumption DEF JobTyped, Processes
<1>2. CASE job'[n] = job[n]
    BY <1>2 DEF ConversationInv, ClearsKnown
<1>3. CASE \E shopper \in Shoppers : ClearBegins(n, shopper)
    BY <1>0, <1>1, <1>3 DEF ClearBegins, JobTyped, Jobs
<1>4. CASE ClearLocks(n)
  <2>1. job'[n].shopper = job[n].shopper /\ job[n].at = "clearing"
      BY <1>0, <1>1, <1>4 DEF ClearLocks, JobTyped, Jobs, At
  <2> QED BY <2>1 DEF ConversationInv, ClearsKnown
<1>5. CASE ClearEnds(n) \/ Dies(n) \/ DeadlockVictim(n)
  <2>1. Moves(n, "done") \/ Moves(n, "failed")
      BY <1>5 DEF ClearEnds, Dies, DeadlockVictim
  <2> QED BY <1>0, <1>1, <2>1 DEF Moves, JobTyped, Jobs
<1> QED BY <1>0, <1>1, <1>2, <1>3, <1>4, <1>5, OneAtATime, OthersWait
        DEF StepOf, ClearStep, conversationVars

\* A reservation, once made, stays.
ReservedStays ==
    \A s \in Shoppers, q \in Requests :
        reserved[s][q] # NoReservation => reserved'[s][q] = reserved[s][q]

\* Only a post without a reservation reserves.
LEMMA ReservedOnce ==
    ASSUME ConversationInv, [ConversationNext]_conversationVars
    PROVE  ReservedStays
<1>0. ReservedTyped
    BY TypeParts DEF ConversationInv
<1>1. CASE UNCHANGED reserved
    BY <1>1 DEF ReservedStays
<1>2. ASSUME NEW p \in Posts, NEW session, Reservation(p) = NoReservation, Reserve(p, session)
      PROVE  ReservedStays
    BY <1>0, <1>2 DEF Reserve, ReservedStays, Reservation, ReservedTyped
<1>3. ASSUME NEW p \in Processes, StepOf(p)
      PROVE  ReservedStays
  <2>1. CASE p \in Runs /\ (Asks(p) \/ RunStep(p))
      BY <1>1, <2>1
         DEF Asks, Prepare, RunStep, LoadContext, StartOwned, StartNew, LockSession, TakeNumber,
             InsertTurn, AttachLock, AttachRefused, Claim, PersistsNone, Answers, Persists
  <2>2. CASE p \in Posts /\ (Writes(p) \/ PostStep(p))
      BY <1>1, <1>2, <2>2 DEF Writes, PostBegins, PostStep, PostLocks, PostRepeats, PostOwned,
                              PostNew, PostTakes, PostActivates, PostSends
  <2>3. CASE p \in Clears /\ (ClearStep(p) \/ \E shopper \in Shoppers : ClearBegins(p, shopper))
      BY <1>1, <2>3 DEF ClearStep, ClearLocks, ClearEnds, ClearBegins
  <2>4. CASE Dies(p) \/ DeadlockVictim(p)
      BY <1>1, <2>4 DEF Dies, DeadlockVictim
  <2> QED BY <1>3, <2>1, <2>2, <2>3, <2>4 DEF StepOf
<1> QED BY <1>1, <1>3, OneAtATime DEF conversationVars

\* What a post that reserves writes.
LEMMA ReservesOwn ==
    ASSUME ConversationInv, NEW p \in Posts, PostOwned(p) \/ PostNew(p),
           job'[p].at \notin {"refused"}
    PROVE  \E session \in Sessions :
              Reserve(p, session) /\ sessions'[session].owner = job[p].shopper
<1>0. JobTyped /\ SessionTyped /\ p \in Processes /\ job[p] \in Jobs
    BY TypeParts DEF ConversationInv, JobTyped, Processes
<1>1. CASE PostOwned(p)
  <2>1. job[p].session \in Sessions /\ UNCHANGED sessions
      BY <1>0, <1>1 DEF PostOwned, Jobs
  <2>2. CASE sessions[job[p].session].owner = job[p].shopper
      BY <1>1, <2>1, <2>2 DEF PostOwned
  <2>3. CASE sessions[job[p].session].owner # job[p].shopper
      BY <1>0, <1>1, <2>3 DEF PostOwned, Moves, JobTyped, Jobs
  <2> QED BY <2>2, <2>3
<1>2. CASE PostNew(p)
    BY <1>0, <1>2, FreshIsNew DEF PostNew, SessionTyped
<1> QED BY <1>1, <1>2

LEMMA ReservationsOwnedStep ==
    ASSUME ConversationInv, [ConversationNext]_conversationVars
    PROVE  ReservationsOwned'
<1>0. JobTyped /\ ReservedTyped
    BY TypeParts DEF ConversationInv
<1> SUFFICES ASSUME NEW s \in Shoppers, NEW q \in Requests, reserved'[s][q] # NoReservation
             PROVE  /\ reserved'[s][q].session \in Sessions
                    /\ sessions'[reserved'[s][q].session].owner = s
    BY DEF ReservationsOwned
<1>1. CASE reserved'[s][q] = reserved[s][q]
  <2>1. reserved[s][q].session \in Sessions /\ sessions[reserved[s][q].session].owner = s
      BY <1>1 DEF ConversationInv, ReservationsOwned
  <2> QED BY <1>1, <2>1, SessionsGrow, ConversationAssumption DEF Grow
<1>2. ASSUME NEW p \in Posts, NEW session \in Sessions, Reserve(p, session),
             sessions'[session].owner = job[p].shopper
      PROVE  /\ reserved'[s][q].session \in Sessions
             /\ sessions'[reserved'[s][q].session].owner = s
  <2>1. CASE s = job[p].shopper /\ q = job[p].request
      BY <1>0, <1>2, <2>1 DEF Reserve, ReservedTyped
  <2>2. CASE s # job[p].shopper \/ q # job[p].request
      BY <1>0, <1>1, <1>2, <2>2 DEF Reserve, ReservedTyped
  <2> QED BY <2>1, <2>2
<1>3. ASSUME NEW p \in Posts, PostOwned(p) \/ PostNew(p)
      PROVE  /\ reserved'[s][q].session \in Sessions
             /\ sessions'[reserved'[s][q].session].owner = s
  <2>1. CASE job'[p].at = "refused"
    <3>1. p \in Processes /\ job[p] \in Jobs
        BY <1>0 DEF Processes, JobTyped
    <3>2. UNCHANGED reserved
        BY <1>0, <1>3, <2>1, <3>1 DEF PostOwned, PostNew, Reserve, JobTyped, Jobs
    <3> QED BY <1>1, <3>2
  <2> QED BY <1>2, <1>3, <2>1, ReservesOwn
<1>4. ASSUME NEW p \in Processes, StepOf(p)
      PROVE  /\ reserved'[s][q].session \in Sessions
             /\ sessions'[reserved'[s][q].session].owner = s
  <2>1. CASE p \in Runs /\ (Asks(p) \/ RunStep(p))
      BY <1>1, <2>1
         DEF Asks, Prepare, RunStep, LoadContext, StartOwned, StartNew, LockSession, TakeNumber,
             InsertTurn, AttachLock, AttachRefused, Claim, PersistsNone, Answers, Persists
  <2>2. CASE p \in Posts /\ (Writes(p) \/ PostStep(p))
      BY <1>1, <1>3, <2>2 DEF Writes, PostBegins, PostStep, PostLocks, PostRepeats, PostTakes,
                              PostActivates, PostSends
  <2>3. CASE p \in Clears /\ (ClearStep(p) \/ \E shopper \in Shoppers : ClearBegins(p, shopper))
      BY <1>1, <2>3 DEF ClearStep, ClearLocks, ClearEnds, ClearBegins
  <2>4. CASE Dies(p) \/ DeadlockVictim(p)
      BY <1>1, <2>4 DEF Dies, DeadlockVictim
  <2> QED BY <1>4, <2>1, <2>2, <2>3, <2>4 DEF StepOf
<1> QED BY <1>1, <1>4, OneAtATime DEF conversationVars

LEMMA PostsReservedStep ==
    ASSUME ConversationInv, [ConversationNext]_conversationVars
    PROVE  PostsReserved'
<1>0. JobTyped /\ ReservedTyped
    BY TypeParts DEF ConversationInv
<1> DEFINE Ready(p) ==
        /\ job[p].at \in {"posting", "reserving", "sending", "activating", "referring"} =>
              job[p].shopper \in Shoppers /\ job[p].request \in Requests
        /\ job[p].at \in {"sending", "activating", "referring"} =>
              /\ Reservation(p) # NoReservation
              /\ Reservation(p).session = job[p].session
<1> SUFFICES ASSUME NEW p \in Posts
             PROVE  Ready(p)'
    BY DEF PostsReserved
<1>1. p \in Processes /\ job[p] \in Jobs /\ p \notin Runs /\ p \notin Clears /\ Ready(p)
    BY <1>0, ConversationAssumption DEF JobTyped, Processes, ConversationInv, PostsReserved
<1>2. ReservedStays
    BY ReservedOnce
<1>3. CASE job'[p] = job[p]
    BY <1>1, <1>2, <1>3 DEF ReservedStays, Reservation
<1>4. CASE Writes(p)
    BY <1>0, <1>1, <1>4 DEF Writes, PostBegins, JobTyped, Jobs
<1>5. CASE PostLocks(p)
    BY <1>0, <1>1, <1>5 DEF PostLocks, Moves, JobTyped, Jobs, At
<1>6. CASE PostRepeats(p)
  <2>1. job[p].shopper \in Shoppers /\ job[p].request \in Requests
      BY <1>1, <1>6 DEF PostRepeats, At
  <2>2. CASE Reservation(p).requested = job[p].session
    <3>1. /\ job'[p].at = "sending" /\ job'[p].session = Reservation(p).session
          /\ job'[p].shopper = job[p].shopper /\ job'[p].request = job[p].request
        BY <1>0, <1>1, <1>6, <2>2 DEF PostRepeats, JobTyped, Jobs
    <3>2. UNCHANGED reserved /\ Reservation(p) # NoReservation
        BY <1>6 DEF PostRepeats
    <3> QED BY <2>1, <3>1, <3>2 DEF Reservation
  <2>3. CASE Reservation(p).requested # job[p].session
      BY <1>0, <1>1, <1>6, <2>3 DEF PostRepeats, Moves, JobTyped, Jobs
  <2> QED BY <2>2, <2>3
<1>7. CASE PostOwned(p) \/ PostNew(p)
  <2>1. job[p].shopper \in Shoppers /\ job[p].request \in Requests
      BY <1>1, <1>7 DEF PostOwned, PostNew, At
  <2>2. CASE job'[p].at = "refused"
      BY <2>2
  <2>3. CASE job'[p].at # "refused"
    <3>1. PICK session \in Sessions : Reserve(p, session)
        BY <1>7, <2>3, ReservesOwn
    <3>2. /\ job'[p].session = session
          /\ job'[p].shopper = job[p].shopper /\ job'[p].request = job[p].request
        BY <1>0, <1>1, <3>1 DEF Reserve, JobTyped, Jobs
    <3>3. reserved'[job[p].shopper][job[p].request]
             = [session |-> session, requested |-> job[p].session]
        BY <1>0, <2>1, <3>1 DEF Reserve, ReservedTyped
    <3>4. session # NoSession
        BY ConversationAssumption
    <3> QED BY <2>1, <3>2, <3>3, <3>4 DEF Reservation, NoReservation
  <2> QED BY <2>2, <2>3
<1>8. CASE PostTakes(p) \/ \E stored, heard \in BOOLEAN : PostSends(p, stored, heard)
  <2>1. /\ job[p].at \in {"sending", "activating"} /\ job'[p].session = job[p].session
        /\ job'[p].shopper = job[p].shopper /\ job'[p].request = job[p].request
        /\ UNCHANGED reserved
      BY <1>0, <1>1, <1>8 DEF PostTakes, PostSends, Moves, JobTyped, Jobs, At
  <2> QED BY <1>1, <2>1 DEF Reservation
<1>9. CASE PostActivates(p) \/ Dies(p) \/ DeadlockVictim(p)
  <2>1. Moves(p, "done") \/ Moves(p, "failed")
      BY <1>9 DEF PostActivates, Dies, DeadlockVictim
  <2> QED BY <1>0, <1>1, <2>1 DEF Moves, JobTyped, Jobs
<1> QED BY <1>0, <1>1, <1>3, <1>4, <1>5, <1>6, <1>7, <1>8, <1>9, OneAtATime, OthersWait
        DEF StepOf, PostStep, conversationVars

-----------------------------------------------------------------------------
(* Who owns what.                                                          *)

LEMMA SessionsAreOwnedStep ==
    ASSUME ConversationInv, SessionsAreOwned, [ConversationNext]_conversationVars
    PROVE  SessionsAreOwned'
<1>0. JobTyped /\ ActiveTyped /\ SessionTyped /\ NoShopper \notin Shoppers
    BY TypeParts, ConversationAssumption DEF ConversationInv
<1>1. ASSUME NEW s \in Shoppers, active'[s] # NoSession
      PROVE  sessions'[active'[s]].owner = s
  <2>1. CASE active'[s] = active[s]
    <3>1. active[s] \in Sessions /\ sessions[active[s]].owner = s
        BY <1>0, <1>1, <2>1 DEF ActiveTyped, SessionsAreOwned
    <3> QED BY <1>0, <2>1, <3>1, SessionsGrow DEF Grow
  <2>2. ASSUME NEW r \in Runs, Claim(r)
        PROVE  sessions'[active'[s]].owner = s
    <3>1. job[r].session \in Sessions
        BY <2>2 DEF Claim, ConversationInv, RunsInSessions, AtWork, Exists, At
    <3>2. CASE s = job[r].shopper
        BY <1>0, <2>2, <3>1, <3>2 DEF Claim, ActiveTyped, SessionTyped, SessionRecords
    <3>3. CASE s # job[r].shopper
        BY <1>0, <2>1, <2>2, <3>3 DEF Claim, ActiveTyped
    <3> QED BY <3>2, <3>3
  <2>3. ASSUME NEW p \in Posts, PostActivates(p)
        PROVE  sessions'[active'[s]].owner = s
    <3>1. /\ job[p].shopper \in Shoppers /\ job[p].session \in Sessions
          /\ sessions[job[p].session].owner = job[p].shopper /\ UNCHANGED sessions
        BY <2>3 DEF PostActivates, ConversationInv, PostsReserved, ReservationsOwned, Reservation, At
    <3>2. CASE s = job[p].shopper
        BY <1>0, <2>3, <3>1, <3>2 DEF PostActivates, ActiveTyped
    <3>3. CASE s # job[p].shopper
        BY <1>0, <2>1, <2>3, <3>3 DEF PostActivates, ActiveTyped
    <3> QED BY <3>2, <3>3
  <2>4. ASSUME NEW n \in Clears, ClearEnds(n)
        PROVE  sessions'[active'[s]].owner = s
      BY <1>0, <1>1, <2>1, <2>4 DEF ClearEnds, ActiveTyped
  <2>5. ASSUME NEW p \in Processes, StepOf(p)
        PROVE  sessions'[active'[s]].owner = s
    <3>1. CASE p \in Runs /\ (Asks(p) \/ RunStep(p))
        BY <2>1, <2>2, <3>1
           DEF Asks, Prepare, RunStep, LoadContext, StartOwned, StartNew, LockSession, TakeNumber,
               InsertTurn, AttachLock, AttachRefused, PersistsNone, Answers, Persists
    <3>2. CASE p \in Posts /\ (Writes(p) \/ PostStep(p))
        BY <2>1, <2>3, <3>2 DEF Writes, PostBegins, PostStep, PostLocks, PostRepeats, PostOwned,
                                PostNew, PostTakes, PostSends
    <3>3. CASE p \in Clears /\ (ClearStep(p) \/ \E shopper \in Shoppers : ClearBegins(p, shopper))
        BY <2>1, <2>4, <3>3 DEF ClearStep, ClearLocks, ClearBegins
    <3>4. CASE Dies(p) \/ DeadlockVictim(p)
        BY <2>1, <3>4 DEF Dies, DeadlockVictim
    <3> QED BY <2>5, <3>1, <3>2, <3>3, <3>4 DEF StepOf
  <2> QED BY <2>1, <2>5, OneAtATime DEF conversationVars
<1>2. ASSUME NEW r \in Runs, job'[r].at \in {"running", "persisting"}, job'[r].shopper # NoShopper
      PROVE  sessions'[job'[r].session].owner = job'[r].shopper
  <2>0. r \in Processes /\ job[r] \in Jobs /\ r \notin Posts /\ r \notin Clears
      BY <1>0, ConversationAssumption DEF JobTyped, Processes
  <2>1. ASSUME job'[r].session = job[r].session, job'[r].shopper = job[r].shopper,
               job[r].at \in {"running", "persisting"}
        PROVE  sessions'[job'[r].session].owner = job'[r].shopper
    <3>1. job[r].session \in Sessions
        BY <2>1 DEF ConversationInv, RunsInSessions, AtWork, Exists
    <3>2. sessions[job[r].session].owner = job[r].shopper
        BY <1>2, <2>1 DEF SessionsAreOwned
    <3> QED BY <1>2, <2>1, <3>1, <3>2, SessionsGrow DEF Grow
  <2>2. CASE job'[r] = job[r]
      BY <1>2, <2>1, <2>2
  <2>3. CASE Claim(r)
    <3>1. job[r].session \in Sessions
        BY <2>3 DEF Claim, ConversationInv, RunsInSessions, AtWork, Exists, At
    <3> QED BY <1>0, <2>0, <2>3, <3>1 DEF Claim, Moves, JobTyped, Jobs, SessionTyped, SessionRecords
  <2>4. CASE \E stored \in BOOLEAN : Answers(r, stored)
      BY <1>0, <2>0, <2>1, <2>4 DEF Answers, Moves, JobTyped, Jobs, At
  <2>5. CASE StartNew(r) \/ InsertTurn(r)
    <3>1. job'[r].at = AfterStart(r) /\ job'[r].shopper = job[r].shopper
        BY <1>0, <2>5, TurnMade
    <3> QED BY <1>2, <3>1 DEF AfterStart
  <2>6. CASE Asks(r) \/ StartOwned(r) \/ LockSession(r) \/ TakeNumber(r) \/ AttachLock(r)
    <3>1. CASE Asks(r)
        BY <1>0, <1>2, <2>0, <3>1 DEF Asks, Prepare, JobTyped, Jobs
    <3>2. CASE StartOwned(r) \/ LockSession(r) \/ AttachLock(r)
        BY <1>0, <1>2, <2>0, <3>2 DEF StartOwned, LockSession, AttachLock, Moves, JobTyped, Jobs
    <3>3. CASE TakeNumber(r)
        BY <1>0, <1>2, <2>0, <3>3 DEF TakeNumber, JobTyped, Jobs
    <3> QED BY <2>6, <3>1, <3>2, <3>3
  <2>7. CASE LoadContext(r)
    <3>1. CASE Authorized(job[r].context)
        BY <1>0, <1>2, <2>0, <2>7, <3>1 DEF LoadContext, JobTyped, Jobs
    <3>2. CASE ~Authorized(job[r].context)
        BY <1>0, <1>2, <2>0, <2>7, <3>2 DEF LoadContext, Moves, JobTyped, Jobs
    <3> QED BY <3>1, <3>2
  <2>8. CASE \/ AttachRefused(r) \/ PersistsNone(r) \/ Dies(r) \/ DeadlockVictim(r)
             \/ \E scope, kept \in SUBSET Products : Persists(r, scope, kept)
    <3>1. Moves(r, "refused") \/ Moves(r, "failed") \/ Moves(r, "done")
        BY <2>8 DEF AttachRefused, PersistsNone, Dies, DeadlockVictim, Persists
    <3> QED BY <1>0, <1>2, <2>0, <3>1 DEF Moves, JobTyped, Jobs
  <2> QED BY <1>0, <2>0, <2>2, <2>3, <2>4, <2>5, <2>6, <2>7, <2>8, OneAtATime, OthersWait
          DEF StepOf, RunStep, conversationVars
<1> QED BY <1>1, <1>2 DEF SessionsAreOwned

-----------------------------------------------------------------------------
(* One event for each request.                                             *)

\* The message of a run goes to its session, once it has answered; the message of a
\* request to the session reserved for it.
EventsSent ==
    \A e \in events :
        /\ e.token \in Runs =>
              /\ job[e.token].at \in {"persisting", "done", "refused", "failed"}
              /\ e.session = job[e.token].session
        /\ \A s \in Shoppers, q \in Requests : e.token = <<s, q>> =>
              /\ reserved[s][q] # NoReservation
              /\ e.session = reserved[s][q].session

LEMMA EventsSentStep ==
    ASSUME ConversationInv, EventsSent, [ConversationNext]_conversationVars
    PROVE  EventsSent'
<1>0. JobTyped /\ EventsTyped /\ ReservedStays
    BY TypeParts, ReservedOnce DEF ConversationInv
<1> DEFINE Sent(e) ==
        /\ e.token \in Runs =>
              /\ job[e.token].at \in {"persisting", "done", "refused", "failed"}
              /\ e.session = job[e.token].session
        /\ \A s \in Shoppers, q \in Requests : e.token = <<s, q>> =>
              /\ reserved[s][q] # NoReservation
              /\ e.session = reserved[s][q].session
<1> SUFFICES ASSUME NEW e \in events'
             PROVE  Sent(e)'
    BY DEF EventsSent
<1>1. ASSUME NEW r \in Runs,
             job[r].at \in {"persisting", "done", "refused", "failed"}
      PROVE  /\ job'[r].at \in {"persisting", "done", "refused", "failed"}
             /\ job'[r].session = job[r].session
  <2>0. r \in Processes /\ job[r] \in Jobs /\ r \notin Posts /\ r \notin Clears
      BY <1>0, ConversationAssumption DEF JobTyped, Processes
  <2>1. CASE job'[r] = job[r]
      BY <1>1, <2>1
  <2>2. CASE StepOf(r)
    <3>1. Moves(r, "done") \/ Moves(r, "failed")
        BY <1>1, <2>0, <2>2
           DEF StepOf, Asks, Prepare, Begins, RunStep, LoadContext, StartOwned, StartNew,
               LockSession, TakeNumber, InsertTurn, AttachLock, AttachRefused, Claim,
               PersistsNone, Answers, Persists, At, Dies, DeadlockVictim
    <3> QED BY <1>0, <2>0, <3>1 DEF Moves, JobTyped, Jobs
  <2> QED BY <1>0, <2>0, <2>1, <2>2, OneAtATime, OthersWait DEF conversationVars
<1>2. CASE e \in events
  <2>1. e.token \in Runs =>
            /\ job'[e.token].at \in {"persisting", "done", "refused", "failed"}
            /\ e.session = job'[e.token].session
      BY <1>1, <1>2 DEF EventsSent
  <2>2. \A s \in Shoppers, q \in Requests : e.token = <<s, q>> =>
            /\ reserved'[s][q] # NoReservation
            /\ e.session = reserved'[s][q].session
      BY <1>0, <1>2 DEF EventsSent, ReservedStays
  <2> QED BY <2>1, <2>2
<1>3. ASSUME NEW r \in Runs, NEW stored \in BOOLEAN, Answers(r, stored)
      PROVE  Sent(e)'
  <2>1. e \in events \/ e = [token |-> r, session |-> job[r].session]
      BY <1>3 DEF Answers
  <2>2. CASE e = [token |-> r, session |-> job[r].session]
    <3>1. job'[r].at = "persisting" /\ job'[r].session = job[r].session
        BY <1>0, <1>3 DEF Answers, Moves, JobTyped, Jobs, Processes
    <3>2. \A s \in Shoppers, q \in Requests : e.token # <<s, q>>
        BY <2>2, ConversationAssumption
    <3> QED BY <2>2, <3>1, <3>2
  <2> QED BY <1>2, <2>1, <2>2
<1>4. ASSUME NEW p \in Posts, NEW stored \in BOOLEAN, NEW heard \in BOOLEAN,
             PostSends(p, stored, heard)
      PROVE  Sent(e)'
  <2>1. e \in events \/ e = [token |-> <<job[p].shopper, job[p].request>>,
                             session |-> job[p].session]
      BY <1>4 DEF PostSends
  <2>2. CASE e = [token |-> <<job[p].shopper, job[p].request>>, session |-> job[p].session]
    <3>1. /\ job[p].shopper \in Shoppers /\ job[p].request \in Requests
          /\ Reservation(p) # NoReservation /\ Reservation(p).session = job[p].session
          /\ UNCHANGED reserved
        BY <1>4 DEF PostSends, ConversationInv, PostsReserved, At
    <3>2. e.token \notin Runs
        BY <2>2, <3>1, ConversationAssumption
    <3> QED BY <2>2, <3>1, <3>2 DEF Reservation
  <2> QED BY <1>2, <2>1, <2>2
<1>5. ASSUME NEW p \in Processes, StepOf(p)
      PROVE  Sent(e)'
  <2>1. CASE p \in Runs /\ (Asks(p) \/ RunStep(p))
      BY <1>2, <1>3, <2>1
         DEF Asks, Prepare, RunStep, LoadContext, StartOwned, StartNew, LockSession, TakeNumber,
             InsertTurn, AttachLock, AttachRefused, Claim, PersistsNone, Persists
  <2>2. CASE p \in Posts /\ (Writes(p) \/ PostStep(p))
      BY <1>2, <1>4, <2>2 DEF Writes, PostBegins, PostStep, PostLocks, PostRepeats, PostOwned,
                              PostNew, PostTakes, PostActivates
  <2>3. CASE p \in Clears /\ (ClearStep(p) \/ \E shopper \in Shoppers : ClearBegins(p, shopper))
      BY <1>2, <2>3 DEF ClearStep, ClearLocks, ClearEnds, ClearBegins
  <2>4. CASE Dies(p) \/ DeadlockVictim(p)
      BY <1>2, <2>4 DEF Dies, DeadlockVictim
  <2> QED BY <1>5, <2>1, <2>2, <2>3, <2>4 DEF StepOf
<1> QED BY <1>2, <1>5, OneAtATime DEF conversationVars

LEMMA SentOnce ==
    ASSUME ConversationTypeOK, EventsSent
    PROVE  OneEventPerRequest
<1> SUFFICES ASSUME NEW e \in events, NEW f \in events, e.token = f.token
             PROVE  e = f
    BY DEF OneEventPerRequest
<1>1. /\ e \in [token : Runs \cup (Shoppers \X Requests), session : Sessions]
      /\ f \in [token : Runs \cup (Shoppers \X Requests), session : Sessions]
    BY TypeParts DEF EventsTyped
<1>2. e.session = f.session
  <2>1. CASE e.token \in Runs
      BY <2>1 DEF EventsSent
  <2>2. CASE e.token \in Shoppers \X Requests
    <3>1. PICK s \in Shoppers, q \in Requests : e.token = <<s, q>>
        BY <2>2
    <3> QED BY <3>1 DEF EventsSent
  <2> QED BY <1>1, <2>1, <2>2
<1> QED BY <1>1, <1>2

-----------------------------------------------------------------------------
(* The numbers of a session's turns.                                       *)

\* A run that numbers its turn holds its session's row, and the number it took is the
\* next one.
RowsHeld ==
    \A r \in Runs : job[r].at \in {"numbering", "inserting"} => lock[job[r].session] = r

NumberIsNext ==
    \A r \in Runs : job[r].at = "inserting" =>
        \A S \in Sessions : S = job[r].session =>
            job[r].number = Cardinality(TurnsOf(S)) + 1

NumberingInv == RowsHeld /\ NumberIsNext /\ TurnsAreNumbered

LEMMA TurnsOfFinite ==
    ASSUME NEW S
    PROVE  IsFiniteSet(TurnsOf(S)) /\ Cardinality(TurnsOf(S)) \in Nat
<1>1. TurnsOf(S) \subseteq Runs
    BY DEF TurnsOf
<1> QED BY <1>1, ConversationAssumption, FS_Subset, FS_CardinalityType

\* A step that gives a session no turn leaves its turns and their numbers.
LEMMA TurnsOfStep ==
    ASSUME ConversationInv, [ConversationNext]_conversationVars, NEW S \in Sessions
    PROVE  \/ \E r \in Runs : InsertTurn(r) /\ S = job[r].session
           \/ \E r \in Runs : StartNew(r) /\ S = Fresh
           \/ /\ TurnsOf(S)' = TurnsOf(S)
              /\ \A q \in TurnsOf(S) : turns'[q].number = turns[q].number
<1>0. TurnsTyped
    BY TypeParts DEF ConversationInv
<1>1. CASE UNCHANGED turns
    BY <1>1 DEF TurnsOf
<1>2. ASSUME NEW r \in Runs, InsertTurn(r), S # job[r].session
      PROVE  /\ TurnsOf(S)' = TurnsOf(S)
             /\ \A q \in TurnsOf(S) : turns'[q].number = turns[q].number
    BY <1>0, <1>2, ConversationAssumption
       DEF InsertTurn, At, ConversationInv, NoTurnYet, TurnsOf, TurnsTyped, Turns
<1>3. ASSUME NEW r \in Runs, StartNew(r), S # Fresh
      PROVE  /\ TurnsOf(S)' = TurnsOf(S)
             /\ \A q \in TurnsOf(S) : turns'[q].number = turns[q].number
    BY <1>0, <1>3, ConversationAssumption
       DEF StartNew, At, ConversationInv, NoTurnYet, TurnsOf, TurnsTyped, Turns
<1>4. ASSUME NEW r \in Runs, NEW scope \in SUBSET Products, NEW kept \in SUBSET Products,
             Persists(r, scope, kept)
      PROVE  /\ TurnsOf(S)' = TurnsOf(S)
             /\ \A q \in TurnsOf(S) : turns'[q].number = turns[q].number
    BY <1>0, <1>4 DEF Persists, TurnsOf, TurnsTyped, Turns
<1>5. ASSUME NEW p \in Processes, StepOf(p)
      PROVE  \/ \E r \in Runs : InsertTurn(r) /\ S = job[r].session
             \/ \E r \in Runs : StartNew(r) /\ S = Fresh
             \/ /\ TurnsOf(S)' = TurnsOf(S)
                /\ \A q \in TurnsOf(S) : turns'[q].number = turns[q].number
  <2>1. CASE p \in Runs /\ (Asks(p) \/ RunStep(p))
      BY <1>1, <1>2, <1>3, <1>4, <2>1
         DEF Asks, Prepare, RunStep, LoadContext, StartOwned, LockSession, TakeNumber, AttachLock,
             AttachRefused, Claim, PersistsNone, Answers
  <2>2. CASE p \in Posts /\ (Writes(p) \/ PostStep(p))
      BY <1>1, <2>2 DEF Writes, PostBegins, PostStep, PostLocks, PostRepeats, PostOwned, PostNew,
                        PostTakes, PostActivates, PostSends
  <2>3. CASE p \in Clears /\ (ClearStep(p) \/ \E shopper \in Shoppers : ClearBegins(p, shopper))
      BY <1>1, <2>3 DEF ClearStep, ClearLocks, ClearEnds, ClearBegins
  <2>4. CASE Dies(p) \/ DeadlockVictim(p)
      BY <1>1, <2>4 DEF Dies, DeadlockVictim
  <2> QED BY <1>5, <2>1, <2>2, <2>3, <2>4 DEF StepOf
<1> QED BY <1>1, <1>5, OneAtATime DEF conversationVars

\* A new session has no turns.
LEMMA FreshHasNoTurns ==
    ASSUME ConversationInv, RoomForSession
    PROVE  TurnsOf(Fresh) = {}
<1>1. Fresh \in Sessions /\ ~sessions[Fresh].exists /\ Fresh # NoSession
    BY FreshIsNew, ConversationAssumption
<1> QED BY <1>1 DEF TurnsOf, ConversationInv, TurnsExist, Exists

LEMMA RowsHeldStep ==
    ASSUME ConversationInv, RowsHeld, [ConversationNext]_conversationVars
    PROVE  RowsHeld'
<1>0. JobTyped /\ LockTyped
    BY TypeParts DEF ConversationInv
<1> SUFFICES ASSUME NEW r \in Runs, job'[r].at \in {"numbering", "inserting"}
             PROVE  lock'[job'[r].session] = r
    BY DEF RowsHeld
<1>1. /\ r \in Processes /\ job[r] \in Jobs /\ r \notin Posts /\ r \notin Clears
      /\ Nobody \notin Processes
    BY <1>0, ConversationAssumption DEF JobTyped, Processes
<1>2. CASE UNCHANGED conversationVars
    BY <1>2 DEF conversationVars, RowsHeld
<1>3. ASSUME NEW p \in Processes \ {r}, StepOf(p)
      PROVE  lock'[job'[r].session] = r
  <2>1. job'[r] = job[r]
      BY <1>0, <1>1, <1>3, OthersWait
  <2>2. job[r].session \in Rows /\ lock[job[r].session] = r
      BY <2>1 DEF RowsHeld, ConversationInv, RunsInSessions, AtWork, Exists, Rows
  <2>3. UNCHANGED lock \/ lock' = Released(p) \/ \E row : Locks(p, row)
    <3>1. CASE p \in Runs /\ (Asks(p) \/ RunStep(p))
        BY <3>1 DEF Asks, Prepare, RunStep, LoadContext, StartOwned, StartNew, LockSession,
                    TakeNumber, InsertTurn, AttachLock, AttachRefused, Claim, PersistsNone,
                    Answers, Persists
    <3>2. CASE p \in Posts /\ (Writes(p) \/ PostStep(p))
        BY <3>2 DEF Writes, PostBegins, PostStep, PostLocks, PostRepeats, PostOwned, PostNew,
                    Reserve, PostTakes, PostActivates, PostSends
    <3>3. CASE p \in Clears /\ (ClearStep(p) \/ \E shopper \in Shoppers : ClearBegins(p, shopper))
        BY <3>3 DEF ClearStep, ClearLocks, ClearEnds, ClearBegins
    <3>4. CASE Dies(p) \/ DeadlockVictim(p)
        BY <3>4 DEF Dies, DeadlockVictim
    <3> QED BY <1>3, <3>1, <3>2, <3>3, <3>4 DEF StepOf
  <2>4. lock'[job[r].session] = r
      BY <1>0, <1>1, <1>3, <2>2, <2>3 DEF Released, Locks, Free, LockTyped
  <2> QED BY <2>1, <2>4
<1>4. CASE StepOf(r)
  <2>1. CASE LockSession(r)
    <3>1. job'[r].session = job[r].session /\ job[r].session \in Rows
        BY <1>0, <1>1, <2>1 DEF LockSession, Moves, JobTyped, Jobs, At, ConversationInv,
                                RunsInSessions, AtWork, Exists, Rows
    <3> QED BY <1>0, <2>1, <3>1 DEF LockSession, Locks, LockTyped
  <2>2. CASE TakeNumber(r)
    <3>1. job'[r].session = job[r].session /\ job[r].at = "numbering" /\ UNCHANGED lock
        BY <1>0, <1>1, <2>2 DEF TakeNumber, JobTyped, Jobs, At
    <3> QED BY <3>1 DEF RowsHeld
  <2>3. CASE Asks(r)
      BY <1>0, <1>1, <2>3 DEF Asks, Prepare, JobTyped, Jobs
  <2>4. CASE LoadContext(r)
    <3>1. CASE Authorized(job[r].context)
        BY <1>0, <1>1, <2>4, <3>1 DEF LoadContext, JobTyped, Jobs
    <3>2. CASE ~Authorized(job[r].context)
        BY <1>0, <1>1, <2>4, <3>2 DEF LoadContext, Moves, JobTyped, Jobs
    <3> QED BY <3>1, <3>2
  <2>5. CASE StartOwned(r) \/ AttachLock(r) \/ Claim(r) \/ \E stored \in BOOLEAN : Answers(r, stored)
    <3>1. job'[r].at \in {"locking", "claiming", "running", "persisting"}
        BY <1>0, <1>1, <2>5 DEF StartOwned, AttachLock, Claim, Answers, Moves, JobTyped, Jobs
    <3> QED BY <3>1
  <2>6. CASE StartNew(r) \/ InsertTurn(r)
    <3>1. job'[r].at = AfterStart(r)
        BY <1>0, <2>6, TurnMade
    <3> QED BY <3>1 DEF AfterStart
  <2>7. CASE \/ AttachRefused(r) \/ PersistsNone(r) \/ Dies(r) \/ DeadlockVictim(r)
             \/ \E scope, kept \in SUBSET Products : Persists(r, scope, kept)
    <3>1. Moves(r, "refused") \/ Moves(r, "failed") \/ Moves(r, "done")
        BY <2>7 DEF AttachRefused, PersistsNone, Dies, DeadlockVictim, Persists
    <3> QED BY <1>0, <1>1, <3>1 DEF Moves, JobTyped, Jobs
  <2> QED BY <1>1, <1>4, <2>1, <2>2, <2>3, <2>4, <2>5, <2>6, <2>7 DEF StepOf, RunStep
<1> QED BY <1>2, <1>3, <1>4, OneAtATime

LEMMA NumberIsNextStep ==
    ASSUME ConversationInv, NumberingInv, [ConversationNext]_conversationVars
    PROVE  NumberIsNext'
<1>0. JobTyped /\ TurnsTyped
    BY TypeParts DEF ConversationInv
<1> SUFFICES ASSUME NEW r \in Runs, NEW S \in Sessions, job'[r].at = "inserting",
                    S = job'[r].session
             PROVE  job'[r].number = Cardinality(TurnsOf(S)') + 1
    BY DEF NumberIsNext
<1>1. r \in Processes /\ job[r] \in Jobs /\ r \notin Posts /\ r \notin Clears
    BY <1>0, ConversationAssumption DEF JobTyped, Processes
<1>2. CASE job'[r] = job[r]
  <2>1. job[r].number = Cardinality(TurnsOf(S)) + 1 /\ lock[S] = r /\ Exists(S)
      BY <1>2 DEF NumberingInv, NumberIsNext, RowsHeld, ConversationInv, RunsInSessions, AtWork
  <2>2. ASSUME NEW q \in Runs, InsertTurn(q), S = job[q].session
        PROVE  FALSE
    <3>1. q = r
        BY <2>1, <2>2 DEF InsertTurn, At, NumberingInv, RowsHeld
    <3>2. job'[r].at = AfterStart(r)
        BY <1>0, <1>1, <2>2, <3>1 DEF InsertTurn, Moves, JobTyped, Jobs
    <3> QED BY <3>2 DEF AfterStart
  <2>3. ASSUME NEW q \in Runs, StartNew(q), S = Fresh
        PROVE  FALSE
      BY <2>1, <2>3, FreshIsNew DEF StartNew, Exists
  <2> QED BY <1>2, <2>1, <2>2, <2>3, TurnsOfStep
<1>3. CASE TakeNumber(r)
  <2>1. PICK n \in 1..(Cardinality(Runs) + 1) :
            /\ \A q \in TurnsOf(job[r].session) : turns[q].number < n
            /\ n = 1 \/ \E q \in TurnsOf(job[r].session) : turns[q].number = n - 1
            /\ job' = [job EXCEPT ![r] = [@ EXCEPT !.at = "inserting", !.number = n]]
      BY <1>3 DEF TakeNumber
  <2>2. n \in Nat /\ n >= 1
      BY NumbersAreNatural, FS_CardinalityType, ConversationAssumption
  <2>3. job'[r].number = n /\ S = job[r].session /\ TurnsOf(S)' = TurnsOf(S)
      BY <1>0, <1>1, <1>3, <2>1 DEF JobTyped, Jobs, TakeNumber, TurnsOf
  <2>4. /\ {turns[q].number : q \in TurnsOf(S)} = 1..Cardinality(TurnsOf(S))
        /\ Cardinality(TurnsOf(S)) \in Nat
      BY TurnsOfFinite DEF NumberingInv, TurnsAreNumbered
  <2>5. n > Cardinality(TurnsOf(S))
    <3>1. CASE Cardinality(TurnsOf(S)) = 0
        BY <2>2, <3>1
    <3>2. CASE Cardinality(TurnsOf(S)) # 0
      <4>1. Cardinality(TurnsOf(S)) \in 1..Cardinality(TurnsOf(S))
          BY <2>4, <3>2
      <4> QED BY <2>1, <2>3, <2>4, <4>1
    <3> QED BY <3>1, <3>2
  <2>6. n - 1 <= Cardinality(TurnsOf(S))
    <3>1. CASE n = 1
        BY <2>4, <3>1
    <3>2. CASE n # 1
      <4>1. n - 1 \in 1..Cardinality(TurnsOf(S))
          BY <2>1, <2>3, <2>4, <3>2
      <4> QED BY <2>2, <2>4, <4>1
    <3> QED BY <3>1, <3>2
  <2> QED BY <2>2, <2>3, <2>4, <2>5, <2>6
<1>4. CASE StepOf(r) /\ ~TakeNumber(r)
  <2>1. CASE Asks(r)
      BY <1>0, <1>1, <2>1 DEF Asks, Prepare, JobTyped, Jobs
  <2>2. CASE LoadContext(r)
    <3>1. CASE Authorized(job[r].context)
        BY <1>0, <1>1, <2>2, <3>1 DEF LoadContext, JobTyped, Jobs
    <3>2. CASE ~Authorized(job[r].context)
        BY <1>0, <1>1, <2>2, <3>2 DEF LoadContext, Moves, JobTyped, Jobs
    <3> QED BY <3>1, <3>2
  <2>3. CASE \/ StartOwned(r) \/ LockSession(r) \/ AttachLock(r) \/ Claim(r)
             \/ \E stored \in BOOLEAN : Answers(r, stored)
    <3>1. job'[r].at \in {"locking", "numbering", "claiming", "running", "persisting"}
        BY <1>0, <1>1, <2>3 DEF StartOwned, LockSession, AttachLock, Claim, Answers, Moves,
                                JobTyped, Jobs
    <3> QED BY <3>1
  <2>4. CASE StartNew(r) \/ InsertTurn(r)
    <3>1. job'[r].at = AfterStart(r)
        BY <1>0, <2>4, TurnMade
    <3> QED BY <3>1 DEF AfterStart
  <2>5. CASE \/ AttachRefused(r) \/ PersistsNone(r) \/ Dies(r) \/ DeadlockVictim(r)
             \/ \E scope, kept \in SUBSET Products : Persists(r, scope, kept)
    <3>1. Moves(r, "refused") \/ Moves(r, "failed") \/ Moves(r, "done")
        BY <2>5 DEF AttachRefused, PersistsNone, Dies, DeadlockVictim, Persists
    <3> QED BY <1>0, <1>1, <3>1 DEF Moves, JobTyped, Jobs
  <2> QED BY <1>1, <1>4, <2>1, <2>2, <2>3, <2>4, <2>5 DEF StepOf, RunStep
<1> QED BY <1>0, <1>1, <1>2, <1>3, <1>4, OneAtATime, OthersWait DEF conversationVars

LEMMA TurnsAreNumberedStep ==
    ASSUME ConversationInv, NumberingInv, [ConversationNext]_conversationVars
    PROVE  TurnsAreNumbered'
<1>0. TurnsTyped /\ JobTyped
    BY TypeParts DEF ConversationInv
<1> SUFFICES ASSUME NEW S \in Sessions
             PROVE  /\ \A r, q \in TurnsOf(S)' : turns'[r].number = turns'[q].number => r = q
                    /\ {turns'[r].number : r \in TurnsOf(S)'} = 1..Cardinality(TurnsOf(S)')
    BY DEF TurnsAreNumbered
<1>1. /\ \A r, q \in TurnsOf(S) : turns[r].number = turns[q].number => r = q
      /\ {turns[r].number : r \in TurnsOf(S)} = 1..Cardinality(TurnsOf(S))
      /\ IsFiniteSet(TurnsOf(S)) /\ Cardinality(TurnsOf(S)) \in Nat
    BY TurnsOfFinite DEF NumberingInv, TurnsAreNumbered
<1>2. ASSUME NEW r \in Runs, turns[r].session = NoSession, NEW n,
             n = Cardinality(TurnsOf(S)) + 1,
             turns' = [turns EXCEPT ![r] = [NoTurn EXCEPT !.session = S, !.number = n]]
      PROVE  /\ \A o, q \in TurnsOf(S)' : turns'[o].number = turns'[q].number => o = q
             /\ {turns'[q].number : q \in TurnsOf(S)'} = 1..Cardinality(TurnsOf(S)')
  <2>1. TurnsOf(S)' = TurnsOf(S) \cup {r} /\ r \notin TurnsOf(S)
      BY <1>0, <1>2, ConversationAssumption DEF TurnsOf, TurnsTyped, NoTurn
  <2>2. Cardinality(TurnsOf(S)') = n
      BY <1>1, <1>2, <2>1, FS_AddElement
  <2>3. turns'[r].number = n /\ \A q \in TurnsOf(S) : turns'[q].number = turns[q].number
      BY <1>0, <1>2, <2>1 DEF TurnsOf, TurnsTyped, NoTurn
  <2>4. \A q \in TurnsOf(S) : turns[q].number \in 1..Cardinality(TurnsOf(S))
      BY <1>1
  <2>5. \A q \in TurnsOf(S) : turns'[q].number # n
      BY <1>1, <1>2, <2>3, <2>4
  <2>6. 1..n = (1..Cardinality(TurnsOf(S))) \cup {n}
      BY <1>1, <1>2
  <2>7. {turns'[q].number : q \in TurnsOf(S)'} = {turns[q].number : q \in TurnsOf(S)} \cup {n}
      BY <2>1, <2>3
  <2> QED BY <1>1, <2>1, <2>2, <2>3, <2>5, <2>6, <2>7
<1>3. ASSUME NEW r \in Runs, InsertTurn(r), S = job[r].session
      PROVE  /\ \A o, q \in TurnsOf(S)' : turns'[o].number = turns'[q].number => o = q
             /\ {turns'[q].number : q \in TurnsOf(S)'} = 1..Cardinality(TurnsOf(S)')
  <2>1. job[r].number = Cardinality(TurnsOf(S)) + 1 /\ turns[r].session = NoSession
      BY <1>3 DEF InsertTurn, At, NumberingInv, NumberIsNext, ConversationInv, NoTurnYet
  <2>2. turns' = [turns EXCEPT ![r] = [NoTurn EXCEPT !.session = S, !.number = job[r].number]]
      BY <1>3 DEF InsertTurn
  <2> QED BY <1>2, <2>1, <2>2
<1>4. ASSUME NEW r \in Runs, StartNew(r), S = Fresh
      PROVE  /\ \A o, q \in TurnsOf(S)' : turns'[o].number = turns'[q].number => o = q
             /\ {turns'[q].number : q \in TurnsOf(S)'} = 1..Cardinality(TurnsOf(S)')
  <2>1. TurnsOf(S) = {} /\ turns[r].session = NoSession
      BY <1>4, FreshHasNoTurns DEF StartNew, At, ConversationInv, NoTurnYet
  <2>2. Cardinality(TurnsOf(S)) + 1 = 1
      BY <2>1, FS_EmptySet
  <2>3. turns' = [turns EXCEPT ![r] = [NoTurn EXCEPT !.session = S, !.number = 1]]
      BY <1>4 DEF StartNew
  <2> QED BY <1>2, <2>1, <2>2, <2>3
<1>5. CASE /\ TurnsOf(S)' = TurnsOf(S)
           /\ \A q \in TurnsOf(S) : turns'[q].number = turns[q].number
    BY <1>1, <1>5
<1> QED BY <1>3, <1>4, <1>5, TurnsOfStep

-----------------------------------------------------------------------------
(* The start.                                                              *)

LEMMA ConversationStarts ==
    ASSUME ConversationInit
    PROVE  ConversationInv /\ SessionsAreOwned /\ EventsSent /\ NumberingInv
<1> USE ConversationAssumption
<1>0. PICK owner \in Shoppers \cup {NoShopper} :
        /\ sessions = [S \in Sessions |->
              [exists |-> \E r \in Earlier : SessionOf[r] = S, ended |-> FALSE,
               owner |-> IF \E r \in Earlier : SessionOf[r] = S THEN owner ELSE NoShopper]]
        /\ active \in [Shoppers -> Sessions \cup {NoSession}]
        /\ \A s \in Shoppers :
              IF s = owner /\ Earlier # {} THEN \E r \in Earlier : active[s] = SessionOf[r]
              ELSE active[s] = NoSession
    BY DEF ConversationInit
<1>1. /\ job = [p \in Processes |-> IF p \in Earlier THEN [Idle EXCEPT !.at = "done"] ELSE Idle]
      /\ turns = [r \in Runs |->
                  IF r \in Earlier
                  THEN [session |-> SessionOf[r], number |-> 1, answered |-> TRUE,
                        scope |-> Products, saved |-> Products]
                  ELSE NoTurn]
      /\ events = {} /\ lock = [row \in Rows |-> Nobody]
      /\ reserved = [s \in Shoppers |-> [q \in Requests |-> NoReservation]]
    BY DEF ConversationInit
<1>2. \A p \in Processes : job[p].at \in {"idle", "done"}
    BY <1>1 DEF Idle
<1>3. ConversationTypeOK
  <2>1. JobTyped
      BY <1>1 DEF JobTyped, Jobs, Idle, Places, Finished
  <2>2. TurnsTyped
      BY <1>1 DEF TurnsTyped, Turns, NoTurn
  <2>3. SessionTyped /\ ActiveTyped
      BY <1>0 DEF SessionTyped, SessionRecords, ActiveTyped
  <2>4. ReservedTyped /\ EventsTyped /\ LockTyped
      BY <1>1 DEF ReservedTyped, Reservations, NoReservation, EventsTyped, LockTyped
  <2> QED BY <2>1, <2>2, <2>3, <2>4, TypeParts
<1>4. OwnedExist
    BY <1>0 DEF OwnedExist
<1>5. TurnsExist
    BY <1>0, <1>1 DEF TurnsExist, Exists, NoTurn
<1>6. /\ RunsInSessions /\ PostsReserved /\ ClearsKnown /\ RowsHeld /\ NumberIsNext
    BY <1>2 DEF RunsInSessions, PostsReserved, ClearsKnown, RowsHeld, NumberIsNext, AtWork,
                Processes
<1>7. ReservationsOwned
    BY <1>1 DEF ReservationsOwned
<1>8. NoTurnYet
  <2>1. ASSUME NEW r \in Runs, job[r].at \in {"idle", "starting", "locking", "numbering", "inserting"}
        PROVE  turns[r].session = NoSession
    <3>1. r \notin Earlier
        BY <1>1, <2>1 DEF Idle, Processes
    <3> QED BY <1>1, <3>1 DEF NoTurn
  <2> QED BY <2>1 DEF NoTurnYet
<1>9. SessionsAreOwned
  <2>1. \A s \in Shoppers : active[s] # NoSession => sessions[active[s]].owner = s
      BY <1>0
  <2> QED BY <1>2, <2>1 DEF SessionsAreOwned, Processes
<1>10. EventsSent
    BY <1>1 DEF EventsSent
<1>11. TurnsAreNumbered
  <2> SUFFICES ASSUME NEW S \in Sessions
               PROVE  /\ \A r, q \in TurnsOf(S) : turns[r].number = turns[q].number => r = q
                      /\ {turns[r].number : r \in TurnsOf(S)} = 1..Cardinality(TurnsOf(S))
      BY DEF TurnsAreNumbered
  <2>1. TurnsOf(S) = {r \in Earlier : SessionOf[r] = S}
      BY <1>1 DEF TurnsOf, NoTurn
  <2>2. CASE TurnsOf(S) = {}
      BY <2>2, FS_EmptySet
  <2>3. ASSUME NEW r \in TurnsOf(S)
        PROVE  /\ \A o, q \in TurnsOf(S) : turns[o].number = turns[q].number => o = q
               /\ {turns[q].number : q \in TurnsOf(S)} = 1..Cardinality(TurnsOf(S))
    <3>1. TurnsOf(S) = {r}
        BY <2>1
    <3>2. Cardinality(TurnsOf(S)) = 1
        BY <3>1, FS_Singleton
    <3>3. turns[r].number = 1
        BY <1>1, <2>1
    <3>4. 1..1 = {1}
        OBVIOUS
    <3> QED BY <3>1, <3>2, <3>3, <3>4
  <2> QED BY <2>2, <2>3
<1> QED BY <1>3, <1>4, <1>5, <1>6, <1>7, <1>8, <1>9, <1>10, <1>11
        DEF ConversationInv, NumberingInv

-----------------------------------------------------------------------------
(* The theorems.                                                           *)

LEMMA ConversationInvStep ==
    ASSUME ConversationInv, [ConversationNext]_conversationVars
    PROVE  ConversationInv'
BY StepTyped, OwnedExistStep, TurnsExistStep, RunsInSessionsStep, ReservationsOwnedStep,
   PostsReservedStep, ClearsKnownStep, NoTurnYetStep DEF ConversationInv

\* Sessions that exist, the rows held and what each request has reserved stay in order.
THEOREM ConversationInvariant == ConversationSpec => []ConversationInv
<1>1. ConversationInit => ConversationInv
    BY ConversationStarts
<1>2. ConversationInv /\ [ConversationNext]_conversationVars => ConversationInv'
    BY ConversationInvStep
<1> QED BY <1>1, <1>2, PTL DEF ConversationSpec

\* The variables of a conversation keep their types (all of the model's actions).
THEOREM ConversationTypeCorrect == ConversationSpec => []ConversationTypeOK
<1>1. ConversationInv => ConversationTypeOK
    BY DEF ConversationInv
<1> QED BY <1>1, ConversationInvariant, PTL

\* A session keeps its first owner: of any number of browsers that follow up on an
\* unowned turn one claims it (attach_run under the session's row).
THEOREM OwnersNeverChange == ConversationSpec => OwnersStay
<1>1. ConversationInv /\ [ConversationNext]_conversationVars =>
        [\A S \in Sessions : sessions[S].owner # NoShopper =>
            sessions'[S].owner = sessions[S].owner]_conversationVars
    BY SessionsGrow DEF Grow
<1> QED BY <1>1, ConversationInvariant, PTL DEF ConversationSpec, OwnersStay

\* A browser's active session is its own, and so is the one its run asks in
\* (prepare_request, attach_run and add_event).
THEOREM ActiveSessionIsOwn == ConversationSpec => []SessionsAreOwned
<1>1. ConversationInit => SessionsAreOwned
    BY ConversationStarts
<1>2. ConversationInv /\ SessionsAreOwned /\ [ConversationNext]_conversationVars => SessionsAreOwned'
    BY SessionsAreOwnedStep
<1> QED BY <1>1, <1>2, ConversationInvariant, PTL DEF ConversationSpec

\* However often a message is sent under a request id, whichever replies were lost, one
\* event comes of it (add_event's request row and its client token).
THEOREM RequestsSendOneEvent == ConversationSpec => []OneEventPerRequest
<1>1. ConversationInit => EventsSent
    BY ConversationStarts
<1>2. ConversationInv /\ EventsSent /\ [ConversationNext]_conversationVars => EventsSent'
    BY EventsSentStep
<1>3. ConversationInv /\ EventsSent => OneEventPerRequest
    BY SentOnce DEF ConversationInv
<1> QED BY <1>1, <1>2, <1>3, ConversationInvariant, PTL DEF ConversationSpec

\* The turns of a session are numbered 1, 2, ... without a gap or a repeat, for any
\* number of runs at once (start_run under the session's row).
THEOREM NumbersHaveNoGap == ConversationSpec => []TurnsAreNumbered
<1>1. ConversationInit => NumberingInv
    BY ConversationStarts
<1>2. ConversationInv /\ NumberingInv /\ [ConversationNext]_conversationVars => NumberingInv'
    BY RowsHeldStep, NumberIsNextStep, TurnsAreNumberedStep DEF NumberingInv
<1>3. NumberingInv => TurnsAreNumbered
    BY DEF NumberingInv
<1> QED BY <1>1, <1>2, <1>3, ConversationInvariant, PTL DEF ConversationSpec

-----------------------------------------------------------------------------
(* A session's turns, read by number, are its history.                     *)

\* A run that works on its answer has its turn, and one that is answered is done.
AnsweredOnce ==
    \A r \in Runs :
        /\ job[r].at \in {"attaching", "claiming", "running", "persisting"} =>
              turns[r].session # NoSession
        /\ turns[r].answered => job[r].at = "done" /\ turns[r].session # NoSession

LEMMA OthersTurns ==
    ASSUME TurnsTyped, NEW p \in Processes, StepOf(p), NEW r \in Runs \ {p}
    PROVE  turns'[r] = turns[r]
<1>1. CASE p \in Runs /\ (Asks(p) \/ RunStep(p))
    BY <1>1 DEF Asks, Prepare, RunStep, LoadContext, StartOwned, LockSession, TakeNumber,
                InsertTurn, StartNew, AttachLock, AttachRefused, Claim, PersistsNone, Answers,
                Persists, TurnsTyped
<1>2. CASE p \in Posts /\ (Writes(p) \/ PostStep(p))
    BY <1>2 DEF Writes, PostBegins, PostStep, PostLocks, PostRepeats, PostOwned, PostNew,
                PostTakes, PostActivates, PostSends
<1>3. CASE p \in Clears /\ (ClearStep(p) \/ \E shopper \in Shoppers : ClearBegins(p, shopper))
    BY <1>3 DEF ClearStep, ClearLocks, ClearEnds, ClearBegins
<1>4. CASE Dies(p) \/ DeadlockVictim(p)
    BY <1>4 DEF Dies, DeadlockVictim
<1> QED BY <1>1, <1>2, <1>3, <1>4 DEF StepOf

LEMMA DoneWaitForNobody ==
    ASSUME NEW p \in Processes, Deadlocked(p)
    PROVE  job[p].at # "done"
<1> SUFFICES ASSUME job[p].at = "done"
             PROVE  FALSE
    OBVIOUS
<1>1. Awaits(p) = {}
    BY DEF Awaits, At
<1> QED BY <1>1 DEF Deadlocked, Blockers

LEMMA AnsweredOnceStep ==
    ASSUME ConversationInv, AnsweredOnce, [ConversationNext]_conversationVars
    PROVE  AnsweredOnce'
<1>0. JobTyped /\ TurnsTyped
    BY TypeParts DEF ConversationInv
<1>1. CASE UNCHANGED conversationVars
    BY <1>1 DEF conversationVars, AnsweredOnce
<1> SUFFICES ASSUME NEW p \in Processes, StepOf(p), NEW r \in Runs
             PROVE  /\ job'[r].at \in {"attaching", "claiming", "running", "persisting"} =>
                          turns'[r].session # NoSession
                    /\ turns'[r].answered => job'[r].at = "done" /\ turns'[r].session # NoSession
    BY <1>1, OneAtATime DEF AnsweredOnce
<1>2. r \in Processes /\ job[r] \in Jobs /\ turns[r] \in Turns /\ r \notin Posts /\ r \notin Clears
    BY <1>0, ConversationAssumption DEF JobTyped, TurnsTyped, Processes
<1>3. CASE r # p
    BY <1>0, <1>2, <1>3, OthersTurns, OthersWait DEF AnsweredOnce
<1>4. CASE r = p
  <2>1. CASE StartNew(r) \/ InsertTurn(r)
    <3>1. turns'[r].session # NoSession /\ ~turns'[r].answered
      <4>1. CASE StartNew(r)
          BY <1>0, <4>1, FreshIsNew, ConversationAssumption DEF StartNew, TurnsTyped, NoTurn
      <4>2. CASE InsertTurn(r)
        <5>1. job[r].session \in Sessions
            BY <4>2 DEF InsertTurn, At, ConversationInv, RunsInSessions, AtWork, Exists
        <5> QED BY <1>0, <4>2, <5>1, ConversationAssumption DEF InsertTurn, TurnsTyped, NoTurn
      <4> QED BY <2>1, <4>1, <4>2
    <3> QED BY <3>1
  <2>2. ASSUME NEW scope \in SUBSET Products, NEW kept \in SUBSET Products,
               Persists(r, scope, kept)
        PROVE  job'[r].at = "done" /\ turns'[r].session # NoSession
      BY <1>0, <1>2, <2>2
         DEF Persists, At, Moves, AnsweredOnce, JobTyped, Jobs, TurnsTyped, Turns
  <2>3. CASE /\ UNCHANGED turns /\ job[r].at # "done"
             /\ job'[r].at \in {"attaching", "claiming", "running", "persisting"} =>
                   job[r].at \in {"attaching", "claiming", "running", "persisting"}
      BY <2>3 DEF AnsweredOnce
  <2>4. CASE Asks(r) \/ LoadContext(r) \/ StartOwned(r) \/ LockSession(r) \/ TakeNumber(r)
    <3>1. UNCHANGED turns /\ job[r].at # "done"
        BY <2>4 DEF Asks, Begins, Prepare, LoadContext, StartOwned, LockSession, TakeNumber, At
    <3>2. CASE Asks(r) \/ StartOwned(r) \/ LockSession(r) \/ TakeNumber(r)
      <4>1. job'[r].at \in {"starting", "locking", "numbering", "inserting"}
        <5>1. CASE Asks(r)
            BY <1>0, <1>2, <5>1 DEF Asks, Prepare, JobTyped, Jobs
        <5>2. CASE TakeNumber(r)
            BY <1>0, <1>2, <5>2 DEF TakeNumber, JobTyped, Jobs
        <5>3. CASE StartOwned(r) \/ LockSession(r)
            BY <1>0, <1>2, <5>3 DEF StartOwned, LockSession, Moves, JobTyped, Jobs
        <5> QED BY <3>2, <5>1, <5>2, <5>3
      <4> QED BY <2>3, <3>1, <4>1
    <3>3. CASE LoadContext(r)
      <4>1. job'[r].at \in {"locking", "refused"}
        <5>1. CASE Authorized(job[r].context)
            BY <1>0, <1>2, <3>3, <5>1 DEF LoadContext, JobTyped, Jobs
        <5>2. CASE ~Authorized(job[r].context)
            BY <1>0, <1>2, <3>3, <5>2 DEF LoadContext, Moves, JobTyped, Jobs
        <5> QED BY <5>1, <5>2
      <4> QED BY <2>3, <3>1, <4>1
    <3> QED BY <2>4, <3>2, <3>3
  <2>5. CASE \/ AttachLock(r) \/ AttachRefused(r) \/ Claim(r) \/ PersistsNone(r)
             \/ \E stored \in BOOLEAN : Answers(r, stored)
      BY <1>0, <1>2, <2>3, <2>5
         DEF AttachLock, AttachRefused, Claim, PersistsNone, Answers, Moves, At, JobTyped, Jobs
  <2>6. CASE Dies(r) \/ DeadlockVictim(r)
      BY <1>0, <1>2, <2>3, <2>6, DoneWaitForNobody
         DEF Dies, DeadlockVictim, Finished, Moves, JobTyped, Jobs
  <2> QED BY <1>2, <1>4, <2>1, <2>2, <2>4, <2>5, <2>6 DEF StepOf, RunStep
<1> QED BY <1>3, <1>4

\* The list of a session holds each of its turns, at its number.
LEMMA HistoryListed ==
    ASSUME TurnsAreNumbered, TurnsTyped, NEW S \in Sessions
    PROVE  /\ Histories[S] \in [1..Cardinality(TurnsOf(S)) -> TurnsOf(S)]
           /\ \A n \in 1..Cardinality(TurnsOf(S)) : turns[Histories[S][n]].number = n
           /\ \A r \in TurnsOf(S) :
                /\ turns[r].number \in 1..Cardinality(TurnsOf(S))
                /\ Histories[S][turns[r].number] = r
<1> DEFINE last == Cardinality(TurnsOf(S))
<1>1. /\ \A r, q \in TurnsOf(S) : turns[r].number = turns[q].number => r = q
      /\ {turns[r].number : r \in TurnsOf(S)} = 1..last
    BY DEF TurnsAreNumbered
<1>2. Histories[S] = [n \in 1..last |-> TurnAt(S, n)]
    BY DEF Histories
<1>3. ASSUME NEW n \in 1..last
      PROVE  TurnAt(S, n) \in TurnsOf(S) /\ turns[TurnAt(S, n)].number = n
  <2> DEFINE there == {r \in TurnsOf(S) : turns[r].number = n}
  <2>1. there # {}
      BY <1>1
  <2>2. TurnAt(S, n) = CHOOSE r \in there : TRUE
      BY <2>1 DEF TurnAt
  <2>3. TurnAt(S, n) \in there
      BY <2>1, <2>2
  <2> QED BY <2>3
<1>4. \A r \in TurnsOf(S) : turns[r].number \in 1..last
    BY <1>1
<1> QED BY <1>1, <1>2, <1>3, <1>4

LEMMA HistoryWellFormed ==
    ASSUME TurnsAreNumbered, TurnsTyped, NEW S \in Sessions
    PROVE  /\ Histories[S] \in Seq(Runs) /\ IsInjective(Histories[S])
           /\ Len(Histories[S]) = Cardinality(TurnsOf(S))
           /\ Range(Histories[S]) = TurnsOf(S)
<1> DEFINE last == Cardinality(TurnsOf(S))
<1>1. last \in Nat /\ TurnsOf(S) \subseteq Runs
    BY TurnsOfFinite DEF TurnsOf
<1>2. /\ Histories[S] \in [1..last -> TurnsOf(S)] /\ DOMAIN Histories[S] = 1..last
      /\ \A n \in 1..last : turns[Histories[S][n]].number = n
      /\ \A r \in TurnsOf(S) : turns[r].number \in 1..last /\ Histories[S][turns[r].number] = r
    BY HistoryListed
<1>3. Histories[S] \in Seq(Runs) /\ Len(Histories[S]) = last
  <2>1. Histories[S] \in [1..last -> Runs]
      BY <1>1, <1>2
  <2> QED BY <1>1, <1>2, <2>1
<1>4. IsInjective(Histories[S])
    BY <1>2 DEF IsInjective
<1>5. Range(Histories[S]) = TurnsOf(S)
  <2>1. \A n \in 1..last : Histories[S][n] \in TurnsOf(S)
      BY <1>2
  <2>2. \A r \in TurnsOf(S) : \E n \in DOMAIN Histories[S] : Histories[S][n] = r
      BY <1>2
  <2> HIDE DEF last
  <2> QED BY <1>2, <2>1, <2>2 DEF Range
<1> QED BY <1>3, <1>4, <1>5

LEMMA HistoryAsked ==
    ASSUME TurnsAreNumbered, TurnsTyped
    PROVE  /\ \A S \in Sessions : Kept!AskedIn(S) = TurnsOf(S)
           /\ Kept!Asked = {r \in Runs : turns[r].session \in Sessions}
<1>1. \A S \in Sessions : Kept!AskedIn(S) = TurnsOf(S)
    BY HistoryWellFormed DEF Kept!AskedIn, Kept!Range, Range
<1> QED BY <1>1 DEF Kept!Asked, TurnsOf

LEMMA HistoryStarts ==
    ASSUME TurnsAreNumbered, TurnsTyped, AnsweredOnce
    PROVE  Kept!HistoryInit
<1>1. Histories \in [Sessions -> Seq(Runs)]
    BY HistoryWellFormed DEF Histories
<1>2. \A S, T \in Sessions : S # T => Kept!AskedIn(S) \cap Kept!AskedIn(T) = {}
    BY HistoryAsked DEF TurnsOf
<1>3. \A S \in Sessions : IsInjective(Histories[S])
    BY HistoryWellFormed
<1>4. RecordsKept \in [Runs -> {{}} \cup {{record} : record \in Records}]
    BY DEF RecordsKept, Records, TurnsTyped, Turns
<1>5. \A r \in Runs \ Kept!Asked : RecordsKept[r] = {}
    BY HistoryAsked DEF RecordsKept, AnsweredOnce, TurnsTyped, Turns
<1> QED BY <1>1, <1>2, <1>3, <1>4, <1>5 DEF Kept!HistoryInit, Kept!IsInjective, IsInjective

\* A history that gets no turn is the same list.
LEMMA HistoryStays ==
    ASSUME NEW S \in Sessions, TurnsOf(S)' = TurnsOf(S),
           \A q \in TurnsOf(S) : turns'[q].number = turns[q].number
    PROVE  Histories'[S] = Histories[S]
<1> DEFINE last == Cardinality(TurnsOf(S))
<1>1. \A n \in 1..last : TurnAt(S, n)' = TurnAt(S, n)
  <2> TAKE n \in 1..last
  <2> DEFINE pick(T) == IF T = {} THEN NoRun ELSE CHOOSE r \in T : TRUE
  <2>1. {r \in TurnsOf(S)' : turns'[r].number = n} = {r \in TurnsOf(S) : turns[r].number = n}
      OBVIOUS
  <2>2. TurnAt(S, n) = pick({r \in TurnsOf(S) : turns[r].number = n})
      BY DEF TurnAt
  <2>3. TurnAt(S, n)' = pick({r \in TurnsOf(S)' : turns'[r].number = n})
      BY DEF TurnAt
  <2> HIDE DEF pick
  <2> QED BY <2>1, <2>2, <2>3
<1>2. Histories'[S] = [n \in 1..last |-> TurnAt(S, n)']
    BY DEF Histories
<1> QED BY <1>1, <1>2 DEF Histories

\* Each history holds each of its session's turns, at its number.
ReadBack ==
    \A S \in Sessions :
        /\ Histories[S] \in Seq(Runs) /\ Len(Histories[S]) = Cardinality(TurnsOf(S))
        /\ \A n \in 1..Cardinality(TurnsOf(S)) :
              Histories[S][n] \in TurnsOf(S) /\ turns[Histories[S][n]].number = n
        /\ \A r \in TurnsOf(S) : Histories[S][turns[r].number] = r

LEMMA HistoriesReadNext ==
    TurnsAreNumbered' /\ TurnsTyped' => ReadBack'
<1>1. TurnsAreNumbered /\ TurnsTyped => ReadBack
    BY HistoryListed, HistoryWellFormed DEF ReadBack
<1> QED BY <1>1, PTL

\* A run that gets the next number is added at the end.
LEMMA HistoryGrows ==
    ASSUME TurnsAreNumbered, TurnsTyped, TurnsAreNumbered', TurnsTyped',
           NEW S \in Sessions, NEW r \in Runs, turns[r].session = NoSession,
           turns' = [turns EXCEPT ![r] = [NoTurn EXCEPT
                        !.session = S, !.number = Cardinality(TurnsOf(S)) + 1]]
    PROVE  Histories'[S] = Append(Histories[S], r)
<1> DEFINE last == Cardinality(TurnsOf(S))
<1>1. last \in Nat /\ IsFiniteSet(TurnsOf(S))
    BY TurnsOfFinite
<1>2. TurnsOf(S)' = TurnsOf(S) \cup {r} /\ r \notin TurnsOf(S)
    BY ConversationAssumption DEF TurnsOf, TurnsTyped, NoTurn
<1>3. Cardinality(TurnsOf(S)') = last + 1
    BY <1>1, <1>2, FS_AddElement
<1>4. turns'[r].number = last + 1 /\ \A q \in TurnsOf(S) : turns'[q].number = turns[q].number
    BY <1>2 DEF TurnsOf, TurnsTyped, NoTurn
<1>5. /\ Histories'[S] \in Seq(Runs) /\ Len(Histories'[S]) = last + 1
      /\ \A n \in 1..(last + 1) : Histories'[S][n] \in TurnsOf(S)'
      /\ \A n \in 1..(last + 1) : turns'[Histories'[S][n]].number = n
      /\ \A q \in TurnsOf(S)' : Histories'[S][turns'[q].number] = q
    BY <1>3, HistoriesReadNext DEF ReadBack
<1>6. /\ Histories[S] \in Seq(Runs) /\ Len(Histories[S]) = last
      /\ \A n \in 1..last : Histories[S][n] \in TurnsOf(S) /\ turns[Histories[S][n]].number = n
    BY HistoryListed, HistoryWellFormed
<1> HIDE DEF last
<1>7. Histories'[S][last + 1] = r
    BY <1>2, <1>4, <1>5
<1>8. ASSUME NEW n \in 1..last
      PROVE  Histories'[S][n] = Histories[S][n]
  <2>1. Histories[S][n] \in TurnsOf(S)' /\ turns'[Histories[S][n]].number = n
      BY <1>2, <1>4, <1>6
  <2> QED BY <1>5, <2>1
<1>9. /\ Append(Histories[S], r) \in Seq(Runs) /\ Len(Append(Histories[S], r)) = last + 1
      /\ Append(Histories[S], r)[last + 1] = r
      /\ \A n \in 1..last : Append(Histories[S], r)[n] = Histories[S][n]
    BY <1>1, <1>6
<1>10. \A n \in 1..(last + 1) : Histories'[S][n] = Append(Histories[S], r)[n]
  <2> TAKE n \in 1..(last + 1)
  <2>1. n \in 1..last \/ n = last + 1
      BY <1>1
  <2> QED BY <1>7, <1>8, <1>9, <2>1
<1> QED BY <1>5, <1>9, <1>10, SeqEqual

\* To give a run the next number of a session is to ask in that session.
LEMMA NumberedIsAsked ==
    ASSUME TurnsAreNumbered, TurnsTyped, TurnsAreNumbered', TurnsTyped',
           NEW S \in Sessions, NEW r \in Runs, turns[r].session = NoSession, ~turns[r].answered,
           turns' = [turns EXCEPT ![r] = [NoTurn EXCEPT
                        !.session = S, !.number = Cardinality(TurnsOf(S)) + 1]]
    PROVE  Kept!Ask(r, S)
<1>1. r \notin Kept!Asked
    BY HistoryAsked, ConversationAssumption
<1>2. Histories'[S] = Append(Histories[S], r)
    BY HistoryGrows
<1>3. ASSUME NEW T \in Sessions \ {S}
      PROVE  Histories'[T] = Histories[T]
  <2>1. /\ TurnsOf(T)' = TurnsOf(T)
        /\ \A q \in TurnsOf(T) : turns'[q].number = turns[q].number
      BY ConversationAssumption DEF TurnsOf, TurnsTyped, NoTurn
  <2> QED BY <2>1, HistoryStays
<1>4. Histories' = [Histories EXCEPT ![S] = Append(@, r)]
  <2>1. Histories' = [T \in Sessions |-> Histories'[T]]
      BY DEF Histories
  <2>2. Histories = [T \in Sessions |-> Histories[T]]
      BY DEF Histories
  <2> QED BY <1>2, <1>3, <2>1, <2>2
<1>5. RecordsKept' = RecordsKept
    BY DEF RecordsKept, TurnsTyped, NoTurn
<1> QED BY <1>1, <1>4, <1>5 DEF Kept!Ask

\* To save an answer is to answer the question where it stands.
LEMMA SavedIsAnswered ==
    ASSUME TurnsAreNumbered, TurnsTyped, AnsweredOnce, NEW r \in Runs,
           NEW scope \in SUBSET Products, NEW kept \in SUBSET Products,
           Persists(r, scope, kept)
    PROVE  Kept!Answer(r, [scope |-> scope, saved |-> kept])
<1>1. /\ job[r].at = "persisting"
      /\ turns' = [turns EXCEPT ![r] = [@ EXCEPT !.answered = TRUE, !.scope = scope,
                                                 !.saved = kept]]
    BY DEF Persists, At
<1>2. turns[r].session \in Sessions /\ ~turns[r].answered
    BY <1>1 DEF AnsweredOnce, TurnsTyped, Turns
<1>3. r \in Kept!Asked
    BY <1>2, HistoryAsked
<1>4. ASSUME NEW S \in Sessions
      PROVE  Histories'[S] = Histories[S]
  <2>1. /\ TurnsOf(S)' = TurnsOf(S)
        /\ \A q \in TurnsOf(S) : turns'[q].number = turns[q].number
      BY <1>1 DEF TurnsOf, TurnsTyped, Turns
  <2> QED BY <2>1, HistoryStays
<1>5. Histories' = Histories
    BY <1>4 DEF Histories
<1>6. RecordsKept[r] = {}
    BY <1>2 DEF RecordsKept
<1>7. RecordsKept' = [RecordsKept EXCEPT ![r] = {[scope |-> scope, saved |-> kept]}]
    BY <1>1 DEF RecordsKept, TurnsTyped, Turns
<1> QED BY <1>3, <1>5, <1>6, <1>7 DEF Kept!Answer

\* Every step of a conversation asks, answers, or leaves what was said as it was.
LEMMA HistoryStep ==
    ASSUME ConversationInv, NumberingInv, AnsweredOnce, ConversationInv', NumberingInv',
           [ConversationNext]_conversationVars
    PROVE  [Kept!HistoryNext]_Kept!historyVars
<1>0. TurnsTyped /\ TurnsTyped' /\ TurnsAreNumbered /\ TurnsAreNumbered'
    BY TypeParts, TypePartsNext DEF ConversationInv, NumberingInv
<1>1. CASE UNCHANGED turns
  <2>1. \A S \in Sessions :
            /\ TurnsOf(S)' = TurnsOf(S)
            /\ \A q \in TurnsOf(S) : turns'[q].number = turns[q].number
      BY <1>1 DEF TurnsOf
  <2>2. \A S \in Sessions : Histories'[S] = Histories[S]
      BY <2>1, HistoryStays
  <2>3. Histories' = Histories
      BY <2>2 DEF Histories
  <2>4. RecordsKept' = RecordsKept
      BY <1>1 DEF RecordsKept
  <2> QED BY <2>3, <2>4 DEF Kept!historyVars
<1>2. ASSUME NEW r \in Runs, InsertTurn(r)
      PROVE  Kept!HistoryNext
  <2>1. job[r].session \in Sessions /\ job[r].at = "inserting"
      BY <1>2 DEF InsertTurn, At, ConversationInv, RunsInSessions, AtWork, Exists
  <2>2. job[r].number = Cardinality(TurnsOf(job[r].session)) + 1
      BY <2>1 DEF NumberingInv, NumberIsNext
  <2>3. turns[r].session = NoSession /\ ~turns[r].answered
      BY <2>1 DEF ConversationInv, NoTurnYet, AnsweredOnce
  <2>4. turns' = [turns EXCEPT ![r] = [NoTurn EXCEPT
                     !.session = job[r].session,
                     !.number = Cardinality(TurnsOf(job[r].session)) + 1]]
      BY <1>2, <2>2 DEF InsertTurn
  <2>5. Kept!Ask(r, job[r].session)
      BY <1>0, <2>1, <2>3, <2>4, NumberedIsAsked
  <2> QED BY <2>1, <2>5 DEF Kept!HistoryNext
<1>3. ASSUME NEW r \in Runs, StartNew(r)
      PROVE  Kept!HistoryNext
  <2>1. /\ RoomForSession /\ Fresh \in Sessions /\ turns[r].session = NoSession
        /\ ~turns[r].answered
      BY <1>3, FreshIsNew DEF StartNew, At, ConversationInv, NoTurnYet, AnsweredOnce
  <2>2. Cardinality(TurnsOf(Fresh)) + 1 = 1
      BY <2>1, FreshHasNoTurns, FS_EmptySet
  <2>3. turns' = [turns EXCEPT ![r] = [NoTurn EXCEPT
                     !.session = Fresh, !.number = Cardinality(TurnsOf(Fresh)) + 1]]
      BY <1>3, <2>2 DEF StartNew
  <2>4. Kept!Ask(r, Fresh)
      BY <1>0, <2>1, <2>3, NumberedIsAsked
  <2> QED BY <2>1, <2>4 DEF Kept!HistoryNext
<1>4. ASSUME NEW r \in Runs, NEW scope \in SUBSET Products, NEW kept \in SUBSET Products,
             Persists(r, scope, kept)
      PROVE  Kept!HistoryNext
  <2>1. Kept!Answer(r, [scope |-> scope, saved |-> kept])
      BY <1>0, <1>4, SavedIsAnswered
  <2> QED BY <2>1 DEF Kept!HistoryNext, Records
<1>5. ASSUME NEW p \in Processes, StepOf(p)
      PROVE  UNCHANGED turns \/ Kept!HistoryNext
  <2>1. CASE p \in Runs /\ (Asks(p) \/ RunStep(p))
      BY <1>2, <1>3, <1>4, <2>1
         DEF Asks, Prepare, RunStep, LoadContext, StartOwned, LockSession, TakeNumber, AttachLock,
             AttachRefused, Claim, PersistsNone, Answers
  <2>2. CASE p \in Posts /\ (Writes(p) \/ PostStep(p))
      BY <2>2 DEF Writes, PostBegins, PostStep, PostLocks, PostRepeats, PostOwned, PostNew,
                  PostTakes, PostActivates, PostSends
  <2>3. CASE p \in Clears /\ (ClearStep(p) \/ \E shopper \in Shoppers : ClearBegins(p, shopper))
      BY <2>3 DEF ClearStep, ClearLocks, ClearEnds, ClearBegins
  <2>4. CASE Dies(p) \/ DeadlockVictim(p)
      BY <2>4 DEF Dies, DeadlockVictim
  <2> QED BY <1>5, <2>1, <2>2, <2>3, <2>4 DEF StepOf
<1> QED BY <1>1, <1>5, OneAtATime DEF conversationVars

\* A turn is numbered and inserted in several steps of a transaction, beside others;
\* to whoever reads the session's turns a question was added at the end of the list, at
\* once, and its answer was written once (start_run, persist_completed_run).
THEOREM ConversationKeepsHistory == ConversationSpec => KeepsHistory
<1>1. ConversationInit => ConversationInv /\ NumberingInv
    BY ConversationStarts
<1>2. ConversationInit => AnsweredOnce
  <2> SUFFICES ASSUME ConversationInit, NEW r \in Runs
               PROVE  /\ job[r].at \in {"attaching", "claiming", "running", "persisting"} =>
                            turns[r].session # NoSession
                      /\ turns[r].answered => job[r].at = "done" /\ turns[r].session # NoSession
      BY DEF AnsweredOnce
  <2>1. /\ job[r] = IF r \in Earlier THEN [Idle EXCEPT !.at = "done"] ELSE Idle
        /\ r \notin Earlier => turns[r] = NoTurn
        /\ r \in Earlier => turns[r].session = SessionOf[r]
      BY DEF ConversationInit, Processes
  <2> QED BY <2>1, ConversationAssumption DEF Idle, NoTurn
<1>3. ConversationInv /\ TurnsAreNumbered /\ AnsweredOnce => Kept!HistoryInit
    BY TypeParts, HistoryStarts DEF ConversationInv
<1>4. ConversationInv /\ NumberingInv /\ [ConversationNext]_conversationVars => NumberingInv'
    BY RowsHeldStep, NumberIsNextStep, TurnsAreNumberedStep DEF NumberingInv
<1>5. ConversationInv /\ AnsweredOnce /\ [ConversationNext]_conversationVars => AnsweredOnce'
    BY AnsweredOnceStep
<1>6. ConversationInv /\ NumberingInv /\ AnsweredOnce /\ ConversationInv' /\ NumberingInv'
        /\ [ConversationNext]_conversationVars => [Kept!HistoryNext]_Kept!historyVars
    BY HistoryStep
<1>7. NumberingInv => TurnsAreNumbered
    BY DEF NumberingInv
<1> QED BY <1>1, <1>2, <1>3, <1>4, <1>5, <1>6, <1>7, ConversationInvariant, PTL
        DEF ConversationSpec, KeepsHistory, Kept!HistorySpec

-----------------------------------------------------------------------------
(***************************************************************************)
(* The same conversations on the shopper's side: the two hooks that stream *)
(* an answer (AskPanel, PipelineRun), for any number of questions,         *)
(* sessions and search events.                                             *)
(***************************************************************************)

(* The playground.                                                         *)

WorkPlaces == {"none", "carrying", "streaming", "waiting", "searching", "ended"}

WorkTypeOK ==
    /\ ticket \in 0..Tickets
    /\ work \in [1..Tickets -> [at : WorkPlaces, reads : SUBSET SearchEvents]]
    /\ receipts \in [SearchEvents -> {"unlisted", "asked", "read", "failed"}]
    /\ inFlight \in BOOLEAN /\ running \in BOOLEAN /\ reading \in BOOLEAN
    /\ saved \in SearchEvents \cup {NoEvent} /\ carried \in SearchEvents \cup {NoEvent}

\* The latest version awaits the receipt of event.
AwaitsReceipt(event) ==
    \/ reading /\ work[ticket].at = "carrying" /\ event = carried
    \/ /\ running /\ work[ticket].at \in {"streaming", "waiting"}
       /\ event \in work[ticket].reads

\* A receipt still asked for is awaited by the latest version, which stops running or
\* reading only when nothing is.
AwaitedReceipts ==
    \A e \in SearchEvents : receipts[e] = "asked" => ticket > 0 /\ AwaitsReceipt(e)

BusyVersion ==
    ticket > 0 /\ work[ticket].at \in {"streaming", "waiting", "searching"} => running

PipelineInv == WorkTypeOK /\ AwaitedReceipts /\ BusyVersion /\ inFlight = running

LEMMA PipelineStarts == PipelineInit => PipelineInv
<1> SUFFICES ASSUME PipelineInit PROVE PipelineInv
    OBVIOUS
<1> USE PipelineAssumption DEF PipelineInit, NotListed
<1>1. ticket \in 0..Tickets /\ saved = NoEvent /\ carried = NoEvent
    BY SMT
<1>2. inFlight \in BOOLEAN /\ running \in BOOLEAN /\ reading \in BOOLEAN /\ inFlight = running
    BY Zenon
<1>3. work \in [1..Tickets -> [at : WorkPlaces, reads : SUBSET SearchEvents]]
    BY SMT DEF WorkPlaces
<1>4. receipts \in [SearchEvents -> {"unlisted", "asked", "read", "failed"}]
    BY SMT
<1>5. AwaitedReceipts
    BY SMT DEF AwaitedReceipts
<1>6. BusyVersion
    BY SMT DEF BusyVersion
<1> QED BY <1>1, <1>2, <1>3, <1>4, <1>5, <1>6 DEF PipelineInv, WorkTypeOK

\* A request that is shown or begins lists nothing it does not await.
LEMMA BeginKeeps ==
    ASSUME PipelineInv, NEW place \in WorkPlaces, NEW reads \in SUBSET SearchEvents,
           Begin(place, reads),
           receipts' \in [SearchEvents -> {"unlisted", "asked", "read", "failed"}],
           saved' \in SearchEvents \cup {NoEvent}, carried' \in SearchEvents \cup {NoEvent},
           running' \in BOOLEAN, reading' \in BOOLEAN, inFlight' = running',
           place \in {"streaming", "waiting", "searching"} => running',
           \A e \in SearchEvents : receipts'[e] = "asked" =>
               place = "carrying" /\ reading' /\ e = carried'
    PROVE  PipelineInv'
<1>1. ticket \in 0..Tickets /\ ticket' = ticket + 1 /\ ticket' \in 1..Tickets
    BY PipelineAssumption DEF PipelineInv, WorkTypeOK, Begin
<1>2. /\ work' \in [1..Tickets -> [at : WorkPlaces, reads : SUBSET SearchEvents]]
      /\ work'[ticket'].at = place
    BY <1>1 DEF PipelineInv, WorkTypeOK, Begin
<1>3. WorkTypeOK'
    BY <1>1, <1>2 DEF PipelineInv, WorkTypeOK
<1>4. AwaitedReceipts' /\ BusyVersion'
    BY <1>1, <1>2 DEF AwaitedReceipts, AwaitsReceipt, BusyVersion, WorkPlaces
<1> QED BY <1>3, <1>4 DEF PipelineInv

LEMMA ListedReceipts ==
    ASSUME NEW event, NEW how \in {"asked", "read"}
    PROVE  /\ Listed(event, how) \in [SearchEvents -> {"unlisted", "asked", "read", "failed"}]
           /\ \A e \in SearchEvents : Listed(event, how)[e] = "asked" =>
                e = event /\ how = "asked"
BY DEF Listed

LEMMA ShowKeeps ==
    ASSUME PipelineInv, NEW event \in SearchEvents \cup {NoEvent}, Show(event)
    PROVE  PipelineInv'
<1>1. /\ inFlight' = FALSE /\ running' = FALSE /\ reading' = (event # NoEvent)
      /\ receipts' = Listed(event, "asked") /\ saved' = NoEvent /\ carried' = event
    BY DEF Show
<1>2. /\ receipts' \in [SearchEvents -> {"unlisted", "asked", "read", "failed"}]
      /\ \A e \in SearchEvents : receipts'[e] = "asked" => e = event
    BY <1>1, ListedReceipts
<1>3. CASE event = NoEvent
  <2>1. Begin("ended", {})
      BY <1>3 DEF Show
  <2> QED BY <1>1, <1>2, <1>3, <2>1, BeginKeeps, PipelineAssumption DEF WorkPlaces
<1>4. CASE event # NoEvent
  <2>1. Begin("carrying", {event}) /\ {event} \in SUBSET SearchEvents
      BY <1>4 DEF Show
  <2> QED BY <1>1, <1>2, <1>4, <2>1, BeginKeeps DEF WorkPlaces
<1> QED BY <1>3, <1>4

LEMMA PipelineSteps == PipelineInv /\ [PipelineNext]_pipelineVars => PipelineInv'
<1> SUFFICES ASSUME PipelineInv, [PipelineNext]_pipelineVars PROVE PipelineInv'
    OBVIOUS
<1> USE PipelineAssumption DEF PipelineInv, WorkTypeOK, AwaitedReceipts, AwaitsReceipt, BusyVersion,
        WorkPlaces, Settled
<1>1. ASSUME NEW event \in SearchEvents \cup {NoEvent}, Show(event) PROVE PipelineInv'
    BY <1>1, ShowKeeps
<1>2. CASE Restore
    BY <1>2, ShowKeeps DEF Restore
<1>3. CASE Play
  <2>1. /\ inFlight' = TRUE /\ running' = TRUE /\ reading' = FALSE
        /\ receipts' = Listed(saved, "read") /\ saved' = saved /\ carried' = carried
        /\ Begin("streaming", {})
    BY <1>3 DEF Play
  <2>2. /\ receipts' \in [SearchEvents -> {"unlisted", "asked", "read", "failed"}]
        /\ \A e \in SearchEvents : receipts'[e] # "asked"
    BY <2>1, ListedReceipts
  <2> QED BY <2>1, <2>2, BeginKeeps
<1>4. CASE Search
    BY <1>4, BeginKeeps DEF Search, NotListed
<1>5. ASSUME NEW t \in 1..Tickets, StreamEnds(t) PROVE PipelineInv'
    BY <1>5 DEF StreamEnds
<1>6. ASSUME NEW t \in 1..Tickets, Closes(t) PROVE PipelineInv'
  <2>1. /\ work[t].at = "waiting" /\ work[t].reads = {}
        /\ work' = [work EXCEPT ![t].at = "ended"]
        /\ UNCHANGED <<ticket, reading, receipts, saved, carried>>
    BY <1>6 DEF Closes
  <2>2. CASE t = ticket
    <3>1. running' = FALSE /\ inFlight' = FALSE
      BY <1>6, <2>2 DEF Closes, Latest
    <3>2. WorkTypeOK' /\ inFlight' = running'
      BY <2>1, <3>1
    <3>3. \A e \in SearchEvents : receipts[e] # "asked"
      BY <2>1, <2>2
    <3>4. AwaitedReceipts' /\ BusyVersion'
      BY <2>1, <2>2, <3>3
    <3> QED BY <3>2, <3>4
  <2>3. CASE t # ticket
    <3>1. running' = running /\ inFlight' = inFlight
      BY <1>6, <2>3 DEF Closes, Latest
    <3> QED BY <2>1, <2>3, <3>1
  <2> QED BY <2>2, <2>3
<1>7. ASSUME NEW t \in 1..Tickets, NEW how \in Settled, CarriedRead(t, how)
      PROVE  PipelineInv'
  <2>1. /\ work[t].at = "carrying"
        /\ work' = [work EXCEPT ![t] = [at |-> "ended", reads |-> {}]]
        /\ UNCHANGED <<ticket, inFlight, running, carried>>
    BY <1>7 DEF CarriedRead
  <2>2. CASE t = ticket
    <3>1. /\ receipts' = [receipts EXCEPT ![carried] = how]
          /\ saved' = IF how = "read" THEN carried ELSE saved
          /\ reading' = FALSE
      BY <1>7, <2>2 DEF CarriedRead, Latest
    <3>2. receipts' \in [SearchEvents -> {"unlisted", "asked", "read", "failed"}]
      BY <3>1
    <3>3. WorkTypeOK' /\ inFlight' = running'
      BY <2>1, <3>1, <3>2
    <3>4. \A e \in SearchEvents : receipts'[e] # "asked"
      BY <2>1, <2>2, <3>1
    <3>5. AwaitedReceipts' /\ BusyVersion'
      BY <2>1, <2>2, <3>4
    <3> QED BY <3>3, <3>5
  <2>3. CASE t # ticket
    <3>1. UNCHANGED <<receipts, saved, reading>>
      BY <1>7, <2>3 DEF CarriedRead, Latest
    <3> QED BY <2>1, <2>3, <3>1
  <2> QED BY <2>2, <2>3
<1>8. ASSUME NEW t \in 1..Tickets, NEW event \in SearchEvents, Follow(t, event)
      PROVE  PipelineInv'
    BY <1>8 DEF Follow, Latest
<1>9. ASSUME NEW t \in 1..Tickets, NEW event \in SearchEvents, NEW how \in Settled,
             ReceiptRead(t, event, how)
      PROVE  PipelineInv'
    BY <1>9 DEF ReceiptRead, Latest
<1>10. ASSUME NEW t \in 1..Tickets, NEW event \in SearchEvents, NEW found \in BOOLEAN,
              SearchReturns(t, event, found)
       PROVE  PipelineInv'
  <2>1. /\ work[t].at = "searching"
        /\ work' = [work EXCEPT ![t].at = "ended"]
        /\ UNCHANGED <<ticket, reading, carried>>
    BY <1>10 DEF SearchReturns
  <2>2. CASE t = ticket
    <3>1. running' = FALSE /\ inFlight' = FALSE
      BY <1>10, <2>2 DEF SearchReturns, Latest
    <3>2. \A e \in SearchEvents : receipts[e] # "asked"
      BY <2>1, <2>2
    <3>3. /\ receipts' \in [SearchEvents -> {"unlisted", "asked", "read", "failed"}]
          /\ saved' \in SearchEvents \cup {NoEvent}
          /\ \A e \in SearchEvents : receipts'[e] # "asked"
      <4>1. CASE found
        BY <1>10, <2>2, <4>1, ListedReceipts DEF SearchReturns, Latest
      <4>2. CASE ~found
        BY <1>10, <2>2, <3>2, <4>2 DEF SearchReturns, Latest
      <4> QED BY <4>1, <4>2
    <3>4. WorkTypeOK' /\ inFlight' = running'
      BY <2>1, <3>1, <3>3
    <3>5. AwaitedReceipts' /\ BusyVersion'
      BY <2>1, <2>2, <3>3
    <3> QED BY <3>4, <3>5
  <2>3. CASE t # ticket
    <3>1. UNCHANGED <<running, inFlight, receipts, saved>>
      BY <1>10, <2>3 DEF SearchReturns, Latest
    <3> QED BY <2>1, <2>3, <3>1
  <2> QED BY <2>2, <2>3
<1>11. CASE UNCHANGED pipelineVars
    BY <1>11 DEF pipelineVars
<1> QED
    BY <1>1, <1>2, <1>3, <1>4, <1>5, <1>6, <1>7, <1>8, <1>9, <1>10, <1>11 DEF PipelineNext

\* The playground settles whatever was replaced and however late the reads of it return:
\* a page at rest takes the next request and lists no receipt that is still awaited.
THEOREM PlaygroundSettles == PipelineSpec => []RestIsSettled
<1>1. ASSUME PipelineInv PROVE RestIsSettled
  <2>1. inFlight = running
    BY <1>1 DEF PipelineInv
  <2>2. ASSUME ~running, ~reading, NEW e \in SearchEvents PROVE receipts[e] # "asked"
    BY <1>1, <2>2, Zenon DEF PipelineInv, AwaitedReceipts, AwaitsReceipt
  <2> QED BY <2>1, <2>2 DEF RestIsSettled
<1> QED BY <1>1, PipelineStarts, PipelineSteps, PTL DEF PipelineSpec

-----------------------------------------------------------------------------
(* The conversation panel.                                                 *)

Ids == SessionIds \cup {NoSessionId}

TurnRecord ==
    [id : Asked, loading : BOOLEAN, completed : BOOLEAN, cancelled : BOOLEAN,
     failed : BOOLEAN, got : 0..4, session : Ids, recommends : BOOLEAN]

StreamPlaces == {"none", "identity", "streaming", "closing", "ended"}

PanelTypeOK ==
    /\ mounted \in BOOLEAN /\ version \in 0..Versions /\ live \in 0..Versions
    /\ sessionId \in Ids
    /\ dialog \in Seq(TurnRecord) /\ drawn \in Seq(TurnRecord)
    /\ stream \in [Asked -> [at : StreamPlaces, named : Ids, context : Ids, home : Ids,
                             got : 0..4]]

\* A turn of the current version that ended has no stream left to speak.
EndedWithStream ==
    \A k \in DOMAIN dialog :
        /\ dialog[k].id <= version
        /\ dialog[k].id = version /\ ~dialog[k].loading => stream[version].at = "ended"

StreamsInStep ==
    \A v \in Asked :
        /\ v > version => stream[v].at = "none"
        /\ stream[v].at \in {"none", "identity"} => stream[v].got = 0
        /\ stream[v].at = "streaming" => stream[v].got \in 0..3

\* What is drawn may lag behind the turns, but never shows another conversation.
OneSession ==
    mounted =>
        /\ \A k \in DOMAIN dialog : dialog[k].completed =>
                dialog[k].session = sessionId /\ sessionId # NoSessionId
        /\ \A k \in DOMAIN drawn : drawn[k].completed =>
                drawn[k].session = sessionId /\ sessionId # NoSessionId
        /\ sessionId # NoSessionId => \E k \in DOMAIN dialog : dialog[k].completed

FollowsItsSession ==
    \A v \in Asked : stream[v].context # NoSessionId => stream[v].named = stream[v].context

\* The stream of the current version still names the session of the panel, and is
\* answered in it.
CurrentStream ==
    mounted /\ version \in Asked /\ stream[version].at \in {"identity", "streaming"} =>
        /\ stream[version].named = sessionId
        /\ \E k \in DOMAIN dialog : dialog[k].id = version
        /\ \A k \in DOMAIN dialog : dialog[k].id = version => ~dialog[k].completed
        /\ stream[version].at = "streaming" =>
            /\ stream[version].home \in SessionIds /\ stream[version].got \in 0..3
            /\ stream[version].named # NoSessionId =>
                    stream[version].home = stream[version].named
            /\ stream[version].got >= 2 => \A k \in DOMAIN dialog :
                    dialog[k].id = version => dialog[k].session = stream[version].home

PanelInv ==
    /\ PanelTypeOK /\ EndedWithStream /\ StreamsInStep /\ OneSession
    /\ FollowsItsSession /\ CurrentStream

LEMMA SeqOfTurns ==
    ASSUME NEW S, NEW n \in Nat, NEW f \in [1..n -> S]
    PROVE  f \in Seq(S) /\ Len(f) = n /\ DOMAIN f = 1..n
<1>1. f \in Seq(S)
    BY SeqDef
<1> QED BY <1>1, LenProperties

\* A list mapped turn by turn is a list of turns.
LEMMA MappedTurns ==
    ASSUME NEW list \in Seq(TurnRecord), NEW f \in [DOMAIN list -> TurnRecord]
    PROVE  f \in Seq(TurnRecord) /\ DOMAIN f = DOMAIN list
<1>1. DOMAIN list = 1..Len(list) /\ Len(list) \in Nat
    BY LenProperties
<1> QED BY <1>1, SeqOfTurns

LEMMA TurnsListed ==
    ASSUME NEW list \in Seq(TurnRecord), NEW k \in DOMAIN list
    PROVE  list[k] \in TurnRecord
BY ElementOfSeq, LenProperties

LEMMA PanelStarts == PanelInit => PanelInv
<1> SUFFICES ASSUME PanelInit PROVE PanelInv
    OBVIOUS
<1> USE PanelAssumption DEF PanelInit
<1>1. /\ mounted \in BOOLEAN /\ version = 0 /\ live = 0 /\ sessionId = NoSessionId
      /\ dialog = << >> /\ drawn = << >> /\ << >> \in Seq(TurnRecord) /\ DOMAIN << >> = {}
    BY EmptySeq
<1>2. stream \in [Asked -> [at : StreamPlaces, named : Ids, context : Ids, home : Ids,
                            got : 0..4]]
    BY DEF NotAsked, StreamPlaces, Ids
<1>3. \A v \in Asked :
        stream[v].at = "none" /\ stream[v].got = 0 /\ stream[v].context = NoSessionId
    BY DEF NotAsked
<1>4. PanelTypeOK
    BY <1>1, <1>2 DEF PanelTypeOK, Ids
<1>5. EndedWithStream /\ StreamsInStep /\ OneSession /\ FollowsItsSession /\ CurrentStream
    BY <1>1, <1>3 DEF EndedWithStream, StreamsInStep, OneSession, FollowsItsSession,
       CurrentStream, Asked
<1> QED BY <1>4, <1>5 DEF PanelInv

\* Stopping changes how the last turn shows and nothing that binds it to a session.
LEMMA HaltedTurns ==
    ASSUME NEW list \in Seq(TurnRecord)
    PROVE  /\ Halted(list) \in Seq(TurnRecord) /\ DOMAIN Halted(list) = DOMAIN list
           /\ \A k \in DOMAIN list :
                /\ Halted(list)[k].id = list[k].id
                /\ Halted(list)[k].completed = list[k].completed
                /\ Halted(list)[k].session = list[k].session
                /\ ~list[k].loading => Halted(list)[k] = list[k]
<1>1. CASE list # << >> /\ Last(list).loading
  <2> DEFINE stopped == [list[Len(list)] EXCEPT !.loading = FALSE, !.cancelled = TRUE]
  <2>1. Len(list) \in Nat \ {0} /\ DOMAIN list = 1..Len(list)
    BY <1>1, EmptySeq, LenProperties
  <2>2. list[Len(list)] \in TurnRecord /\ list[Len(list)].loading
    BY <1>1, <2>1, TurnsListed DEF Last
  <2>3. /\ stopped \in TurnRecord /\ stopped.id = list[Len(list)].id
        /\ stopped.completed = list[Len(list)].completed
        /\ stopped.session = list[Len(list)].session
    BY <2>2 DEF TurnRecord
  <2>4. Halted(list) = [list EXCEPT ![Len(list)] = stopped]
    BY <1>1 DEF Halted
  <2> HIDE DEF stopped
  <2> QED BY <2>1, <2>2, <2>3, <2>4, ExceptSeq, LenProperties
<1>2. CASE ~(list # << >> /\ Last(list).loading)
  <2>1. Halted(list) = list
    BY <1>2 DEF Halted
  <2> QED BY <2>1
<1> QED BY <1>1, <1>2

\* The context of a follow-up is the session of an answered turn it was drawn from.
LEMMA ContextIsDrawn ==
    ASSUME NEW list \in Seq(TurnRecord), ContextOf(list) # NoSessionId
    PROVE  \E k \in DOMAIN list : list[k].completed /\ ContextOf(list) = list[k].session
<1> DEFINE answered == {k \in DOMAIN list : list[k].completed}
           last == {k \in answered : \A j \in answered : j <= k}
<1>1. last # {} /\ ContextOf(list) = list[CHOOSE k \in last : TRUE].session
    BY DEF ContextOf
<1>2. (CHOOSE k \in last : TRUE) \in last
    BY <1>1
<1> QED BY <1>1, <1>2

\* Between two questions the current version has nothing under way.
LEMMA NextVersion ==
    ASSUME PanelInv, version < Versions
    PROVE  /\ version + 1 \in Asked /\ version + 1 \in 0..Versions
           /\ stream[version + 1].at = "none"
           /\ \A k \in DOMAIN dialog : dialog[k].id < version + 1 /\ dialog[k].id \in Nat
<1>1. \A k \in DOMAIN dialog : dialog[k] \in TurnRecord
    BY TurnsListed DEF PanelInv, PanelTypeOK
<1>2. version \in Nat /\ \A k \in DOMAIN dialog : dialog[k].id \in Nat
    BY <1>1 DEF TurnRecord, Asked, PanelInv, PanelTypeOK
<1> QED BY <1>2, PanelAssumption DEF PanelInv, PanelTypeOK, StreamsInStep, EndedWithStream, Asked

LEMMA RunKeeps == ASSUME PanelInv, Run PROVE PanelInv'
<1> DEFINE next == version + 1
<1>1. /\ mounted' = mounted /\ mounted = TRUE /\ version' = next /\ live' = next
      /\ sessionId' = sessionId /\ drawn' = drawn
    BY DEF Run, PanelInv, PanelTypeOK
<1>2. /\ next \in Asked /\ next \in 0..Versions /\ stream[next].at = "none"
      /\ \A k \in DOMAIN dialog : dialog[k].id < next /\ dialog[k].id \in Nat
      /\ version \in Nat
    BY NextVersion DEF Run, PanelInv, PanelTypeOK
<1>3. Turn(next) \in TurnRecord /\ Turn(next).id = next /\ Turn(next).loading
      /\ ~Turn(next).completed
    BY <1>2 DEF Turn, TurnRecord, Ids
<1>4. /\ dialog' \in Seq(TurnRecord) /\ Len(dialog) \in Nat
      /\ DOMAIN dialog = 1..Len(dialog) /\ DOMAIN dialog' = 1..(Len(dialog) + 1)
      /\ dialog'[Len(dialog) + 1] = Turn(next)
      /\ \A k \in DOMAIN dialog : dialog'[k] = dialog[k]
  <2>1. dialog \in Seq(TurnRecord) /\ dialog' = Append(dialog, Turn(next))
    BY DEF PanelInv, PanelTypeOK, Run
  <2> QED BY <1>3, <2>1, AppendProperties, LenProperties
<1>5. /\ \A v \in Asked : v # next => stream'[v] = stream[v]
      /\ stream'[next].at = "identity" /\ stream'[next].named = sessionId
      /\ stream'[next].context = ContextOf(drawn) /\ stream'[next].got = stream[next].got
  <2>1. stream[next] \in [at : StreamPlaces, named : Ids, context : Ids, home : Ids,
                          got : 0..4]
    BY <1>2 DEF PanelInv, PanelTypeOK
  <2> QED BY <1>2, <2>1 DEF Run, PanelInv, PanelTypeOK
<1>6. ContextOf(drawn) \in Ids /\ (ContextOf(drawn) # NoSessionId => ContextOf(drawn) = sessionId)
  <2>1. CASE ContextOf(drawn) = NoSessionId
    BY <2>1 DEF Ids
  <2>2. CASE ContextOf(drawn) # NoSessionId
    <3>1. PICK k \in DOMAIN drawn : drawn[k].completed /\ ContextOf(drawn) = drawn[k].session
      BY <2>2, ContextIsDrawn DEF PanelInv, PanelTypeOK
    <3> QED BY <1>1, <3>1 DEF PanelInv, PanelTypeOK, OneSession
  <2> QED BY <2>1, <2>2
<1>7. stream' \in [Asked -> [at : StreamPlaces, named : Ids, context : Ids, home : Ids,
                             got : 0..4]]
    BY <1>2, <1>6 DEF Run, PanelInv, PanelTypeOK, StreamPlaces
<1> HIDE DEF next
<1>8. PanelTypeOK'
    BY <1>1, <1>2, <1>4, <1>7 DEF PanelInv, PanelTypeOK
<1>9. \A k \in DOMAIN dialog' : k \in DOMAIN dialog \/ dialog'[k] = Turn(next)
    BY <1>4
<1>10. EndedWithStream'
  <2> SUFFICES ASSUME NEW k \in DOMAIN dialog'
               PROVE  dialog'[k].id <= next /\ (dialog'[k].id = next => dialog'[k].loading)
    BY <1>1 DEF EndedWithStream
  <2>1. CASE k \in DOMAIN dialog
    <3>1. dialog'[k].id < next /\ dialog'[k].id \in Nat
      BY <1>2, <1>4, <2>1
    <3> QED BY <1>2, <3>1 DEF Asked
  <2>2. CASE dialog'[k] = Turn(next)
    BY <1>2, <1>3, <2>2 DEF Asked
  <2> QED BY <1>9, <2>1, <2>2
<1>11. StreamsInStep'
    BY <1>1, <1>2, <1>5 DEF PanelInv, StreamsInStep, Asked, next
<1>12. OneSession'
  <2>1. \A k \in DOMAIN dialog' : dialog'[k].completed =>
            dialog'[k].session = sessionId /\ sessionId # NoSessionId
    BY <1>1, <1>3, <1>4, <1>9 DEF PanelInv, OneSession
  <2>2. sessionId # NoSessionId => \E k \in DOMAIN dialog' : dialog'[k].completed
    BY <1>1, <1>4 DEF PanelInv, OneSession
  <2> QED BY <1>1, <2>1, <2>2 DEF PanelInv, OneSession
<1>13. FollowsItsSession'
    BY <1>2, <1>5, <1>6 DEF PanelInv, FollowsItsSession
<1>14. CurrentStream'
  <2>1. \A k \in DOMAIN dialog' : dialog'[k].id = next => dialog'[k] = Turn(next)
    BY <1>2, <1>4, <1>9 DEF Asked
  <2>2. \E k \in DOMAIN dialog' : dialog'[k].id = next
    BY <1>3, <1>4
  <2> QED BY <1>1, <1>3, <1>5, <2>1, <2>2 DEF CurrentStream
<1> QED BY <1>8, <1>10, <1>11, <1>12, <1>13, <1>14 DEF PanelInv

\* A click that moves the version on leaves nothing under way.
LEMMA ClickKeeps ==
    ASSUME PanelInv, version < Versions, version' = version + 1,
           mounted' \in BOOLEAN, live' \in 0..Versions, sessionId' \in Ids, stream' = stream,
           dialog' \in Seq(TurnRecord), drawn' \in Seq(TurnRecord),
           \A k \in DOMAIN dialog' : dialog'[k].id < version + 1 /\ dialog'[k].id \in Nat,
           OneSession'
    PROVE  PanelInv'
<1>1. /\ version + 1 \in Asked /\ version + 1 \in 0..Versions /\ version \in Nat
      /\ stream[version + 1].at = "none"
    BY NextVersion DEF PanelInv, PanelTypeOK
<1>2. PanelTypeOK' /\ FollowsItsSession' /\ StreamsInStep'
    BY <1>1 DEF PanelInv, PanelTypeOK, FollowsItsSession, StreamsInStep, Asked
<1>3. EndedWithStream'
    BY <1>1 DEF EndedWithStream
<1>4. CurrentStream'
    BY <1>1 DEF CurrentStream
<1> QED BY <1>2, <1>3, <1>4 DEF PanelInv

LEMMA RenderKeeps == ASSUME PanelInv, Render PROVE PanelInv'
<1>1. /\ drawn' = dialog
      /\ UNCHANGED <<mounted, version, live, sessionId, dialog, stream>>
    BY DEF Render
<1>2. PanelTypeOK' /\ EndedWithStream' /\ StreamsInStep'
    BY <1>1 DEF PanelInv, PanelTypeOK, EndedWithStream, StreamsInStep
<1>3. OneSession' /\ FollowsItsSession' /\ CurrentStream'
    BY <1>1 DEF PanelInv, OneSession, FollowsItsSession, CurrentStream
<1> QED BY <1>2, <1>3 DEF PanelInv

LEMMA StopKeeps == ASSUME PanelInv, Stop PROVE PanelInv'
<1>1. /\ version < Versions /\ version' = version + 1 /\ live' = 0
      /\ dialog' = Halted(dialog) /\ drawn' \in {Halted(drawn), Halted(dialog)}
      /\ mounted' = mounted /\ sessionId' = sessionId /\ stream' = stream
    BY DEF Stop
<1>2. dialog \in Seq(TurnRecord) /\ drawn \in Seq(TurnRecord)
    BY DEF PanelInv, PanelTypeOK
<1>3. /\ dialog' \in Seq(TurnRecord) /\ drawn' \in Seq(TurnRecord)
      /\ \A k \in DOMAIN dialog' : dialog'[k].id < version + 1 /\ dialog'[k].id \in Nat
    BY <1>1, <1>2, HaltedTurns, NextVersion
<1>4. \A k \in DOMAIN dialog' : k \in DOMAIN dialog
            /\ dialog'[k].completed = dialog[k].completed /\ dialog'[k].session = dialog[k].session
    BY <1>1, <1>2, HaltedTurns
<1>5. ASSUME mounted, NEW k \in DOMAIN drawn', drawn'[k].completed
      PROVE  drawn'[k].session = sessionId /\ sessionId # NoSessionId
  <2>1. CASE drawn' = Halted(dialog)
    BY <1>1, <1>2, <1>5, <2>1, HaltedTurns DEF PanelInv, OneSession
  <2>2. CASE drawn' = Halted(drawn)
    BY <1>1, <1>2, <1>5, <2>2, HaltedTurns DEF PanelInv, OneSession
  <2> QED BY <1>1, <2>1, <2>2
<1>6. OneSession'
  <2>1. \A k \in DOMAIN dialog : k \in DOMAIN dialog' /\ dialog'[k].completed = dialog[k].completed
    BY <1>1, <1>2, HaltedTurns
  <2> QED BY <1>1, <1>4, <1>5, <2>1 DEF PanelInv, OneSession
<1>7. mounted' \in BOOLEAN /\ live' \in 0..Versions /\ sessionId' \in Ids
    BY <1>1, PanelAssumption DEF PanelInv, PanelTypeOK
<1> QED BY <1>1, <1>3, <1>6, <1>7, ClickKeeps

LEMMA ClearKeeps == ASSUME PanelInv, Clear PROVE PanelInv'
<1>1. /\ version < Versions /\ version' = version + 1 /\ live' = 0 /\ sessionId' = NoSessionId
      /\ dialog' = << >> /\ drawn' = << >> /\ mounted' = mounted /\ stream' = stream
      /\ << >> \in Seq(TurnRecord) /\ DOMAIN << >> = {}
    BY EmptySeq DEF Clear
<1>2. OneSession'
    BY <1>1 DEF OneSession
<1>3. mounted' \in BOOLEAN /\ live' \in 0..Versions /\ sessionId' \in Ids
    BY <1>1, PanelAssumption DEF PanelInv, PanelTypeOK, Ids
<1> QED BY <1>1, <1>2, <1>3, ClickKeeps

LEMMA LeaveKeeps == ASSUME PanelInv, Leave PROVE PanelInv'
<1>1. /\ version < Versions /\ version' = version + 1 /\ live' = live /\ sessionId' = sessionId
      /\ dialog' = << >> /\ drawn' = << >> /\ mounted' = FALSE /\ stream' = stream
      /\ << >> \in Seq(TurnRecord) /\ DOMAIN << >> = {}
    BY EmptySeq DEF Leave
<1>2. OneSession'
    BY <1>1 DEF OneSession
<1>3. mounted' \in BOOLEAN /\ live' \in 0..Versions /\ sessionId' \in Ids
    BY <1>1 DEF PanelInv, PanelTypeOK
<1> QED BY <1>1, <1>2, <1>3, ClickKeeps

LEMMA IdentifiedKeeps ==
    ASSUME PanelInv, NEW v \in Asked, Identified(v)
    PROVE  PanelInv'
<1>1. /\ stream[v].at = "identity"
      /\ UNCHANGED <<mounted, version, live, sessionId, dialog, drawn>>
    BY DEF Identified
<1>2. PICK home \in Homes(v) :
        stream' = [stream EXCEPT ![v] = [@ EXCEPT !.at = "streaming", !.home = home]]
    BY DEF Identified
<1>3. stream[v] \in [at : StreamPlaces, named : Ids, context : Ids, home : Ids, got : 0..4]
    BY DEF PanelInv, PanelTypeOK
<1>4. home \in SessionIds /\ (stream[v].named # NoSessionId => home = stream[v].named)
  <2>1. CASE stream[v].context # NoSessionId
    BY <1>2, <1>3, <2>1 DEF Homes, PanelInv, FollowsItsSession, Ids
  <2>2. CASE stream[v].context = NoSessionId /\ stream[v].named # NoSessionId
    BY <1>2, <1>3, <2>2 DEF Homes, Ids
  <2>3. CASE stream[v].context = NoSessionId /\ stream[v].named = NoSessionId
    <3>1. home \in Unused
      BY <1>2, <2>3 DEF Homes
    <3> QED BY <2>3, <3>1 DEF Unused
  <2> QED BY <2>1, <2>2, <2>3
<1>5. /\ \A u \in Asked : u # v => stream'[u] = stream[u]
      /\ stream'[v].at = "streaming" /\ stream'[v].home = home
      /\ stream'[v].named = stream[v].named /\ stream'[v].context = stream[v].context
      /\ stream'[v].got = stream[v].got
      /\ stream' \in [Asked -> [at : StreamPlaces, named : Ids, context : Ids, home : Ids,
                                got : 0..4]]
    BY <1>2, <1>3, <1>4 DEF PanelInv, PanelTypeOK, StreamPlaces, Ids
<1>6. v <= version
    BY <1>1 DEF PanelInv, PanelTypeOK, StreamsInStep, Asked
<1>7. PanelTypeOK'
    BY <1>1, <1>5 DEF PanelInv, PanelTypeOK
<1>8. OneSession' /\ FollowsItsSession'
    BY <1>1, <1>5 DEF PanelInv, OneSession, FollowsItsSession
<1>11. EndedWithStream'
  <2>1. \A k \in DOMAIN dialog : dialog[k].id \in Asked
    BY TurnsListed DEF PanelInv, PanelTypeOK, TurnRecord
  <2> QED BY <1>1, <1>5, <2>1 DEF PanelInv, EndedWithStream
<1>9. StreamsInStep'
    BY <1>1, <1>5, <1>6 DEF PanelInv, PanelTypeOK, StreamsInStep, Asked
<1>10. CurrentStream'
  <2>1. CASE v = version
    <3>1. stream[v].got = 0
      BY <1>1 DEF PanelInv, StreamsInStep
    <3> QED BY <1>1, <1>4, <1>5, <2>1, <3>1 DEF PanelInv, CurrentStream
  <2>2. CASE v # version
    BY <1>1, <1>5, <2>2 DEF PanelInv, CurrentStream
  <2> QED BY <2>1, <2>2
<1> QED BY <1>7, <1>8, <1>9, <1>10, <1>11 DEF PanelInv

\* A callback of a stream that speaks to its own turn, when it is current: what it may
\* do to the turn, and to the session, follows from where the stream is.
LEMMA CallbackKeeps ==
    ASSUME PanelInv, NEW v \in Asked, NEW place \in {"streaming", "closing", "ended"},
           NEW got \in 0..4,
           stream[v].at \in {"identity", "streaming", "closing"},
           stream' \in [Asked -> [at : StreamPlaces, named : Ids, context : Ids, home : Ids,
                                  got : 0..4]],
           \A u \in Asked : u # v => stream'[u] = stream[u],
           stream'[v].at = place, stream'[v].got = got,
           stream'[v].home = stream[v].home, stream'[v].named = stream[v].named,
           stream'[v].context = stream[v].context,
           UNCHANGED <<mounted, version, drawn>>, live' \in 0..Versions,
           dialog' \in Seq(TurnRecord), DOMAIN dialog' = DOMAIN dialog,
           \A k \in DOMAIN dialog : dialog[k].id # v \/ ~Current(v) => dialog'[k] = dialog[k],
           \A k \in DOMAIN dialog : dialog[k].id = v /\ Current(v) =>
                /\ dialog'[k].id = v
                /\ place # "ended" => dialog'[k].loading = dialog[k].loading,
           place = "streaming" => stream[v].at = "streaming" /\ got \in 1..3,
           Current(v) /\ place = "streaming" =>
                /\ sessionId' = sessionId
                /\ \A k \in DOMAIN dialog : dialog[k].id = v =>
                    /\ ~dialog'[k].completed
                    /\ got >= 2 => dialog'[k].session = stream[v].home,
           ~Current(v) => sessionId' = sessionId, sessionId' \in Ids, OneSession'
    PROVE  PanelInv'
<1>3. v <= version /\ version \in Nat
    BY DEF PanelInv, PanelTypeOK, StreamsInStep, Asked
<1>4. PanelTypeOK' /\ FollowsItsSession'
    BY DEF PanelInv, PanelTypeOK, FollowsItsSession
<1>5. StreamsInStep'
    BY <1>3 DEF PanelInv, StreamsInStep, Asked
<1>6. \A k \in DOMAIN dialog : dialog[k].id \in Asked /\ dialog'[k].id = dialog[k].id
  <2>1. \A k \in DOMAIN dialog : dialog[k].id \in Asked
    BY TurnsListed DEF PanelInv, PanelTypeOK, TurnRecord
  <2> QED BY <2>1
<1>7. EndedWithStream'
  <2> SUFFICES ASSUME NEW k \in DOMAIN dialog
               PROVE  /\ dialog'[k].id <= version
                      /\ dialog'[k].id = version /\ ~dialog'[k].loading =>
                            stream'[version].at = "ended"
    BY DEF EndedWithStream
  <2>1. dialog'[k].id <= version
    BY <1>6 DEF PanelInv, EndedWithStream
  <2>2. CASE v = version /\ dialog[k].id = v
    BY <2>1, <2>2 DEF PanelInv, EndedWithStream
  <2>3. CASE v # version \/ dialog[k].id # v
    BY <1>6, <2>1, <2>3 DEF PanelInv, EndedWithStream, Current
  <2> QED BY <2>1, <2>2, <2>3
<1>8. CurrentStream'
  <2>1. CASE v # version
    <3>1. \A k \in DOMAIN dialog : dialog'[k] = dialog[k]
      BY <2>1 DEF Current
    <3> QED BY <2>1, <3>1 DEF PanelInv, CurrentStream, Current
  <2>2. CASE v = version
    BY <1>6, <2>2 DEF PanelInv, CurrentStream, Current
  <2> QED BY <2>1, <2>2
<1> QED BY <1>4, <1>5, <1>7, <1>8 DEF PanelInv

\* What an event makes of a turn.
LEMMA ShownTurn ==
    ASSUME PanelInv, NEW turn \in TurnRecord, NEW v \in Asked, NEW next \in 1..4,
           NEW recommends \in BOOLEAN
    PROVE  /\ Shown(turn, v, next, recommends) \in TurnRecord
           /\ Shown(turn, v, next, recommends).id = turn.id
           /\ Shown(turn, v, next, recommends).loading = turn.loading
           /\ next = 2 => /\ Shown(turn, v, next, recommends).session = stream[v].home
                          /\ Shown(turn, v, next, recommends).completed = turn.completed
           /\ next # 2 => /\ Shown(turn, v, next, recommends).session = turn.session
                          /\ Shown(turn, v, next, recommends).completed <=> next = 4
<1>1. Events[1] = "partial" /\ Events[2] = "answer_start" /\ Events[3] = "answer_delta"
      /\ Events[4] = "complete"
    BY DEF Events
<1>2. stream[v].home \in Ids
  <2>1. stream[v] \in [at : StreamPlaces, named : Ids, context : Ids, home : Ids, got : 0..4]
    BY DEF PanelInv, PanelTypeOK
  <2> QED BY <2>1
<1>3. CASE next = 2
  <2> DEFINE shown == [turn EXCEPT !.got = next, !.session = stream[v].home,
                                   !.recommends = recommends]
  <2>1. Shown(turn, v, next, recommends) = shown /\ next \in 0..4
    BY <1>1, <1>3 DEF Shown
  <2>2. /\ shown \in TurnRecord /\ shown.id = turn.id /\ shown.loading = turn.loading
        /\ shown.session = stream[v].home /\ shown.completed = turn.completed
    BY <1>2, <2>1 DEF TurnRecord
  <2> HIDE DEF shown
  <2> QED BY <1>3, <2>1, <2>2
<1>4. CASE next = 4
  <2> DEFINE shown == [turn EXCEPT !.got = next, !.completed = TRUE]
  <2>1. Shown(turn, v, next, recommends) = shown
    <3>1. Events[next] # "answer_start" /\ (Events[next] = "complete") = TRUE
      BY <1>1, <1>4
    <3> QED BY <3>1, Zenon DEF Shown
  <2>3. next \in 0..4
    OBVIOUS
  <2>2. /\ shown \in TurnRecord /\ shown.id = turn.id /\ shown.loading = turn.loading
        /\ shown.session = turn.session /\ shown.completed = TRUE
    BY <2>3 DEF TurnRecord
  <2> HIDE DEF shown
  <2> QED BY <1>4, <2>1, <2>2
<1>5. CASE next \in {1, 3}
  <2> DEFINE shown == [turn EXCEPT !.got = next, !.completed = FALSE]
  <2>1. Shown(turn, v, next, recommends) = shown
    <3>1. Events[next] # "answer_start" /\ (Events[next] = "complete") = FALSE
      BY <1>1, <1>5
    <3> QED BY <3>1, Zenon DEF Shown
  <2>3. next \in 0..4
    OBVIOUS
  <2>2. /\ shown \in TurnRecord /\ shown.id = turn.id /\ shown.loading = turn.loading
        /\ shown.session = turn.session /\ shown.completed = FALSE
    BY <2>3 DEF TurnRecord
  <2> HIDE DEF shown
  <2> QED BY <1>5, <2>1, <2>2
<1> QED BY <1>3, <1>4, <1>5

LEMMA EventReadKeeps ==
    ASSUME PanelInv, NEW v \in Asked, EventRead(v)
    PROVE  PanelInv'
<1> DEFINE Nexts == {stream[v].got + 1} \cup (IF stream[v].got = 0 THEN {2} ELSE {})
<1>1. /\ stream[v].at = "streaming"
      /\ UNCHANGED <<mounted, version, live, drawn>>
    BY DEF EventRead
<1>2. PICK next \in Nexts, recommends \in BOOLEAN :
        /\ stream' = [stream EXCEPT ![v] =
                [@ EXCEPT !.got = next,
                          !.at = IF Events[next] = "complete" THEN "closing" ELSE "streaming"]]
        /\ IF Current(v)
           THEN /\ dialog' = Patched(v, LAMBDA turn : Shown(turn, v, next, recommends))
                /\ sessionId' = IF Events[next] = "complete" THEN stream[v].home ELSE sessionId
           ELSE UNCHANGED <<dialog, sessionId>>
    BY DEF EventRead
<1> DEFINE place == IF next = 4 THEN "closing" ELSE "streaming"
<1>3. stream[v] \in [at : StreamPlaces, named : Ids, context : Ids, home : Ids, got : 0..4]
      /\ live \in 0..Versions /\ sessionId \in Ids
      /\ dialog \in Seq(TurnRecord) /\ \A k \in DOMAIN dialog : dialog[k] \in TurnRecord
    BY TurnsListed DEF PanelInv, PanelTypeOK
<1>4. next \in 1..4 /\ (next = 2 => stream[v].got \in {0, 1}) /\ stream[v].got \in 0..3
      /\ (next # 2 => next = stream[v].got + 1)
    BY <1>1, <1>3 DEF PanelInv, StreamsInStep
<1>5. (Events[next] = "complete") <=> next = 4
    BY <1>4 DEF Events
<1>6. /\ \A u \in Asked : u # v => stream'[u] = stream[u]
      /\ stream'[v].at = place /\ stream'[v].got = next
      /\ stream'[v].home = stream[v].home /\ stream'[v].named = stream[v].named
      /\ stream'[v].context = stream[v].context
      /\ stream' \in [Asked -> [at : StreamPlaces, named : Ids, context : Ids, home : Ids,
                                got : 0..4]]
  <2>1. next \in 0..4
    BY <1>4
  <2>2. stream' = [stream EXCEPT ![v] = [@ EXCEPT !.got = next, !.at = place]]
    BY <1>2, <1>5
  <2>3. place \in StreamPlaces
    BY DEF StreamPlaces
  <2> HIDE DEF place
  <2> QED BY <1>3, <2>1, <2>2, <2>3 DEF PanelInv, PanelTypeOK
<1>9. /\ place \in {"streaming", "closing", "ended"} /\ place # "ended"
      /\ next \in 0..4 /\ live' \in 0..Versions
      /\ place = "streaming" => next # 4 /\ next \in 1..3
    BY <1>1, <1>3, <1>4
<1> HIDE DEF place
<1>7. CASE ~Current(v)
  <2>1. UNCHANGED <<dialog, sessionId>>
    BY <1>2, <1>7
  <2>2. OneSession'
    BY <1>1, <2>1 DEF PanelInv, OneSession
  <2> QED BY <1>1, <1>3, <1>6, <1>7, <1>9, <2>1, <2>2, CallbackKeeps
<1>8. CASE Current(v)
  <2> DEFINE turn(k) == Shown(dialog[k], v, next, recommends)
  <2>1. /\ dialog' = [k \in DOMAIN dialog |-> IF dialog[k].id = v THEN turn(k) ELSE dialog[k]]
        /\ sessionId' = IF next = 4 THEN stream[v].home ELSE sessionId
    BY <1>2, <1>5, <1>8 DEF Patched
  <2>2. \A k \in DOMAIN dialog :
            /\ turn(k) \in TurnRecord /\ turn(k).id = dialog[k].id
            /\ turn(k).loading = dialog[k].loading
            /\ next = 2 => /\ turn(k).session = stream[v].home
                           /\ turn(k).completed = dialog[k].completed
            /\ next # 2 => turn(k).session = dialog[k].session
            /\ next # 2 => (turn(k).completed <=> next = 4)
    BY <1>3, <1>4, ShownTurn
  <2> HIDE DEF turn
  <2>3. dialog' \in Seq(TurnRecord) /\ DOMAIN dialog' = DOMAIN dialog
    <3>1. dialog' \in [DOMAIN dialog -> TurnRecord]
      BY <1>3, <2>1, <2>2
    <3> QED BY <1>3, <3>1, MappedTurns
  <2>4. \A k \in DOMAIN dialog :
            dialog'[k] = IF dialog[k].id = v THEN turn(k) ELSE dialog[k]
    BY <2>1
  <2>5. /\ mounted /\ v = version /\ version \in Asked
        /\ stream[v].named = sessionId /\ stream[v].home \in SessionIds
        /\ stream[v].home # NoSessionId
        /\ stream[v].named # NoSessionId => stream[v].home = stream[v].named
        /\ \E k \in DOMAIN dialog : dialog[k].id = v
        /\ \A k \in DOMAIN dialog : dialog[k].id = v =>
            /\ ~dialog[k].completed
            /\ stream[v].got >= 2 => dialog[k].session = stream[v].home
    BY <1>1, <1>8, PanelAssumption DEF Current, PanelInv, CurrentStream
  <2>6. OneSession'
    <3>1. CASE next = 4
      <4>1. sessionId' = stream[v].home /\ sessionId' # NoSessionId
            /\ sessionId \in {NoSessionId, sessionId'}
        BY <2>1, <2>5, <3>1
      <4>2. \A k \in DOMAIN dialog' : dialog'[k].completed => dialog'[k].session = sessionId'
        <5> SUFFICES ASSUME NEW k \in DOMAIN dialog, dialog'[k].completed
                     PROVE  dialog'[k].session = sessionId'
          BY <2>3
        <5>1. CASE dialog[k].id = v
          BY <1>4, <2>2, <2>4, <2>5, <3>1, <4>1, <5>1
        <5>2. CASE dialog[k].id # v
          BY <2>4, <2>5, <4>1, <5>2 DEF PanelInv, OneSession
        <5> QED BY <5>1, <5>2
      <4>3. \E k \in DOMAIN dialog' : dialog'[k].completed
        BY <2>2, <2>3, <2>4, <2>5, <3>1
      <4> QED BY <1>1, <2>5, <4>1, <4>2, <4>3 DEF PanelInv, OneSession
    <3>2. CASE next # 4
      <4>1. \A k \in DOMAIN dialog : /\ dialog'[k].completed <=> dialog[k].completed
                                     /\ dialog[k].completed => dialog'[k] = dialog[k]
        <5> SUFFICES ASSUME NEW k \in DOMAIN dialog
                     PROVE  /\ dialog'[k].completed <=> dialog[k].completed
                            /\ dialog[k].completed => dialog'[k] = dialog[k]
          OBVIOUS
        <5>1. CASE dialog[k].id = v
          BY <2>2, <2>4, <2>5, <3>2, <5>1
        <5>2. CASE dialog[k].id # v
          BY <2>4, <5>2
        <5> QED BY <5>1, <5>2
      <4> QED BY <1>1, <2>1, <2>3, <3>2, <4>1 DEF PanelInv, OneSession
    <3> QED BY <3>1, <3>2
  <2>8. sessionId' \in Ids /\ (next # 4 => sessionId' = sessionId)
    BY <1>3, <2>1, <2>5 DEF Ids
  <2>9. \A k \in DOMAIN dialog : dialog[k].id # v => dialog'[k] = dialog[k]
    BY <2>4
  <2>10. \A k \in DOMAIN dialog : dialog[k].id = v =>
            /\ dialog'[k].id = v /\ dialog'[k].loading = dialog[k].loading
            /\ next # 4 => /\ ~dialog'[k].completed
                           /\ next >= 2 => dialog'[k].session = stream[v].home
    <3> SUFFICES ASSUME NEW k \in DOMAIN dialog, dialog[k].id = v
                 PROVE  /\ dialog'[k].id = v /\ dialog'[k].loading = dialog[k].loading
                        /\ next # 4 => /\ ~dialog'[k].completed
                                       /\ next >= 2 => dialog'[k].session = stream[v].home
      OBVIOUS
    <3> QED BY <1>4, <2>2, <2>4, <2>5
  <2> QED BY <1>1, <1>6, <1>8, <1>9, <2>3, <2>6, <2>8, <2>9, <2>10, CallbackKeeps
<1> QED BY <1>7, <1>8

\* A stream that ends.
LEMMA EndsKeeps ==
    ASSUME PanelInv, NEW v \in Asked,
           stream[v].at \in {"identity", "streaming", "closing"},
           stream' = [stream EXCEPT ![v] = [@ EXCEPT !.at = "ended", !.got = 0]],
           live' = IF live = v THEN 0 ELSE live,
           UNCHANGED <<mounted, version, sessionId, drawn>>,
           dialog' \in Seq(TurnRecord), DOMAIN dialog' = DOMAIN dialog,
           \A k \in DOMAIN dialog :
                /\ dialog[k].id # v \/ ~Current(v) => dialog'[k] = dialog[k]
                /\ dialog'[k].id = dialog[k].id /\ dialog'[k].session = dialog[k].session
                /\ dialog'[k].completed <=> dialog[k].completed
    PROVE  PanelInv'
<1>1. stream[v] \in [at : StreamPlaces, named : Ids, context : Ids, home : Ids, got : 0..4]
      /\ sessionId \in Ids /\ live \in 0..Versions
    BY DEF PanelInv, PanelTypeOK
<1>2. /\ \A u \in Asked : u # v => stream'[u] = stream[u]
      /\ stream'[v].at = "ended" /\ stream'[v].got = 0
      /\ stream'[v].home = stream[v].home /\ stream'[v].named = stream[v].named
      /\ stream'[v].context = stream[v].context
    BY <1>1 DEF PanelInv, PanelTypeOK
<1>3. stream' \in [Asked -> [at : StreamPlaces, named : Ids, context : Ids, home : Ids,
                             got : 0..4]]
  <2>1. "ended" \in StreamPlaces /\ 0 \in 0..4
    BY DEF StreamPlaces
  <2> QED BY <1>1, <2>1 DEF PanelInv, PanelTypeOK
<1>4. live' \in 0..Versions
    BY <1>1, PanelAssumption
<1>5. OneSession'
    BY DEF PanelInv, OneSession
<1>6. \A k \in DOMAIN dialog : dialog[k].id # v \/ ~Current(v) => dialog'[k] = dialog[k]
    OBVIOUS
<1>7. \A k \in DOMAIN dialog : dialog[k].id = v /\ Current(v) => dialog'[k].id = v
    OBVIOUS
<1> QED BY <1>1, <1>2, <1>3, <1>4, <1>5, <1>6, <1>7, CallbackKeeps

LEMMA CompletesKeeps ==
    ASSUME PanelInv, NEW v \in Asked, Completes(v)
    PROVE  PanelInv'
<1> DEFINE ended(k) == [dialog[k] EXCEPT !.loading = FALSE]
<1>1. /\ stream[v].at = "closing"
      /\ stream' = [stream EXCEPT ![v] = [@ EXCEPT !.at = "ended", !.got = 0]]
      /\ live' = IF live = v THEN 0 ELSE live
      /\ UNCHANGED <<mounted, version, sessionId, drawn>>
      /\ dialog' = IF Current(v)
                  THEN [k \in DOMAIN dialog |-> IF dialog[k].id = v THEN ended(k) ELSE dialog[k]]
                  ELSE dialog
    BY DEF Completes, Ends, Patched
<1>2. dialog \in Seq(TurnRecord) /\ \A k \in DOMAIN dialog : dialog[k] \in TurnRecord
    BY TurnsListed DEF PanelInv, PanelTypeOK
<1>3. \A k \in DOMAIN dialog : /\ ended(k) \in TurnRecord /\ ended(k).id = dialog[k].id
                               /\ ended(k).session = dialog[k].session
                               /\ ended(k).completed = dialog[k].completed
    BY <1>2 DEF TurnRecord
<1> HIDE DEF ended
<1>4. /\ dialog' \in Seq(TurnRecord) /\ DOMAIN dialog' = DOMAIN dialog
      /\ \A k \in DOMAIN dialog :
            /\ dialog[k].id # v \/ ~Current(v) => dialog'[k] = dialog[k]
            /\ dialog'[k].id = dialog[k].id /\ dialog'[k].session = dialog[k].session
            /\ dialog'[k].completed = dialog[k].completed
  <2>1. CASE ~Current(v)
    BY <1>1, <1>2, <2>1
  <2>2. CASE Current(v)
    <3>1. dialog' = [k \in DOMAIN dialog |-> IF dialog[k].id = v THEN ended(k) ELSE dialog[k]]
      BY <1>1, <2>2
    <3>2. dialog' \in [DOMAIN dialog -> TurnRecord]
      BY <1>2, <1>3, <3>1
    <3>3. dialog' \in Seq(TurnRecord) /\ DOMAIN dialog' = DOMAIN dialog
      BY <1>2, <3>2, MappedTurns
    <3> QED BY <1>3, <2>2, <3>1, <3>3
  <2> QED BY <2>1, <2>2
<1> QED BY <1>1, <1>4, EndsKeeps

LEMMA RejectsKeeps ==
    ASSUME PanelInv, NEW v \in Asked, Rejects(v)
    PROVE  PanelInv'
<1> DEFINE ended(k) == [dialog[k] EXCEPT !.loading = FALSE, !.completed = FALSE,
                                        !.failed = TRUE]
<1>1. /\ stream[v].at \in {"identity", "streaming"}
      /\ stream' = [stream EXCEPT ![v] = [@ EXCEPT !.at = "ended", !.got = 0]]
      /\ live' = IF live = v THEN 0 ELSE live
      /\ UNCHANGED <<mounted, version, sessionId, drawn>>
      /\ dialog' = IF Current(v)
                  THEN [k \in DOMAIN dialog |-> IF dialog[k].id = v THEN ended(k) ELSE dialog[k]]
                  ELSE dialog
    BY DEF Rejects, Ends, Patched
<1>2. dialog \in Seq(TurnRecord) /\ \A k \in DOMAIN dialog : dialog[k] \in TurnRecord
    BY TurnsListed DEF PanelInv, PanelTypeOK
<1>3. \A k \in DOMAIN dialog : /\ ended(k) \in TurnRecord /\ ended(k).id = dialog[k].id
                               /\ ended(k).session = dialog[k].session
                               /\ ~ended(k).completed
    BY <1>2 DEF TurnRecord
<1> HIDE DEF ended
<1>4. /\ dialog' \in Seq(TurnRecord) /\ DOMAIN dialog' = DOMAIN dialog
      /\ \A k \in DOMAIN dialog :
            /\ dialog[k].id # v \/ ~Current(v) => dialog'[k] = dialog[k]
            /\ dialog'[k].id = dialog[k].id /\ dialog'[k].session = dialog[k].session
            /\ dialog'[k].completed <=> dialog[k].completed
  <2>1. CASE ~Current(v)
    BY <1>1, <1>2, <2>1
  <2>2. CASE Current(v)
    <3>1. dialog' = [k \in DOMAIN dialog |-> IF dialog[k].id = v THEN ended(k) ELSE dialog[k]]
      BY <1>1, <2>2
    <3>2. dialog' \in [DOMAIN dialog -> TurnRecord]
      BY <1>2, <1>3, <3>1
    <3>3. dialog' \in Seq(TurnRecord) /\ DOMAIN dialog' = DOMAIN dialog
      BY <1>2, <3>2, MappedTurns
    <3>4. \A k \in DOMAIN dialog : dialog[k].id = v => ~dialog[k].completed
      BY <1>1, <2>2 DEF Current, PanelInv, CurrentStream
    <3>5. \A k \in DOMAIN dialog :
            dialog'[k] = IF dialog[k].id = v THEN ended(k) ELSE dialog[k]
      BY <3>1
    <3> QED BY <1>3, <2>2, <3>3, <3>4, <3>5
  <2> QED BY <2>1, <2>2
<1> QED BY <1>1, <1>4, EndsKeeps

LEMMA PanelSteps == PanelInv /\ [PanelNext]_panelVars => PanelInv'
<1> SUFFICES ASSUME PanelInv, [PanelNext]_panelVars PROVE PanelInv'
    OBVIOUS
<1>1. CASE UNCHANGED panelVars
  <2>1. UNCHANGED <<mounted, version, live, sessionId, dialog, drawn, stream>>
    BY <1>1 DEF panelVars
  <2>2. PanelTypeOK' /\ EndedWithStream' /\ StreamsInStep'
    BY <2>1 DEF PanelInv, PanelTypeOK, EndedWithStream, StreamsInStep
  <2>3. OneSession' /\ FollowsItsSession' /\ CurrentStream'
    BY <2>1 DEF PanelInv, OneSession, FollowsItsSession, CurrentStream
  <2> QED BY <2>2, <2>3 DEF PanelInv
<1> QED
    BY <1>1, RunKeeps, RenderKeeps, StopKeeps, ClearKeeps, LeaveKeeps, IdentifiedKeeps,
       EventReadKeeps, CompletesKeeps, RejectsKeeps
    DEF PanelNext

\* However questions are asked, stopped, cleared and left while events of older streams
\* still arrive, the panel shows one conversation and a follow-up names its session.
THEOREM PanelIsOneConversation == PanelSpec => []OneConversation
<1>1. ASSUME PanelInv PROVE OneConversation
  <2> SUFFICES ASSUME mounted
               PROVE  /\ {sessionId} \ {NoSessionId}
                           = {dialog[k].session : k \in {j \in DOMAIN dialog :
                                                           dialog[j].completed}}
                      /\ \A v \in Asked : stream[v].context # NoSessionId =>
                            stream[v].named = stream[v].context
    BY DEF OneConversation
  <2>1. \A k \in {j \in DOMAIN dialog : dialog[j].completed} :
            dialog[k].session = sessionId /\ sessionId # NoSessionId
    BY <1>1 DEF PanelInv, OneSession
  <2>2. sessionId # NoSessionId => \E k \in {j \in DOMAIN dialog : dialog[j].completed} : TRUE
    BY <1>1 DEF PanelInv, OneSession
  <2>3. {sessionId} \ {NoSessionId}
          = {dialog[k].session : k \in {j \in DOMAIN dialog : dialog[j].completed}}
    BY <2>1, <2>2
  <2> QED BY <1>1, <2>3 DEF PanelInv, FollowsItsSession
<1> QED BY <1>1, PanelStarts, PanelSteps, PTL DEF PanelSpec

\* A turn that ended is never touched again: what a stopped or finished stream still
\* delivers finds itself stale or its turn without a stream.
THEOREM EndedTurnsAreLeft == PanelSpec => EndedTurnsStay
<1>1. ASSUME PanelInv, [PanelNext]_panelVars
      PROVE  [\A k \in DOMAIN dialog \cap DOMAIN dialog' :
                ~dialog[k].loading => dialog'[k] = dialog[k]]_panelVars
  <2> SUFFICES ASSUME PanelNext, NEW k \in DOMAIN dialog \cap DOMAIN dialog',
                      ~dialog[k].loading
               PROVE  dialog'[k] = dialog[k]
    BY <1>1
  <2>1. dialog \in Seq(TurnRecord) /\ dialog[k].id \in Asked
        /\ (dialog[k].id = version => stream[version].at = "ended")
    BY <1>1, TurnsListed DEF PanelInv, PanelTypeOK, EndedWithStream, TurnRecord
  <2>2. CASE Run
    <3>1. version + 1 \in Asked
      BY <1>1, <2>2, NextVersion DEF Run
    <3>2. Turn(version + 1) \in TurnRecord
      BY <3>1 DEF Turn, TurnRecord, Ids
    <3> QED BY <2>1, <2>2, <3>2, AppendProperties, LenProperties DEF Run
  <2>3. CASE Stop
    BY <2>1, <2>3, HaltedTurns DEF Stop
  <2>4. CASE Clear \/ Leave
    BY <2>4 DEF Clear, Leave
  <2>5. CASE Render
    BY <2>5 DEF Render
  <2>6. ASSUME NEW v \in Asked, Identified(v) PROVE dialog'[k] = dialog[k]
    BY <2>6 DEF Identified
  <2>7. ASSUME NEW v \in Asked, EventRead(v) PROVE dialog'[k] = dialog[k]
    BY <2>1, <2>7 DEF EventRead, Current, Patched
  <2>8. ASSUME NEW v \in Asked, Completes(v) PROVE dialog'[k] = dialog[k]
    BY <2>1, <2>8 DEF Completes, Ends, Current, Patched
  <2>9. ASSUME NEW v \in Asked, Rejects(v) PROVE dialog'[k] = dialog[k]
    BY <2>1, <2>9 DEF Rejects, Ends, Current, Patched
  <2> QED BY <2>2, <2>3, <2>4, <2>5, <2>6, <2>7, <2>8, <2>9 DEF PanelNext
<1> QED BY <1>1, PanelStarts, PanelSteps, PTL DEF PanelSpec, EndedTurnsStay
=============================================================================
