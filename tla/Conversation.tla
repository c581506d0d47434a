---------------------------- MODULE Conversation ----------------------------
(***************************************************************************)
(* Conversations: the sessions of a shopper, their numbered turns, the     *)
(* active session and the messages written to AgentCore Memory             *)
(* (service/session_memory.py, start_run and persist_completed_run of      *)
(* service/agent_tools.py, over the tables of db/sql/12_agent_audit.sql).  *)
(*                                                                         *)
(* Three kinds of request work on them at once: a run asks a question, a   *)
(* post writes a message (and may be sent again under its request id), a   *)
(* clear ends the active session.  A step is a transaction, or the part of *)
(* one up to the next row it has to wait for; what a transaction reads     *)
(* under READ COMMITTED is what others have committed.  A turn's own loop  *)
(* is AgentTurn's subject: here it runs and then answers or not.           *)
(***************************************************************************)
EXTENDS Naturals, FiniteSets

CONSTANTS
    Shoppers, NoShopper,   \* browsers with a cookie; a caller without one
    Sessions, NoSession,   \* session ids, the bound on sessions made
    Runs, NoRun,
    Posts, Requests,       \* attempts to write a message, and their request ids
    Clears,
    Products,              \* what an answer may recommend
    AtOnce,                \* the bound on the requests made
    Earlier,               \* runs already answered
    SessionOf              \* SessionOf[r]: the session of an earlier run

Processes == Runs \cup Posts \cup Clears

Nobody == "nobody"

ASSUME ConversationAssumption ==
    /\ NoShopper \notin Shoppers /\ NoSession \notin Sessions /\ NoRun \notin Processes
    /\ AtOnce \in Nat /\ Earlier \subseteq Runs /\ SessionOf \in [Earlier -> Sessions]
    /\ Nobody \notin Processes /\ Sessions \cap Shoppers = {}
    /\ \A r, q \in Earlier : SessionOf[r] = SessionOf[q] => r = q
    /\ Runs \cap Posts = {} /\ Runs \cap Clears = {} /\ Posts \cap Clears = {}
    /\ Runs \cap (Shoppers \X Requests) = {} /\ IsFiniteSet(Runs)

VARIABLES
    sessions,   \* agent_session: [exists, owner, ended]
    active,     \* shopper_profile.active_session_id
    reserved,   \* memory_event_request: [session, requested] of a shopper's request
    turns,      \* agent_turn: [session, number, answered, scope, saved]
    events,     \* AgentCore events: [token, session]
    lock,       \* who holds the row of a session or of a shopper's profile
    job         \* each process: [at, shopper, session, context, number, request]

conversationVars == <<sessions, active, reserved, turns, events, lock, job>>

Rows == Sessions \cup Shoppers

NoTurn == [session |-> NoSession, number |-> 0, answered |-> FALSE, scope |-> {}, saved |-> {}]

Idle == [at |-> "idle", shopper |-> NoShopper, session |-> NoSession, context |-> NoRun,
         number |-> 0, request |-> NoRun]

NoReservation == [session |-> NoSession, requested |-> NoSession]

\* Session ids are random: which unused one a new session gets does not matter.
Fresh == CHOOSE S \in Sessions : ~sessions[S].exists

RoomForSession == \E S \in Sessions : ~sessions[S].exists

\* An earlier turn was answered with all of the products its synthesis asked for, by a
\* caller without a cookie or by a browser, whose active session it then left active.
ConversationInit ==
    /\ \E owner \in Shoppers \cup {NoShopper} :
        /\ sessions = [S \in Sessions |->
              [exists |-> \E r \in Earlier : SessionOf[r] = S, ended |-> FALSE,
               owner |-> IF \E r \in Earlier : SessionOf[r] = S THEN owner ELSE NoShopper]]
        /\ active \in [Shoppers -> Sessions \cup {NoSession}]
        /\ \A s \in Shoppers :
              IF s = owner /\ Earlier # {} THEN \E r \in Earlier : active[s] = SessionOf[r]
              ELSE active[s] = NoSession
    /\ reserved = [s \in Shoppers |-> [q \in Requests |-> NoReservation]]
    /\ turns = [r \in Runs |->
                  IF r \in Earlier
                  THEN [session |-> SessionOf[r], number |-> 1, answered |-> TRUE,
                        scope |-> Products, saved |-> Products]
                  ELSE NoTurn]
    /\ events = {}
    /\ lock = [row \in Rows |-> Nobody]
    /\ job = [p \in Processes |-> IF p \in Earlier THEN [Idle EXCEPT !.at = "done"] ELSE Idle]

-----------------------------------------------------------------------------
(* Rows and transactions.                                                  *)

At(p, place) == job[p].at = place

Begins(p) ==
    /\ At(p, "idle")
    /\ Cardinality({o \in Processes \ Earlier : ~At(o, "idle")}) < AtOnce

Moves(p, place) == job' = [job EXCEPT ![p].at = place]

Free(row) == lock[row] = Nobody

Locks(p, row) == Free(row) /\ lock' = [lock EXCEPT ![row] = p]

\* Ending a transaction, by commit or rollback, gives every row it holds back.
Released(p) == [row \in Rows |-> IF lock[row] = p THEN Nobody ELSE lock[row]]

\* A foreign key to a session waits for a row locked for update, not for one that
\* is only being given an end.
Referable(session) == lock[session] \in {Nobody} \cup Clears

OwnedByOtherUnchecked(r) == FALSE
OwnedByOther(r) == sessions[job[r].session].owner \notin {NoShopper, job[r].shopper}

Reservation(p) == reserved[job[p].shopper][job[p].request]

\* The row a process waits for, if any.
Awaits(p) ==
    CASE job[p].at \in {"locking", "attaching", "ending"} -> {job[p].session} \ {NoSession}
      [] job[p].at \in {"posting", "activating", "clearing"} -> {job[p].shopper}
      [] At(p, "claiming") -> IF OwnedByOther(p) THEN {} ELSE {job[p].shopper}
      [] At(p, "reserving") ->
            IF Reservation(p) # NoReservation THEN {}
            ELSE {S \in Sessions : S = job[p].session /\ ~Referable(S)}
      [] At(p, "referring") ->
            {S \in Sessions : S = job[p].session /\ S # active[job[p].shopper]
                              /\ ~Referable(S)}
      [] OTHER -> {}

Blockers(p) == {lock[row] : row \in Awaits(p)} \ {Nobody, p}

Deadlocked(p) ==
    \E q \in Blockers(p) : p \in Blockers(q) \/ \E o \in Blockers(q) : p \in Blockers(o)

\* Postgres ends one transaction of a cycle of waiters; its changes are undone.
DeadlockVictim(p) ==
    /\ Deadlocked(p)
    /\ lock' = Released(p) /\ Moves(p, "failed")
    /\ UNCHANGED <<sessions, active, reserved, turns, events>>

Finished == {"idle", "done", "refused", "failed"}

\* The worker goes away: an open transaction is rolled back, nothing else happens.
Dies(p) ==
    /\ job[p].at \notin Finished
    /\ lock' = Released(p) /\ Moves(p, "failed")
    /\ UNCHANGED <<sessions, active, reserved, turns, events>>

-----------------------------------------------------------------------------
(* A run: prepare_request, start_run, attach_run, then its answer.         *)

TurnsOf(session) == {r \in Runs : turns[r].session = session}

\* The latest answered turn of a session, when it recommended something.
Restored(session) ==
    LET answered == {r \in TurnsOf(session) : turns[r].answered}
        latest == {r \in answered : \A q \in answered : turns[q].number <= turns[r].number
                                                        /\ turns[r].saved # {}}
    IN  IF latest = {} THEN NoRun ELSE CHOOSE r \in latest : TRUE

\* Without a cookie no session may be named; with one only a session it owns, and a
\* follow-up only to a turn whose session is its own or nobody's.
Prepare(r, shopper, session, context) ==
    /\ Begins(r)
    /\ shopper = NoShopper => session = NoSession
    /\ session # NoSession => sessions[session].owner = shopper
    /\ context # NoRun =>
        LET home == turns[context].session IN
        /\ home # NoSession
        /\ sessions[home].owner \in {NoShopper, shopper}
        /\ session # NoSession => home = session
    /\ job' = [job EXCEPT ![r] =
                 [@ EXCEPT !.at = "starting", !.shopper = shopper, !.session = session,
                           !.context = IF context = NoRun /\ session # NoSession
                                       THEN Restored(session) ELSE context]]
    /\ UNCHANGED <<sessions, active, reserved, turns, events, lock>>

\* The products the client sends back are those the saved answer recommends; they
\* have to be the scope its synthesis recorded.
Authorized(context) ==
    /\ turns[context].answered /\ turns[context].scope # {}
    /\ turns[context].saved = turns[context].scope

LoadContext(r) ==
    /\ At(r, "starting") /\ job[r].context # NoRun
    /\ IF Authorized(job[r].context)
       THEN job' = [job EXCEPT ![r] = [@ EXCEPT !.at = "locking",
                                                !.session = turns[job[r].context].session]]
       ELSE Moves(r, "refused")
    /\ UNCHANGED <<sessions, active, reserved, turns, events, lock>>

\* A caller without a cookie has no history to attach.
AfterStart(r) == IF job[r].shopper = NoShopper THEN "running" ELSE "attaching"

StartNew(r) ==
    /\ At(r, "starting") /\ job[r].context = NoRun /\ job[r].session = NoSession
    /\ RoomForSession
    /\ sessions' = [sessions EXCEPT ![Fresh] = [exists |-> TRUE, owner |-> NoShopper,
                                                ended |-> FALSE]]
    /\ turns' = [turns EXCEPT ![r] = [NoTurn EXCEPT !.session = Fresh, !.number = 1]]
    /\ job' = [job EXCEPT ![r] = [@ EXCEPT !.at = AfterStart(r), !.session = Fresh]]
    /\ UNCHANGED <<active, reserved, events, lock>>

StartOwned(r) ==
    /\ At(r, "starting") /\ job[r].context = NoRun /\ job[r].session # NoSession
    /\ Moves(r, "locking")
    /\ UNCHANGED <<sessions, active, reserved, turns, events, lock>>

LockSessionNot(r) ==
    /\ At(r, "locking") /\ Moves(r, "numbering")
    /\ UNCHANGED <<sessions, active, reserved, turns, events, lock>>
LockSession(r) ==
    /\ At(r, "locking") /\ Locks(r, job[r].session) /\ Moves(r, "numbering")
    /\ UNCHANGED <<sessions, active, reserved, turns, events>>

TakeNumber(r) ==
    /\ At(r, "numbering")
    /\ \E n \in 1..(Cardinality(Runs) + 1) :
        /\ \A q \in TurnsOf(job[r].session) : turns[q].number < n
        /\ n = 1 \/ \E q \in TurnsOf(job[r].session) : turns[q].number = n - 1
        /\ job' = [job EXCEPT ![r] = [@ EXCEPT !.at = "inserting", !.number = n]]
    /\ UNCHANGED <<sessions, active, reserved, turns, events, lock>>

InsertTurnHolding(r) ==
    /\ At(r, "inserting")
    /\ turns' = [turns EXCEPT ![r] = [NoTurn EXCEPT !.session = job[r].session,
                                                    !.number = job[r].number]]
    /\ Moves(r, AfterStart(r))
    /\ UNCHANGED <<sessions, active, reserved, events, lock>>
InsertTurn(r) ==
    /\ At(r, "inserting")
    /\ turns' = [turns EXCEPT ![r] = [NoTurn EXCEPT !.session = job[r].session,
                                                    !.number = job[r].number]]
    /\ lock' = Released(r) /\ Moves(r, AfterStart(r))
    /\ UNCHANGED <<sessions, active, reserved, events>>

AttachLock(r) ==
    /\ At(r, "attaching") /\ Locks(r, job[r].session) /\ Moves(r, "claiming")
    /\ UNCHANGED <<sessions, active, reserved, turns, events>>

\* Claimed by another browser meanwhile: the turn stays open, the run is refused.
AttachRefused(r) ==
    /\ At(r, "claiming") /\ OwnedByOther(r)
    /\ lock' = Released(r) /\ Moves(r, "refused")
    /\ UNCHANGED <<sessions, active, reserved, turns, events>>

ClaimUnowned(r) ==
    /\ At(r, "claiming") /\ ~OwnedByOther(r) /\ Free(job[r].shopper)
    /\ active' = [active EXCEPT ![job[r].shopper] = job[r].session]
    /\ lock' = Released(r) /\ Moves(r, "running")
    /\ UNCHANGED <<sessions, reserved, turns, events>>
Claim(r) ==
    /\ At(r, "claiming") /\ ~OwnedByOther(r) /\ Free(job[r].shopper)
    /\ sessions' = [sessions EXCEPT ![job[r].session] =
                      [@ EXCEPT !.owner = job[r].shopper, !.ended = FALSE]]
    /\ active' = [active EXCEPT ![job[r].shopper] = job[r].session]
    /\ lock' = Released(r) /\ Moves(r, "running")
    /\ UNCHANGED <<reserved, turns, events>>

\* The message goes to Memory before the turn is saved; an outage does not erase the
\* answer.  A repeated listing left out is in the scope but not in what is saved.
Answers(r, stored) ==
    /\ At(r, "running")
    /\ events' = IF stored /\ job[r].shopper # NoShopper
                 THEN events \cup {[token |-> r, session |-> job[r].session]} ELSE events
    /\ Moves(r, "persisting")
    /\ UNCHANGED <<sessions, active, reserved, turns, lock>>

Persists(r, scope, saved) ==
    /\ At(r, "persisting")
    /\ saved \subseteq scope /\ (saved = {} => scope = {})
    /\ turns' = [turns EXCEPT ![r] = [@ EXCEPT !.answered = TRUE, !.scope = scope,
                                               !.saved = saved]]
    /\ Moves(r, "done")
    /\ UNCHANGED <<sessions, active, reserved, events, lock>>

\* No answer of record, or the save failed.
PersistsNone(r) ==
    /\ At(r, "persisting") /\ Moves(r, "failed")
    /\ UNCHANGED <<sessions, active, reserved, turns, events, lock>>

-----------------------------------------------------------------------------
(* A post: add_event.                                                      *)

PostBegins(p, shopper, request, session) ==
    /\ Begins(p)
    /\ job' = [job EXCEPT ![p] = [@ EXCEPT !.at = "posting", !.shopper = shopper,
                                           !.session = session, !.request = request]]
    /\ UNCHANGED <<sessions, active, reserved, turns, events, lock>>

PostLocks(p) ==
    /\ At(p, "posting") /\ Locks(p, job[p].shopper) /\ Moves(p, "reserving")
    /\ UNCHANGED <<sessions, active, reserved, turns, events>>

\* The request was reserved before: the same session, or a refusal when it asks
\* something else under the same id.
PostRepeats(p) ==
    /\ At(p, "reserving") /\ Reservation(p) # NoReservation
    /\ lock' = Released(p)
    /\ IF Reservation(p).requested = job[p].session
       THEN job' = [job EXCEPT ![p] = [@ EXCEPT !.at = "sending",
                                                !.session = Reservation(p).session]]
       ELSE Moves(p, "refused")
    /\ UNCHANGED <<sessions, active, reserved, turns, events>>

ReserveUnrecorded(p, session) ==
    /\ reserved' = reserved
    /\ job' = [job EXCEPT ![p] = [@ EXCEPT !.at = "sending", !.session = session]]
    /\ lock' = Released(p)
Reserve(p, session) ==
    /\ reserved' = [reserved EXCEPT ![job[p].shopper][job[p].request] =
                      [session |-> session, requested |-> job[p].session]]
    /\ job' = [job EXCEPT ![p] = [@ EXCEPT !.at = "sending", !.session = session]]
    /\ lock' = Released(p)

PostOwned(p) ==
    /\ At(p, "reserving") /\ Reservation(p) = NoReservation /\ job[p].session # NoSession
    /\ IF sessions[job[p].session].owner = job[p].shopper
       THEN Referable(job[p].session) /\ Reserve(p, job[p].session)
       ELSE lock' = Released(p) /\ Moves(p, "refused") /\ UNCHANGED reserved
    /\ UNCHANGED <<sessions, active, turns, events>>

PostNew(p) ==
    /\ At(p, "reserving") /\ Reservation(p) = NoReservation /\ job[p].session = NoSession
    /\ RoomForSession
    /\ sessions' = [sessions EXCEPT ![Fresh] = [exists |-> TRUE, owner |-> job[p].shopper,
                                                ended |-> FALSE]]
    /\ Reserve(p, Fresh)
    /\ UNCHANGED <<active, turns, events>>

\* create_event over the network: stored under the request's token, or not; the
\* reply may be lost, and then the caller sees a failure and sends again.
PostSends(p, stored, heard) ==
    /\ At(p, "sending")
    /\ heard => stored
    /\ events' = IF stored
                 THEN events \cup {[token |-> <<job[p].shopper, job[p].request>>,
                                    session |-> job[p].session]}
                 ELSE events
    /\ Moves(p, IF heard THEN "activating" ELSE "failed")
    /\ UNCHANGED <<sessions, active, reserved, turns, lock>>

PostTakes(p) ==
    /\ At(p, "activating") /\ Locks(p, job[p].shopper) /\ Moves(p, "referring")
    /\ UNCHANGED <<sessions, active, reserved, turns, events>>

PostActivates(p) ==
    /\ At(p, "referring")
    /\ Referable(job[p].session) \/ active[job[p].shopper] = job[p].session
    /\ active' = [active EXCEPT ![job[p].shopper] = job[p].session]
    /\ lock' = Released(p) /\ Moves(p, "done")
    /\ UNCHANGED <<sessions, reserved, turns, events>>

-----------------------------------------------------------------------------
(* A clear: new_session.                                                   *)

ClearBegins(n, shopper) ==
    /\ Begins(n)
    /\ job' = [job EXCEPT ![n] = [@ EXCEPT !.at = "clearing", !.shopper = shopper]]
    /\ UNCHANGED <<sessions, active, reserved, turns, events, lock>>

ClearLocks(n) ==
    /\ At(n, "clearing") /\ Locks(n, job[n].shopper)
    /\ job' = [job EXCEPT ![n] = [@ EXCEPT !.at = "ending",
                                           !.session = active[job[n].shopper]]]
    /\ UNCHANGED <<sessions, active, reserved, turns, events>>

ClearEnds(n) ==
    /\ At(n, "ending")
    /\ IF job[n].session = NoSession THEN UNCHANGED sessions
       ELSE /\ Free(job[n].session)
            /\ sessions' = [sessions EXCEPT ![job[n].session].ended = TRUE]
    /\ active' = [active EXCEPT ![job[n].shopper] = NoSession]
    /\ lock' = Released(n) /\ Moves(n, "done")
    /\ UNCHANGED <<reserved, turns, events>>

-----------------------------------------------------------------------------
Asks(r) ==
    \E shopper \in Shoppers \cup {NoShopper}, session \in Sessions \cup {NoSession},
       context \in Runs \cup {NoRun} : Prepare(r, shopper, session, context)

RunStep(r) ==
    \/ LoadContext(r) \/ StartOwned(r) \/ LockSession(r) \/ TakeNumber(r) \/ InsertTurn(r)
    \/ StartNew(r) \/ AttachLock(r) \/ AttachRefused(r) \/ Claim(r) \/ PersistsNone(r)
    \/ \E stored \in BOOLEAN : Answers(r, stored)
    \/ \E scope, saved \in SUBSET Products : Persists(r, scope, saved)

Writes(p) ==
    \E shopper \in Shoppers, request \in Requests, session \in Sessions \cup {NoSession} :
        PostBegins(p, shopper, request, session)

PostStep(p) ==
    \/ PostLocks(p) \/ PostRepeats(p) \/ PostOwned(p) \/ PostNew(p)
    \/ PostTakes(p) \/ PostActivates(p)
    \/ \E stored, heard \in BOOLEAN : PostSends(p, stored, heard)

ClearStep(n) == ClearLocks(n) \/ ClearEnds(n)

Works(p) ==
    \/ p \in Runs /\ RunStep(p)
    \/ p \in Posts /\ PostStep(p)
    \/ p \in Clears /\ ClearStep(p)
    \/ DeadlockVictim(p)

ConversationNext ==
    \/ \E r \in Runs : Asks(r)
    \/ \E p \in Posts : Writes(p)
    \/ \E n \in Clears : \E shopper \in Shoppers : ClearBegins(n, shopper)
    \/ \E p \in Processes : Works(p) \/ Dies(p)

ConversationSpec ==
    /\ ConversationInit /\ [][ConversationNext]_conversationVars
    /\ \A p \in Processes : WF_conversationVars(Works(p))
-----------------------------------------------------------------------------
Places == Finished \cup
    {"starting", "locking", "numbering", "inserting", "attaching", "claiming", "running",
     "persisting", "posting", "reserving", "sending", "activating", "referring", "clearing",
     "ending"}

ConversationTypeOK ==
    /\ sessions \in [Sessions -> [exists : BOOLEAN, owner : Shoppers \cup {NoShopper},
                                  ended : BOOLEAN]]
    /\ active \in [Shoppers -> Sessions \cup {NoSession}]
    /\ reserved \in [Shoppers -> [Requests -> [session : Sessions \cup {NoSession},
                                               requested : Sessions \cup {NoSession}]]]
    /\ turns \in [Runs -> [session : Sessions \cup {NoSession}, number : Nat,
                           answered : BOOLEAN, scope : SUBSET Products,
                           saved : SUBSET Products]]
    /\ events \subseteq [token : Runs \cup (Shoppers \X Requests), session : Sessions]
    /\ lock \in [Rows -> Processes \cup {Nobody}]
    /\ job \in [Processes -> [at : Places, shopper : Shoppers \cup {NoShopper},
                              session : Sessions \cup {NoSession},
                              context : Runs \cup {NoRun}, number : Nat,
                              request : Requests \cup {NoRun}]]

\* The turns of a session are numbered 1, 2, ... without a repeat, however many runs
\* ask in it at once (start_run numbers them under the session's row lock).
TurnsAreNumbered ==
    \A S \in Sessions :
        /\ \A r, q \in TurnsOf(S) : turns[r].number = turns[q].number => r = q
        /\ {turns[r].number : r \in TurnsOf(S)} = 1..Cardinality(TurnsOf(S))

\* The turns of a session as a list, read by their numbers.
TurnAt(session, n) ==
    LET there == {r \in TurnsOf(session) : turns[r].number = n}
    IN  IF there = {} THEN NoRun ELSE CHOOSE r \in there : TRUE

Histories ==
    [S \in Sessions |-> [n \in 1..Cardinality(TurnsOf(S)) |-> TurnAt(S, n)]]

Records == [scope : SUBSET Products, saved : SUBSET Products]

RecordsKept ==
    [r \in Runs |-> IF turns[r].answered
                    THEN {[scope |-> turns[r].scope, saved |-> turns[r].saved]} ELSE {}]

Kept == INSTANCE History WITH history <- Histories, kept <- RecordsKept

\* Numbering a turn, which takes a transaction several steps beside others, amounts to
\* adding the question to the end of its session's history at once, where it stays; and
\* its answer of record is written once (start_run, persist_completed_run).
KeepsHistory == Kept!HistorySpec

\* A request to write a message makes one session and one event, however often it is
\* sent, whichever attempt's reply was lost (add_event's request row and client token).
OneEventPerRequest ==
    \A e, f \in events : e.token = f.token => e = f

\* The active session of a browser is one it owns, and a run at work asks in a session
\* of its own browser.
SessionsAreOwned ==
    /\ \A s \in Shoppers : active[s] # NoSession => sessions[active[s]].owner = s
    /\ \A r \in Runs : job[r].at \in {"running", "persisting"} /\ job[r].shopper # NoShopper
          => sessions[job[r].session].owner = job[r].shopper

\* A session keeps its first owner: of two browsers following up on one unowned turn
\* one claims it and the other is refused.
OwnersStay ==
    [][\A S \in Sessions : sessions[S].owner # NoShopper =>
            sessions'[S].owner = sessions[S].owner]_conversationVars

\* Whatever waits for whatever, every request is answered, refused or failed: rows are
\* locked in different orders (attach_run: session, profile; new_session and
\* add_event: profile, session), and only the deadlock detector breaks the cycle.
RequestsEnd == \A p \in Processes : (job[p].at # "idle") ~> (job[p].at \in Finished)

\* A follow-up on what the previous saved answer recommends is authorized.
FollowUpsAuthorized ==
    \A r \in Runs : At(r, "refused") /\ job[r].context # NoRun =>
        \/ ~turns[job[r].context].answered
        \/ turns[job[r].context].saved = {}
        \/ sessions[turns[job[r].context].session].owner \notin {NoShopper, job[r].shopper}
=============================================================================
