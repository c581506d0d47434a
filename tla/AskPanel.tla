------------------------------ MODULE AskPanel ------------------------------
(***************************************************************************)
(* The conversation a shopper sees (ui/src/components/                     *)
(* useAskMosaicConversation.ts over agentStream of ui/src/api.ts): one     *)
(* question streams at a time, and the shopper may stop it, clear the      *)
(* conversation, or leave the page while its events are still arriving.    *)
(*                                                                         *)
(* The browser runs one callback at a time, so a step is a callback: a     *)
(* click, an event of a stream, the end of a stream.  A stream is named by *)
(* the version its question was given.  Aborting it does not unsend what   *)
(* it has already read: a callback queued before the abort still runs.     *)
(* What is drawn lags behind the turns, and a click acts on what is drawn. *)
(***************************************************************************)
EXTENDS Naturals, Sequences, SequencesExt

CONSTANTS
    Versions,                   \* the bound on questions asked, stopped and cleared
    SessionIds, NoSessionId     \* the session ids the server gives out

ASSUME PanelAssumption == Versions \in Nat /\ NoSessionId \notin SessionIds

VARIABLES
    mounted,     \* whether the page is open
    version,     \* requestVersion
    live,        \* requestController: the version it belongs to, 0 for none
    sessionId,
    dialog,      \* the turns on the panel
    drawn,       \* the turns as last rendered
    stream       \* each version's request: [at, named, context, home, got]

panelVars == <<mounted, version, live, sessionId, dialog, drawn, stream>>

Asked == 1..Versions

\* The events of an answer, in the order the server sends them.
Events == <<"partial", "answer_start", "answer_delta", "complete">>

NotAsked == [at |-> "none", named |-> NoSessionId, context |-> NoSessionId, home |-> NoSessionId,
             got |-> 0]

PanelInit ==
    /\ mounted = TRUE /\ version = 0 /\ live = 0 /\ sessionId = NoSessionId
    /\ dialog = << >> /\ drawn = << >>
    /\ stream = [v \in Asked |-> NotAsked]

-----------------------------------------------------------------------------
\* The session of the last answered turn, when that turn recommended something.
ContextOf(list) ==
    LET answered == {k \in DOMAIN list : list[k].completed}
        last == {k \in answered : \A j \in answered : j <= k}
    IN  IF \E k \in last : list[k].recommends THEN list[CHOOSE k \in last : TRUE].session
        ELSE NoSessionId

\* A session the server has not used.  Ids are random: which one does not matter.
Unused == SessionIds \ {stream[v].home : v \in Asked}

\* Where the server answers a question: the session of the turn it follows, the one
\* it names, or a new one.
Homes(v) ==
    IF stream[v].context # NoSessionId THEN {stream[v].context}
    ELSE IF stream[v].named # NoSessionId THEN {stream[v].named}
    ELSE IF Unused = {} THEN {} ELSE {CHOOSE S \in Unused : TRUE}

Turn(v) ==
    [id |-> v, loading |-> TRUE, completed |-> FALSE, cancelled |-> FALSE, failed |-> FALSE,
     got |-> 0, session |-> NoSessionId, recommends |-> FALSE]

\* A question is refused while another is streaming.
Run ==
    /\ mounted /\ live = 0 /\ version < Versions
    /\ version' = version + 1 /\ live' = version + 1
    /\ dialog' = Append(dialog, Turn(version + 1))
    /\ stream' = [stream EXCEPT ![version + 1] =
                    [@ EXCEPT !.at = "identity", !.named = sessionId,
                              !.context = ContextOf(drawn)]]
    /\ UNCHANGED <<mounted, sessionId, drawn>>

Render ==
    /\ mounted /\ drawn # dialog
    /\ drawn' = dialog
    /\ UNCHANGED <<mounted, version, live, sessionId, dialog, stream>>

\* The version moves on before the abort, so that the ending of the stopped stream
\* finds itself stale.  What has arrived stays.
Halted(list) ==
    IF list # << >> /\ Last(list).loading
    THEN [list EXCEPT ![Len(list)] = [@ EXCEPT !.loading = FALSE, !.cancelled = TRUE]]
    ELSE list

StopUnversioned ==
    /\ mounted /\ version < Versions
    /\ \E k \in DOMAIN drawn : drawn[k].loading
    /\ version' = version /\ live' = 0
    /\ dialog' = Halted(dialog) /\ drawn' \in {Halted(drawn), Halted(dialog)}
    /\ UNCHANGED <<mounted, sessionId, stream>>
Stop ==
    /\ mounted /\ version < Versions
    /\ \E k \in DOMAIN drawn : drawn[k].loading
    /\ version' = version + 1 /\ live' = 0
    /\ dialog' = Halted(dialog) /\ drawn' \in {Halted(drawn), Halted(dialog)}
    /\ UNCHANGED <<mounted, sessionId, stream>>

Clear ==
    /\ mounted /\ drawn # << >> /\ version < Versions
    /\ version' = version + 1 /\ live' = 0 /\ sessionId' = NoSessionId
    /\ dialog' = << >> /\ drawn' = << >>
    /\ UNCHANGED <<mounted, stream>>

Leave ==
    /\ mounted /\ version < Versions
    /\ mounted' = FALSE /\ version' = version + 1
    /\ dialog' = << >> /\ drawn' = << >>
    /\ UNCHANGED <<live, sessionId, stream>>

-----------------------------------------------------------------------------
(* A stream.                                                               *)

CurrentAlways(v) == mounted
Current(v) == mounted /\ v = version

Patched(v, change(_)) ==
    [k \in DOMAIN dialog |-> IF dialog[k].id = v THEN change(dialog[k]) ELSE dialog[k]]

\* An aborted request does not go on to a second call.
Identified(v) ==
    /\ stream[v].at = "identity" /\ live = v /\ mounted
    /\ \E home \in Homes(v) :
        stream' = [stream EXCEPT ![v] = [@ EXCEPT !.at = "streaming", !.home = home]]
    /\ UNCHANGED <<mounted, version, live, sessionId, dialog, drawn>>

\* What an event does to its turn.  The answer comes with answer_start, and again,
\* the same, with complete.
Shown(turn, v, next, recommends) ==
    IF Events[next] = "answer_start"
    THEN [turn EXCEPT !.got = next, !.session = stream[v].home, !.recommends = recommends]
    ELSE [turn EXCEPT !.got = next, !.completed = (Events[next] = "complete")]

\* The next event; there may be nothing partial to show.
EventRead(v) ==
    /\ stream[v].at = "streaming"
    /\ \E next \in {stream[v].got + 1} \cup (IF stream[v].got = 0 THEN {2} ELSE {}),
          recommends \in BOOLEAN :
        LET complete == Events[next] = "complete" IN
        /\ stream' = [stream EXCEPT ![v] =
                        [@ EXCEPT !.got = next,
                                  !.at = IF complete THEN "closing" ELSE "streaming"]]
        /\ IF Current(v)
           THEN /\ dialog' = Patched(v, LAMBDA turn : Shown(turn, v, next, recommends))
                /\ sessionId' = IF complete THEN stream[v].home ELSE sessionId
           ELSE UNCHANGED <<dialog, sessionId>>
    /\ UNCHANGED <<mounted, version, live, drawn>>

\* The finally block: a stale stream leaves the turn and the controller alone.
Ends(v, turn(_)) ==
    /\ stream' = [stream EXCEPT ![v] = [@ EXCEPT !.at = "ended", !.got = 0]]
    /\ dialog' = IF Current(v) THEN Patched(v, turn) ELSE dialog
    /\ live' = IF live = v THEN 0 ELSE live
    /\ UNCHANGED <<mounted, version, sessionId, drawn>>

Completes(v) ==
    /\ stream[v].at = "closing"
    /\ Ends(v, LAMBDA turn : [turn EXCEPT !.loading = FALSE])

\* Aborted, refused by the server, sent an error, or cut short.
Rejects(v) ==
    /\ stream[v].at \in {"identity", "streaming"}
    /\ Ends(v, LAMBDA turn : [turn EXCEPT !.loading = FALSE, !.completed = FALSE,
                                          !.failed = TRUE])

PanelNext ==
    \/ Run \/ Render \/ Stop \/ Clear \/ Leave
    \/ \E v \in Asked : Identified(v) \/ EventRead(v) \/ Completes(v) \/ Rejects(v)

PanelSpec == PanelInit /\ [][PanelNext]_panelVars
-----------------------------------------------------------------------------
\* The panel is in one conversation: the session the next question names is the
\* session of every answered turn on the panel and of no other, and a follow-up's
\* turn belongs to the session it names (prepare_request refuses a mismatch).
OneConversation ==
    mounted =>
        /\ {sessionId} \ {NoSessionId}
             = {dialog[k].session : k \in {j \in DOMAIN dialog : dialog[j].completed}}
        /\ \A v \in Asked : stream[v].context # NoSessionId =>
              stream[v].named = stream[v].context

\* A turn that ended stays as it ended, whatever its stream still delivers: a stopped
\* turn keeps what had arrived and is not completed, failed or set loading again.
EndedTurnsStay ==
    [][\A k \in DOMAIN dialog \cap DOMAIN dialog' :
         ~dialog[k].loading => dialog'[k] = dialog[k]]_panelVars
=============================================================================
