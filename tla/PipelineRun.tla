---------------------------- MODULE PipelineRun ----------------------------
(***************************************************************************)
(* The playground's run of a question (ui/src/usePipelineRun.ts): a search *)
(* or an agent turn, whose trace names search events that are each read    *)
(* back as a receipt while the turn goes on, and the saved search a link   *)
(* brought along.  A step is one callback of the browser.                  *)
(***************************************************************************)
EXTENDS Naturals

CONSTANTS
    Tickets,             \* the bound on versions: requests shown, turns and searches begun
    SearchEvents,        \* ids of search events
    NoEvent

ASSUME PipelineAssumption == Tickets \in Nat /\ NoEvent \notin SearchEvents

VARIABLES
    ticket,      \* version
    inFlight, running, reading,
    receipts,    \* each search event: not listed, or listed and asked for, read or failed
    saved,       \* savedResponse: the event it answers
    carried,     \* carriedEvent: the saved search the page was opened with
    work         \* each version's callbacks: [at, reads], reads the receipts being read

pipelineVars == <<ticket, inFlight, running, reading, receipts, saved, carried, work>>

Listed(event, how) == [e \in SearchEvents |-> IF e = event THEN how ELSE "unlisted"]

NotListed == [e \in SearchEvents |-> "unlisted"]

Settled == {"read", "failed"}

PipelineInit ==
    /\ ticket = 0 /\ inFlight = FALSE /\ running = FALSE /\ reading = FALSE
    /\ receipts = NotListed /\ saved = NoEvent /\ carried = NoEvent
    /\ work = [t \in 1..Tickets |-> [at |-> "none", reads |-> {}]]

Latest(t) == t = ticket

Begin(place, reads) ==
    /\ ticket < Tickets
    /\ ticket' = ticket + 1
    /\ work' = [work EXCEPT ![ticket + 1] = [at |-> place, reads |-> reads]]

\* The effect: another request, or the saved search again.  Whatever was under way is
\* orphaned.
Show(event) ==
    /\ IF event = NoEvent THEN Begin("ended", {}) ELSE Begin("carrying", {event})
    /\ inFlight' = FALSE /\ running' = FALSE /\ reading' = (event # NoEvent)
    /\ receipts' = Listed(event, "asked")
    /\ saved' = NoEvent /\ carried' = event

Restore == carried # NoEvent /\ ~inFlight /\ Show(carried)

CarriedRead(t, how) ==
    /\ work[t].at = "carrying"
    /\ work' = [work EXCEPT ![t] = [at |-> "ended", reads |-> {}]]
    /\ IF Latest(t)
       THEN /\ receipts' = [receipts EXCEPT ![carried] = how]
            /\ saved' = IF how = "read" THEN carried ELSE saved
            /\ reading' = FALSE
       ELSE UNCHANGED <<receipts, saved, reading>>
    /\ UNCHANGED <<ticket, inFlight, running, carried>>

\* The page also disables its button while it reads; the hook does not rely on that.
Play ==
    /\ ~inFlight
    /\ Begin("streaming", {})
    /\ inFlight' = TRUE /\ running' = TRUE /\ reading' = FALSE
    /\ receipts' = Listed(saved, "read")
    /\ UNCHANGED <<saved, carried>>

\* followTrace: a search step of the trace not followed yet gets a receipt.  A turn's
\* searches have events of their own.
Follow(t, event) ==
    /\ work[t].at = "streaming" /\ Latest(t)
    /\ receipts[event] = "unlisted"
    /\ receipts' = [receipts EXCEPT ![event] = "asked"]
    /\ work' = [work EXCEPT ![t].reads = @ \cup {event}]
    /\ UNCHANGED <<ticket, inFlight, running, reading, saved, carried>>

ReceiptRead(t, event, how) ==
    /\ work[t].at \in {"streaming", "waiting"} /\ event \in work[t].reads
    /\ work' = [work EXCEPT ![t].reads = @ \ {event}]
    /\ receipts' = IF Latest(t) THEN [receipts EXCEPT ![event] = how] ELSE receipts
    /\ UNCHANGED <<ticket, inFlight, running, reading, saved, carried>>

\* Answered, failed or aborted: what was asked for is still awaited.
StreamEnds(t) ==
    /\ work[t].at = "streaming"
    /\ work' = [work EXCEPT ![t].at = "waiting"]
    /\ UNCHANGED <<ticket, inFlight, running, reading, receipts, saved, carried>>

ClosesAtOnce(t) ==
    /\ work[t].at = "waiting"
    /\ work' = [work EXCEPT ![t].at = "ended"]
    /\ IF Latest(t) THEN running' = FALSE /\ inFlight' = FALSE
       ELSE UNCHANGED <<running, inFlight>>
    /\ UNCHANGED <<ticket, reading, receipts, saved, carried>>
Closes(t) ==
    /\ work[t].at = "waiting" /\ work[t].reads = {}
    /\ work' = [work EXCEPT ![t].at = "ended"]
    /\ IF Latest(t) THEN running' = FALSE /\ inFlight' = FALSE
       ELSE UNCHANGED <<running, inFlight>>
    /\ UNCHANGED <<ticket, reading, receipts, saved, carried>>

Search ==
    /\ ~inFlight
    /\ Begin("searching", {})
    /\ inFlight' = TRUE /\ running' = TRUE /\ reading' = FALSE
    /\ receipts' = NotListed /\ saved' = NoEvent
    /\ UNCHANGED carried

SearchReturns(t, event, found) ==
    /\ work[t].at = "searching"
    /\ work' = [work EXCEPT ![t].at = "ended"]
    /\ IF Latest(t)
       THEN /\ running' = FALSE /\ inFlight' = FALSE
            /\ receipts' = IF found THEN Listed(event, "read") ELSE receipts
            /\ saved' = IF found THEN event ELSE saved
       ELSE UNCHANGED <<running, inFlight, receipts, saved>>
    /\ UNCHANGED <<ticket, reading, carried>>

PipelineNext ==
    \/ \E event \in SearchEvents \cup {NoEvent} : Show(event)
    \/ Restore \/ Play \/ Search
    \/ \E t \in 1..Tickets :
        \/ StreamEnds(t) \/ Closes(t)
        \/ \E how \in Settled : CarriedRead(t, how)
        \/ \E event \in SearchEvents :
            \/ Follow(t, event)
            \/ \E how \in Settled : ReceiptRead(t, event, how)
            \/ \E found \in BOOLEAN : SearchReturns(t, event, found)

PipelineSpec == PipelineInit /\ [][PipelineNext]_pipelineVars
-----------------------------------------------------------------------------
\* A playground at rest is settled: it takes the next request, and every receipt it
\* lists has been read or has failed, though requests are replaced while the reads of
\* older ones return late.
RestIsSettled ==
    /\ inFlight = running
    /\ ~running /\ ~reading => \A e \in SearchEvents : receipts[e] # "asked"
=============================================================================
