------------------------------ MODULE History ------------------------------
(***************************************************************************)
(* What the conversations promise whoever reads them back, without rows,   *)
(* locks or processes: a session's history is the list of the questions    *)
(* asked in it.  A question is added at the end, in one step, to the       *)
(* history of one session; it keeps its place, and it is answered once.    *)
(* mosaic.agent_turn is that list, read by its turn numbers.               *)
(***************************************************************************)
EXTENDS Sequences, Functions

CONSTANTS Sessions, Runs, Records    \* a record: what is kept of an answer

VARIABLES
    history,   \* history[S]: the runs that asked in S, in their order
    kept       \* kept[r]: the record of the answer to r, or nothing

historyVars == <<history, kept>>

AskedIn(S) == Range(history[S])

Asked == UNION {AskedIn(S) : S \in Sessions}

\* Some conversations may have been held before.
HistoryInit ==
    /\ history \in [Sessions -> Seq(Runs)]
    /\ \A S, T \in Sessions : S # T => AskedIn(S) \cap AskedIn(T) = {}
    /\ \A S \in Sessions : IsInjective(history[S])
    /\ kept \in [Runs -> {{}} \cup {{record} : record \in Records}]
    /\ \A r \in Runs \ Asked : kept[r] = {}

Ask(r, S) ==
    /\ r \notin Asked
    /\ history' = [history EXCEPT ![S] = Append(@, r)]
    /\ UNCHANGED kept

Answer(r, record) ==
    /\ r \in Asked /\ kept[r] = {}
    /\ kept' = [kept EXCEPT ![r] = {record}]
    /\ UNCHANGED history

HistoryNext ==
    \E r \in Runs :
        \/ \E S \in Sessions : Ask(r, S)
        \/ \E record \in Records : Answer(r, record)

HistorySpec == HistoryInit /\ [][HistoryNext]_historyVars
=============================================================================
