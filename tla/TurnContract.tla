---------------------------- MODULE TurnContract ----------------------------
(***************************************************************************)
(* What one agent turn promises the rest of the system, without its model, *)
(* tools or workers: the turn's row is closed at most once, an answer is   *)
(* told only when that very answer is the one stored, and nobody is told   *)
(* anything twice.  mosaic.agent_turn.assistant_message and the            *)
(* AgentResponse of service/agent.py are the two sides of it.              *)
(***************************************************************************)
CONSTANTS Answers, None      \* the answers of record, and the absence of one

VARIABLES
    stored,   \* the row: its status and its answer
    told      \* the reply: its kind and its answer

contractVars == <<stored, told>>

Open == [status |-> "open", record |-> None]
Waiting == [kind |-> "waiting", record |-> None]

ContractInit == stored = Open /\ told = Waiting

\* The turn closes with an answer, or without one, even if nobody waits any more.
Close ==
    /\ stored = Open /\ told.kind \notin {"answer", "failure"}
    /\ \/ stored' \in [status : {"completed"}, record : Answers] /\ stored'.record # None
       \/ stored' = [status |-> "failed", record |-> None]
    /\ UNCHANGED told

\* The stored answer is told.
TellAnswer ==
    /\ told = Waiting /\ stored.status = "completed"
    /\ told' = [kind |-> "answer", record |-> stored.record]
    /\ UNCHANGED stored

\* A failure is told of a turn that stored no answer.
TellFailure ==
    /\ told = Waiting /\ stored.status \in {"open", "failed"}
    /\ told' = [kind |-> "failure", record |-> None]
    /\ UNCHANGED stored

\* The caller leaves, or its own task is cancelled.
Leave ==
    /\ told = Waiting
    /\ told' \in {[kind |-> k, record |-> None] : k \in {"gone", "cancelled"}}
    /\ UNCHANGED stored

ContractNext == Close \/ TellAnswer \/ TellFailure \/ Leave

ContractSpec == ContractInit /\ [][ContractNext]_contractVars
=============================================================================
