------------------------------ MODULE MCPanels ------------------------------
(***************************************************************************)
(* A conversation from both ends, for TLC: the server's requests, and the  *)
(* two hooks of the pages that stream an answer.  A hook sees the server   *)
(* only as the replies it reads, which it models itself: the three share   *)
(* no state, and one run checks them, one at a time.                       *)
(***************************************************************************)
EXTENDS MCConversation, AskPanel, PipelineRun

VARIABLE part      \* which of the three is run

McInit ==
    /\ ConversationInit /\ PanelInit /\ PipelineInit
    /\ \/ part = "conversation"
       \/ part \in {"panel", "playground"} /\ \A shopper \in Shoppers : active[shopper] = NoSession

McNext ==
    /\ UNCHANGED part
    /\ \/ part = "conversation" /\ ConversationNext /\ UNCHANGED <<panelVars, pipelineVars>>
       \/ part = "panel" /\ PanelNext /\ UNCHANGED <<conversationVars, pipelineVars>>
       \/ part = "playground" /\ PipelineNext /\ UNCHANGED <<conversationVars, panelVars>>

\* The fairness is that of the conversation: no process of it works while a hook is run.
McSpec ==
    /\ McInit /\ [][McNext]_<<conversationVars, panelVars, pipelineVars, part>>
    /\ \A p \in Processes : WF_conversationVars(Works(p))
=============================================================================
