--------------------------- MODULE MCConversation ---------------------------
(* Instances of Conversation for TLC. *)
EXTENDS Conversation, TLC

CONSTANTS r0, S0

EarlierSession == r0 :> S0
=============================================================================
