-------------------------- MODULE MCConversations ---------------------------
(* TLC instances of Conversations.                                         *)
EXTENDS Conversations, TLC

AllRaised == {"created", "assignee", "escalated", "closed"}
=============================================================================
