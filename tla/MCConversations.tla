-------------------------- MODULE MCConversations --------------------------
(* The questions among the classes of messages. *)
EXTENDS Conversations

Questions == {"ask", "follow", "change"}
=============================================================================
