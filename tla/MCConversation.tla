--------------------------- MODULE MCConversation ---------------------------
(* Model-checking instances of Conversation.                                *)
EXTENDS Conversation, TLC

CONSTANTS c1, C1, c2, c3

\* c1 and C1 differ in the case of the tool's name only.
MCKeyOf == (c1 :> "k1" @@ C1 :> "k1" @@ c2 :> "k2" @@ c3 :> "k3")
=============================================================================
