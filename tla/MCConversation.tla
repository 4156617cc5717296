--------------------------- MODULE MCConversation ---------------------------
(***************************************************************************)
(* Instances of Conversation for TLC.                                      *)
(***************************************************************************)
EXTENDS Conversation, TLC

CONSTANTS chat, workspace, op1

\* The two conversations are kept alike, and so are the alternatives.
Symmetry == Permutations({chat, workspace})
=============================================================================
