--------------------------- MODULE MCConversation ---------------------------
(* Small instances of Conversation. *)
EXTENDS Conversation, TLC
CONSTANTS author, final, deck, v1, v2, none, c1, c2, missing, old, new

\* Frozen versions are alike, and every property of these runs is a safety one.
VersionSymmetry == Permutations(Frozen)
=============================================================================
