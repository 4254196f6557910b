--------------------------- MODULE MCConversation ---------------------------
(* Two guests, one slot for their runs, a history of one round. *)
EXTENDS Conversation

CONSTANTS miyazaki, walt

MCGuests == {miyazaki, walt}
MCKinds == AllKinds

=============================================================================
