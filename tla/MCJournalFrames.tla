-------------------------- MODULE MCJournalFrames --------------------------
(***************************************************************************)
(* Payloads of one and of two bytes; frames of both sizes in every order.  *)
(***************************************************************************)
EXTENDS JournalFrames

CONSTANTS x, y                                          \* model values

MCPayloads == {<<x>>, <<y>>, <<x, y>>}

=============================================================================
