--------------------------- MODULE CallTranscript ---------------------------
(***************************************************************************)
(* What a voice call's transcript promises, whatever requests raced to     *)
(* write it: turns are appended one at a time, the same words are not      *)
(* answered twice running, and nothing follows the turn with which the     *)
(* assistant ended the conversation.                                       *)
(***************************************************************************)
EXTENDS Sequences

CONSTANT Texts

VARIABLES
  transcript,  \* the words answered, in order
  over         \* whether the assistant ended the conversation

Init ==
  /\ transcript = <<>>
  /\ over = FALSE

Answer(text) ==
  /\ ~over
  /\ transcript # <<>> => transcript[Len(transcript)] # text
  /\ transcript' = Append(transcript, text)
  /\ over' \in BOOLEAN

Next == \E text \in Texts : Answer(text)

Spec == Init /\ [][Next]_<<transcript, over>>
=============================================================================
