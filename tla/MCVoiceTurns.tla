---------------------------- MODULE MCVoiceTurns ----------------------------
(***************************************************************************)
(* Small instances of a live call: its requests (two in flight, on two     *)
(* workers, from a caller who reports a hazard or does not), one turn of   *)
(* the provider, the field of its reply that is spoken as it arrives.  A   *)
(* behaviour is one of one part; the others stay in an initial state.      *)
(***************************************************************************)
EXTENDS VoiceTurns, ReplyStream, SpokenField, TLC

VARIABLE part  \* the part that runs

callVars == <<part, vars, replyVars, spokenVars>>

CallInit ==
  /\ Init /\ ReplyInit /\ SpokenInit
  /\ part \in {"requests", "reply", "spoken"}
  /\ part # "requests" => ~streaming
  /\ part # "reply" => ~live
  /\ part # "spoken" => message = <<>>

CallNext ==
  \/ part = "requests" /\ Next /\ UNCHANGED <<part, replyVars, spokenVars>>
  \/ part = "reply" /\ ReplyNext /\ UNCHANGED <<part, vars, spokenVars>>
  \/ part = "spoken" /\ SpokenNext /\ UNCHANGED <<part, vars, replyVars>>

CallSpec == CallInit /\ [][CallNext]_callVars

\* Requests are interchangeable, and so are processes.
Interchangeable == Permutations(Requests) \cup Permutations(Processes)
-----------------------------------------------------------------------------
(* States that differ only in what no later step and no property depends   *)
(* on are one to TLC: a registry's numbers, but for which request is its   *)
(* last; a request's number, but for whether it is the newest; that a      *)
(* fixed sentence was said; what a turn was deciding once it has decided;  *)
(* how often the call was moved, once a move was forgotten.                *)

ViewOf(r) ==
  LET q == req[r]
      open == q.phase # "closing"
  IN  IF q.phase = "idle" THEN q
      ELSE [q EXCEPT !.seq = IsCurrent(r), !.n = Listened(r), !.out = @ \ {"fallback"},
                     !.round = IF open THEN @ ELSE 0, !.held = @ /\ open,
                     !.unbooked = @ /\ open, !.lead = @ /\ open]

View ==
  <<part, replyVars, spokenVars, streaming, said, ended, tenant, database, lock,
    [r \in Requests |-> ViewOf(r)], sent, failures, onWire, unled,
    IF moves.lost > 0 THEN <<>> ELSE <<moves.accepted>>>>
=============================================================================
