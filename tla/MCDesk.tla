------------------------------- MODULE MCDesk -------------------------------
(***************************************************************************)
(* Small instances of what callers, staff and operators do to the records  *)
(* of an organization: visits that overlap, the lines calls come in on.  A *)
(* behaviour is one of one part; the others stay in an initial state.      *)
(***************************************************************************)
EXTENDS MCBooking, VoiceLines

VARIABLE part  \* the part that runs

deskVars == <<part, vars, linesVars>>

DeskInit ==
  /\ Init /\ LinesInit
  /\ part \in {"visits", "lines"}
  /\ part # "lines" => Mapped = {}
  \* organizations and assistants are numbered by the lines they start with
  /\ \A i \in Mapped : routing[i].org = i /\ routing[i].assistant = i

DeskNext ==
  \/ part = "visits" /\ Next /\ UNCHANGED <<part, linesVars>>
  \/ part = "lines" /\ LinesNext /\ UNCHANGED <<part, vars>>

DeskSpec == DeskInit /\ [][DeskNext]_deskVars

View == <<part, WithoutConsent, linesVars>>
=============================================================================
