----------------------------- MODULE MCDispatch -----------------------------
(***************************************************************************)
(* Model checking of Dispatch: a call up to its report, and what becomes   *)
(* of the ticket and the alert of one that is over.                        *)
(***************************************************************************)
EXTENDS Dispatch

VARIABLE part  \* which of the two

\* Calls that are over: an alarming one each, reported, with its follow-up, its
\* ticket and its alert.  From here on only the dashboard and the outbox write.
RecordedInit ==
  /\ conversation = [c \in Calls |->
       [status |-> "completed", words |-> "none", outcome |-> "none"]]
  /\ ticket = [c \in Calls |-> [status |-> "new", closed |-> FALSE]]
  /\ requested = [c \in Calls |-> FALSE]
  /\ paged \in [Calls -> BOOLEAN]
  /\ followUp = [c \in Calls |->
       [open |-> TRUE, emergency |-> TRUE, resolved |-> FALSE]]
  /\ alert \in [Calls ->
       {[status |-> "pending", attempts |-> 0, due |-> TRUE],
        [status |-> "not_configured", attempts |-> 0, due |-> FALSE]}]
  /\ tx = [c \in Calls |-> [k \in Kinds |-> Idle]]
  /\ staff = [d \in Dispatchers |-> NoRequest]
  /\ outbox = [o \in Outboxes |-> NoSend]
  /\ line = [c \in Calls |->
       [pending |-> "none", words |-> "alarming", turns |-> 1, reports |-> 1]]
  /\ failures = 0
  /\ failed = [c \in Calls |-> FALSE]
  /\ handled = [c \in Calls |-> TRUE]
  /\ finished = [c \in Calls |-> FALSE]
  /\ accepted = [c \in Calls |-> 0]
  /\ lost = [c \in Calls |-> 0]

CallNext ==
  \E c \in Calls :
    (\E k \in Kinds : TransactionStep(c, k)) \/ TurnStep(c) \/ ReportStep(c)

DeskNext ==
  \/ \E d \in Dispatchers : StaffStep(d)
  \/ \E o \in Outboxes : OutboxStep(o)
  \/ \E c \in Calls : RetryDue(c)

PartsInit ==
  \/ part = "call" /\ Init
  \/ part = "desk" /\ RecordedInit

PartsNext ==
  \/ part = "call" /\ CallNext /\ UNCHANGED part
  \/ part = "desk" /\ DeskNext /\ UNCHANGED part

\* Where only the call runs, its alert waits for an outbox that takes no step:
\* Fairness holds of the second part alone, and so does what needs it.
PartsSpec == PartsInit /\ [][PartsNext]_<<vars, part>> /\ Fairness
=============================================================================
