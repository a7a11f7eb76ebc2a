---------------------------- MODULE PageLifecycle ----------------------------
(***************************************************************************)
(* What emergency paging promises, with no workers, rows, retries or       *)
(* leases: the page's own life, and who may have been reached by then.     *)
(***************************************************************************)
CONSTANT Pages

VARIABLES
  status,   \* where each page is in its life
  reached   \* for each page, the recipients some message was handed over for

vars == <<status, reached>>

Init ==
  /\ status = [p \in Pages |-> "none"]
  /\ reached = [p \in Pages |-> {}]

Move(p, from, to) ==
  /\ status[p] \in from
  /\ status' = [status EXCEPT ![p] = to]
  /\ UNCHANGED reached

Start(p) == Move(p, {"none"}, "paging_primary")

\* Nobody is too late: an unresolved page can still be taken.
Take(p) ==
  Move(p, {"paging_primary", "paging_backup", "unresolved"}, "acknowledged")

Escalate(p) == Move(p, {"paging_primary"}, "paging_backup")

GiveUp(p) == Move(p, {"paging_primary", "paging_backup"}, "unresolved")

\* A message is handed over only for a page that exists.  The backup's may
\* go out only after the page was with the backup; a message already on its
\* way may still arrive on a page that has been taken or given up.
Reach(p, role) ==
  /\ status[p] \in IF role = "backup"
                   THEN {"paging_backup", "acknowledged", "unresolved"}
                   ELSE {"paging_primary", "paging_backup",
                         "acknowledged", "unresolved"}
  /\ reached' = [reached EXCEPT ![p] = @ \union {role}]
  /\ UNCHANGED status

Next ==
  \E p \in Pages :
    \/ Start(p) \/ Take(p) \/ Escalate(p) \/ GiveUp(p)
    \/ \E role \in {"primary", "backup"} : Reach(p, role)

Spec == Init /\ [][Next]_vars

\* A started page does not wait for ever on anyone.
FairSpec == Spec /\ \A p \in Pages : WF_vars(Escalate(p) \/ GiveUp(p))
=============================================================================
