-------------------------------- MODULE Team --------------------------------
(***************************************************************************)
(* The members of one organization and who may change them.  A request     *)
(* reads whoever sent it, then the member it is about, then the others,    *)
(* one statement after another, and keeps each as it was first read; it    *)
(* writes, is answered and commits.  Nothing is locked until it writes.    *)
(***************************************************************************)
EXTENDS Naturals

CONSTANTS
  Members,      \* the users of the organization
  Founder,      \* who registered it
  MaxTeamChanges  \* bound: requests sent

ASSUME TeamAssumption == Founder \in Members /\ MaxTeamChanges \in Nat

VARIABLES
  member,    \* the users table and its roles
  change,    \* the request each member has under way
  changed,   \* how many there were
  together   \* history: two were under way at once

teamVars == <<member, change, changed, together>>

Absent == [role |-> "none", active |-> FALSE]
NoChange == [at |-> "none", kind |-> "none", target |-> Founder, to |-> "none",
             actor |-> Absent, was |-> Absent]

TeamInit ==
  /\ member = [m \in Members |->
       IF m = Founder THEN [role |-> "Owner", active |-> TRUE] ELSE Absent]
  /\ change = [m \in Members |-> NoChange]
  /\ changed = 0
  /\ together = FALSE

Manages(user) == user.active /\ user.role \in {"Owner", "Admin"}
IsOwner(user) == user.role = "Owner"
ActiveOwners == {m \in Members : member[m].active /\ IsOwner(member[m])}

OnlyChange == UNCHANGED <<member, changed, together>>
Ask(m, next) == change' = [change EXCEPT ![m] = next]

\* Whoever sends a request is read first, and may manage users.
SendChange(m, kind, target, to) ==
  /\ change[m].at = "none"
  /\ changed < MaxTeamChanges
  /\ Manages(member[m])
  /\ Ask(m, [NoChange EXCEPT !.at = "sent", !.kind = kind, !.target = target,
                             !.to = to, !.actor = member[m]])
  /\ changed' = changed + 1
  /\ together' = (together \/ \E o \in Members : change[o].at # "none")
  /\ UNCHANGED member

\* An address that is taken is refused.
Invite(m) ==
  LET c == change[m]
  IN  /\ c.at = "sent" /\ c.kind = "invite"
      /\ c.to \in {"Admin", "Member"}
      /\ member[c.target] = Absent
      /\ \A o \in Members : <<change[o].at, change[o].target>> # <<"written", c.target>>
      /\ Ask(m, [c EXCEPT !.at = "written"])
      /\ OnlyChange

\* The member is read; whoever sent the request is as he was.
ReadTarget(m) ==
  LET c == change[m]
  IN  /\ c.at = "sent" /\ c.kind # "invite"
      /\ member[c.target] # Absent
      /\ Ask(m, [c EXCEPT !.at = "read",
                   !.was = IF c.target = m THEN c.actor ELSE member[c.target]])
      /\ OnlyChange

\* Only an owner makes an owner, or acts on one.
NeedsOwner(c) == IsOwner(c.was) \/ (c.kind = "role" /\ c.to = "Owner")

TakesOwner(c) ==
  IsOwner(c.was) /\ (c.kind = "deactivate" \/ (c.kind = "role" /\ c.to # "Owner"))

\* The others are read, but for the sender, who is as he was read.
OtherOwner(m, c) ==
  \E o \in Members \ {c.target} :
    LET seen == IF o = m THEN c.actor ELSE member[o]
    IN  seen.active /\ IsOwner(seen)

\* Mutant: any who manage users may make an owner.
AllowUnasked(m) ==
  LET c == change[m]
  IN  /\ c.at = "read"
      /\ c.kind = "deactivate" => c.target # m
      /\ TakesOwner(c) => OtherOwner(m, c)
      /\ Ask(m, [c EXCEPT !.at = "allowed"])
      /\ OnlyChange

\* Mutant: the owners who are not active count.
AllowLast(m) ==
  LET c == change[m]
  IN  /\ c.at = "read"
      /\ NeedsOwner(c) => IsOwner(c.actor)
      /\ c.kind = "deactivate" => c.target # m
      /\ TakesOwner(c) => \E o \in Members \ {c.target} : IsOwner(member[o])
      /\ Ask(m, [c EXCEPT !.at = "allowed"])
      /\ OnlyChange

Allow(m) ==
  LET c == change[m]
  IN  /\ c.at = "read"
      /\ NeedsOwner(c) => IsOwner(c.actor)
      /\ c.kind = "deactivate" => c.target # m
      /\ TakesOwner(c) => OtherOwner(m, c)
      /\ Ask(m, [c EXCEPT !.at = "allowed"])
      /\ OnlyChange

\* The account, or its role, has been written by somebody else.
Held(m, c) ==
  \E o \in Members \ {m} :
    /\ change[o].at = "written" /\ change[o].target = c.target
    /\ (change[o].kind = "role") = (c.kind = "role")

\* What is written is waited for while somebody else holds it; a role that is no
\* longer there to be taken away fails the request.
Write(m) ==
  LET c == change[m]
  IN  /\ c.at = "allowed"
      /\ ~Held(m, c)
      /\ c.kind = "role" => member[c.target].role = c.was.role
      /\ Ask(m, [c EXCEPT !.at = "written"])
      /\ OnlyChange

\* Only what differs from what was read is written.
CommitChange(m) ==
  LET c == change[m]
      user == member[c.target]
  IN  /\ c.at = "written"
      /\ member' = [member EXCEPT ![c.target] =
           CASE c.kind = "invite" -> [role |-> c.to, active |-> TRUE]
             [] c.kind = "role" -> [user EXCEPT !.role = c.to]
             [] c.kind = "activate" ->
                  [user EXCEPT !.active = user.active \/ ~c.was.active]
             [] c.kind = "deactivate" ->
                  [user EXCEPT !.active = user.active /\ ~c.was.active]]
      /\ Ask(m, NoChange)
      /\ UNCHANGED <<changed, together>>

\* It is refused, fails or is lost.
DropChange(m) ==
  /\ change[m].at # "none"
  /\ Ask(m, NoChange)
  /\ OnlyChange

TeamNext ==
  \E m \in Members :
    \/ \E target \in Members :
         \/ \E kind \in {"invite", "role"}, to \in {"Owner", "Admin", "Member"} :
              SendChange(m, kind, target, to)
         \/ \E kind \in {"activate", "deactivate"} : SendChange(m, kind, target, "none")
    \/ Invite(m) \/ ReadTarget(m) \/ Allow(m) \/ Write(m)
    \/ CommitChange(m) \/ DropChange(m)

TeamSpec == TeamInit /\ [][TeamNext]_teamVars

-----------------------------------------------------------------------------
(* Properties.                                                             *)

Users == [role : {"Owner", "Admin", "Member"}, active : BOOLEAN] \union {Absent}

\* Every variable holds what the code can put there.
TeamTypeOK ==
  /\ \A m \in Members :
       /\ {member[m], change[m].actor, change[m].was} \subseteq Users
       /\ change[m].at \in {"none", "sent", "read", "allowed", "written"}
       /\ change[m].kind \in {"none", "invite", "role", "activate", "deactivate"}
       /\ change[m].target \in Members
  /\ changed \in Nat /\ together \in BOOLEAN

\* Where no two requests were under way at once, whatever they were and whoever
\* sent them, an owner can sign in (_ensure_other_active_owner_exists).
OwnerRemainsAlone == ~together => ActiveOwners # {}

\* Whoever becomes an owner, or stops being one, does so by the request of someone
\* who was an owner when he sent it, however the requests crossed
\* (_require_acting_owner).
OnlyOwnersTouchOwners ==
  [][\A t \in Members :
       IsOwner(member[t]) # IsOwner(member'[t]) =>
       \E m \in Members :
         change[m].at = "written" /\ change[m].target = t /\ IsOwner(change[m].actor)
    ]_teamVars

\* Types, and an owner remains where requests do not cross.
TeamInv == TeamTypeOK /\ OwnerRemainsAlone

-----------------------------------------------------------------------------
(* What the code says of itself and does not do.                           *)

\* domain/exceptions/base.py, LastOwnerError: "An organization must always retain
\* at least one active Owner."
OwnerRemains == ActiveOwners # {}
=============================================================================
