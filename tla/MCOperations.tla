---------------------------- MODULE MCOperations ----------------------------
(***************************************************************************)
(* Small instances of what runs beside the calls and shares no state: the  *)
(* backups of a host, a browser's session, a team, the page of the         *)
(* conversations, the forms an organization describes itself in.  A        *)
(* behaviour is one of one part; the others stay in an initial state.      *)
(***************************************************************************)
EXTENDS Backups, Sessions, Team, ConversationPanel, Catalogue, TLC

VARIABLE part  \* the part that runs

dashboardVars == <<panelVars, catalogueVars>>
operationsVars == <<part, backupsVars, sessionVars, teamVars, dashboardVars>>

OperationsInit ==
  /\ BackupsInit /\ SessionsInit /\ TeamInit /\ PanelInit /\ CatalogueInit
  /\ part \in {"backups", "sessions", "team", "panel", "catalogue"}
  /\ part # "backups" => taken = 0
  /\ part # "catalogue" => kind = "faqs" /\ rows = NoRows

OperationsNext ==
  \/ /\ part = "backups" /\ BackupsNext
     /\ UNCHANGED <<part, sessionVars, teamVars, dashboardVars>>
  \/ /\ part = "sessions" /\ SessionsNext
     /\ UNCHANGED <<part, backupsVars, teamVars, dashboardVars>>
  \/ /\ part = "team" /\ TeamNext
     /\ UNCHANGED <<part, backupsVars, sessionVars, dashboardVars>>
  \/ /\ part = "panel" /\ PanelNext
     /\ UNCHANGED <<part, backupsVars, sessionVars, teamVars, catalogueVars>>
  \/ /\ part = "catalogue" /\ CatalogueNext
     /\ UNCHANGED <<part, backupsVars, sessionVars, teamVars, panelVars>>

OperationsSpec == OperationsInit /\ [][OperationsNext]_operationsVars

\* Nothing tells one request, or one tab, or one key from another.  The tabs of the
\* forms go by the names of the requests: the two are never of one behaviour.
Interchangeable == Permutations(Requests) \union Permutations(Keys)
-----------------------------------------------------------------------------
(* States that differ only in what no later step and no property depends   *)
(* on are one to TLC.                                                      *)

\* Of a dump, whether its sidecar says "no organizations", and whether it holds
\* tenants; of one that left the disk, what is left beside it, and its age or
\* whether its host was lost, as its object is; of a cycle, how it began once its
\* dump was due or not, and what it would record once it has failed; of a
\* success that health no longer counts, its time.
DumpView(d) ==
  LET known == [dump[d] EXCEPT !.orgs = @ = "zero", !.holds = @ = "tenants"]
  IN  IF ~known.existed \/ known.file # "none" THEN known
      ELSE [known EXCEPT !.meta = "none", !.marker = FALSE,
              !.made = IF known.remote = "good" THEN @ ELSE 0,
              !.gone = @ \/ known.remote = "good"]
BackupsView ==
  <<now, database, bad, taken, loop, [d \in Names |-> DumpView(d)],
    [cycle EXCEPT !.ifDue = @ /\ InPhase("pruning"),
                  !.newest = IF cycle.failed THEN 0 ELSE @,
                  !.record = @ /\ ~cycle.failed],
    IF Healthy THEN status ELSE 0>>

\* Of a token that neither the browser nor a request has, and which nobody can
\* show again, how it ended; and of one whose parent is such a token, or raced,
\* the parent, unless another has the same.
InHand(t) ==
  cookie = t \/ \E b \in Requests : t \in {request[b].shown, request[b].new}
Alone(t) == \A s \in Tokens \ {t} : token[s].parent # token[t].parent
ParentMatters(t) ==
  token[t].parent \notin raced /\ (InHand(token[t].parent) \/ ~Alone(t))
SessionsView ==
  <<issued, cookie, active, request, faults, crossed, raced,
    [t \in Tokens |->
       <<IF InHand(t) \/ (t \in Live /\ ~crossed /\ faults = 0)
         THEN token[t].state ELSE "none",
         IF ParentMatters(t) THEN token[t].parent ELSE 0>>]>>

\* What a tab shows of a row that changed behind its back, and what the last form
\* said of one that is mixed, but for whether there was one.
Vague(row) == row # NoRow
CatalogueView ==
  <<kind, rows, saves, saved, saveFaults, mixed, behind,
    [t \in Tabs |-> <<tabs[t].load, tabs[t].read,
       [i \in Ids |-> IF <<t, i>> \in behind /\ saves[t].id # i
                      THEN <<Vague(tabs[t].shown[i])>> ELSE tabs[t].shown[i]]>>],
    [i \in Ids |-> IF i \in mixed THEN <<Vague(lastForm[i])>> ELSE lastForm[i]]>>

View ==
  <<part, CASE part = "backups" -> BackupsView
            [] part = "sessions" -> SessionsView
            [] part = "team" -> teamVars
            [] part = "panel" -> panelVars
            [] part = "catalogue" -> CatalogueView>>
=============================================================================
