----------------------------- MODULE VoiceLines -----------------------------
(***************************************************************************)
(* The routing table: which organization an assistant answers for.         *)
(* Operators run commands on it, each one transaction that reads a line by *)
(* its assistant, by its organization and by its phone, decides on what it *)
(* read, and writes at the end; nothing is locked until then.  The turns   *)
(* of calls are routed by it meanwhile.                                    *)
(***************************************************************************)
EXTENDS Naturals, FiniteSets

CONSTANTS
  Businesses,      \* the organizations
  Assistants,      \* the provider's assistants
  PhoneIds,          \* the provider's phone numbers
  None,            \* no organization, assistant or phone
  MaxLines,        \* bound: lines ever inserted
  MaxCommands      \* bound: commands given, each maybe before the last is done

ASSUME LinesAssumption ==
  /\ None \notin Businesses \union Assistants \union PhoneIds
  /\ {MaxLines, MaxCommands} \subseteq Nat

VARIABLES
  routing,     \* the voice_lines table, by primary key
  command,   \* the commands, in the order they were given
  given,     \* how many commands there were
  granted,   \* history: whom an operator last gave each assistant to
  mixed      \* history: a command committed over one that committed meanwhile

linesVars == <<routing, command, given, granted, mixed>>

LineIds == 1..MaxLines
Commands == 1..MaxCommands
NoLine == [org |-> None, assistant |-> None, phone |-> None, active |-> FALSE]
NoCommand ==
  [at |-> "none", kind |-> "none", org |-> None, assistant |-> None, phone |-> None,
   from |-> None, replace |-> FALSE, overtaken |-> FALSE,
   byAssistant |-> 0, seen |-> NoLine, current |-> 0, seenCurrent |-> NoLine, byPhone |-> 0,
   retires |-> 0, writes |-> 0, wanted |-> NoLine, loaded |-> NoLine]

Unique(table) ==
  \A i, j \in LineIds :
    i # j /\ table[i] # NoLine /\ table[j] # NoLine =>
      /\ table[i].org # table[j].org
      /\ table[i].assistant # table[j].assistant
      /\ table[i].phone # table[j].phone \/ table[i].phone = None

LineRows == [org : Businesses, assistant : Assistants,
             phone : PhoneIds \union {None}, active : BOOLEAN] \union {NoLine}

Mapped == {i \in LineIds : routing[i] # NoLine}
\* The line a unique column has a value in, 0 if there is none.
LineWhere(Matches(_)) ==
  IF \E i \in Mapped : Matches(routing[i])
  THEN CHOOSE i \in Mapped : Matches(routing[i])
  ELSE 0

OwnerOf(a) ==
  IF \E i \in Mapped : routing[i].assistant = a
  THEN routing[CHOOSE i \in Mapped : routing[i].assistant = a].org
  ELSE None

\* Any table that commands given one at a time have left.
LinesInit ==
  /\ routing \in [LineIds -> LineRows] /\ Unique(routing)
  /\ \E n \in 0..MaxLines : Mapped = 1..n
  /\ granted = [a \in Assistants |-> OwnerOf(a)]
  /\ command = [w \in Commands |-> NoCommand]
  /\ given = 0
  /\ mixed = FALSE

Reading(w, at) == command[w].at = at
OnlyCommand(w, next) ==
  /\ command' = [command EXCEPT ![w] = next]
  /\ UNCHANGED <<routing, given, granted, mixed>>

\* Row i as it is now.
Row(i) == IF i = 0 THEN NoLine ELSE routing[i]

-----------------------------------------------------------------------------
(* A command of the provisioning CLI.                                      *)

\* Confirming one's own organization as the owner is as confirming none.
Assign(w, org, assistant, phone, from, replace) ==
  /\ w = given + 1
  /\ command' = [command EXCEPT ![w] =
       [NoCommand EXCEPT !.at = "assistant", !.kind = "assign", !.org = org,
                         !.assistant = assistant, !.phone = phone,
                         !.from = from, !.replace = replace]]
  /\ given' = w
  /\ UNCHANGED <<routing, granted, mixed>>

SetActive(w, org, kind) ==
  /\ w = given + 1
  /\ command' = [command EXCEPT ![w] =
       [NoCommand EXCEPT !.at = "current", !.kind = kind, !.org = org]]
  /\ given' = w
  /\ UNCHANGED <<routing, granted, mixed>>

ReadByAssistant(w) ==
  LET o == command[w]
      i == LineWhere(LAMBDA l : l.assistant = o.assistant)
  IN  /\ Reading(w, "assistant")
      /\ OnlyCommand(w, [o EXCEPT !.at = "current", !.byAssistant = i,
                                  !.seen = Row(i)])

ReadCurrent(w) ==
  LET o == command[w]
      i == LineWhere(LAMBDA l : l.org = o.org)
  IN  /\ Reading(w, "current")
      /\ OnlyCommand(w, [o EXCEPT !.at = IF o.kind = "assign" THEN "phone" ELSE "read",
                                  !.current = i, !.seenCurrent = Row(i)])

ReadByPhone(w) ==
  LET o == command[w]
      i == IF o.phone = None THEN 0 ELSE LineWhere(LAMBDA l : l.phone = o.phone)
  IN  /\ Reading(w, "phone")
      /\ OnlyCommand(w, [o EXCEPT !.at = "read", !.byPhone = i])

\* A phone that routes elsewhere is not taken.
PhoneFree(o, mine) == o.byPhone = 0 \/ o.byPhone \in mine

\* Mutant: any organization named confirms it.
MayReassignFromAny(o) ==
  /\ o.seen.org \notin {None, o.org}
  /\ o.from # None
  /\ o.current # 0 => o.replace
  /\ PhoneFree(o, {o.byAssistant, o.current})

\* An assistant that answers for another organization moves if that one is
\* named, and whatever the target has may be retired.
MayReassign(o) ==
  /\ o.seen.org \notin {None, o.org}
  /\ o.from = o.seen.org
  /\ o.current # 0 => o.replace
  /\ PhoneFree(o, {o.byAssistant, o.current})

MayUpdate(o) == o.seen.org = o.org /\ PhoneFree(o, {o.byAssistant})

MaySwitch(o) ==
  /\ o.byAssistant = 0 /\ o.current # 0
  /\ o.replace
  /\ PhoneFree(o, {o.current})

MayCreate(o) == o.byAssistant = 0 /\ o.current = 0 /\ PhoneFree(o, {})

\* A refusal, or a failure anywhere: the transaction is rolled back.
Refuse(w) == ~Reading(w, "none") /\ OnlyCommand(w, NoCommand)

\* The row an assignment makes of one that was read as `was`.
Assigned(o, was) ==
  [org |-> o.org, assistant |-> o.assistant, active |-> TRUE,
   phone |-> IF o.phone = None THEN was.phone ELSE o.phone]

\* The repository loads row i once more before it writes it; gone, it fails.
Load(w, retires, i, wanted) ==
  /\ i \in Mapped \ {retires}
  /\ OnlyCommand(w, [command[w] EXCEPT
       !.at = "loaded", !.retires = retires, !.writes = i, !.wanted = wanted,
       !.loaded = routing[i], !.byAssistant = 0, !.seen = NoLine, !.current = 0,
       !.seenCurrent = NoLine, !.byPhone = 0])

\* What the rows that were read allow.
Provision(w) ==
  LET o == command[w]
  IN  /\ Reading(w, "read") /\ o.kind = "assign"
      /\ \/ MayReassign(o) /\ Load(w, o.current, o.byAssistant, Assigned(o, o.seen))
         \/ /\ MayUpdate(o) /\ Assigned(o, o.seen) # o.seen
            /\ Load(w, 0, o.byAssistant, Assigned(o, o.seen))
         \/ MaySwitch(o) /\ Load(w, 0, o.current, Assigned(o, o.seenCurrent))

\* The line is to stop, or to resume, taking calls; the other columns are passed
\* as they were read.
ChangeActive(w) ==
  LET o == command[w]
  IN  /\ Reading(w, "read") /\ o.kind # "assign" /\ o.current # 0
      /\ Load(w, 0, o.current, [o.seenCurrent EXCEPT !.active = o.kind = "activate"])

\* Rows are locked and keys checked from a write to the commit, so that the two
\* are one step to every other command.  A key that is taken fails it.
CommitLines(w, table) ==
  /\ Unique(table)
  /\ routing' = table
  /\ command' = [v \in Commands |->
       IF v = w THEN NoCommand
       ELSE [command[v] EXCEPT !.overtaken =
               @ \/ (command[v].at # "none" /\ table # routing)]]
  /\ mixed' = (mixed \/ command[w].overtaken)
  /\ granted' =
       LET o == command[w]
       IN  IF o.kind # "assign" THEN granted
           ELSE [a \in Assistants |-> IF a = o.assistant THEN o.org
                                      ELSE IF granted[a] = o.org THEN None
                                      ELSE granted[a]]
  /\ UNCHANGED given

\* A key no line has and no command remembers.
NewLine ==
  LET remembered == UNION {{command[v].byAssistant, command[v].current,
                            command[v].byPhone, command[v].retires,
                            command[v].writes} : v \in Commands}
      fresh == LineIds \ (Mapped \union remembered)
  IN  IF fresh = {} THEN 0 ELSE CHOOSE i \in fresh : \A j \in fresh : i <= j

CreateLine(w) ==
  LET o == command[w]
  IN  /\ Reading(w, "read") /\ o.kind = "assign"
      /\ MayCreate(o) /\ NewLine # 0
      /\ CommitLines(w, [routing EXCEPT ![NewLine] = Assigned(o, NoLine)])

\* The DELETE of a line that is retired, and the UPDATE of those columns that are
\* not to be as they were loaded; of a row that is gone, it fails.
WriteLine(w) ==
  LET o == command[w]
      kept == [i \in LineIds |-> IF i = o.retires THEN NoLine ELSE routing[i]]
      row  == [f \in DOMAIN NoLine |->
                 IF o.wanted[f] # o.loaded[f] THEN o.wanted[f] ELSE routing[o.writes][f]]
  IN  /\ Reading(w, "loaded")
      /\ o.writes \in Mapped
      /\ CommitLines(w, [kept EXCEPT ![o.writes] = row])

\* The line was as wanted when it was read: nothing is written.
LeaveLine(w) ==
  LET o == command[w]
  IN  /\ Reading(w, "read") /\ o.kind = "assign"
      /\ MayUpdate(o) /\ Assigned(o, o.seen) = o.seen
      /\ CommitLines(w, routing)

-----------------------------------------------------------------------------
(* A turn of a call.                                                       *)

\* Mutant: the phone decides where the assistant has no line.
ResolveByEither(assistant, phone) ==
  LET i == LineWhere(LAMBDA l : l.assistant = assistant)
      j == LineWhere(LAMBDA l : l.phone = phone)
  IN  IF i # 0 THEN i ELSE j

\* The assistant decides where the request names one, else the phone.
ResolveVoiceLine(assistant, phone) ==
  IF assistant # None THEN LineWhere(LAMBDA l : l.assistant = assistant)
  ELSE IF phone # None THEN LineWhere(LAMBDA l : l.phone = phone) ELSE 0

\* The organization a turn is answered for: that of an active line.
AnsweredFor(assistant, phone) ==
  LET i == ResolveVoiceLine(assistant, phone)
  IN  IF Row(i).active THEN Row(i).org ELSE None

LinesNext ==
  \E w \in Commands :
       \/ \E org \in Businesses :
            \/ \E a \in Assistants, p \in PhoneIds \union {None},
                  from \in Businesses, replace \in BOOLEAN :
                 Assign(w, org, a, p, from, replace)
            \/ \E kind \in {"activate", "deactivate"} : SetActive(w, org, kind)
       \/ ReadByAssistant(w) \/ ReadCurrent(w) \/ ReadByPhone(w)
       \/ Provision(w) \/ ChangeActive(w) \/ CreateLine(w)
       \/ WriteLine(w) \/ LeaveLine(w) \/ Refuse(w)

LinesSpec == LinesInit /\ [][LinesNext]_linesVars

-----------------------------------------------------------------------------
(* Properties.                                                             *)

\* Every variable holds what the code can put there.
LinesTypeOK ==
  /\ routing \in [LineIds -> LineRows]
  /\ Unique(routing)
  /\ given \in 0..MaxCommands
  /\ mixed \in BOOLEAN
  /\ granted \in [Assistants -> Businesses \union {None}]
  /\ \A w \in Commands :
       LET o == command[w]
       IN  /\ {o.seen, o.seenCurrent, o.wanted, o.loaded} \subseteq LineRows
           /\ o.byAssistant = 0 <=> o.seen = NoLine
           /\ o.at = "loaded" <=> o.writes # 0

\* Where commands did not overlap, the table says what operators were last told
\* of it: whom an assistant answers for.
RoutesAsGranted == ~mixed => \A a \in Assistants : OwnerOf(a) = granted[a]

\* A call that names an assistant is answered for the organization it was given
\* to, whatever line its phone has (VoiceService._resolve_voice_line).
AnswersIsolated ==
  ~mixed => \A a \in Assistants, p \in PhoneIds \union {None} :
              AnsweredFor(a, p) \in {None, granted[a]}

\* Types, one line to an organization, an assistant and a phone, and calls
\* routed as operators said.
LinesInv == LinesTypeOK /\ RoutesAsGranted /\ AnswersIsolated

\* An organization loses its assistant only by a command that names it: as the
\* one to move it from, or as the one to replace it for.  A command that another
\* overtook may take it unnamed (VoiceLineProvisioningService.provision).
TakenOnlyAsNamed ==
  [][\A a \in Assistants :
       OwnerOf(a) # None /\ OwnerOf(a)' # OwnerOf(a) =>
         \E w \in Commands :
           /\ command[w].at \in {"read", "loaded"} /\ command'[w].at = "none"
           /\ \/ command[w].overtaken
              \/ command[w].from = OwnerOf(a)
              \/ command[w].org = OwnerOf(a) /\ command[w].replace]_linesVars
=============================================================================
