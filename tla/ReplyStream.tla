----------------------------- MODULE ReplyStream -----------------------------
(***************************************************************************)
(* One turn of the AI provider: the rounds in which the model is asked,    *)
(* speaks, asks for tools and is given their results, until a round asks   *)
(* for none and its document is the reply.  Streamed, words reach the      *)
(* caller as they arrive; otherwise only the reply does.                   *)
(***************************************************************************)
EXTENDS Naturals, FiniteSets

CONSTANTS
  ToolRounds,  \* AI_MAX_TOOL_ROUNDS
  Tools,       \* the tools the model may ask for
  CallSlots,   \* the indices of the tool calls of a response
  MaxPieces    \* bound: chunks of a turn that carry anything

ASSUME ReplyAssumption == ToolRounds \in Nat /\ CallSlots \subseteq Nat /\ MaxPieces \in Nat

VARIABLES
  live,      \* whether the reply is streamed
  stage,     \* where the turn is
  now,       \* the round
  response,  \* the model's response so far
  results,   \* what each tool call of each round gave
  heard,     \* words the caller has heard, by round
  told,      \* words and tool calls the model is told it had, by round
  flags,     \* what earlier rounds' tools leave for the rest of the turn
  usage,     \* requests made, requests reported, one still to be reported
  reply      \* the reply the turn gives

replyVars == <<live, stage, now, response, results, heard, told, flags, usage, reply>>

Rounds == 0..ToolRounds
Books == "book_appointment"
Moves == "transfer_to_human"

\* arguments: a JSON text that is empty, cut short, or whole.
NoCall == [name |-> "", arguments |-> "empty"]

\* pieces: the turn's chunks so far; content: how many of this response's;
\* words: those that hold words to be spoken;
\* held: those of them that wait for the round to end.
NoResponse ==
  [pieces |-> 0, content |-> 0, words |-> 0, held |-> 0,
   calls |-> [i \in CallSlots |-> NoCall]]

NoResult == [name |-> "", gave |-> "nothing"]
NoReply == [given |-> FALSE, words |-> 0, unbooked |-> FALSE, moved |-> FALSE]

Asked == {i \in CallSlots : response.calls[i] # NoCall}

\* Acting on a tool call, not just offering tools, ends with the budget.
AllowTools == now < ToolRounds

ReplyInit ==
  /\ live \in BOOLEAN
  /\ stage = "asking"
  /\ now = 0
  /\ response = NoResponse
  /\ results = [r \in Rounds |-> [i \in CallSlots |-> NoResult]]
  /\ heard = [r \in Rounds |-> 0]
  /\ told = [r \in Rounds |-> [words |-> 0, calls |-> {}]]
  /\ flags = [failed |-> FALSE, unbooked |-> FALSE, moved |-> FALSE]
  /\ usage = [made |-> 0, reported |-> 0, pending |-> FALSE]
  /\ reply = NoReply

-----------------------------------------------------------------------------
(* A response.                                                             *)

Request ==
  /\ stage = "asking"
  /\ stage' = "receiving"
  /\ usage' = [usage EXCEPT !.made = @ + 1, !.pending = live]
  /\ UNCHANGED <<live, now, response, results, heard, told, flags, reply>>

Piece ==
  /\ stage = "receiving"
  /\ response.pieces < MaxPieces
  /\ UNCHANGED <<live, stage, now, results, told, flags, usage, reply>>

\* Words that follow a tool call in a response are not of it.
Content(spoken) ==
  LET kept == Asked = {}
      holds == kept /\ spoken /\ (~live \/ flags.failed)
  IN  /\ Piece
      /\ response' = [response EXCEPT
           !.pieces = @ + 1,
           !.content = @ + (IF kept THEN 1 ELSE 0),
           !.words = @ + (IF kept /\ spoken THEN 1 ELSE 0),
           !.held = @ + (IF holds THEN 1 ELSE 0)]
      /\ heard' = IF kept /\ spoken /\ ~holds
                  THEN [heard EXCEPT ![now] = @ + 1] ELSE heard

\* A fragment of a tool call: the first names it, the others carry its arguments.
Fragment(i, call) ==
  /\ Piece
  /\ IF response.calls[i] = NoCall
     THEN call.name \in Tools
     ELSE /\ call.name = response.calls[i].name
          /\ call.arguments \in {"cut", "whole"}
          /\ response.calls[i].arguments # "whole"
  /\ response' = [response EXCEPT !.pieces = @ + 1, !.calls[i] = call]
  /\ UNCHANGED heard

\* The response is complete.
EndResponse ==
  /\ stage = "receiving"
  /\ stage' = IF Asked # {} /\ AllowTools THEN "acting" ELSE "ending"
  /\ usage' = [usage EXCEPT !.reported = @ + 1, !.pending = FALSE]
  /\ UNCHANGED <<live, now, response, results, heard, told, flags, reply>>

\* The provider does not answer, or stops halfway.
ProviderFails ==
  /\ stage = "receiving"
  /\ stage' = "failed"
  /\ usage' = [usage EXCEPT !.reported = @ + 1, !.pending = FALSE]
  /\ UNCHANGED <<live, now, response, results, heard, told, flags, reply>>

-----------------------------------------------------------------------------
(* Tools.                                                                  *)

\* The calls of round r that were run.
Run(r) == {i \in CallSlots : results[r][i] # NoResult}

\* One call after the other; arguments that are no JSON reach no tool.
RunCall(i, ok) ==
  /\ stage = "acting"
  /\ i \in Asked \ Run(now)
  /\ \A j \in Asked : j < i => j \in Run(now)
  /\ response.calls[i].arguments = "cut" => ~ok
  /\ results' = [results EXCEPT ![now][i] = 
       [name |-> response.calls[i].name, gave |-> IF ok THEN "success" ELSE "failure"]]
  /\ UNCHANGED <<live, stage, now, response, heard, told, flags, usage, reply>>

\* Whether a call of round r to one of these tools gave this.
Gave(r, result, tools) ==
  \E i \in Run(r) : results[r][i].name \in tools /\ results[r][i].gave = result

\* Mutant: only the round before counts.
FailedLastRound == Gave(now, "failure", Tools)

FailedSoFar == flags.failed \/ Gave(now, "failure", Tools)

\* _updated_booking_state
UnbookedSoFar ==
  ~Gave(now, "success", {Books}) /\ (flags.unbooked \/ Gave(now, "failure", {Books}))

\* The model is told what it said and asked for, and what that gave.
EndRound ==
  /\ stage = "acting"
  /\ Run(now) = Asked
  /\ told' = [told EXCEPT ![now] = [words |-> response.words - response.held, calls |-> Asked]]
  /\ flags' = [failed |-> FailedSoFar, unbooked |-> UnbookedSoFar,
               moved |-> flags.moved \/ Gave(now, "success", {Moves})]
  /\ now' = now + 1
  /\ stage' = "asking"
  /\ response' = [NoResponse EXCEPT !.pieces = response.pieces]
  /\ UNCHANGED <<live, results, heard, usage, reply>>

-----------------------------------------------------------------------------
(* The end of the turn.                                                    *)

\* The document is the reply, and what was held of it is heard.
EndTurn ==
  /\ stage = "ending"
  /\ response.content > 0
  /\ stage' = "done"
  /\ heard' = [heard EXCEPT ![now] = @ + response.held]
  /\ reply' = [given |-> TRUE, words |-> response.words, unbooked |-> flags.unbooked,
               moved |-> flags.moved]
  /\ UNCHANGED <<live, now, response, results, told, flags, usage>>

\* Tools where there is no budget left, nothing at all, or no document that
\* can be read: cut short, or not of the schema.
NoDocument ==
  /\ stage = "ending"
  /\ stage' = "failed"
  /\ UNCHANGED <<live, now, response, results, heard, told, flags, usage, reply>>

\* Whoever consumes the turn stops: the caller is gone, or the task is ended.
AbandonReply ==
  /\ stage \notin {"done", "failed", "abandoned"}
  /\ stage' = "abandoned"
  /\ usage' = [usage EXCEPT !.reported = @ + (IF usage.pending THEN 1 ELSE 0),
                            !.pending = FALSE]
  /\ UNCHANGED <<live, now, response, results, heard, told, flags, reply>>

ReplyNext ==
  \/ Request
  \/ \E spoken \in BOOLEAN : Content(spoken)
  \/ \E i \in CallSlots, name \in Tools, arguments \in {"empty", "cut", "whole"} :
       Fragment(i, [name |-> name, arguments |-> arguments])
  \/ EndResponse \/ ProviderFails
  \/ \E i \in CallSlots, ok \in BOOLEAN : RunCall(i, ok)
  \/ EndRound \/ EndTurn \/ NoDocument \/ AbandonReply

ReplySpec == ReplyInit /\ [][ReplyNext]_replyVars

-----------------------------------------------------------------------------
(* Properties.                                                             *)

\* Every variable holds what the code can put there.
ReplyTypeOK ==
  /\ live \in BOOLEAN /\ now \in Rounds
  /\ stage \in {"asking", "receiving", "acting", "ending",
                "done", "failed", "abandoned"}
  /\ response.content \in 0..response.pieces
  /\ response.words \in 0..response.content /\ response.held \in 0..response.words
  /\ heard \in [Rounds -> 0..MaxPieces]
  /\ \A r \in Rounds : told[r].words \in 0..MaxPieces /\ told[r].calls \subseteq CallSlots
  /\ flags \in [failed : BOOLEAN, unbooked : BOOLEAN, moved : BOOLEAN]
  /\ reply.given <=> stage = "done"

\* When the model is asked again, the words it is told it said in earlier rounds
\* are those the caller heard, and every tool call of theirs has a result
\* (stream_reply, _assistant_tool_call_message).
ToldWhatWasHeard ==
  stage \in {"asking", "receiving"} =>
    \A r \in 0..now - 1 :
      /\ told[r].words = heard[r]
      /\ told[r].calls = Run(r)

\* What the model says of a failed tool in a round that tries a tool again is
\* not heard, however many rounds lie between (stream_reply).
RetriedFailureUnheard ==
  \A r \in Rounds :
    Run(r) # {} /\ (\E q \in 0..r - 1 : Gave(q, "failure", Tools)) => heard[r] = 0

\* A turn that gives a reply has said all its words, whether they were held or
\* not (stream_reply).
ReplyIsHeard == reply.given => heard[now] = reply.words

\* The assistant may not hang up after its reply if a booking failed and none
\* succeeded in that round or since; one call moved is moved
\* (_updated_booking_state).
FlagsTellTheTurn ==
  reply.given =>
    /\ reply.unbooked <=> \E r \in Rounds :
         /\ Gave(r, "failure", {Books})
         /\ \A q \in r..ToolRounds : ~Gave(q, "success", {Books})
    /\ reply.moved <=> \E r \in Rounds : Gave(r, "success", {Moves})

\* A request counts once against the bill, however its turn ended; one that
\* is abandoned counts if it was streamed (_report_usage).
EveryRequestReported ==
  stage \notin {"receiving"} => 
    usage.made - usage.reported = 0 \/ (stage = "abandoned" /\ ~live)

\* Types; words told and heard alike; none heard of a failure that is retried;
\* requests reported once.
ReplyInv ==
  /\ ReplyTypeOK /\ ToldWhatWasHeard /\ RetriedFailureUnheard
  /\ ReplyIsHeard /\ FlagsTellTheTurn /\ EveryRequestReported
=============================================================================
