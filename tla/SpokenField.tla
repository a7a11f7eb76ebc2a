---------------------------- MODULE SpokenField ----------------------------
(***************************************************************************)
(* What the caller hears of an answer that is still arriving: one string   *)
(* of a JSON document, decoded as its characters come.  A chunk may end    *)
(* anywhere, in the key, in an escape, between the halves of a surrogate   *)
(* pair.                                                                   *)
(*                                                                         *)
(* A character is a symbol.  The four digits of an escape are two symbols  *)
(* here, the first of which tells what they stand for.                     *)
(***************************************************************************)
EXTENDS Naturals, Sequences, SequencesExt

CONSTANT MaxUnits  \* bound: characters of the message

ASSUME SpokenAssumption == MaxUnits \in Nat

VARIABLES
  message,    \* the message of the answer, as units that are written somehow
  fed,        \* how much of the document has arrived
  extractor,  \* the extractor: its state and its buffer
  spoken      \* what has been handed on

spokenVars == <<message, fed, extractor, spoken>>

Quote == "quote"
Backslash == "backslash"
Key == <<Quote, "k", "f", Quote>>

\* The ways a character is written, and what it says: as it is, behind a
\* backslash, as a code, as two codes, or as half of a pair, which says nothing.
Unit(chars, says) == [chars |-> chars, says |-> says]
Code(digits) == <<Backslash, "u", digits, "0">>
Units ==
  {Unit(<<"a">>, <<"a">>), Unit(<<Backslash, Quote>>, <<Quote>>),
   Unit(<<Backslash, Backslash>>, <<Backslash>>), Unit(Code("x"), <<"x">>),
   Unit(Code("high") \o Code("low"), <<"astral">>),
   Unit(Code("high"), <<>>), Unit(Code("low"), <<>>)}

\* A high half before a low one is a pair, and written as one.
WellFormed(units) ==
  \A i \in 1..(Len(units) - 1) :
    ~(units[i].chars = Code("high") /\ units[i + 1].chars = Code("low"))

\* The answer: a member, the message, the members that follow it.
Document ==
  <<"{", Quote, "k", Quote, ":", Quote, "f", Backslash, Quote, Quote, ",">>
    \o Key \o <<":", "space", Quote>>
    \o FlattenSeq([i \in DOMAIN message |-> message[i].chars])
    \o <<Quote, ",", Quote, "a", Quote, ":", Quote, "k", "f", Quote, "}">>

Meant == FlattenSeq([i \in DOMAIN message |-> message[i].says])

SpokenInit ==
  /\ \E n \in 0..MaxUnits : message \in [1..n -> Units]
  /\ WellFormed(message)
  /\ fed = 0
  /\ extractor = [state |-> "seek_key", buffer |-> <<>>]
  /\ spoken = <<>>

-----------------------------------------------------------------------------
(* The string.                                                             *)

\* What stands at the front of it: how long it is and what it says; 0 if it has
\* not arrived in full.
Wait == [take |-> 0, says |-> <<>>]

\* Mutant: a high half is dropped unless the low one is there already.
AtFrontAtOnce(source) ==
  IF source[1] # Backslash THEN [take |-> 1, says |-> <<source[1]>>]
  ELSE IF Len(source) < 2 THEN Wait
  ELSE IF source[2] # "u" THEN [take |-> 2, says |-> <<source[2]>>]
  ELSE IF Len(source) < 4 THEN Wait
  ELSE IF source[3] = "low" THEN [take |-> 4, says |-> <<>>]
  ELSE IF source[3] # "high" THEN [take |-> 4, says |-> <<source[3]>>]
  ELSE IF Len(source) >= 8 /\ SubSeq(source, 5, 7) = <<Backslash, "u", "low">>
  THEN [take |-> 8, says |-> <<"astral">>]
  ELSE [take |-> 4, says |-> <<>>]

AtFront(source) ==
  IF source[1] # Backslash THEN [take |-> 1, says |-> <<source[1]>>]
  ELSE IF Len(source) < 2 THEN Wait
  ELSE IF source[2] # "u" THEN [take |-> 2, says |-> <<source[2]>>]
  ELSE IF Len(source) < 4 THEN Wait
  ELSE IF source[3] = "low" THEN [take |-> 4, says |-> <<>>]
  ELSE IF source[3] # "high" THEN [take |-> 4, says |-> <<source[3]>>]
  ELSE IF Len(source) < 8 THEN Wait
  ELSE IF SubSeq(source, 5, 7) = <<Backslash, "u", "low">>
  THEN [take |-> 8, says |-> <<"astral">>]
  ELSE [take |-> 4, says |-> <<>>]

RECURSIVE ScanString(_, _)
ScanString(source, said) ==
  IF source = <<>> THEN [rest |-> source, said |-> said, closed |-> FALSE]
  ELSE IF source[1] = Quote THEN [rest |-> Tail(source), said |-> said, closed |-> TRUE]
  ELSE LET front == AtFront(source)
       IN  IF front.take = 0 THEN [rest |-> source, said |-> said, closed |-> FALSE]
           ELSE ScanString(SubSeq(source, front.take + 1, Len(source)), said \o front.says)

-----------------------------------------------------------------------------
(* The states before it.                                                   *)

\* Where a pattern first ends in the buffer, 0 if it does not.
EndsAt(pattern, buffer) ==
  LET ends == {i \in Len(pattern)..Len(buffer) :
                 SubSeq(buffer, i - Len(pattern) + 1, i) = pattern}
  IN  IF ends = {} THEN 0 ELSE CHOOSE i \in ends : \A j \in ends : i <= j

LastOf(n, buffer) ==
  IF Len(buffer) <= n THEN buffer ELSE SubSeq(buffer, Len(buffer) - n + 1, Len(buffer))

\* In its state the extractor looks for a pattern, and goes on with what follows
\* it, or keeps the last characters and waits.
Seek(e, state, pattern, next, kept) ==
  LET end == EndsAt(pattern, e.buffer)
  IN  IF e.state # state THEN e
      ELSE IF end = 0 THEN [e EXCEPT !.buffer = LastOf(kept, @)]
      ELSE [state |-> next, buffer |-> SubSeq(e.buffer, end + 1, Len(e.buffer))]

SeekKey(e) == Seek(e, "seek_key", Key, "seek_colon", Len(Key) - 1)
SeekColon(e) == Seek(e, "seek_colon", <<":">>, "seek_open_quote", Len(e.buffer))
SeekOpenQuote(e) == Seek(e, "seek_open_quote", <<Quote>>, "in_string", 0)

\* A chunk arrives.
Feed(chunk) ==
  LET e == SeekOpenQuote(SeekColon(SeekKey(
             [extractor EXCEPT !.buffer = extractor.buffer \o chunk])))
      scan == ScanString(e.buffer, <<>>)
  IN  IF extractor.state = "finished" THEN UNCHANGED <<extractor, spoken>>
      ELSE IF e.state # "in_string" THEN extractor' = e /\ UNCHANGED spoken
      ELSE /\ extractor' = [state |-> IF scan.closed THEN "finished" ELSE "in_string",
                            buffer |-> scan.rest]
           /\ spoken' = spoken \o scan.said

SpokenNext ==
  \E to \in 1..Len(Document) :
    /\ fed < to
    /\ Feed(SubSeq(Document, fed + 1, to))
    /\ fed' = to
    /\ UNCHANGED message

SpokenSpec == SpokenInit /\ [][SpokenNext]_spokenVars

-----------------------------------------------------------------------------
(* Properties.                                                             *)

\* However the answer is cut into chunks, nothing is spoken that the message does
\* not say, nor in another order (StreamingStringFieldExtractor.feed: "nothing
\* here assumes a chunk boundary aligns with anything").
SpokenFaithfully == IsPrefix(spoken, Meant)

\* Once all of it has arrived, all of the message has been spoken.
SpokenInFull ==
  fed = Len(Document) => spoken = Meant /\ extractor.state = "finished"

\* What is spoken is the message, as far as it has arrived and in the end all of it.
SpokenAsMeant == SpokenFaithfully /\ SpokenInFull

=============================================================================
