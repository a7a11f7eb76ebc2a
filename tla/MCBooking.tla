------------------------------ MODULE MCBooking ------------------------------
(***************************************************************************)
(* Model checking of Booking.  Calls and dispatchers are interchangeable.  *)
(***************************************************************************)
EXTENDS Booking, TLC

Symmetry == Permutations(Calls) \union Permutations(Dispatchers)

\* With one length, what was said decides nothing that happens later: states
\* that differ only in it behave alike, and only the properties of consent
\* tell them apart.
WithoutConsent ==
  <<tables, earliest, [c \in Calls |-> [turn[c] EXCEPT !.told = {}]], staff,
    counted>>
=============================================================================
