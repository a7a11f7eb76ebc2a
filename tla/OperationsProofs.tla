-------------------------- MODULE OperationsProofs --------------------------
(***************************************************************************)
(* For any members, browsers, tabs and requests: sessions stay with the    *)
(* browser they were given to; settings stay what a form said and what a   *)
(* tab shows; the page of the conversations shows the one that is          *)
(* selected; and only owners touch owners, one of whom remains where       *)
(* requests do not cross.                                                  *)
(*                                                                         *)
(* Tokens are issued one from another: what a request may do to them       *)
(* depends on the token it was shown, and whether another has been shown   *)
(* the same (GoodRequest).                                                 *)
(*                                                                         *)
(* A change of a setting holds the row, and its key, that it has written   *)
(* until it commits (HoldsKeyAlone); what its tab is told is what it will  *)
(* have stored (AnswersAsStored).                                          *)
(*                                                                         *)
(* A fetch of a conversation that no message crossed has what is stored    *)
(* (GoodLoad), and the page then lists that, but for what the message      *)
(* under way adds to either (PanelUpToDate).                               *)
(*                                                                         *)
(* Of the members, unlocked reads leave a request little: that the role it *)
(* takes away is still there, once it has written (RolesHeld); who sent    *)
(* it. A request that is alone knows all that it read (AloneKnows).        *)
(***************************************************************************)
EXTENDS Sessions, Catalogue, ConversationPanel, Team, WellFoundedInduction,
        SequenceTheorems, TLAPS

-----------------------------------------------------------------------------
(* The session of a browser.                                               *)

TokenRows ==
  [state : {"none", "live", "revoked", "expired"}, parent : 0..MaxTokens]
RequestRows ==
  [kind : {"none", "login", "refresh", "logout"},
   at : {"looking", "checking", "issuing", "answered", "done"},
   shown : 0..MaxTokens, new : 0..MaxTokens, revokes : BOOLEAN,
   answer : {"none", "set", "clear", "inactive", "keep"}]

SessionsShape ==
  /\ token \in [Tokens -> TokenRows]
  /\ issued \in 0..MaxTokens /\ cookie \in 0..MaxTokens
  /\ active \in BOOLEAN /\ crossed \in BOOLEAN /\ faults \in Nat
  /\ request \in [Requests -> RequestRows]

\* The server has yet to make up its mind.
Undecided(r) == r.at \in {"looking", "checking", "issuing"}

\* What a request that is as far as r has done.
RequestStage(r) ==
  /\ r.kind = "none" => r = NoRequest
  /\ r.kind # "none" => r.at # "done" \/ r.answer # "none"
  /\ r.kind = "login" => r.shown = 0 /\ r.at # "looking"
  /\ r.kind \in {"refresh", "logout"} => r.shown # 0
  /\ r.kind = "logout" => r.new = 0 /\ r.at \notin {"checking", "issuing"}
  /\ Undecided(r) => r.answer = "none" /\ r.new = 0
  /\ r.at = "answered" =>
       /\ r.kind \in {"login", "refresh"} => r.new # 0 /\ r.answer \in {"none", "set"}
       /\ r.kind = "refresh" => r.revokes
       /\ r.kind = "logout" => r.answer \in {"none", "clear"}
  /\ r.answer = "set" => r.new # 0
  /\ r.revokes => r.at = "answered"

\* A token that was issued is on record once its request has committed; no two
\* requests were issued the same one.
Unissued ==
  /\ \A t \in Tokens : t > issued => token[t].state = "none"
  /\ \A t \in Tokens : token[t].parent # 0 =>
       /\ token[t].state # "none"
       /\ token[t].parent \in Tokens
       /\ token[token[t].parent].state \in {"revoked", "expired"}

IssuedTo(b, r) ==
  /\ r.new <= issued
  /\ r.at = "answered" /\ r.new # 0 => token[r.new].state = "none"
  /\ \A o \in Requests \ {b} : r.new # 0 => request[o].new # r.new

HoldsAlone(b, r) ==
  \A o \in Requests \ {b} : r.revokes /\ request[o].revokes => request[o].shown # r.shown

\* A refresh that was let through has a token that was good; if another request has
\* the same one, or has made a session of it, the two had it at once.
Lineage(b, r) ==
  /\ r.kind = "refresh" /\ r.at \in {"checking", "issuing", "answered"} =>
       /\ token[r.shown].state # "none"
       /\ \A t \in Tokens : token[t].parent = r.shown => r.shown \in raced
  /\ \A o \in Requests \ {b} :
       r.shown # 0 /\ request[o].shown = r.shown => r.shown \in raced

\* A request that none crosses has the cookie in hand until it is answered, is refused
\* only for a cookie that is no good, and has stored a new one only in its place.
Uncrossed(b, r) ==
  ~crossed /\ r.kind # "none" =>
    /\ \A o \in Requests \ {b} : Free(o)
    /\ Undecided(r) \/ r.answer # "none" => cookie = r.shown
    /\ r.kind = "refresh" /\ r.answer = "clear" => r.at = "done" /\ r.shown \notin Live
    /\ r.at = "done" /\ r.answer = "set" =>
         token[r.new].state = "none" \/ r.shown \notin Live

AllSettled ==
  Live \subseteq {cookie} /\ (cookie # 0 => token[cookie].state \in {"live", "expired"})

Untroubled == faults = 0 /\ ~crossed /\ active

\* Where nothing goes wrong: the session before, during and after the one request.
Story(r) ==
  Untroubled /\ r.kind # "none" =>
    /\ r.answer \notin {"inactive", "keep"}
    /\ Undecided(r) \/ (r.at = "answered" /\ r.answer # "none") => AllSettled
    /\ r.at = "answered" /\ r.answer = "none" => Live \subseteq {r.shown} /\ cookie = r.new
    /\ r.at = "answered" /\ r.kind = "logout" /\ r.shown \in Live => r.revokes
    /\ r.at = "done" /\ r.answer = "set" =>
         Live \subseteq {r.new} /\ token[r.new].state \in {"live", "expired"}
    /\ r.at = "done" /\ r.answer = "clear" => Live = {}

GoodRequest(b, r) ==
  /\ r \in RequestRows /\ RequestStage(r) /\ IssuedTo(b, r) /\ HoldsAlone(b, r)
  /\ Lineage(b, r) /\ Uncrossed(b, r) /\ Story(r)

SessionsIInv ==
  /\ SessionsShape /\ Unissued /\ ForkOnlyIfRaced
  /\ \A b \in Requests : GoodRequest(b, request[b])
  /\ Quiet /\ Untroubled => AllSettled

LEMMA SessionConstants ==
  /\ MaxTokens \in Nat /\ MaxSessionFaults \in Nat /\ 0 \in 0..MaxTokens
  /\ Tokens \subseteq 0..MaxTokens /\ Tokens \subseteq Nat /\ 0 \notin Tokens
BY SessionBoundsAssumption DEF Tokens

LEMMA SessionsInvFollows ==
  ASSUME SessionsIInv
  PROVE  SessionsInv
<1> USE DEF SessionsIInv
<1>1. SessionsTypeOK
  <2>1. /\ token \in [Tokens -> [state : {"none", "live", "revoked", "expired"},
                                 parent : 0..MaxTokens]]
        /\ {issued, cookie} \subseteq 0..MaxTokens
        /\ active \in BOOLEAN
    BY DEF SessionsShape, TokenRows
  <2>2. request \in [Requests -> [kind : {"none", "login", "refresh", "logout"},
          at : {"looking", "checking", "issuing", "answered", "done"},
          shown : 0..MaxTokens, new : 0..MaxTokens, revokes : BOOLEAN,
          answer : {"none", "set", "clear", "inactive", "keep"}]]
    BY DEF SessionsShape, RequestRows
  <2>3. \A a, b \in Requests :
          a # b /\ request[a].revokes /\ request[b].revokes =>
            request[a].shown # request[b].shown
    BY DEF GoodRequest, HoldsAlone
  <2> QED  BY <2>1, <2>2, <2>3 DEF SessionsTypeOK
<1>2. CookieIsTheSession  BY DEF CookieIsTheSession, Untroubled, AllSettled
<1> QED  BY <1>1, <1>2 DEF SessionsInv

-----------------------------------------------------------------------------
(* A step of one request.                                                  *)

LEMMA RequestKnown ==
  ASSUME SessionsIInv, NEW b \in Requests
  PROVE  /\ request[b] \in RequestRows /\ GoodRequest(b, request[b])
         /\ RequestStage(request[b])
BY DEF SessionsIInv, GoodRequest

LEMMA NoRequestIsGood ==
  ASSUME SessionsShape, NEW b \in Requests
  PROVE  GoodRequest(b, NoRequest)
<1>1. NoRequest \in RequestRows  BY SessionConstants DEF NoRequest, RequestRows
<1>2. /\ NoRequest.kind = "none" /\ NoRequest.new = 0 /\ NoRequest.shown = 0
      /\ ~NoRequest.revokes /\ NoRequest.at = "done" /\ NoRequest.answer = "none"
  BY DEF NoRequest
<1>3. RequestStage(NoRequest)  BY <1>2 DEF RequestStage, Undecided
<1>4. IssuedTo(b, NoRequest)  BY <1>2, SessionConstants DEF IssuedTo, SessionsShape
<1>5. HoldsAlone(b, NoRequest) /\ Lineage(b, NoRequest)  BY <1>2 DEF HoldsAlone, Lineage
<1>6. Uncrossed(b, NoRequest) /\ Story(NoRequest)  BY <1>2 DEF Uncrossed, Story
<1> QED  BY <1>1, <1>3, <1>4, <1>5, <1>6 DEF GoodRequest

\* A step of one request that leaves the tokens and the cookie, and the request as one
\* may be, leaves the rest as it was; one that ends it so was a fault.
LEMMA RequestMoves ==
  ASSUME SessionsIInv, NEW b \in Requests, NEW r, RequestIs(b, r),
         UNCHANGED <<token, cookie, active>>,
         issued' \in 0..MaxTokens, issued <= issued',
         faults' \in Nat, faults' = 0 => faults = 0,
         crossed' \in BOOLEAN, crossed => crossed', raced \subseteq raced',
         GoodRequest(b, r)',
         r.kind = "none" => ~Untroubled'
  PROVE  SessionsIInv'
<1>1. request \in [Requests -> RequestRows] /\ r \in RequestRows
  BY DEF SessionsIInv, SessionsShape, GoodRequest
<1>2. /\ request' \in [Requests -> RequestRows] /\ request'[b] = r
      /\ \A o \in Requests \ {b} : request'[o] = request[o]
  BY <1>1 DEF RequestIs
<1>3. SessionsShape'  BY <1>2 DEF SessionsIInv, SessionsShape
<1>4. Live' = Live /\ (AllSettled' <=> AllSettled)  BY DEF Live, AllSettled
<1>5. Unissued'
  <2>1. \A t \in Tokens : t > issued' => t > issued
    BY SessionConstants DEF SessionsIInv, SessionsShape
  <2> QED  BY <2>1 DEF SessionsIInv, Unissued
<1>6. ForkOnlyIfRaced'  BY DEF SessionsIInv, ForkOnlyIfRaced
<1>7. Untroubled' => Untroubled  BY <1>3 DEF Untroubled, SessionsIInv, SessionsShape
<1>8. ASSUME NEW o \in Requests
      PROVE  GoodRequest(o, request[o])'
  <2>1. CASE o = b  BY <1>2, <2>1
  <2>2. CASE o # b
    <3>1. PICK q : q = request[o]  OBVIOUS
    <3>2. request'[o] = q  BY <1>2, <2>2, <3>1
    <3>3. GoodRequest(o, q)  BY <3>1, RequestKnown
    <3>4. IssuedTo(o, q)'
      <4>1. q.new <= issued'
        BY <3>3, SessionConstants
           DEF GoodRequest, IssuedTo, RequestRows, SessionsIInv, SessionsShape
      <4>2. q.new # 0 => q.new # r.new
        BY <1>2, <2>2, <3>2 DEF GoodRequest, IssuedTo
      <4> QED  BY <1>2, <2>2, <3>3, <4>1, <4>2 DEF GoodRequest, IssuedTo
    <3>5. HoldsAlone(o, q)'
      <4>1. q.revokes /\ r.revokes => q.shown # r.shown
        BY <1>2, <2>2, <3>2 DEF GoodRequest, HoldsAlone
      <4> QED  BY <1>2, <2>2, <3>3, <4>1 DEF GoodRequest, HoldsAlone
    <3>6. Lineage(o, q)'
      <4>1. q.shown # 0 /\ r.shown = q.shown => q.shown \in raced'
        BY <1>2, <2>2, <3>2 DEF GoodRequest, Lineage
      <4> QED  BY <1>2, <2>2, <3>3, <4>1 DEF GoodRequest, Lineage
    <3>7. Uncrossed(o, q)'
      <4> SUFFICES ASSUME ~crossed', q.kind # "none"
                   PROVE  Uncrossed(o, q)'
        BY DEF Uncrossed
      <4>1. r.kind = "none"
        BY <1>2, <2>2, <3>2 DEF GoodRequest, Uncrossed, Free
      <4>2. Uncrossed(o, q)  BY <3>3 DEF GoodRequest
      <4> QED  BY <1>2, <1>4, <2>2, <4>1, <4>2 DEF Uncrossed, Free
    <3>8. Story(q)'  BY <1>4, <1>7, <3>3 DEF GoodRequest, Story
    <3> QED  BY <3>2, <3>3, <3>4, <3>5, <3>6, <3>7, <3>8 DEF GoodRequest
  <2> QED  BY <2>1, <2>2
<1>9. (Quiet /\ Untroubled => AllSettled)'
  <2> SUFFICES ASSUME Quiet', Untroubled'
               PROVE  FALSE
    OBVIOUS
  <2>1. r.kind = "none"  BY <1>2 DEF Quiet, Free
  <2> QED  BY <2>1
<1> QED  BY <1>3, <1>5, <1>6, <1>8, <1>9 DEF SessionsIInv

LEMMA OthersStay ==
  ASSUME SessionsIInv, NEW b \in Requests, NEW r \in RequestRows, RequestIs(b, r)
  PROVE  request'[b] = r /\ \A o \in Requests \ {b} : request'[o] = request[o]
BY DEF SessionsIInv, SessionsShape, RequestIs

\* A request is sent with the cookie there is.
LEMMA SendKeeps ==
  ASSUME SessionsIInv, NEW b \in Requests, NEW sort, NEW at, Send(b, sort, at),
         \/ sort = "login" /\ at = "checking" /\ cookie = 0
         \/ sort \in {"refresh", "logout"} /\ at = "looking" /\ cookie # 0
  PROVE  SessionsIInv'
<1>1. PICK r : r = [NoRequest EXCEPT !.kind = sort, !.at = at, !.shown = cookie]  OBVIOUS
<1>2. /\ RequestIs(b, r) /\ Free(b) /\ UNCHANGED <<token, issued, cookie, active, faults>>
      /\ crossed' = (crossed \/ ~Quiet)
      /\ raced' = IF cookie # 0 /\ \E o \in Requests : request[o].shown = cookie
                  THEN raced \union {cookie} ELSE raced
  BY <1>1 DEF Send
<1>3. NoRequest \in RequestRows /\ cookie \in 0..MaxTokens
  BY NoRequestIsGood DEF SessionsIInv, SessionsShape, GoodRequest
<1>4. /\ r \in RequestRows /\ r.kind = sort /\ r.at = at /\ r.shown = cookie /\ r.new = 0
      /\ ~r.revokes /\ r.answer = "none"
  BY <1>1, <1>3 DEF RequestRows, NoRequest
<1>5. \A o \in Requests \ {b} : request'[o] = request[o]
  BY <1>2, <1>4, OthersStay
<1>6. RequestStage(r)'  BY <1>4 DEF RequestStage, Undecided
<1>7. IssuedTo(b, r)'
  BY <1>2, <1>4, SessionConstants DEF IssuedTo, SessionsIInv, SessionsShape
<1>8. HoldsAlone(b, r)'  BY <1>4 DEF HoldsAlone
<1>9. Lineage(b, r)'  BY <1>2, <1>4, <1>5 DEF Lineage
<1>10. Uncrossed(b, r)'
  BY <1>2, <1>4, <1>5 DEF Uncrossed, Quiet, Free
<1>11. Story(r)'
  <2>1. Untroubled' => Quiet /\ Untroubled  BY <1>2 DEF Untroubled
  <2>2. Untroubled' => AllSettled  BY <2>1 DEF SessionsIInv
  <2>3. AllSettled' <=> AllSettled  BY <1>2 DEF AllSettled, Live
  <2> QED  BY <1>4, <2>2, <2>3 DEF Story
<1>12. GoodRequest(b, r)'
  BY <1>4, <1>6, <1>7, <1>8, <1>9, <1>10, <1>11 DEF GoodRequest
<1>13. /\ issued' \in 0..MaxTokens /\ issued <= issued' /\ faults' \in Nat
       /\ (faults' = 0 => faults = 0) /\ crossed' \in BOOLEAN /\ (crossed => crossed')
       /\ raced \subseteq raced'
  BY <1>2, SessionConstants DEF SessionsIInv, SessionsShape
<1> QED  BY <1>2, <1>4, <1>12, <1>13, RequestMoves

\* A request that goes on, with the token it was sent with.
LEMMA RequestGoesOn ==
  ASSUME SessionsIInv, NEW b \in Requests, NEW r \in RequestRows, RequestIs(b, r),
         UNCHANGED <<token, cookie, active, crossed, raced>>,
         issued' \in 0..MaxTokens, issued <= issued',
         faults' \in Nat, faults' = 0 => faults = 0,
         r.kind = request[b].kind, r.kind # "none", r.shown = request[b].shown,
         RequestStage(r), IssuedTo(b, r)', HoldsAlone(b, r),
         r.kind = "refresh" /\ r.at \in {"checking", "issuing", "answered"} =>
           request[b].at \in {"checking", "issuing", "answered"} \/ r.shown \in Live,
         Undecided(r) \/ r.answer # "none" =>
           Undecided(request[b]) \/ request[b].answer # "none",
         r.kind = "refresh" /\ r.answer = "clear" =>
           r.at = "done" /\ (~crossed => r.shown \notin Live),
         r.at = "done" /\ r.answer = "set" => token[r.new].state = "none",
         Untroubled' => Story(r)
  PROVE  SessionsIInv'
<1>1. PICK q : q = request[b]  OBVIOUS
<1>2. GoodRequest(b, q)  BY <1>1, RequestKnown
<1>3. \A o \in Requests \ {b} : request'[o] = request[o]  BY OthersStay
<1>4. Live' = Live /\ (AllSettled' <=> AllSettled)  BY DEF Live, AllSettled
<1>5. RequestStage(r)' /\ HoldsAlone(b, r)'
  BY <1>3 DEF RequestStage, Undecided, HoldsAlone
<1>6. Lineage(b, r)'
  <2>1. Lineage(b, q)  BY <1>2 DEF GoodRequest
  <2>2. CASE r.shown \in Live
    <3>1. \A t \in Tokens : token[t].parent # r.shown
      BY <2>2, SessionConstants DEF SessionsIInv, Unissued, Live
    <3>2. token[r.shown].state # "none"  BY <2>2 DEF Live
    <3> QED  BY <1>1, <1>3, <2>1, <3>1, <3>2 DEF Lineage
  <2>3. CASE r.shown \notin Live  BY <1>1, <1>3, <2>1, <2>3 DEF Lineage
  <2> QED  BY <2>2, <2>3
<1>7. Uncrossed(b, r)'
  <2>1. Uncrossed(b, q)  BY <1>2 DEF GoodRequest
  <2> QED  BY <1>1, <1>3, <1>4, <2>1 DEF Uncrossed, Undecided, Free
<1>8. Story(r)'
  <2>1. Untroubled' => Untroubled  BY DEF Untroubled
  <2> QED  BY <1>4, <2>1 DEF Story, Undecided
<1>9. GoodRequest(b, r)'  BY <1>5, <1>6, <1>7, <1>8 DEF GoodRequest
<1>10. crossed' \in BOOLEAN  BY DEF SessionsIInv, SessionsShape
<1> QED  BY <1>9, <1>10, RequestMoves

\* Nothing was issued and no fault counted.
LEMMA Uncounted ==
  ASSUME SessionsIInv, UNCHANGED <<issued, faults>>
  PROVE  /\ issued' \in 0..MaxTokens /\ issued <= issued' /\ faults' \in Nat
         /\ faults' = 0 => faults = 0
BY SessionConstants DEF SessionsIInv, SessionsShape

\* A request that is not carried out is answered.
LEMMA AnswerKeeps ==
  ASSUME SessionsIInv, NEW b \in Requests,
         NEW answer \in {"clear", "inactive", "keep"}, Answer(b, answer),
         UNCHANGED <<token, issued, cookie, active, crossed, raced>>,
         faults' \in Nat, faults' = 0 => faults = 0,
         Undecided(request[b]), request[b].kind # "none",
         answer = "clear" =>
           request[b].kind = "refresh" /\ request[b].shown \notin Live,
         answer # "clear" => ~Untroubled'
  PROVE  SessionsIInv'
<1>1. PICK q : q = request[b]  OBVIOUS
<1>2. PICK r : r = [q EXCEPT !.at = "done", !.answer = answer]  OBVIOUS
<1>3. RequestIs(b, r)  BY <1>1, <1>2 DEF Answer
<1>4. q \in RequestRows /\ GoodRequest(b, q) /\ RequestStage(q)  BY <1>1, RequestKnown
<1>5. /\ r \in RequestRows /\ r.kind = q.kind /\ r.shown = q.shown /\ r.at = "done"
      /\ r.answer = answer /\ r.new = 0 /\ ~r.revokes
  BY <1>1, <1>2, <1>4 DEF RequestRows, RequestStage, Undecided
<1>6. RequestStage(r)  BY <1>1, <1>4, <1>5 DEF RequestStage, Undecided
<1>7. IssuedTo(b, r)'
  BY <1>5, SessionConstants DEF IssuedTo, SessionsIInv, SessionsShape
<1>8. HoldsAlone(b, r)  BY <1>5 DEF HoldsAlone
<1>9. Untroubled' => Story(r)
  <2> SUFFICES ASSUME Untroubled'
               PROVE  Story(r)
    OBVIOUS
  <2>1. Untroubled /\ answer = "clear"  BY DEF Untroubled
  <2>2. AllSettled  BY <1>1, <1>4, <2>1 DEF GoodRequest, Story
  <2>3. cookie = q.shown
    BY <1>1, <1>4, <2>1 DEF GoodRequest, Uncrossed, Untroubled
  <2>4. Live = {}  BY <1>1, <2>1, <2>2, <2>3 DEF AllSettled
  <2> QED  BY <1>5, <2>1, <2>4 DEF Story, Undecided
<1>10. issued' \in 0..MaxTokens /\ issued <= issued'
  BY SessionConstants DEF SessionsIInv, SessionsShape
<1> QED  BY <1>1, <1>3, <1>5, <1>6, <1>7, <1>8, <1>9, <1>10, RequestGoesOn

\* A request that is let through goes on.
LEMMA GoesToKeeps ==
  ASSUME SessionsIInv, NEW b \in Requests, NEW at \in {"checking", "issuing"},
         GoesTo(b, at), UNCHANGED <<token, issued, cookie, active, crossed, raced, faults>>,
         Undecided(request[b]), request[b].kind \in {"login", "refresh"},
         request[b].kind = "refresh" =>
           request[b].at = "checking" \/ request[b].shown \in Live
  PROVE  SessionsIInv'
<1>1. PICK q : q = request[b]  OBVIOUS
<1>2. PICK r : r = [q EXCEPT !.at = at]  OBVIOUS
<1>3. RequestIs(b, r)  BY <1>1, <1>2 DEF GoesTo
<1>4. q \in RequestRows /\ GoodRequest(b, q) /\ RequestStage(q)  BY <1>1, RequestKnown
<1>5. /\ r \in RequestRows /\ r.kind = q.kind /\ r.shown = q.shown /\ r.at = at
      /\ r.answer = "none" /\ r.new = 0 /\ ~r.revokes
  BY <1>1, <1>2, <1>4 DEF RequestRows, RequestStage, Undecided
<1>6. RequestStage(r)  BY <1>1, <1>4, <1>5 DEF RequestStage, Undecided
<1>7. IssuedTo(b, r)'
  BY <1>5, SessionConstants DEF IssuedTo, SessionsIInv, SessionsShape
<1>8. HoldsAlone(b, r)  BY <1>5 DEF HoldsAlone
<1>9. Untroubled' => Story(r)
  <2>1. Untroubled' => Untroubled  BY DEF Untroubled
  <2> QED  BY <1>1, <1>4, <1>5, <2>1 DEF GoodRequest, Story, Undecided
<1> QED
  BY <1>1, <1>3, <1>5, <1>6, <1>7, <1>8, <1>9, Uncounted, RequestGoesOn DEF Undecided

LEMMA LookUpKeeps ==
  ASSUME SessionsIInv, NEW b \in Requests, LookUp(b)
  PROVE  SessionsIInv'
<1>1. /\ request[b].kind = "refresh" /\ Undecided(request[b])
      /\ UNCHANGED <<token, issued, cookie, active, faults, crossed, raced>>
  BY DEF LookUp, OnlyRequest, Undecided
<1>2. CASE request[b].shown \in Live /\ GoesTo(b, "checking")
  BY <1>1, <1>2, GoesToKeeps
<1>3. CASE request[b].shown \notin Live /\ Answer(b, "clear")
  BY <1>1, <1>3, Uncounted, AnswerKeeps
<1> QED  BY <1>2, <1>3 DEF LookUp

LEMMA CheckAccountKeeps ==
  ASSUME SessionsIInv, NEW b \in Requests, CheckAccount(b)
  PROVE  SessionsIInv'
<1>1. /\ Undecided(request[b]) /\ request[b].at = "checking"
      /\ UNCHANGED <<token, issued, cookie, active, faults, crossed, raced>>
  BY DEF CheckAccount, OnlyRequest, Undecided
<1>2. request[b].kind \in {"login", "refresh"}
  <2>1. RequestStage(request[b]) /\ request[b] \in RequestRows  BY RequestKnown
  <2> QED  BY <1>1, <2>1 DEF RequestStage, RequestRows, NoRequest
<1>3. CASE active /\ GoesTo(b, "issuing")
  BY <1>1, <1>2, <1>3, GoesToKeeps
<1>4. CASE ~active /\ Answer(b, IF request[b].kind = "refresh" THEN "inactive" ELSE "keep")
  <2>1. PICK answer \in {"inactive", "keep"} : Answer(b, answer)  BY <1>4
  <2>2. ~Untroubled'  BY <1>1, <1>4 DEF Untroubled
  <2> QED  BY <1>1, <1>2, <2>1, <2>2, Uncounted, AnswerKeeps
<1> QED  BY <1>3, <1>4 DEF CheckAccount

\* The token that is made is new, and its row is the request's own.
LEMMA IssueKeeps ==
  ASSUME SessionsIInv, NEW b \in Requests, Issue(b)
  PROVE  SessionsIInv'
<1>1. PICK q : q = request[b]  OBVIOUS
<1>2. PICK n : n = issued'  OBVIOUS
<1>3. PICK r : r = [q EXCEPT !.at = "answered", !.answer = "set", !.new = n,
                             !.revokes = q.kind = "refresh"]
  OBVIOUS
<1>4. /\ RequestIs(b, r) /\ q.at = "issuing" /\ RowFree(q.shown)
      /\ n = issued + 1 /\ issued < MaxTokens
      /\ UNCHANGED <<token, cookie, active, faults, crossed, raced>>
  BY <1>1, <1>2, <1>3 DEF Issue
<1>5. q \in RequestRows /\ GoodRequest(b, q) /\ RequestStage(q)  BY <1>1, RequestKnown
<1>6. issued \in Nat /\ n \in 0..MaxTokens /\ n # 0 /\ n \in Tokens /\ issued < n
  BY <1>4, SessionConstants DEF SessionsIInv, SessionsShape, Tokens
<1>7. q.kind \in {"login", "refresh"}
  BY <1>4, <1>5 DEF RequestStage, RequestRows, NoRequest
<1>8. /\ r \in RequestRows /\ r.kind = q.kind /\ r.shown = q.shown /\ r.at = "answered"
      /\ r.answer = "set" /\ r.new = n /\ (r.revokes <=> q.kind = "refresh")
  BY <1>3, <1>5, <1>6 DEF RequestRows
<1>9. RequestStage(r)  BY <1>5, <1>6, <1>7, <1>8 DEF RequestStage, Undecided
<1>10. IssuedTo(b, r)'
  <2>1. token[n].state = "none"  BY <1>6 DEF SessionsIInv, Unissued
  <2>2. ASSUME NEW o \in Requests \ {b}
        PROVE  request'[o].new # n
    <3>1. request'[o] = request[o]  BY <1>4, <1>8, OthersStay
    <3>2. request[o].new <= issued /\ request[o].new \in Nat
      BY SessionConstants, RequestKnown DEF GoodRequest, IssuedTo, RequestRows
    <3> QED  BY <1>6, <3>1, <3>2
  <2>3. n <= issued'  BY <1>2, <1>6, SessionConstants
  <2> QED  BY <1>4, <1>8, <2>1, <2>2, <2>3 DEF IssuedTo
<1>11. HoldsAlone(b, r)  BY <1>4, <1>8 DEF HoldsAlone, RowFree
<1>12. Untroubled' => Story(r)
  <2>1. Untroubled' => Untroubled  BY <1>4 DEF Untroubled
  <2>2. Untroubled => AllSettled
    BY <1>4, <1>5, <1>7 DEF GoodRequest, Story, Undecided
  <2> QED  BY <1>7, <1>8, <2>1, <2>2 DEF Story, Undecided
<1>13. issued' \in 0..MaxTokens /\ issued <= issued'
  BY <1>2, <1>6, SessionConstants
<1>14. faults' \in Nat  BY <1>4 DEF SessionsIInv, SessionsShape
<1> QED
  BY <1>1, <1>4, <1>7, <1>8, <1>9, <1>10, <1>11, <1>12, <1>13, <1>14, RequestGoesOn
     DEF Undecided

LEMMA RevokeKeeps ==
  ASSUME SessionsIInv, NEW b \in Requests, Revoke(b)
  PROVE  SessionsIInv'
<1>1. PICK q : q = request[b]  OBVIOUS
<1>3. PICK r : r = [q EXCEPT !.at = "answered", !.answer = "clear",
                             !.revokes = token[q.shown].state \in {"live", "expired"}]
  OBVIOUS
<1>4. /\ RequestIs(b, r) /\ q.at = "looking" /\ q.kind = "logout" /\ RowFree(q.shown)
      /\ UNCHANGED <<token, issued, cookie, active, faults, crossed, raced>>
  BY <1>1, <1>3 DEF Revoke, OnlyRequest
<1>5. q \in RequestRows /\ GoodRequest(b, q) /\ RequestStage(q)  BY <1>1, RequestKnown
<1>6. /\ r \in RequestRows /\ r.kind = "logout" /\ r.shown = q.shown /\ r.at = "answered"
      /\ r.answer = "clear" /\ r.new = 0
      /\ r.revokes <=> token[q.shown].state \in {"live", "expired"}
  <2>1. q.new = 0  BY <1>4, <1>5 DEF RequestStage
  <2>2. PICK good \in BOOLEAN : good <=> token[q.shown].state \in {"live", "expired"}
    OBVIOUS
  <2>3. r = [q EXCEPT !.at = "answered", !.answer = "clear", !.revokes = good]
    BY <1>3, <2>2
  <2> QED  BY <1>4, <1>5, <2>1, <2>2, <2>3 DEF RequestRows
<1>7. RequestStage(r)  BY <1>4, <1>5, <1>6 DEF RequestStage, Undecided
<1>8. IssuedTo(b, r)'
  BY <1>4, <1>6, SessionConstants DEF IssuedTo, SessionsIInv, SessionsShape
<1>9. HoldsAlone(b, r)  BY <1>4, <1>6 DEF HoldsAlone, RowFree
<1>10. Untroubled' => Story(r)
  <2>1. Untroubled' => Untroubled  BY <1>4 DEF Untroubled
  <2>2. Untroubled => AllSettled
    BY <1>4, <1>5 DEF GoodRequest, Story, Undecided
  <2>3. r.shown \in Live => r.revokes  BY <1>6 DEF Live
  <2> QED  BY <1>6, <2>1, <2>2, <2>3 DEF Story, Undecided
<1> QED
  BY <1>1, <1>4, <1>6, <1>7, <1>8, <1>9, <1>10, Uncounted, RequestGoesOn DEF Undecided

-----------------------------------------------------------------------------
(* Faults.                                                                 *)

LEMMA SessionFaultCounts ==
  ASSUME SessionsIInv, SessionFault
  PROVE  /\ faults' \in Nat /\ faults' # 0 /\ ~Untroubled'
         /\ issued' \in 0..MaxTokens /\ issued <= issued'
         /\ UNCHANGED <<token, issued, cookie, active, crossed, raced>>
BY SessionConstants DEF SessionFault, Untroubled, SessionsIInv, SessionsShape

LEMMA FailsKeeps ==
  ASSUME SessionsIInv, NEW b \in Requests, Fails(b)
  PROVE  SessionsIInv'
<1>1. SessionFault /\ Undecided(request[b]) /\ Answer(b, "keep")
  BY DEF Fails, Undecided
<1>2. request[b].kind # "none"
  BY <1>1, RequestKnown DEF RequestStage, Undecided, NoRequest
<1> QED  BY <1>1, <1>2, SessionFaultCounts, AnswerKeeps

LEMMA RequestVanishes ==
  ASSUME SessionsIInv, NEW b \in Requests, RequestIs(b, NoRequest), SessionFault
  PROVE  SessionsIInv'
<1>1. NoRequest \in RequestRows  BY SessionConstants DEF NoRequest, RequestRows
<1>2. /\ NoRequest.kind = "none" /\ NoRequest.new = 0 /\ NoRequest.shown = 0
      /\ ~NoRequest.revokes /\ NoRequest.at = "done" /\ NoRequest.answer = "none"
  BY DEF NoRequest
<1>3. RequestStage(NoRequest)  BY <1>2 DEF RequestStage, Undecided
<1>4. IssuedTo(b, NoRequest)'
  BY <1>2, SessionConstants, SessionFaultCounts DEF IssuedTo
<1>5. HoldsAlone(b, NoRequest)' /\ Lineage(b, NoRequest)'
  BY <1>2 DEF HoldsAlone, Lineage
<1>6. Uncrossed(b, NoRequest)' /\ Story(NoRequest)'  BY <1>2 DEF Uncrossed, Story
<1>7. GoodRequest(b, NoRequest)'
  BY <1>1, <1>3, <1>4, <1>5, <1>6 DEF GoodRequest, RequestStage, Undecided
<1>8. crossed' \in BOOLEAN /\ (crossed => crossed') /\ raced \subseteq raced'
  BY SessionFaultCounts DEF SessionsIInv, SessionsShape
<1> QED  BY <1>7, <1>8, SessionFaultCounts, RequestMoves

LEMMA CommitFailsKeeps ==
  ASSUME SessionsIInv, NEW b \in Requests, CommitFails(b)
  PROVE  SessionsIInv'
<1>1. PICK q : q = request[b]  OBVIOUS
<1>2. PICK r : r = [q EXCEPT !.at = "done", !.revokes = FALSE]  OBVIOUS
<1>3. SessionFault /\ q.at = "answered" /\ RequestIs(b, Ended(r))
  BY <1>1, <1>2 DEF CommitFails, ServerEnds
<1>4. q \in RequestRows /\ GoodRequest(b, q) /\ RequestStage(q)  BY <1>1, RequestKnown
<1>5. /\ r \in RequestRows /\ r.kind = q.kind /\ r.shown = q.shown /\ r.at = "done"
      /\ r.answer = q.answer /\ r.new = q.new /\ ~r.revokes
  BY <1>2, <1>4 DEF RequestRows
<1>6. CASE r.answer = "none"
  <2>1. RequestIs(b, NoRequest)  BY <1>3, <1>5, <1>6 DEF Ended
  <2> QED  BY <1>3, <2>1, RequestVanishes
<1>7. CASE r.answer # "none"
  <2>1. RequestIs(b, r)  BY <1>3, <1>5, <1>7 DEF Ended
  <2>2. q.kind # "none"  BY <1>3, <1>4 DEF RequestStage, NoRequest
  <2>3. RequestStage(r)  BY <1>3, <1>4, <1>5, <1>7, <2>2 DEF RequestStage, Undecided
  <2>4. \A o \in Requests \ {b} : request'[o] = request[o]  BY <1>5, <2>1, OthersStay
  <2>5. IssuedTo(b, r)'
    BY <1>3, <1>4, <1>5, <2>4, SessionFaultCounts DEF GoodRequest, IssuedTo
  <2>6. HoldsAlone(b, r)  BY <1>5 DEF HoldsAlone
  <2>7. ~(r.kind = "refresh" /\ r.answer = "clear")
    BY <1>3, <1>4, <1>5 DEF RequestStage
  <2>8. r.answer = "set" => token[r.new].state = "none"
    BY <1>3, <1>4, <1>5 DEF GoodRequest, IssuedTo, RequestStage
  <2> QED
    BY <1>1, <1>3, <1>5, <1>7, <2>1, <2>2, <2>3, <2>5, <2>6, <2>7, <2>8,
       SessionFaultCounts, RequestGoesOn DEF Undecided
<1> QED  BY <1>6, <1>7

LEMMA AnswerLostKeeps ==
  ASSUME SessionsIInv, NEW b \in Requests, AnswerLost(b)
  PROVE  SessionsIInv'
<1>1. PICK q : q = request[b]  OBVIOUS
<1>2. PICK r : r = [q EXCEPT !.answer = "none"]  OBVIOUS
<1>3. SessionFault /\ q.answer # "none" /\ RequestIs(b, Ended(r))
  BY <1>1, <1>2 DEF AnswerLost, AnswerEnds
<1>4. q \in RequestRows /\ GoodRequest(b, q) /\ RequestStage(q)  BY <1>1, RequestKnown
<1>5. /\ r \in RequestRows /\ r.kind = q.kind /\ r.shown = q.shown /\ r.at = q.at
      /\ r.answer = "none" /\ r.new = q.new /\ r.revokes = q.revokes
  BY <1>2, <1>4 DEF RequestRows
<1>6. CASE r.at = "done"
  <2>1. RequestIs(b, NoRequest)  BY <1>3, <1>5, <1>6 DEF Ended
  <2> QED  BY <1>3, <2>1, RequestVanishes
<1>7. CASE r.at # "done"
  <2>1. RequestIs(b, r)  BY <1>3, <1>5, <1>7 DEF Ended
  <2>2. q.kind # "none" /\ q.at = "answered"
    BY <1>3, <1>4, <1>5, <1>7 DEF RequestStage, NoRequest, Undecided, RequestRows
  <2>3. RequestStage(r)  BY <1>4, <1>5, <2>2 DEF RequestStage, Undecided
  <2>4. \A o \in Requests \ {b} : request'[o] = request[o]  BY <1>5, <2>1, OthersStay
  <2>5. IssuedTo(b, r)'
    BY <1>3, <1>4, <1>5, <2>4, SessionFaultCounts DEF GoodRequest, IssuedTo
  <2>6. HoldsAlone(b, r)  BY <1>4, <1>5 DEF GoodRequest, HoldsAlone
  <2> QED
    BY <1>1, <1>3, <1>5, <2>1, <2>2, <2>3, <2>5, <2>6, SessionFaultCounts,
       RequestGoesOn DEF Undecided
<1> QED  BY <1>6, <1>7

-----------------------------------------------------------------------------
(* The commit, and the answer.                                             *)

\* What may change while a request comes to an end: the state of the token it was sent
\* with, the token that was made for it, and the cookie.
LEMMA EndingMoves ==
  ASSUME SessionsIInv, NEW b \in Requests, ~Free(b), NEW r \in RequestRows,
         RequestIs(b, r), UNCHANGED <<issued, active, faults, crossed, raced>>,
         token' \in [Tokens -> TokenRows], cookie' \in 0..MaxTokens,
         r.new \in {0, request[b].new}, r.shown \in {0, request[b].shown},
         r.revokes => request[b].revokes /\ r.shown = request[b].shown,
         \A t \in Tokens :
           /\ token'[t].state = "none" \/ token[t].state # "none" \/ t = request[b].new
           /\ token[t].state # "none" => token'[t].state # "none"
           /\ token'[t].parent = token[t].parent
                \/ token'[t].parent \in {0, request[b].shown},
         Unissued', ForkOnlyIfRaced',
         GoodRequest(b, r)',
         r.kind = "none" /\ Untroubled => AllSettled'
  PROVE  SessionsIInv'
<1>1. request' \in [Requests -> RequestRows] /\ request'[b] = r
        /\ \A o \in Requests \ {b} : request'[o] = request[o]
  BY OthersStay DEF SessionsIInv, SessionsShape, RequestIs
<1>2. SessionsShape'  BY <1>1 DEF SessionsIInv, SessionsShape
<1>3. Untroubled' <=> Untroubled  BY DEF Untroubled
<1>4. GoodRequest(b, request[b])  BY RequestKnown
<1>5. ASSUME NEW o \in Requests
      PROVE  GoodRequest(o, request[o])'
  <2>1. CASE o = b  BY <1>1, <2>1
  <2>2. CASE o # b
    <3>1. PICK q : q = request[o]  OBVIOUS
    <3>2. request'[o] = q  BY <1>1, <2>2, <3>1
    <3>3. q \in RequestRows /\ GoodRequest(o, q)  BY <3>1, RequestKnown
    <3>4. IssuedTo(o, q)'
      <4>1. q.new # 0 => q.new # request[b].new
        BY <2>2, <3>3 DEF GoodRequest, IssuedTo
      <4>2. q.new # 0 => q.new \in Tokens
        BY <3>3, SessionConstants DEF RequestRows, Tokens
      <4>3. q.at = "answered" /\ q.new # 0 => token'[q.new].state = "none"
        BY <3>3, <4>1, <4>2 DEF GoodRequest, IssuedTo
      <4> QED  BY <1>1, <2>2, <3>3, <4>1, <4>3 DEF GoodRequest, IssuedTo
    <3>5. HoldsAlone(o, q)'
      BY <1>1, <2>2, <3>3 DEF GoodRequest, HoldsAlone
    <3>6. Lineage(o, q)'
      <4>1. q.shown # 0 /\ request[b].shown = q.shown => q.shown \in raced
        BY <2>2, <3>3 DEF GoodRequest, Lineage
      <4>2. \A p \in Requests \ {o} :
              q.shown # 0 /\ request'[p].shown = q.shown => q.shown \in raced
        BY <1>1, <3>3, <4>1 DEF GoodRequest, Lineage
      <4>3. ASSUME q.kind = "refresh", q.at \in {"checking", "issuing", "answered"}
            PROVE  /\ token'[q.shown].state # "none"
                   /\ \A t \in Tokens : token'[t].parent = q.shown => q.shown \in raced
        <5>1. q.shown # 0  BY <3>3, <4>3 DEF GoodRequest, RequestStage
        <5>2. q.shown \in Tokens
          BY <3>3, <5>1, SessionConstants DEF RequestRows, Tokens
        <5>3. token[q.shown].state # "none"
          BY <3>3, <4>3 DEF GoodRequest, Lineage
        <5>4. ASSUME NEW t \in Tokens, token'[t].parent = q.shown
              PROVE  q.shown \in raced
          BY <3>3, <4>1, <4>3, <5>1, <5>4 DEF GoodRequest, Lineage
        <5> QED  BY <5>2, <5>3, <5>4
      <4> QED  BY <4>2, <4>3 DEF Lineage
    <3>7. crossed \/ q.kind = "none"
      BY <1>4, <2>2, <3>1 DEF GoodRequest, Uncrossed, Free
    <3>8. Uncrossed(o, q)' /\ Story(q)'
      BY <1>3, <3>7 DEF Uncrossed, Story, Untroubled
    <3> QED  BY <3>2, <3>3, <3>4, <3>5, <3>6, <3>8 DEF GoodRequest, RequestStage, Undecided
  <2> QED  BY <2>1, <2>2
<1>6. (Quiet /\ Untroubled => AllSettled)'
  BY <1>1, <1>3 DEF Quiet, Free
<1> QED  BY <1>2, <1>5, <1>6 DEF SessionsIInv

\* The answer reaches the browser.
LEMMA ArriveKeeps ==
  ASSUME SessionsIInv, NEW b \in Requests, Arrive(b)
  PROVE  SessionsIInv'
<1>1. PICK q : q = request[b]  OBVIOUS
<1>2. PICK s : s = [q EXCEPT !.answer = "none"]  OBVIOUS
<1>3. PICK r : r = Ended(s)  OBVIOUS
<1>4. /\ RequestIs(b, r) /\ q.answer # "none"
      /\ UNCHANGED <<token, issued, active, faults, crossed, raced>>
      /\ cookie' = CASE q.answer = "set" -> q.new
                     [] q.answer \in {"clear", "inactive"} -> 0
                     [] q.answer = "keep" -> cookie
  BY <1>1, <1>2, <1>3 DEF Arrive, AnswerEnds
<1>5. q \in RequestRows /\ GoodRequest(b, q) /\ RequestStage(q)  BY <1>1, RequestKnown
<1>6. q.kind # "none" /\ ~Undecided(q)
  BY <1>4, <1>5 DEF RequestStage, NoRequest
<1>7. /\ q.answer = "set" => cookie' = q.new
      /\ q.answer = "clear" => cookie' = 0
      /\ cookie' \in 0..MaxTokens
  BY <1>4, <1>5, SessionConstants DEF RequestRows, SessionsIInv, SessionsShape
<1>8. /\ s \in RequestRows /\ s.kind = q.kind /\ s.shown = q.shown /\ s.at = q.at
      /\ s.answer = "none" /\ s.new = q.new /\ s.revokes = q.revokes
  BY <1>2, <1>5 DEF RequestRows
<1>9. Live' = Live  BY <1>4 DEF Live
<1>10. Unissued' /\ ForkOnlyIfRaced'
  BY <1>4 DEF SessionsIInv, Unissued, ForkOnlyIfRaced
<1>11. token' \in [Tokens -> TokenRows]  BY <1>4 DEF SessionsIInv, SessionsShape
<1>12. ~Free(b)  BY <1>1, <1>6 DEF Free
<1>13. CASE q.at = "done"
  <2>1. r = NoRequest  BY <1>3, <1>8, <1>13 DEF Ended
  <2>2. /\ r.kind = "none" /\ r.new = 0 /\ r.shown = 0 /\ ~r.revokes
        /\ r \in RequestRows
    BY <2>1, SessionConstants DEF NoRequest, RequestRows
  <2>3. SessionsShape'
    BY <1>4, <1>7, <1>11, <2>2 DEF SessionsIInv, SessionsShape, RequestIs
  <2>4. GoodRequest(b, r)'
    <3>1. RequestStage(r)  BY <2>1, <2>2 DEF RequestStage, Undecided, NoRequest
    <3>2. IssuedTo(b, r)'
      BY <2>1, <2>2, <2>3, SessionConstants DEF IssuedTo, SessionsShape, NoRequest
    <3>3. HoldsAlone(b, r)' /\ Lineage(b, r)'  BY <2>2 DEF HoldsAlone, Lineage
    <3>4. Uncrossed(b, r)' /\ Story(r)'  BY <2>2 DEF Uncrossed, Story
    <3> QED  BY <2>2, <3>1, <3>2, <3>3, <3>4 DEF GoodRequest, RequestStage, Undecided
  <2>5. Untroubled => AllSettled'
    <3>1. Untroubled => \/ q.answer = "set" /\ Live \subseteq {q.new}
                           /\ token[q.new].state \in {"live", "expired"}
                        \/ q.answer = "clear" /\ Live = {}
      BY <1>4, <1>5, <1>6, <1>13 DEF GoodRequest, Story, RequestRows
    <3> QED  BY <1>4, <1>7, <1>9, <3>1 DEF AllSettled
  <2> QED
    BY <1>1, <1>4, <1>7, <1>10, <1>11, <1>12, <2>2, <2>4, <2>5, EndingMoves
<1>14. CASE q.at = "answered"
  <2>1. r = s  BY <1>3, <1>8, <1>14 DEF Ended
  <2>2. RequestStage(s)
    BY <1>5, <1>6, <1>8, <1>14 DEF RequestStage, Undecided
  <2>3. \A o \in Requests \ {b} : request'[o] = request[o]
    BY <1>4, <1>8, <2>1, OthersStay
  <2>4. IssuedTo(b, s)' /\ HoldsAlone(b, s)' /\ Lineage(b, s)'
    BY <1>4, <1>5, <1>8, <2>3 DEF GoodRequest, IssuedTo, HoldsAlone, Lineage
  <2>5. Uncrossed(b, s)'
    BY <1>4, <1>5, <1>8, <1>14, <2>3 DEF GoodRequest, Uncrossed, Undecided, Free
  <2>6. Story(s)'
    <3>1. Untroubled' => Untroubled  BY <1>4 DEF Untroubled
    <3>2. Untroubled => Live \subseteq {q.shown}
      BY <1>4, <1>5, <1>6, <1>14 DEF GoodRequest, Story, Uncrossed, Untroubled, AllSettled
    <3>3. Untroubled => cookie' = q.new
      BY <1>4, <1>5, <1>6, <1>7, <1>14
         DEF GoodRequest, Story, RequestStage, RequestRows
    <3>4. Untroubled => (q.kind = "logout" /\ q.shown \in Live => q.revokes)
      BY <1>5, <1>6, <1>14 DEF GoodRequest, Story
    <3> QED
      BY <1>8, <1>9, <1>14, <3>1, <3>2, <3>3, <3>4 DEF Story, Undecided
  <2>7. GoodRequest(b, s)'
    BY <1>8, <2>2, <2>4, <2>5, <2>6 DEF GoodRequest, RequestStage, Undecided
  <2>8. s.revokes \in BOOLEAN /\ s.kind # "none"  BY <1>6, <1>8 DEF RequestRows
  <2> QED
    BY <1>1, <1>4, <1>7, <1>8, <1>10, <1>11, <1>12, <2>1, <2>7, <2>8, EndingMoves
<1> QED  BY <1>5, <1>6, <1>13, <1>14 DEF RequestRows, Undecided

\* What a commit does to the tokens: the one that was made is live, the one that was
\* shown is revoked.
TokensAfter(q) ==
  /\ token' \in [Tokens -> TokenRows]
  /\ q.new # 0 => /\ q.new \in Tokens /\ token[q.new].state = "none"
                  /\ token'[q.new].state = "live" /\ token'[q.new].parent = q.shown
  /\ \A t \in Tokens \ {q.new} :
       /\ token'[t].parent = token[t].parent
       /\ IF q.revokes /\ t = q.shown /\ token[t].state = "live"
          THEN token'[t].state = "revoked" ELSE token'[t].state = token[t].state
  /\ q.new # 0 => q.new # q.shown
  /\ q.kind = "refresh" => q.shown \in Tokens /\ token[q.shown].state # "none" /\ q.revokes
  /\ q.kind = "logout" => q.new = 0
  /\ q.kind = "login" => q.shown = 0

LEMMA CommitTokens ==
  ASSUME SessionsIInv, NEW b \in Requests, Commit(b)
  PROVE  TokensAfter(request[b])
<1>1. PICK q : q = request[b]  OBVIOUS
<1>2. /\ q.at = "answered"
      /\ token' = [t \in Tokens |->
           IF t = q.new THEN [state |-> "live", parent |-> q.shown]
           ELSE IF q.revokes /\ t = q.shown /\ token[t].state = "live"
           THEN [token[t] EXCEPT !.state = "revoked"] ELSE token[t]]
  BY <1>1 DEF Commit
<1>3. q \in RequestRows /\ GoodRequest(b, q) /\ RequestStage(q)  BY <1>1, RequestKnown
<1>4. token \in [Tokens -> TokenRows]  BY DEF SessionsIInv, SessionsShape
<1>5. q.shown \in 0..MaxTokens /\ q.new \in 0..MaxTokens  BY <1>3 DEF RequestRows
<1>6. (q.new # 0 => q.new \in Tokens) /\ (q.shown # 0 => q.shown \in Tokens)
  BY <1>5, SessionConstants DEF Tokens
<1>7. ASSUME NEW t \in Tokens
      PROVE  token'[t] \in TokenRows
  BY <1>2, <1>4, <1>5 DEF TokenRows
<1>8. token' \in [Tokens -> TokenRows]
  <2>1. token' = [t \in Tokens |-> token'[t]]  BY <1>2
  <2> QED  BY <1>7, <2>1
<1>9. q.new # 0 => /\ q.new \in Tokens /\ token[q.new].state = "none"
                   /\ token'[q.new].state = "live" /\ token'[q.new].parent = q.shown
  BY <1>2, <1>3, <1>6 DEF GoodRequest, IssuedTo
<1>10. ASSUME NEW t \in Tokens \ {q.new}
       PROVE  /\ token'[t].parent = token[t].parent
              /\ IF q.revokes /\ t = q.shown /\ token[t].state = "live"
                 THEN token'[t].state = "revoked" ELSE token'[t].state = token[t].state
  BY <1>2, <1>4 DEF TokenRows
<1>11. q.kind = "refresh" => /\ q.shown \in Tokens /\ token[q.shown].state # "none"
                             /\ q.revokes
  BY <1>2, <1>3, <1>6 DEF GoodRequest, Lineage, RequestStage
<1>12. q.kind = "logout" => q.new = 0  BY <1>3 DEF RequestStage
<1>13. q.kind = "login" => q.shown = 0  BY <1>3 DEF RequestStage
<1>14. q.new # 0 => q.new # q.shown
  BY <1>2, <1>3, <1>9, <1>11, <1>12, <1>13 DEF RequestStage, RequestRows, NoRequest
<1>15. TokensAfter(q)
  BY <1>8, <1>9, <1>10, <1>11, <1>12, <1>13, <1>14 DEF TokensAfter
<1> QED  BY <1>1, <1>15

LEMMA CommitUnissued ==
  ASSUME SessionsIInv, NEW b \in Requests, Commit(b)
  PROVE  Unissued' /\ ForkOnlyIfRaced'
<1>1. PICK q : q = request[b]  OBVIOUS
<1>2. /\ TokensAfter(q) /\ q \in RequestRows /\ GoodRequest(b, q) /\ RequestStage(q)
      /\ q.at = "answered" /\ UNCHANGED <<issued, raced>>
  BY <1>1, CommitTokens, RequestKnown DEF Commit
<1>3. q.kind \in {"login", "refresh", "logout"}
  BY <1>2 DEF RequestStage, RequestRows, NoRequest
<1>4. ASSUME NEW t \in Tokens, t > issued'
      PROVE  token'[t].state = "none"
  <2>1. token[t].state = "none"  BY <1>2, <1>4 DEF SessionsIInv, Unissued
  <2>2. t # q.new
    BY <1>2, <1>4, SessionConstants DEF GoodRequest, IssuedTo, SessionsIInv, SessionsShape
  <2> QED  BY <1>2, <2>1, <2>2 DEF TokensAfter
<1>5. ASSUME NEW t \in Tokens, token'[t].parent # 0
      PROVE  /\ token'[t].state # "none" /\ token'[t].parent \in Tokens
             /\ token'[token'[t].parent].state \in {"revoked", "expired"}
  <2>1. CASE t = q.new
    <3>1. q.new # 0  BY <2>1, SessionConstants
    <3>2. q.kind = "refresh" /\ token'[t].parent = q.shown /\ token'[t].state = "live"
      BY <1>2, <1>3, <1>5, <2>1, <3>1 DEF TokensAfter
    <3>3. q.shown \in Tokens /\ q.shown # q.new /\ token[q.shown].state # "none" /\ q.revokes
      BY <1>2, <3>1, <3>2 DEF TokensAfter
    <3>4. token[q.shown].state \in {"live", "revoked", "expired"}
      BY <3>3 DEF SessionsIInv, SessionsShape, TokenRows
    <3>5. token'[q.shown].state \in {"revoked", "expired"}
      BY <1>2, <3>3, <3>4 DEF TokensAfter
    <3> QED  BY <3>2, <3>3, <3>5
  <2>2. CASE t # q.new
    <3>1. PICK p : p = token[t].parent  OBVIOUS
    <3>2. token'[t].parent = p /\ p # 0  BY <1>2, <1>5, <2>2, <3>1 DEF TokensAfter
    <3>3. /\ token[t].state # "none" /\ p \in Tokens
          /\ token[p].state \in {"revoked", "expired"}
      BY <3>1, <3>2 DEF SessionsIInv, Unissued
    <3>4. p # q.new  BY <1>2, <3>2, <3>3 DEF TokensAfter
    <3>5. token'[p].state = token[p].state  BY <1>2, <3>3, <3>4 DEF TokensAfter
    <3>6. token'[t].state # "none"  BY <1>2, <2>2, <3>3 DEF TokensAfter
    <3> QED  BY <3>2, <3>3, <3>5, <3>6
  <2> QED  BY <2>1, <2>2
<1>6. ForkOnlyIfRaced'
  <2>1. ASSUME NEW t \in Tokens \ {q.new}, q.new # 0, token'[t].parent = q.shown, q.shown # 0
        PROVE  q.shown \in raced
    <3>1. q.kind = "refresh"  BY <1>2, <1>3, <2>1 DEF TokensAfter
    <3>2. token[t].parent = q.shown  BY <1>2, <2>1 DEF TokensAfter
    <3> QED  BY <1>2, <3>1, <3>2 DEF GoodRequest, Lineage
  <2> SUFFICES ASSUME NEW s \in Tokens, NEW t \in Tokens, s # t,
                      token'[s].parent = token'[t].parent, token'[s].parent # 0
               PROVE  token'[s].parent \in raced
    BY <1>2 DEF ForkOnlyIfRaced
  <2>2. CASE s = q.new
    <3>1. q.new # 0 /\ token'[s].parent = q.shown
      BY <1>2, <2>2, SessionConstants DEF TokensAfter
    <3> QED  BY <2>1, <2>2, <3>1
  <2>3. CASE t = q.new
    <3>1. q.new # 0 /\ token'[t].parent = q.shown
      BY <1>2, <2>3, SessionConstants DEF TokensAfter
    <3> QED  BY <2>1, <2>3, <3>1
  <2>4. CASE s # q.new /\ t # q.new
    <3>1. token'[s].parent = token[s].parent /\ token'[t].parent = token[t].parent
      BY <1>2, <2>4 DEF TokensAfter
    <3> QED  BY <3>1 DEF SessionsIInv, ForkOnlyIfRaced
  <2> QED  BY <2>2, <2>3, <2>4
<1> QED  BY <1>4, <1>5, <1>6 DEF Unissued

\* The token that is live after the commit of a session nobody disturbed.
LEMMA CommitLive ==
  ASSUME SessionsIInv, NEW b \in Requests, Commit(b), Untroubled
  PROVE  /\ Live' \subseteq {request[b].new}
         /\ request[b].new # 0 => token'[request[b].new].state = "live"
         /\ request[b].new = 0 => Live' = {}
<1>1. PICK q : q = request[b]  OBVIOUS
<1>2. /\ TokensAfter(q) /\ q \in RequestRows /\ GoodRequest(b, q) /\ RequestStage(q)
      /\ q.at = "answered"
  BY <1>1, CommitTokens, RequestKnown DEF Commit
<1>3. q.kind \in {"login", "refresh", "logout"}
  BY <1>2 DEF RequestStage, RequestRows, NoRequest
<1>4. Live \subseteq {q.shown}
  BY <1>2, <1>3 DEF GoodRequest, Story, Uncrossed, Untroubled, AllSettled
<1>5. q.shown \in Live => q.revokes
  BY <1>2, <1>3, SessionConstants DEF GoodRequest, Story, TokensAfter, Live
<1>6. ASSUME NEW t \in Live', t # q.new
      PROVE  FALSE
  <2>1. t \in Tokens /\ token'[t].state = "live"  BY <1>6 DEF Live
  <2>2. token[t].state = "live" /\ ~(q.revokes /\ t = q.shown)
    BY <1>2, <1>6, <2>1 DEF TokensAfter
  <2> QED  BY <1>4, <1>5, <2>1, <2>2 DEF Live
<1>7. q.new = 0 => Live' = {}  BY <1>6, SessionConstants DEF Live
<1> QED  BY <1>1, <1>2, <1>6, <1>7 DEF TokensAfter

LEMMA CommitKeeps ==
  ASSUME SessionsIInv, NEW b \in Requests, Commit(b)
  PROVE  SessionsIInv'
<1>1. PICK q : q = request[b]  OBVIOUS
<1>2. PICK s : s = [q EXCEPT !.at = "done", !.revokes = FALSE]  OBVIOUS
<1>3. PICK r : r = Ended(s)  OBVIOUS
<1>4. /\ RequestIs(b, r) /\ q.at = "answered"
      /\ UNCHANGED <<issued, cookie, active, faults, crossed, raced>>
  BY <1>1, <1>2, <1>3 DEF Commit, ServerEnds
<1>5. /\ q \in RequestRows /\ GoodRequest(b, q) /\ RequestStage(q)
      /\ TokensAfter(q) /\ Unissued' /\ ForkOnlyIfRaced'
  BY <1>1, RequestKnown, CommitTokens, CommitUnissued
<1>6. q.kind # "none" /\ ~Free(b)
  BY <1>1, <1>4, <1>5 DEF RequestStage, NoRequest, Free
<1>7. /\ s \in RequestRows /\ s.kind = q.kind /\ s.shown = q.shown /\ s.at = "done"
      /\ s.answer = q.answer /\ s.new = q.new /\ ~s.revokes
  BY <1>2, <1>5 DEF RequestRows
<1>8. token' \in [Tokens -> TokenRows] /\ cookie' \in 0..MaxTokens
  BY <1>4, <1>5 DEF TokensAfter, SessionsIInv, SessionsShape
<1>9. \A t \in Tokens :
        /\ token'[t].state = "none" \/ token[t].state # "none" \/ t = q.new
        /\ token[t].state # "none" => token'[t].state # "none"
        /\ token'[t].parent = token[t].parent \/ token'[t].parent \in {0, q.shown}
  BY <1>5, SessionConstants DEF TokensAfter
<1>10. Untroubled => /\ Live' \subseteq {q.new}
                     /\ q.new # 0 => token'[q.new].state = "live"
                     /\ q.new = 0 => Live' = {}
  BY <1>1, CommitLive
<1>11. CASE q.answer = "none"
  <2>1. r = NoRequest  BY <1>3, <1>7, <1>11 DEF Ended
  <2>2. /\ r.kind = "none" /\ r.new = 0 /\ r.shown = 0 /\ ~r.revokes
        /\ r \in RequestRows
    BY <2>1, SessionConstants DEF NoRequest, RequestRows
  <2>3. GoodRequest(b, r)'
    <3>1. RequestStage(r)  BY <2>1, <2>2 DEF RequestStage, Undecided, NoRequest
    <3>2. IssuedTo(b, r)'
      BY <1>4, <2>1, <2>2, SessionConstants
         DEF IssuedTo, SessionsIInv, SessionsShape, NoRequest
    <3>3. HoldsAlone(b, r)' /\ Lineage(b, r)'  BY <2>2 DEF HoldsAlone, Lineage
    <3>4. Uncrossed(b, r)' /\ Story(r)'  BY <2>2 DEF Uncrossed, Story
    <3> QED  BY <2>2, <3>1, <3>2, <3>3, <3>4 DEF GoodRequest, RequestStage, Undecided
  <2>4. Untroubled => AllSettled'
    <3>1. Untroubled => cookie' = q.new
      BY <1>4, <1>5, <1>6, <1>11 DEF GoodRequest, Story
    <3> QED  BY <1>10, <3>1 DEF AllSettled
  <2> QED
    BY <1>1, <1>4, <1>5, <1>6, <1>8, <1>9, <2>2, <2>3, <2>4, EndingMoves
<1>12. CASE q.answer # "none"
  <2>1. r = s  BY <1>3, <1>7, <1>12 DEF Ended
  <2>2. RequestStage(s)
    BY <1>4, <1>5, <1>6, <1>7, <1>12 DEF RequestStage, Undecided
  <2>3. \A o \in Requests \ {b} : request'[o] = request[o]
    BY <1>4, <1>7, <2>1, OthersStay
  <2>4. IssuedTo(b, s)' /\ HoldsAlone(b, s)' /\ Lineage(b, s)'
    BY <1>4, <1>5, <1>7, <2>3 DEF GoodRequest, IssuedTo, HoldsAlone, Lineage
  <2>5. ~(q.kind = "refresh" /\ q.answer = "clear")  BY <1>4, <1>5 DEF RequestStage
  <2>6. Uncrossed(b, s)'
    <3>1. q.answer = "set" => q.shown \notin Live'
      <4>1. q.answer = "set" => q.kind \in {"login", "refresh"} /\ q.new # 0
        BY <1>4, <1>5, <1>6 DEF RequestStage, RequestRows
      <4>2. q.kind = "login" => q.shown = 0  BY <1>5 DEF RequestStage
      <4>3. CASE q.kind = "refresh"
        <5>1. q.revokes  BY <1>4, <1>5, <4>3 DEF RequestStage
        <5>2. q.shown # q.new
          BY <1>4, <1>5, <4>1, <4>3 DEF GoodRequest, IssuedTo, Lineage, RequestStage
        <5>3. q.shown \in Tokens => token'[q.shown].state # "live"
          BY <1>5, <5>1, <5>2 DEF TokensAfter
        <5> QED  BY <5>3 DEF Live
      <4> QED  BY <4>1, <4>2, <4>3, SessionConstants DEF Live
    <3> QED
      BY <1>4, <1>5, <1>7, <1>12, <2>3, <2>5, <3>1
         DEF GoodRequest, Uncrossed, Undecided, Free
  <2>7. Story(s)'
    <3>1. Untroubled' <=> Untroubled  BY <1>4 DEF Untroubled
    <3>2. q.answer = "clear" => q.new = 0  BY <1>4, <1>5, <1>6 DEF RequestStage, RequestRows
    <3>3. q.answer = "set" => q.new # 0  BY <1>5 DEF RequestStage
    <3>4. Untroubled => q.answer \notin {"inactive", "keep"}
      BY <1>5, <1>6 DEF GoodRequest, Story
    <3> QED
      BY <1>7, <1>10, <3>1, <3>2, <3>3, <3>4 DEF Story, Undecided
  <2>8. GoodRequest(b, s)'
    BY <1>7, <2>2, <2>4, <2>6, <2>7 DEF GoodRequest, RequestStage, Undecided
  <2>9. s.kind # "none"  BY <1>6, <1>7
  <2> QED
    BY <1>1, <1>4, <1>5, <1>6, <1>7, <1>8, <1>9, <2>1, <2>8, <2>9, EndingMoves
<1> QED  BY <1>11, <1>12

-----------------------------------------------------------------------------
(* What happens to the tokens and the account besides.                     *)

\* With fewer tokens live, or none that were not, a request is as good as before.
LEMMA TokensExpire ==
  ASSUME SessionsIInv, NEW t \in Tokens, Expire(t)
  PROVE  SessionsIInv'
<1>1. /\ t \in Live /\ token' = [token EXCEPT ![t].state = "expired"]
      /\ UNCHANGED <<issued, cookie, active, request, faults, crossed, raced>>
  BY DEF Expire
<1>2. token \in [Tokens -> TokenRows] /\ token[t].state = "live"
  BY <1>1 DEF SessionsIInv, SessionsShape, Live
<1>3. /\ token' \in [Tokens -> TokenRows] /\ token'[t].state = "expired"
      /\ \A u \in Tokens : token'[u].parent = token[u].parent
      /\ \A u \in Tokens \ {t} : token'[u].state = token[u].state
  BY <1>1, <1>2 DEF TokenRows
<1>4. Live' = Live \ {t}  BY <1>2, <1>3 DEF Live
<1>5. \A u \in Tokens : token[u].state \in {"live", "expired"} =>
                          token'[u].state \in {"live", "expired"}
  BY <1>2, <1>3
<1>6. cookie \in 0..MaxTokens /\ (cookie # 0 => cookie \in Tokens)
  BY SessionConstants DEF SessionsIInv, SessionsShape, Tokens
<1>7. AllSettled => AllSettled'  BY <1>1, <1>4, <1>5, <1>6 DEF AllSettled
<1>8. Untroubled' <=> Untroubled  BY <1>1 DEF Untroubled
<1>9. SessionsShape'  BY <1>1, <1>3 DEF SessionsIInv, SessionsShape
<1>10. Unissued'
  BY <1>1, <1>2, <1>3 DEF SessionsIInv, Unissued
<1>11. ForkOnlyIfRaced'  BY <1>1, <1>3 DEF SessionsIInv, ForkOnlyIfRaced
<1>12. ASSUME NEW b \in Requests
       PROVE  GoodRequest(b, request[b])'
  <2>1. PICK q : q = request[b]  OBVIOUS
  <2>2. q \in RequestRows /\ GoodRequest(b, q)  BY <2>1, RequestKnown
  <2>3. (q.new # 0 => q.new \in Tokens) /\ (q.shown # 0 => q.shown \in Tokens)
    BY <2>2, SessionConstants DEF RequestRows, Tokens
  <2>4. IssuedTo(b, q)'
    <3>1. q.at = "answered" /\ q.new # 0 => token'[q.new].state = "none"
      BY <1>2, <1>3, <2>2, <2>3 DEF GoodRequest, IssuedTo
    <3> QED  BY <1>1, <2>2, <3>1 DEF GoodRequest, IssuedTo
  <2>5. HoldsAlone(b, q)'  BY <1>1, <2>2 DEF GoodRequest, HoldsAlone
  <2>6. Lineage(b, q)'
    <3>1. q.kind = "refresh" => q.shown # 0  BY <2>2 DEF GoodRequest, RequestStage
    <3> QED  BY <1>1, <1>2, <1>3, <2>2, <2>3, <3>1 DEF GoodRequest, Lineage
  <2>7. Uncrossed(b, q)'
    <3>1. q.answer = "set" => q.new # 0  BY <2>2 DEF GoodRequest, RequestStage
    <3>2. q.answer = "set" /\ token[q.new].state = "none" => token'[q.new].state = "none"
      BY <1>2, <1>3, <2>3, <3>1
    <3> QED
      BY <1>1, <1>4, <2>2, <3>2 DEF GoodRequest, Uncrossed, Undecided, Free
  <2>8. Story(q)'
    <3>1. q.answer = "set" => q.new # 0  BY <2>2 DEF GoodRequest, RequestStage
    <3> QED
      BY <1>1, <1>4, <1>5, <1>7, <1>8, <2>2, <2>3, <3>1
         DEF GoodRequest, Story, Undecided
  <2>9. request'[b] = q  BY <1>1, <2>1
  <2> QED
    BY <2>2, <2>4, <2>5, <2>6, <2>7, <2>8, <2>9 DEF GoodRequest, RequestStage, Undecided
<1>13. (Quiet /\ Untroubled => AllSettled)'
  BY <1>1, <1>7, <1>8 DEF SessionsIInv, Quiet, Free
<1> QED  BY <1>9, <1>10, <1>11, <1>12, <1>13 DEF SessionsIInv

\* Where the tokens and the requests stay, and the account at most is switched off.
LEMMA AccountMoves ==
  ASSUME SessionsIInv, UNCHANGED <<token, issued, cookie, request, faults, crossed, raced>>,
         active' \in BOOLEAN, active' => active
  PROVE  SessionsIInv'
<1>1. SessionsShape'  BY DEF SessionsIInv, SessionsShape
<1>2. Unissued' /\ ForkOnlyIfRaced'  BY DEF SessionsIInv, Unissued, ForkOnlyIfRaced
<1>3. Untroubled' => Untroubled  BY DEF Untroubled
<1>4. Live' = Live /\ (AllSettled' <=> AllSettled)  BY DEF Live, AllSettled
<1>5. ASSUME NEW b \in Requests
      PROVE  GoodRequest(b, request[b])'
  <2>1. PICK q : q = request[b]  OBVIOUS
  <2>2. q \in RequestRows /\ GoodRequest(b, q)  BY <2>1, RequestKnown
  <2>3. IssuedTo(b, q)' /\ HoldsAlone(b, q)' /\ Lineage(b, q)'
    BY <2>2 DEF GoodRequest, IssuedTo, HoldsAlone, Lineage
  <2>4. Uncrossed(b, q)'
    BY <1>4, <2>2 DEF GoodRequest, Uncrossed, Undecided, Free
  <2>5. Story(q)'  BY <1>3, <1>4, <2>2 DEF GoodRequest, Story, Undecided
  <2>6. request'[b] = q  BY <2>1
  <2> QED
    BY <2>2, <2>3, <2>4, <2>5, <2>6 DEF GoodRequest, RequestStage, Undecided
<1>6. (Quiet /\ Untroubled => AllSettled)'
  BY <1>3, <1>4 DEF SessionsIInv, Quiet, Free
<1> QED  BY <1>1, <1>2, <1>5, <1>6 DEF SessionsIInv

-----------------------------------------------------------------------------
(* The sessions.                                                           *)

LEMMA SessionsInitHolds ==
  ASSUME SessionsInit
  PROVE  SessionsIInv
<1>1. NoRequest \in RequestRows  BY SessionConstants DEF NoRequest, RequestRows
<1>2. \A t \in Tokens : token[t].state = "none" /\ token[t].parent = 0
  BY DEF SessionsInit
<1>3. SessionsShape
  <2>1. [state |-> "none", parent |-> 0] \in TokenRows  BY SessionConstants DEF TokenRows
  <2> QED  BY <1>1, <2>1, SessionConstants DEF SessionsInit, SessionsShape
<1>4. Unissued /\ ForkOnlyIfRaced  BY <1>2 DEF Unissued, ForkOnlyIfRaced
<1>5. \A b \in Requests : request[b] = NoRequest  BY DEF SessionsInit
<1>6. \A b \in Requests : GoodRequest(b, request[b])  BY <1>3, <1>5, NoRequestIsGood
<1>7. AllSettled  BY <1>2 DEF SessionsInit, AllSettled, Live
<1> QED  BY <1>3, <1>4, <1>6, <1>7 DEF SessionsIInv

LEMMA SessionsStep ==
  ASSUME SessionsIInv, [SessionsNext]_sessionVars
  PROVE  SessionsIInv'
<1>1. ASSUME NEW b \in Requests, SendLogin(b) \/ SendRefresh(b) \/ SendLogout(b)
      PROVE  SessionsIInv'
  BY <1>1, SendKeeps DEF SendLogin, SendRefresh, SendLogout
<1>2. ASSUME NEW b \in Requests,
             LookUp(b) \/ CheckAccount(b) \/ Issue(b) \/ Revoke(b)
      PROVE  SessionsIInv'
  BY <1>2, LookUpKeeps, CheckAccountKeeps, IssueKeeps, RevokeKeeps
<1>3. ASSUME NEW b \in Requests,
             Commit(b) \/ Arrive(b) \/ Fails(b) \/ CommitFails(b) \/ AnswerLost(b)
      PROVE  SessionsIInv'
  BY <1>3, CommitKeeps, ArriveKeeps, FailsKeeps, CommitFailsKeeps, AnswerLostKeeps
<1>4. ASSUME NEW t \in Tokens, Expire(t)
      PROVE  SessionsIInv'
  BY <1>4, TokensExpire
<1>5. CASE Deactivate  BY <1>5, AccountMoves DEF Deactivate
<1>6. CASE UNCHANGED sessionVars
  BY <1>6, AccountMoves DEF sessionVars, SessionsIInv, SessionsShape
<1> QED  BY <1>1, <1>2, <1>3, <1>4, <1>5, <1>6 DEF SessionsNext

\* The cookie changes only as an answer arrives; where no requests cross, what the answer
\* to a refresh clears is no good any more, and what it replaces is revoked, unless its
\* commit failed.
LEMMA LiveCookieStep ==
  ASSUME SessionsIInv, SessionsNext, LiveCookieTaken, ~crossed
  PROVE  \/ \E b \in Requests :
              \/ request[b].answer = "inactive"
              \/ request[b].answer = "clear" /\ request[b].kind = "logout"
         \/ cookie' \in Unsaved
<1>1. cookie \in Live /\ cookie' # cookie /\ cookie # 0
  BY SessionConstants DEF LiveCookieTaken, Live
<1>2. PICK b \in Requests : Arrive(b)
  BY <1>1 DEF SessionsNext, SendLogin, SendRefresh, SendLogout, Send, LookUp, CheckAccount,
              Issue, Revoke, Commit, Fails, CommitFails, AnswerLost, SessionFault,
              OnlyRequest, Expire, Deactivate
<1>3. PICK q : q = request[b]  OBVIOUS
<1>4. q \in RequestRows /\ GoodRequest(b, q) /\ RequestStage(q)  BY <1>3, RequestKnown
<1>5. q.answer # "none"  BY <1>2, <1>3 DEF Arrive
<1>6. cookie' = CASE q.answer = "set" -> q.new
                  [] q.answer \in {"clear", "inactive"} -> 0
                  [] q.answer = "keep" -> cookie
  BY <1>2, <1>3 DEF Arrive
<1>7. q.answer \in {"set", "clear", "inactive"}
  BY <1>1, <1>4, <1>5, <1>6 DEF RequestRows
<1>8. q.kind # "none"  BY <1>4, <1>5 DEF RequestStage, NoRequest
<1>9. cookie = q.shown  BY <1>4, <1>5, <1>8 DEF GoodRequest, Uncrossed
<1>10. CASE q.answer = "set"
  <2>1. cookie' = q.new /\ q.new # 0  BY <1>4, <1>6, <1>10 DEF RequestStage
  <2>2. q.new \notin Live /\ q.new \notin TokensToCome  BY <2>1 DEF LiveCookieTaken
  <2>3. q.at # "answered"  BY <1>3, <2>1, <2>2 DEF TokensToCome
  <2>4. q.at = "done"  BY <1>4, <1>10, <2>3 DEF RequestStage, RequestRows, Undecided
  <2>5. token[q.new].state = "none"
    BY <1>1, <1>4, <1>8, <1>9, <1>10, <2>4 DEF GoodRequest, Uncrossed
  <2>6. q.new \in 1..issued
    BY <1>4, <2>1, SessionConstants
       DEF GoodRequest, IssuedTo, RequestRows, SessionsIInv, SessionsShape
  <2> QED  BY <2>1, <2>2, <2>5, <2>6 DEF Unsaved
<1>11. CASE q.answer = "clear"
  <2>1. q.kind # "refresh"
    BY <1>1, <1>4, <1>8, <1>9, <1>11 DEF GoodRequest, Uncrossed
  <2>2. q.kind # "login"  BY <1>1, <1>4, <1>9 DEF RequestStage
  <2> QED  BY <1>3, <1>4, <1>8, <1>11, <2>1, <2>2 DEF RequestRows
<1> QED  BY <1>3, <1>7, <1>10, <1>11

\* Every reachable state of the cookie and the tokens satisfies SessionsIInv.
THEOREM SessionsInductive == SessionsSpec => []SessionsIInv
<1>1. SessionsInit => SessionsIInv
  BY SessionsInitHolds
<1>2. SessionsIInv /\ [SessionsNext]_sessionVars => SessionsIInv'
  BY SessionsStep
<1> QED
  BY <1>1, <1>2, PTL DEF SessionsSpec

\* However requests of a browser cross, fail and are answered late: where nothing went
\* wrong its cookie is its session, and a token became two only where two requests had it
\* at once (AuthService.refresh, logout).
THEOREM SessionsAreSound == SessionsSpec => []SessionsInv
<1>1. SessionsIInv => SessionsInv  BY SessionsInvFollows
<1> QED  BY <1>1, SessionsInductive, PTL

\* Without crossing requests a cookie that works is taken from the browser by a logout,
\* because the account is not active, or for a token that was sent and whose commit then
\* failed, and by no other fault (endpoints/auth.py refresh).
THEOREM CookieThatWorksIsKept == SessionsSpec => LiveCookieKept
<1>1. SessionsIInv /\ [SessionsNext]_sessionVars
        => [LiveCookieTaken /\ ~crossed =>
              \/ \E b \in Requests :
                   \/ request[b].answer = "inactive"
                   \/ request[b].answer = "clear" /\ request[b].kind = "logout"
              \/ cookie' \in Unsaved]_sessionVars
  BY LiveCookieStep
<1> QED  BY <1>1, SessionsInductive, PTL DEF SessionsSpec, LiveCookieKept

-----------------------------------------------------------------------------
(* What an organization tells the assistant.                               *)

SaveRows ==
  [at : {"none", "sent", "loaded", "written", "done"},
   op : {"none", "create", "update", "delete", "upsert"}, id : Ids \union {0},
   form : Row \union {NoRow}, loaded : Row \union {NoRow}, result : Row \union {NoRow},
   answered : BOOLEAN, early : BOOLEAN]
TabRows ==
  [load : {"asked", "read", "done", "failed"},
   read : [Ids -> Row \union {NoRow}], shown : [Ids -> Row \union {NoRow}]]

CatalogueShape ==
  /\ kind \in DOMAIN Forms
  /\ rows \in [Ids -> Row \union {NoRow}]
  /\ tabs \in [Tabs -> TabRows] /\ saves \in [Tabs -> SaveRows]
  /\ saved \in 0..MaxSaves /\ saveFaults \in 0..MaxSaveFaults
  /\ lastForm \in [Ids -> Row \union {NoRow}]

\* A change that has written and not committed.
Holds(s) == s.at = "written" /\ s.op # "none"

\* What a change that is as far as s has.
SaveStage(s) ==
  /\ s.at = "none" => s = NoSave
  /\ s.at \in {"loaded", "written", "done"} /\ ~(s.at = "loaded" /\ s.op = "create") =>
       s.id \in Ids
  /\ s.at \in {"sent", "loaded"} => s.op # "none"
  /\ s.at = "loaded" /\ s.op \in {"update", "upsert"} => s.loaded \in Row
  /\ s.op \in {"create", "update", "upsert"} => s.form \in Row
  /\ s.op = "delete" => s.form = NoRow
  /\ s.answered => s.at = "written"

\* What is written is what was asked, over the row that is locked with it.
WritesAsAsked(s) ==
  /\ s.op = "create" => s.result = s.form
  /\ s.op \in {"update", "upsert"} =>
       rows[s.id] \in Row /\ s.result = Merged(s.loaded, s.form, rows[s.id])
  /\ s.op = "delete" => s.result = NoRow

\* Nobody else has written the same row, or, where they are unique, has the key.
UniqueKeys == kind \notin {"faqs", "areas"}
HoldsKeyAlone(t, s) ==
  /\ \A u \in Tabs \ {t} :
       Holds(saves[u]) =>
         /\ saves[u].id # s.id
         /\ UniqueKeys /\ s.result # NoRow => saves[u].result.key # s.result.key
  /\ UniqueKeys /\ s.result # NoRow =>
       \A j \in Ids \ {s.id} : rows[j] # NoRow => rows[j].key # s.result.key

\* What a tab is answered, and whether a row of it is the stored one.
AnswerRow(s) == IF kind = "profile" THEN s.form ELSE s.result
Stored(row, i) == row = rows[i] \/ (kind = "profile" /\ i \in mixed)

\* The answer of a change that was sent after the tab's load is of the row as it will
\* be, or is, stored.
AnswersAsStored(t, s) ==
  ~s.early =>
    /\ s.at = "written" /\ s.op # "none" /\ s.answered => tabs[t].shown[s.id] = AnswerRow(s)
    /\ <<t, s.id>> \notin behind =>
         /\ s.at = "done" \/ (s.at = "written" /\ s.op = "none") => Stored(AnswerRow(s), s.id)
         /\ s.at = "loaded" /\ s.op \in {"update", "upsert"} => rows[s.id] = s.loaded

\* The row a tab waits to be told of, or was told of too early.
Awaited(s, i) ==
  i = s.id /\ (s.at = "done" \/ (s.at = "written" /\ s.op # "none" /\ s.answered))

ShowsAsStored(t, s) ==
  /\ tabs[t].load = "read" =>
       \A i \in Ids : <<t, i>> \notin behind => tabs[t].read[i] = rows[i]
  /\ tabs[t].load = "done" =>
       \A i \in Ids : <<t, i>> \notin behind /\ ~Awaited(s, i) => Stored(tabs[t].shown[i], i)
  /\ s # NoSave /\ ~s.early => LoadEnded(t)

GoodSave(t, s) ==
  /\ SaveStage(s)
  /\ Holds(s) => WritesAsAsked(s) /\ HoldsKeyAlone(t, s)
  /\ AnswersAsStored(t, s) /\ ShowsAsStored(t, s)

CatalogueIInv ==
  /\ CatalogueShape /\ KeysDiffer /\ StoredAsSaid
  /\ \A t \in Tabs : GoodSave(t, saves[t])

LEMMA RowFacts ==
  /\ NoRow \notin Row /\ NoRow.key = NotGiven
  /\ \A row \in Row : row.key # NotGiven /\ row # NoRow
  /\ Columns = {"key", "flag", "value"}
  /\ 0 \notin Ids /\ Ids \subseteq Nat /\ MaxSaves \in Nat /\ MaxSaveFaults \in Nat
<1>1. \A row \in Row : row.key # NotGiven
  BY CatalogueAssumption DEF Row
<1>2. NoRow.key = NotGiven
  BY DEF NoRow
<1>3. 0 \notin Ids /\ Ids \subseteq Nat
  BY CatalogueAssumption DEF Ids
<1> QED
  BY <1>1, <1>2, <1>3, CatalogueAssumption DEF Columns

LEMMA FormsAreRows ==
  ASSUME kind \in DOMAIN Forms
  PROVE  Forms[kind] \subseteq Row
<1>1. /\ Named \subseteq Row /\ AreaForms \subseteq Row /\ HoursForms \subseteq Row
      /\ ExceptionForms \subseteq Row /\ WeekForms \subseteq Row /\ ProfileForms \subseteq Row
  BY DEF Named, AreaForms, HoursForms, ExceptionForms, WeekForms, ProfileForms
<1>2. kind \in {"services", "keywords", "faqs", "areas", "exceptions", "hours", "profile"}
  BY DEF Forms
<1> QED
  BY <1>1, <1>2 DEF Forms

\* A form over a row is a row; over the row it was made of it is all that is stored,
\* and one that asks for what is there changes nothing.
LEMMA MergedRow ==
  ASSUME NEW loaded \in Row, NEW form \in Row, NEW current \in Row
  PROVE  /\ Merged(loaded, form, current) \in Row
         /\ loaded = current => Merged(loaded, form, current) = form
         /\ form = loaded => Merged(loaded, form, current) = current
<1> PICK row : row = Merged(loaded, form, current)
  OBVIOUS
<1>1. /\ row = [c \in {"key", "flag", "value"} |-> row[c]]
      /\ row.key = IF form.key # loaded.key THEN form.key ELSE current.key
      /\ row.flag = IF form.flag # loaded.flag THEN form.flag ELSE current.flag
      /\ row.value = IF form.value # loaded.value THEN form.value ELSE current.value
  BY DEF Merged, Columns
<1>2. row \in Row
  BY <1>1 DEF Row
<1>3. loaded = current => row = form
  BY <1>1, <1>2 DEF Row
<1>4. form = loaded => row = current
  BY <1>1, <1>2 DEF Row
<1> QED
  BY <1>2, <1>3, <1>4

LEMMA EmptySave ==
  /\ NoSave \in SaveRows /\ SaveStage(NoSave) /\ ~Holds(NoSave)
  /\ NoSave.at = "none" /\ NoSave.op = "none" /\ ~NoSave.answered /\ ~NoSave.early
  /\ NoSave.form = NoRow /\ NoSave.result = NoRow /\ NoSave.loaded = NoRow
  /\ \A i : ~Awaited(NoSave, i)
<1>1. NoSave \in SaveRows
  BY DEF NoSave, SaveRows
<1>2. /\ NoSave.at = "none" /\ NoSave.op = "none" /\ ~NoSave.answered /\ ~NoSave.early
      /\ NoSave.form = NoRow /\ NoSave.result = NoRow /\ NoSave.loaded = NoRow
  BY DEF NoSave
<1> QED
  BY <1>1, <1>2 DEF SaveStage, Holds, Awaited

LEMMA CatalogueStart ==
  ASSUME CatalogueInit
  PROVE  CatalogueIInv
<1>1. \A t \in Tabs : saves[t] = NoSave /\ tabs[t].load = "asked"
  BY DEF CatalogueInit
<1>2. NoRows \in [Ids -> Row \union {NoRow}] /\ \A i \in Ids : NoRows[i] = NoRow
  BY DEF NoRows
<1>3. /\ rows \in [Ids -> Row \union {NoRow}]
      /\ \A i \in Ids : i # 1 => rows[i] = NoRow
  <2>1. CASE rows = NoRows
    BY <1>2, <2>1
  <2>2. CASE \E row \in Forms[kind] : rows = [NoRows EXCEPT ![1] = row]
    <3>1. PICK row \in Row : rows = [NoRows EXCEPT ![1] = row]
      BY <2>2, FormsAreRows DEF CatalogueInit
    <3> QED
      BY <1>2, <3>1
  <2> QED
    BY <2>1, <2>2 DEF CatalogueInit
<1>4. CatalogueShape
  <2>1. \A t \in Tabs : saves[t] \in SaveRows
    BY <1>1, EmptySave
  <2>2. saves = [t \in Tabs |-> NoSave] /\ saved = 0 /\ saveFaults = 0 /\ lastForm = rows
    BY DEF CatalogueInit
  <2>3. tabs \in [Tabs -> TabRows]
    BY <1>2 DEF CatalogueInit, TabRows
  <2>4. 0 \in 0..MaxSaves /\ 0 \in 0..MaxSaveFaults
    BY RowFacts
  <2>5. saves \in [Tabs -> SaveRows]
    BY <2>2, EmptySave
  <2> QED
    BY <1>3, <2>2, <2>3, <2>4, <2>5 DEF CatalogueShape, CatalogueInit
<1>5. KeysDiffer
  BY <1>3, RowFacts DEF KeysDiffer
<1>6. StoredAsSaid
  BY DEF StoredAsSaid, CatalogueInit
<1>7. ASSUME NEW t \in Tabs
      PROVE  GoodSave(t, saves[t])
  BY <1>1, EmptySave DEF GoodSave, AnswersAsStored, ShowsAsStored
<1> QED
  BY <1>4, <1>5, <1>6, <1>7 DEF CatalogueIInv

-----------------------------------------------------------------------------
(* A step of one tab.                                                      *)

\* A step of one tab that stores nothing.
LEMMA TabMoves ==
  ASSUME CatalogueIInv, NEW t \in Tabs, NEW s \in SaveRows,
         kind' = kind, rows' = rows, lastForm' = lastForm, mixed' = mixed,
         saved' \in 0..MaxSaves, saveFaults' \in 0..MaxSaveFaults,
         tabs' \in [Tabs -> TabRows], \A u \in Tabs \ {t} : tabs'[u] = tabs[u],
         saves' = [saves EXCEPT ![t] = s],
         \A u \in Tabs \ {t}, i \in Ids \union {0} :
           <<u, i>> \notin behind' => <<u, i>> \notin behind,
         SaveStage(s), Holds(s) => WritesAsAsked(s) /\ HoldsKeyAlone(t, s),
         AnswersAsStored(t, s)', ShowsAsStored(t, s)'
  PROVE  CatalogueIInv'
<1>1. /\ saves \in [Tabs -> SaveRows] /\ saves' \in [Tabs -> SaveRows]
      /\ saves'[t] = s /\ \A u \in Tabs \ {t} : saves'[u] = saves[u]
  BY DEF CatalogueIInv, CatalogueShape
<1>2. CatalogueShape'
  BY <1>1 DEF CatalogueIInv, CatalogueShape
<1>3. KeysDiffer' /\ StoredAsSaid'
  BY DEF CatalogueIInv, KeysDiffer, StoredAsSaid
<1>4. GoodSave(t, s)'
  <2>1. SaveStage(s)'
    BY DEF SaveStage
  <2>2. Holds(s) => WritesAsAsked(s)'
    BY DEF WritesAsAsked
  <2>3. Holds(s) => HoldsKeyAlone(t, s)'
    <3> SUFFICES ASSUME Holds(s)
                 PROVE  HoldsKeyAlone(t, s)'
      OBVIOUS
    <3>1. HoldsKeyAlone(t, s)
      OBVIOUS
    <3> QED
      BY <1>1, <3>1 DEF HoldsKeyAlone, UniqueKeys
  <2> QED
    BY <2>1, <2>2, <2>3 DEF GoodSave, Holds
<1>5. ASSUME NEW u \in Tabs, u # t, NEW o, o = saves[u]
      PROVE  GoodSave(u, o)'
  <2>1. GoodSave(u, o) /\ o \in SaveRows /\ saves'[u] = o /\ tabs'[u] = tabs[u]
    BY <1>1, <1>5 DEF CatalogueIInv
  <2>2. SaveStage(o)' /\ (Holds(o) => WritesAsAsked(o)')
    BY <2>1 DEF GoodSave, SaveStage, WritesAsAsked
  <2>3. ASSUME Holds(o)
        PROVE  HoldsKeyAlone(u, o)'
    <3>1. HoldsKeyAlone(u, o)
      BY <2>1, <2>3 DEF GoodSave
    <3>2. ASSUME NEW v \in Tabs \ {u}, Holds(saves'[v])
          PROVE  /\ saves'[v].id # o.id
                 /\ UniqueKeys /\ o.result # NoRow => saves'[v].result.key # o.result.key
      <4>1. CASE v # t
        BY <1>1, <3>1, <3>2, <4>1 DEF HoldsKeyAlone
      <4>2. CASE v = t
        <5>1. Holds(s) /\ HoldsKeyAlone(t, s)
          BY <1>1, <3>2, <4>2
        <5>2. /\ o.id # s.id
              /\ UniqueKeys /\ s.result # NoRow => o.result.key # s.result.key
          BY <1>5, <2>3, <5>1 DEF HoldsKeyAlone
        <5>3. o.result \in Row \union {NoRow} /\ s.result \in Row \union {NoRow}
          BY <2>1 DEF SaveRows
        <5>4. s.result = NoRow /\ o.result # NoRow => o.result.key # s.result.key
          BY <5>3, RowFacts
        <5> QED
          BY <1>1, <4>2, <5>2, <5>4
      <4> QED
        BY <4>1, <4>2
    <3> QED
      BY <3>1, <3>2 DEF HoldsKeyAlone, UniqueKeys, Holds
  <2>4. o.id \in Ids \union {0} /\ \A i \in Ids : i \in Ids \union {0}
    BY <2>1 DEF SaveRows
  <2>5. AnswersAsStored(u, o)'
    BY <1>5, <2>1, <2>4 DEF GoodSave, AnswersAsStored, AnswerRow, Stored
  <2>6. ShowsAsStored(u, o)'
    BY <1>5, <2>1, <2>4 DEF GoodSave, ShowsAsStored, Stored, Awaited, LoadEnded
  <2> QED
    BY <2>2, <2>3, <2>5, <2>6 DEF GoodSave, Holds
<1>6. ASSUME NEW u \in Tabs
      PROVE  GoodSave(u, saves[u])'
  <2> PICK o : o = saves'[u]
    OBVIOUS
  <2>1. GoodSave(u, o)'
    BY <1>1, <1>4, <1>5, <1>6
  <2> QED
    BY <2>1 DEF GoodSave, SaveStage, Holds, WritesAsAsked, HoldsKeyAlone, AnswersAsStored,
                ShowsAsStored, AnswerRow, Stored, Awaited
<1> QED
  BY <1>2, <1>3, <1>6 DEF CatalogueIInv

\* What is known of a tab and of its change.
LEMMA TabFacts ==
  ASSUME CatalogueIInv, NEW t \in Tabs
  PROVE  /\ saves \in [Tabs -> SaveRows] /\ saves[t] \in SaveRows /\ GoodSave(t, saves[t])
         /\ tabs \in [Tabs -> TabRows] /\ tabs[t] \in TabRows
         /\ tabs[t].read \in [Ids -> Row \union {NoRow}]
         /\ tabs[t].shown \in [Ids -> Row \union {NoRow}]
         /\ saved \in 0..MaxSaves /\ saveFaults \in 0..MaxSaveFaults
         /\ rows \in [Ids -> Row \union {NoRow}]
  BY DEF CatalogueIInv, CatalogueShape, TabRows

LEMMA FaultKeeps ==
  ASSUME CatalogueIInv, SaveFault
  PROVE  saveFaults' \in 0..MaxSaveFaults
  BY RowFacts DEF SaveFault, CatalogueIInv, CatalogueShape

\* A tab's load ends after no change of it but one that was sent early.
LEMMA LoadingTab ==
  ASSUME CatalogueIInv, NEW t \in Tabs, ~LoadEnded(t), NEW s, s = saves[t]
  PROVE  s = NoSave \/ s.early
  BY DEF CatalogueIInv, GoodSave, ShowsAsStored

LEMMA ReadRowsKeeps ==
  ASSUME CatalogueIInv, NEW t \in Tabs, ReadRows(t)
  PROVE  CatalogueIInv'
<1> PICK s : s = saves[t]
  OBVIOUS
<1> PICK tab : tab = [tabs[t] EXCEPT !.load = "read", !.read = rows]
  OBVIOUS
<1>1. /\ tabs[t].load = "asked" /\ tabs' = [tabs EXCEPT ![t] = tab]
      /\ behind' = {b \in behind : b[1] # t}
      /\ kind' = kind /\ rows' = rows /\ saves' = saves /\ saved' = saved
      /\ saveFaults' = saveFaults /\ lastForm' = lastForm /\ mixed' = mixed
  BY DEF ReadRows, TabIs
<1>2. /\ s \in SaveRows /\ GoodSave(t, s) /\ tabs[t] \in TabRows
      /\ rows \in [Ids -> Row \union {NoRow}]
  BY TabFacts
<1>3. tab \in TabRows /\ tab.load = "read" /\ tab.read = rows
  BY <1>2 DEF TabRows
<1>4. tabs' \in [Tabs -> TabRows] /\ tabs'[t] = tab /\ \A u \in Tabs \ {t} : tabs'[u] = tabs[u]
  BY <1>1, <1>3, TabFacts
<1>5. s = NoSave \/ s.early
  BY <1>1, LoadingTab DEF LoadEnded
<1>6. AnswersAsStored(t, s)'
  BY <1>5, EmptySave DEF AnswersAsStored
<1>7. ShowsAsStored(t, s)'
  BY <1>1, <1>3, <1>4, <1>5 DEF ShowsAsStored
<1>8. saves' = [saves EXCEPT ![t] = s] /\ saved' \in 0..MaxSaves /\ saveFaults' \in 0..MaxSaveFaults
  BY <1>1, TabFacts
<1>9. \A u \in Tabs \ {t}, i \in Ids \union {0} :
        <<u, i>> \notin behind' => <<u, i>> \notin behind
  BY <1>1
<1> QED
  BY <1>1, <1>2, <1>4, <1>6, <1>7, <1>8, <1>9, TabMoves DEF GoodSave

LEMMA ShowRowsKeeps ==
  ASSUME CatalogueIInv, NEW t \in Tabs, ShowRows(t)
  PROVE  CatalogueIInv'
<1> PICK s : s = saves[t]
  OBVIOUS
<1> PICK tab : tab = [load |-> "done", read |-> NoRows, shown |-> tabs[t].read]
  OBVIOUS
<1>1. /\ tabs[t].load = "read" /\ tabs' = [tabs EXCEPT ![t] = tab]
      /\ behind' = behind
      /\ kind' = kind /\ rows' = rows /\ saves' = saves /\ saved' = saved
      /\ saveFaults' = saveFaults /\ lastForm' = lastForm /\ mixed' = mixed
  BY DEF ShowRows, TabIs, savesHistory
<1>2. /\ s \in SaveRows /\ GoodSave(t, s) /\ tabs[t] \in TabRows
      /\ tabs[t].read \in [Ids -> Row \union {NoRow}]
  BY TabFacts
<1>3. tab \in TabRows /\ tab.load = "done" /\ tab.shown = tabs[t].read
  BY <1>2 DEF TabRows, NoRows
<1>4. tabs' \in [Tabs -> TabRows] /\ tabs'[t] = tab /\ \A u \in Tabs \ {t} : tabs'[u] = tabs[u]
  BY <1>1, <1>3, TabFacts
<1>5. s = NoSave \/ s.early
  BY <1>1, LoadingTab DEF LoadEnded
<1>6. AnswersAsStored(t, s)'
  BY <1>5, EmptySave DEF AnswersAsStored
<1>7. \A i \in Ids : <<t, i>> \notin behind => tabs[t].read[i] = rows[i]
  BY <1>1, <1>2 DEF GoodSave, ShowsAsStored
<1>8. ShowsAsStored(t, s)'
  BY <1>1, <1>3, <1>4, <1>5, <1>7 DEF ShowsAsStored, Stored
<1>9. saves' = [saves EXCEPT ![t] = s] /\ saved' \in 0..MaxSaves /\ saveFaults' \in 0..MaxSaveFaults
  BY <1>1, TabFacts
<1> QED
  BY <1>1, <1>2, <1>4, <1>6, <1>8, <1>9, TabMoves DEF GoodSave

LEMMA LoadRowsFailsKeeps ==
  ASSUME CatalogueIInv, NEW t \in Tabs, LoadRowsFails(t)
  PROVE  CatalogueIInv'
<1> PICK s : s = saves[t]
  OBVIOUS
<1> PICK tab : tab = [tabs[t] EXCEPT !.load = "failed"]
  OBVIOUS
<1>1. /\ tabs[t].load = "asked" /\ tabs' = [tabs EXCEPT ![t] = tab]
      /\ behind' = behind
      /\ kind' = kind /\ rows' = rows /\ saves' = saves /\ saved' = saved
      /\ lastForm' = lastForm /\ mixed' = mixed
  BY DEF LoadRowsFails, TabIs, savesHistory
<1>2. s \in SaveRows /\ GoodSave(t, s) /\ tabs[t] \in TabRows
  BY TabFacts
<1>3. tab \in TabRows /\ tab.load = "failed"
  BY <1>2 DEF TabRows
<1>4. tabs' \in [Tabs -> TabRows] /\ tabs'[t] = tab /\ \A u \in Tabs \ {t} : tabs'[u] = tabs[u]
  BY <1>1, <1>3, TabFacts
<1>5. s = NoSave \/ s.early
  BY <1>1, LoadingTab DEF LoadEnded
<1>6. AnswersAsStored(t, s)'
  BY <1>5, EmptySave DEF AnswersAsStored
<1>7. ShowsAsStored(t, s)'
  BY <1>3, <1>4, <1>5 DEF ShowsAsStored
<1>8. saves' = [saves EXCEPT ![t] = s] /\ saved' \in 0..MaxSaves /\ saveFaults' \in 0..MaxSaveFaults
  BY <1>1, TabFacts, FaultKeeps DEF LoadRowsFails
<1> QED
  BY <1>1, <1>2, <1>4, <1>6, <1>7, <1>8, TabMoves DEF GoodSave

\* A step that moves only the tab's change on, and not to where it waits for an answer.
LEMMA SaveMoves ==
  ASSUME CatalogueIInv, NEW t \in Tabs, NEW s \in SaveRows,
         UNCHANGED <<kind, rows, tabs, saveFaults, lastForm, mixed, behind>>,
         saved' \in 0..MaxSaves, SaveIs(t, s),
         SaveStage(s), Holds(s) => WritesAsAsked(s) /\ HoldsKeyAlone(t, s),
         AnswersAsStored(t, s),
         \A i \in Ids : Awaited(saves[t], i) => Awaited(s, i) \/ <<t, i>> \in behind,
         s # NoSave /\ ~s.early => LoadEnded(t)
  PROVE  CatalogueIInv'
<1>1. /\ kind' = kind /\ rows' = rows /\ tabs' = tabs /\ saveFaults' = saveFaults
      /\ lastForm' = lastForm /\ mixed' = mixed /\ behind' = behind
      /\ saves' = [saves EXCEPT ![t] = s]
  BY DEF SaveIs
<1>2. GoodSave(t, saves[t]) /\ tabs \in [Tabs -> TabRows] /\ saveFaults \in 0..MaxSaveFaults
  BY TabFacts
<1>3. AnswersAsStored(t, s)'
  BY <1>1 DEF AnswersAsStored, AnswerRow, Stored
<1>4. \A i \in Ids : <<t, i>> \notin behind /\ ~Awaited(s, i) => ~Awaited(saves[t], i)
  OBVIOUS
<1>5. ShowsAsStored(t, s)
  BY <1>2, <1>4 DEF GoodSave, ShowsAsStored
<1>6. ShowsAsStored(t, s)'
  BY <1>1, <1>5 DEF ShowsAsStored, Stored, Awaited, LoadEnded
<1> QED
  BY <1>1, <1>2, <1>3, <1>6, TabMoves

LEMMA SaveSentKeeps ==
  ASSUME CatalogueIInv, NEW t \in Tabs, NEW save \in SaveRows,
         save.op \in {"create", "update", "delete", "upsert"}, ~save.answered,
         save.op = "delete" => save.form = NoRow,
         save.op # "delete" => save.form \in Row,
         Sends(t, save)
  PROVE  CatalogueIInv'
<1> PICK early \in BOOLEAN : early <=> ~LoadEnded(t)
  OBVIOUS
<1> PICK s : s = [save EXCEPT !.at = "sent", !.early = early]
  OBVIOUS
<1>1. early = ~LoadEnded(t)
  BY DEF LoadEnded
<1>2. /\ saves[t] = NoSave /\ SaveIs(t, s) /\ saved' = saved + 1 /\ saved < MaxSaves
      /\ UNCHANGED <<kind, rows, tabs, saveFaults, lastForm, mixed, behind>>
  BY <1>1 DEF Sends, savesHistory
<1>3. /\ s.at = "sent" /\ s.early = early /\ s.op = save.op /\ s.form = save.form
      /\ s.answered = save.answered /\ s.id = save.id
  BY DEF SaveRows
<1>4. s \in SaveRows
  BY DEF SaveRows
<1>5. SaveStage(s) /\ ~Holds(s)
  BY <1>3 DEF SaveStage, Holds
<1>6. AnswersAsStored(t, s)
  BY <1>3 DEF AnswersAsStored
<1>7. saved' \in 0..MaxSaves
  BY <1>2, RowFacts, TabFacts
<1>8. \A i \in Ids : ~Awaited(saves[t], i)
  BY <1>2, EmptySave
<1>9. ~s.early => LoadEnded(t)
  BY <1>3
<1> QED
  BY <1>2, <1>4, <1>5, <1>6, <1>7, <1>8, <1>9, SaveMoves

LEMMA SendNewKeeps ==
  ASSUME CatalogueIInv, NEW t \in Tabs, SendNew(t)
  PROVE  CatalogueIInv'
<1>1. PICK form \in Row : Sends(t, [NoSave EXCEPT !.op = "create", !.form = form])
  BY FormsAreRows DEF SendNew, CatalogueIInv, CatalogueShape
<1> PICK save : save = [NoSave EXCEPT !.op = "create", !.form = form]
  OBVIOUS
<1>2. save \in SaveRows /\ save.op = "create" /\ save.form = form /\ ~save.answered
  BY EmptySave DEF SaveRows, NoSave
<1> QED
  BY <1>1, <1>2, SaveSentKeeps

LEMMA SendEditKeeps ==
  ASSUME CatalogueIInv, NEW t \in Tabs, SendEdit(t)
  PROVE  CatalogueIInv'
<1>1. PICK i \in Ids, form \in Row :
        Sends(t, [NoSave EXCEPT !.op = "update", !.id = i, !.form = form])
  BY FormsAreRows DEF SendEdit, CatalogueIInv, CatalogueShape
<1> PICK save : save = [NoSave EXCEPT !.op = "update", !.id = i, !.form = form]
  OBVIOUS
<1>2. save \in SaveRows /\ save.op = "update" /\ save.form = form /\ ~save.answered
  BY EmptySave DEF SaveRows, NoSave
<1> QED
  BY <1>1, <1>2, SaveSentKeeps

LEMMA SendRemovalKeeps ==
  ASSUME CatalogueIInv, NEW t \in Tabs, SendRemoval(t)
  PROVE  CatalogueIInv'
<1>1. PICK i \in Ids : Sends(t, [NoSave EXCEPT !.op = "delete", !.id = i])
  BY DEF SendRemoval
<1> PICK save : save = [NoSave EXCEPT !.op = "delete", !.id = i]
  OBVIOUS
<1>2. save \in SaveRows /\ save.op = "delete" /\ save.form = NoRow /\ ~save.answered
  BY EmptySave DEF SaveRows, NoSave
<1> QED
  BY <1>1, <1>2, SaveSentKeeps

LEMMA SendWholeKeeps ==
  ASSUME CatalogueIInv, NEW t \in Tabs, SendWhole(t)
  PROVE  CatalogueIInv'
<1>1. PICK form \in Row : Sends(t, [NoSave EXCEPT !.op = "upsert", !.form = form])
  BY FormsAreRows DEF SendWhole, CatalogueIInv, CatalogueShape
<1> PICK save : save = [NoSave EXCEPT !.op = "upsert", !.form = form]
  OBVIOUS
<1>2. save \in SaveRows /\ save.op = "upsert" /\ save.form = form /\ ~save.answered
  BY EmptySave DEF SaveRows, NoSave
<1> QED
  BY <1>1, <1>2, SaveSentKeeps

\* A change that is refused before it has written anything is as if never sent.
LEMMA RefusedKeeps ==
  ASSUME CatalogueIInv, NEW t \in Tabs, Refused(t), saves[t].at \in {"sent", "loaded"},
         UNCHANGED <<kind, rows, tabs, saved, saveFaults, savesHistory>>
  PROVE  CatalogueIInv'
<1>1. /\ UNCHANGED <<kind, rows, tabs, saveFaults, lastForm, mixed, behind>>
      /\ saved' \in 0..MaxSaves /\ SaveIs(t, NoSave)
  BY TabFacts DEF savesHistory, Refused
<1>2. \A i \in Ids : ~Awaited(saves[t], i)
  BY DEF Awaited
<1>3. AnswersAsStored(t, NoSave)
  BY EmptySave DEF AnswersAsStored
<1> QED
  BY <1>1, <1>2, <1>3, EmptySave, SaveMoves

LEMMA LoadRowKeeps ==
  ASSUME CatalogueIInv, NEW t \in Tabs, LoadRow(t)
  PROVE  CatalogueIInv'
<1> PICK save : save = saves[t]
  OBVIOUS
<1> PICK found : found = IF save.op = "upsert" THEN FindOnly ELSE Find(t)
  OBVIOUS
<1>1. /\ save.at = "sent" /\ save \in SaveRows /\ GoodSave(t, save)
      /\ rows \in [Ids -> Row \union {NoRow}]
      /\ UNCHANGED <<kind, rows, tabs, saved, saveFaults, savesHistory>>
      /\ UNCHANGED <<kind, rows, tabs, saveFaults, lastForm, mixed, behind>>
      /\ saved' \in 0..MaxSaves
  BY TabFacts DEF LoadRow, savesHistory
<1>2. /\ save # NoSave /\ ~save.answered /\ (~save.early => LoadEnded(t))
      /\ \A i \in Ids : ~Awaited(saves[t], i)
  BY <1>1, EmptySave DEF GoodSave, SaveStage, ShowsAsStored, Awaited
<1>3. found \subseteq {i \in Ids : rows[i] # NoRow}
  BY DEF FindOnly, Find
<1>4. ASSUME NEW i \in found,
             SaveIs(t, [save EXCEPT !.at = "loaded", !.id = i, !.loaded = rows[i]])
      PROVE  CatalogueIInv'
  <2> PICK s : s = [save EXCEPT !.at = "loaded", !.id = i, !.loaded = rows[i]]
    OBVIOUS
  <2>1. i \in Ids /\ rows[i] \in Row
    BY <1>1, <1>3, <1>4
  <2>2. /\ s.at = "loaded" /\ s.id = i /\ s.loaded = rows[i] /\ s.op = save.op
        /\ s.form = save.form /\ s.answered = save.answered /\ s.early = save.early
        /\ s \in SaveRows
    BY <1>1, <2>1 DEF SaveRows
  <2>3. s.op # "none"
    BY <1>1, <2>2 DEF GoodSave, SaveStage
  <2>4. SaveStage(s) /\ ~Holds(s)
    BY <1>1, <1>2, <2>1, <2>2, <2>3 DEF GoodSave, SaveStage, Holds
  <2>5. AnswersAsStored(t, s)
    BY <2>2 DEF AnswersAsStored
  <2> QED
    BY <1>1, <1>2, <1>4, <2>2, <2>4, <2>5, SaveMoves
<1>5. ASSUME save.op \in {"create", "upsert"},
             SaveIs(t, [save EXCEPT !.at = "loaded", !.op = "create"])
      PROVE  CatalogueIInv'
  <2> PICK s : s = [save EXCEPT !.at = "loaded", !.op = "create"]
    OBVIOUS
  <2>1. /\ s.at = "loaded" /\ s.op = "create" /\ s.form = save.form
        /\ s.answered = save.answered /\ s.early = save.early /\ s \in SaveRows
    BY <1>1 DEF SaveRows
  <2>2. SaveStage(s) /\ ~Holds(s)
    BY <1>1, <1>2, <1>5, <2>1 DEF GoodSave, SaveStage, Holds
  <2>3. AnswersAsStored(t, s)
    BY <2>1 DEF AnswersAsStored
  <2> QED
    BY <1>1, <1>2, <1>5, <2>1, <2>2, <2>3, SaveMoves
<1>6. ASSUME SaveIs(t, NoSave)
      PROVE  CatalogueIInv'
  BY <1>1, <1>6, RefusedKeeps DEF Refused
<1> QED
  BY <1>4, <1>5, <1>6 DEF LoadRow

-----------------------------------------------------------------------------
(* What a transaction writes.                                              *)

\* A change that has loaded its row and writes it, alone.
LEMMA WriteKeeps ==
  ASSUME CatalogueIInv, NEW t \in Tabs, saves[t].at = "loaded",
         NEW op \in {"none", "create", "update", "delete", "upsert"}, NEW i \in Ids,
         NEW row \in Row \union {NoRow},
         WritesRow(t, i, op, row),
         UNCHANGED <<kind, rows, tabs, saved, saveFaults, savesHistory>>,
         op \in {"create", "update", "upsert"} => saves[t].form \in Row,
         op = "delete" => saves[t].form = NoRow,
         op = "create" => row = saves[t].form,
         op \in {"update", "upsert"} =>
           rows[i] \in Row /\ row = Merged(saves[t].loaded, saves[t].form, rows[i]),
         op = "delete" => row = NoRow,
         op # "none" =>
           \A u \in Tabs \ {t} :
             Holds(saves[u]) => /\ saves[u].id # i
                                /\ UniqueKeys /\ row # NoRow => saves[u].result.key # row.key,
         op # "none" /\ UniqueKeys /\ row # NoRow =>
           \A j \in Ids \ {i} : rows[j] # NoRow => rows[j].key # row.key,
         op = "none" /\ ~saves[t].early /\ <<t, i>> \notin behind =>
           row = rows[i] /\ saves[t].form = rows[i]
  PROVE  CatalogueIInv'
<1> PICK o : o = saves[t]
  OBVIOUS
<1> PICK s : s = [o EXCEPT !.at = "written", !.op = op, !.id = i, !.result = row]
  OBVIOUS
<1>1. o \in SaveRows /\ GoodSave(t, o) /\ o.at = "loaded"
  BY TabFacts
<1>2. ~o.answered /\ o # NoSave /\ (~o.early => LoadEnded(t)) /\ \A j \in Ids : ~Awaited(o, j)
  BY <1>1, EmptySave DEF GoodSave, SaveStage, ShowsAsStored, Awaited
<1>3. /\ s.at = "written" /\ s.op = op /\ s.id = i /\ s.result = row /\ s.form = o.form
      /\ s.loaded = o.loaded /\ s.answered = o.answered /\ s.early = o.early
      /\ s \in SaveRows
  BY <1>1 DEF SaveRows
<1>4. SaveStage(s)
  BY <1>2, <1>3 DEF SaveStage
<1>5. Holds(s) => WritesAsAsked(s)
  BY <1>3 DEF Holds, WritesAsAsked
<1>6. Holds(s) => HoldsKeyAlone(t, s)
  BY <1>3 DEF Holds, HoldsKeyAlone
<1>7. AnswersAsStored(t, s)
  BY <1>2, <1>3 DEF AnswersAsStored, AnswerRow, Stored
<1>8. /\ SaveIs(t, s) /\ saved' \in 0..MaxSaves
      /\ UNCHANGED <<kind, rows, tabs, saveFaults, lastForm, mixed, behind>>
  BY TabFacts DEF WritesRow, savesHistory
<1> QED
  BY <1>2, <1>3, <1>4, <1>5, <1>6, <1>7, <1>8, SaveMoves

\* Whoever has to wait does not write over another's row or key.
LEMMA NobodyWaitedFor ==
  ASSUME CatalogueIInv, NEW t \in Tabs, NEW i, NEW row, NEW unique, ~MustWait(t, i, row, unique)
  PROVE  \A u \in Tabs \ {t} :
           Holds(saves[u]) => saves[u].id # i /\ (unique => saves[u].result.key # row.key)
<1> SUFFICES ASSUME NEW u \in Tabs \ {t}, Holds(saves[u])
             PROVE  saves[u].id # i /\ (unique => saves[u].result.key # row.key)
  OBVIOUS
<1>1. saves[u] \in Uncommitted(t)
  BY DEF Uncommitted, Holds
<1> QED
  BY <1>1 DEF MustWait

LEMMA InsertKeeps ==
  ASSUME CatalogueIInv, NEW t \in Tabs, NEW unique \in BOOLEAN, unique <=> UniqueKeys,
         Insert(t, unique)
  PROVE  CatalogueIInv'
<1> DEFINE o == saves[t]
           new == {j \in Ids : /\ rows[j] = NoRow /\ lastForm[j] = NoRow
                               /\ \A other \in Uncommitted(t) : other.id # j}
           first == CHOOSE j \in new : \A k \in new : j <= k
<1>1. /\ o.at = "loaded" /\ o.op = "create" /\ new # {} /\ o \in SaveRows /\ GoodSave(t, o)
      /\ UNCHANGED <<kind, rows, tabs, saved, saveFaults, savesHistory>>
      /\ ~MustWait(t, first, o.form, unique)
      /\ IF unique /\ KeyTaken(first, o.form) THEN Refused(t)
         ELSE WritesRow(t, first, "create", o.form)
  BY TabFacts DEF Insert, Loaded
<1>2. first \in Ids
  <2>1. new \subseteq Nat /\ new \subseteq Ids
    BY RowFacts
  <2>2. new # {}
    BY <1>1
  <2> HIDE DEF new
  <2>3. PICK j \in new : \A k \in new : ~(<<k, j>> \in OpToRel(<, Nat))
    BY <2>1, <2>2, NatLessThanWellFounded, WFMin
  <2>4. \A k \in new : j <= k
    <3> SUFFICES ASSUME NEW k \in new
                 PROVE  j <= k
      OBVIOUS
    <3>1. j \in Nat /\ k \in Nat
      BY <2>1
    <3>2. ~(k < j)
      BY <2>3, <3>1 DEF OpToRel
    <3> QED
      BY <3>1, <3>2
  <2> QED
    BY <2>1, <2>3, <2>4
<1> PICK i \in Ids : i = first
  BY <1>2
<1>3. CASE unique /\ KeyTaken(i, o.form)
  BY <1>1, <1>3, RefusedKeeps
<1>4. CASE ~(unique /\ KeyTaken(i, o.form))
  <2>1. WritesRow(t, i, "create", o.form) /\ o.form \in Row
    BY <1>1, <1>4 DEF GoodSave, SaveStage
  <2>2. \A u \in Tabs \ {t} :
          Holds(saves[u]) => saves[u].id # i /\ (unique => saves[u].result.key # o.form.key)
    <3>1. ~MustWait(t, i, o.form, unique)
      BY <1>1
    <3> HIDE DEF o, first, new
    <3> QED
      BY <3>1, NobodyWaitedFor
  <2>3. UniqueKeys => \A j \in Ids \ {i} : rows[j] # NoRow => rows[j].key # o.form.key
    BY <1>4 DEF KeyTaken
  <2> HIDE DEF first, new
  <2> QED
    BY <1>1, <2>1, <2>2, <2>3, WriteKeeps
<1> HIDE DEF first
<1> QED
  BY <1>3, <1>4

LEMMA UpdateKeeps ==
  ASSUME CatalogueIInv, NEW t \in Tabs, NEW unique \in BOOLEAN, unique <=> UniqueKeys,
         Update(t, unique)
  PROVE  CatalogueIInv'
<1> DEFINE o == saves[t]
<1> PICK same \in BOOLEAN : same <=> o.form = o.loaded
  OBVIOUS
<1> PICK row : row = Merged(o.loaded, o.form, rows[o.id])
  OBVIOUS
<1>1. /\ o.at = "loaded" /\ o.op \in {"update", "upsert"}
      /\ o \in SaveRows /\ GoodSave(t, o) /\ rows \in [Ids -> Row \union {NoRow}]
      /\ UNCHANGED <<kind, rows, tabs, saved, saveFaults, savesHistory>>
      /\ same \/ ~MustWait(t, o.id, row, unique)
  BY TabFacts DEF Update, Loaded
<1>2. o.form \in Row /\ o.loaded \in Row /\ o.id \in Ids
  BY <1>1 DEF GoodSave, SaveStage
<1>3. ASSUME Refused(t)
      PROVE  CatalogueIInv'
  BY <1>1, <1>3, RefusedKeeps
<1>4. ASSUME rows[o.id] # NoRow, ~(unique /\ KeyTaken(o.id, row)),
             WritesRow(t, o.id, IF same THEN "none" ELSE o.op, row)
      PROVE  CatalogueIInv'
  <2>1. rows[o.id] \in Row
    BY <1>1, <1>2, <1>4
  <2>2. row \in Row
    BY <1>2, <2>1, MergedRow
  <2>3. CASE same
    <3>1. WritesRow(t, o.id, "none", row)
      BY <1>4, <2>3
    <3>2. ~o.early /\ <<t, o.id>> \notin behind => row = rows[o.id] /\ o.form = rows[o.id]
      BY <1>1, <1>2, <2>1, <2>3, MergedRow DEF GoodSave, AnswersAsStored
    <3> QED
      BY <1>1, <1>2, <2>2, <3>1, <3>2, WriteKeeps
  <2>4. CASE ~same
    <3>1. WritesRow(t, o.id, o.op, row)
      BY <1>4, <2>4
    <3>2. \A u \in Tabs \ {t} :
            Holds(saves[u]) => saves[u].id # o.id /\ (unique => saves[u].result.key # row.key)
      BY <1>1, <2>4, NobodyWaitedFor
    <3>3. UniqueKeys => \A j \in Ids \ {o.id} : rows[j] # NoRow => rows[j].key # row.key
      BY <1>4 DEF KeyTaken
    <3> QED
      BY <1>1, <1>2, <2>1, <2>2, <3>1, <3>2, <3>3, WriteKeeps
  <2> QED
    BY <2>3, <2>4
<1> QED
  BY <1>3, <1>4 DEF Update

LEMMA DeleteKeeps ==
  ASSUME CatalogueIInv, NEW t \in Tabs, Delete(t)
  PROVE  CatalogueIInv'
<1> DEFINE o == saves[t]
<1>1. /\ o.at = "loaded" /\ o.op = "delete"
      /\ o \in SaveRows /\ GoodSave(t, o)
      /\ UNCHANGED <<kind, rows, tabs, saved, saveFaults, savesHistory>>
      /\ ~MustWait(t, o.id, NoRow, FALSE) /\ WritesRow(t, o.id, "delete", NoRow)
  BY TabFacts DEF Delete, Loaded
<1>2. o.id \in Ids /\ o.form = NoRow
  BY <1>1 DEF GoodSave, SaveStage
<1>3. \A u \in Tabs \ {t} : Holds(saves[u]) => saves[u].id # o.id
  BY <1>1, NobodyWaitedFor
<1> QED
  BY <1>1, <1>2, <1>3, WriteKeeps

-----------------------------------------------------------------------------
(* The answer, and the commit.                                             *)

LEMMA SaveAnsweredKeeps ==
  ASSUME CatalogueIInv, NEW t \in Tabs, SaveAnswered(t)
  PROVE  CatalogueIInv'
<1> PICK o : o = saves[t]
  OBVIOUS
<1> PICK s : s = IF o.at = "done" THEN NoSave ELSE [o EXCEPT !.answered = TRUE]
  OBVIOUS
<1>1. /\ o.at \in {"written", "done"} /\ ~o.answered /\ o \in SaveRows /\ GoodSave(t, o)
      /\ tabs \in [Tabs -> TabRows] /\ tabs[t] \in TabRows
      /\ tabs[t].shown \in [Ids -> Row \union {NoRow}]
      /\ tabs' = [tabs EXCEPT ![t].shown[o.id] = AnswerRow(o)]
      /\ saves' = [saves EXCEPT ![t] = s] /\ behind' = behind \union Overlapped(t)
      /\ kind' = kind /\ rows' = rows /\ saved' = saved /\ saveFaults' = saveFaults
      /\ lastForm' = lastForm /\ mixed' = mixed
      /\ saved' \in 0..MaxSaves /\ saveFaults' \in 0..MaxSaveFaults
  BY TabFacts DEF SaveAnswered, SaveIs, AnswerRow
<1>2. o.id \in Ids /\ AnswerRow(o) \in Row \union {NoRow} /\ o # NoSave
  BY <1>1, EmptySave DEF GoodSave, SaveStage, AnswerRow, SaveRows
<1>3. /\ o.at = "done" => s = NoSave
      /\ o.at = "written" =>
           /\ s.at = "written" /\ s.op = o.op /\ s.id = o.id /\ s.result = o.result
           /\ s.form = o.form /\ s.loaded = o.loaded /\ s.answered /\ s.early = o.early
           /\ s \in SaveRows
  BY <1>1 DEF SaveRows
<1>4. s \in SaveRows
  BY <1>1, <1>3, EmptySave
<1> PICK tab : tab = tabs'[t]
  OBVIOUS
<1>5. /\ tab \in TabRows /\ tab.load = tabs[t].load /\ tab.read = tabs[t].read
      /\ tab.shown[o.id] = AnswerRow(o)
      /\ \A i \in Ids : i # o.id => tab.shown[i] = tabs[t].shown[i]
  <2> PICK shown : shown = [tabs[t].shown EXCEPT ![o.id] = AnswerRow(o)]
    OBVIOUS
  <2>1. tabs[t] \in TabRows
    BY TabFacts
  <2>2. shown \in [Ids -> Row \union {NoRow}]
    BY <1>2, <2>1 DEF TabRows
  <2>3. /\ shown[o.id] = AnswerRow(o)
        /\ \A i \in Ids : i # o.id => shown[i] = tabs[t].shown[i]
    BY <1>2, <2>1 DEF TabRows
  <2>4. tab = [tabs[t] EXCEPT !.shown = shown]
    BY <1>1, <2>1 DEF TabRows
  <2> QED
    BY <2>1, <2>2, <2>3, <2>4 DEF TabRows
<1>6. tabs' \in [Tabs -> TabRows] /\ \A u \in Tabs \ {t} : tabs'[u] = tabs[u]
  <2>1. tabs' = [tabs EXCEPT ![t] = tab]
    BY <1>1
  <2> QED
    BY <2>1, <1>1, <1>5
<1>7. SaveStage(s)
  BY <1>1, <1>3, EmptySave DEF GoodSave, SaveStage
<1>8. Holds(s) => WritesAsAsked(s) /\ HoldsKeyAlone(t, s)
  BY <1>1, <1>3, EmptySave DEF GoodSave, Holds, WritesAsAsked, HoldsKeyAlone
<1>9. o.early => <<t, o.id>> \in behind'
  BY <1>1 DEF Overlapped
<1>10. AnswersAsStored(t, s)'
  <2>1. CASE o.at = "done"
    BY <1>3, <2>1, EmptySave DEF AnswersAsStored
  <2>2. CASE o.at = "written"
    <3>1. AnswerRow(s)' = AnswerRow(o)
      BY <1>1, <1>3, <2>2 DEF AnswerRow
    <3>2. ~o.early /\ <<t, o.id>> \notin behind /\ o.op = "none" => Stored(AnswerRow(o), o.id)
      BY <1>1, <2>2 DEF GoodSave, AnswersAsStored
    <3> QED
      BY <1>1, <1>3, <1>5, <2>2, <3>1, <3>2 DEF AnswersAsStored, Stored
  <2> QED
    BY <1>1, <2>1, <2>2
<1>11. ShowsAsStored(t, s)'
  <2>1. tabs'[t].load = "read" =>
          \A i \in Ids : <<t, i>> \notin behind' => tabs'[t].read[i] = rows'[i]
    BY <1>1, <1>5 DEF GoodSave, ShowsAsStored
  <2>2. ASSUME tabs'[t].load = "done", NEW i \in Ids, <<t, i>> \notin behind', ~Awaited(s, i)
        PROVE  Stored(tabs[t].shown[i], i)'
    <3>1. CASE i # o.id
      <4>1. ~Awaited(o, i)
        BY <3>1 DEF Awaited
      <4>2. Stored(tabs[t].shown[i], i)
        BY <1>1, <1>5, <2>2, <4>1 DEF GoodSave, ShowsAsStored
      <4> QED
        BY <1>1, <1>5, <3>1, <4>2 DEF Stored
    <3>2. CASE i = o.id
      <4>1. ~o.early /\ <<t, i>> \notin behind
        BY <1>1, <1>9, <2>2, <3>2
      <4>2. o.at = "done" \/ o.op = "none"
        BY <1>1, <1>3, <2>2, <3>2 DEF Awaited
      <4>3. Stored(AnswerRow(o), i)
        BY <1>1, <3>2, <4>1, <4>2 DEF GoodSave, AnswersAsStored
      <4> QED
        BY <1>1, <1>5, <3>2, <4>3 DEF Stored
    <3> QED
      BY <3>1, <3>2
  <2>3. s # NoSave /\ ~s.early => LoadEnded(t)'
    BY <1>1, <1>2, <1>3, <1>5 DEF GoodSave, ShowsAsStored, LoadEnded
  <2> QED
    BY <2>1, <2>2, <2>3 DEF ShowsAsStored, Awaited
<1>12. \A u \in Tabs \ {t}, i \in Ids \union {0} :
         <<u, i>> \notin behind' => <<u, i>> \notin behind
  BY <1>1
<1> QED
  BY <1>1, <1>4, <1>6, <1>7, <1>8, <1>10, <1>11, <1>12, TabMoves

LEMMA SaveFailsKeeps ==
  ASSUME CatalogueIInv, NEW t \in Tabs, SaveFails(t)
  PROVE  CatalogueIInv'
<1> PICK o : o = saves[t]
  OBVIOUS
<1>1. /\ o \in SaveRows /\ GoodSave(t, o) /\ tabs \in [Tabs -> TabRows]
      /\ saves' = [saves EXCEPT ![t] = NoSave]
      /\ behind' = behind \union {<<t, o.id>>}
      /\ kind' = kind /\ rows' = rows /\ tabs' = tabs /\ saved' = saved
      /\ lastForm' = lastForm /\ mixed' = mixed
      /\ saved' \in 0..MaxSaves /\ saveFaults' \in 0..MaxSaveFaults
  BY TabFacts, FaultKeeps DEF SaveFails, Refused, SaveIs
<1>2. AnswersAsStored(t, NoSave)'
  BY EmptySave DEF AnswersAsStored
<1>3. ShowsAsStored(t, NoSave)'
  <2>1. \A i \in Ids : <<t, i>> \notin behind' => <<t, i>> \notin behind /\ ~Awaited(o, i)
    BY <1>1 DEF Awaited
  <2> QED
    BY <1>1, <2>1 DEF GoodSave, ShowsAsStored, Stored
<1>4. \A u \in Tabs \ {t}, i \in Ids \union {0} :
        <<u, i>> \notin behind' => <<u, i>> \notin behind
  BY <1>1
<1> QED
  BY <1>1, <1>2, <1>3, <1>4, EmptySave, TabMoves

LEMMA CommitSaveKeeps ==
  ASSUME CatalogueIInv, NEW t \in Tabs, CommitSave(t)
  PROVE  CatalogueIInv'
<1> PICK o : o = saves[t]
  OBVIOUS
<1> PICK s : s = IF o.answered THEN NoSave ELSE [o EXCEPT !.at = "done"]
  OBVIOUS
<1>1. /\ o.at = "written" /\ o \in SaveRows /\ GoodSave(t, o)
      /\ saves \in [Tabs -> SaveRows] /\ tabs \in [Tabs -> TabRows]
      /\ rows \in [Ids -> Row \union {NoRow}]
      /\ lastForm \in [Ids -> Row \union {NoRow}]
      /\ saves' = [saves EXCEPT ![t] = s]
      /\ kind' = kind /\ tabs' = tabs /\ saved' = saved /\ saveFaults' = saveFaults
      /\ saved \in 0..MaxSaves /\ saveFaults \in 0..MaxSaveFaults
  BY TabFacts DEF CommitSave, SaveIs, CatalogueIInv, CatalogueShape
<1>2. o.id \in Ids /\ o # NoSave
  BY <1>1, EmptySave DEF GoodSave, SaveStage
<1>3. /\ o.answered => s = NoSave
      /\ ~o.answered =>
           /\ s.at = "done" /\ s.op = o.op /\ s.id = o.id /\ s.result = o.result
           /\ s.form = o.form /\ s.loaded = o.loaded /\ ~s.answered /\ s.early = o.early
           /\ s \in SaveRows
  BY <1>1 DEF SaveRows
<1>4. s \in SaveRows /\ SaveStage(s) /\ ~Holds(s)
  <2>1. CASE o.answered
    BY <1>3, <2>1, EmptySave
  <2>2. CASE ~o.answered
    BY <1>1, <1>3, <2>2 DEF GoodSave, SaveStage, Holds
  <2> QED
    BY <2>1, <2>2
<1>5. s # NoSave => s.at = "done" /\ s.id = o.id /\ s.early = o.early /\ ~o.answered
                      /\ s.form = o.form /\ s.result = o.result
  BY <1>3
<1>6. CASE o.op = "none" /\ UNCHANGED <<rows, savesHistory>>
  <2>1. rows' = rows /\ lastForm' = lastForm /\ mixed' = mixed /\ behind' = behind
    BY <1>6 DEF savesHistory
  <2>2. ~Awaited(o, o.id) /\ \A i \in Ids : ~Awaited(o, i)
    BY <1>1, <1>6 DEF Awaited
  <2>3. AnswersAsStored(t, s)
    <3>1. CASE s = NoSave
      BY <3>1, EmptySave DEF AnswersAsStored
    <3>2. CASE s # NoSave
      BY <1>1, <1>5, <1>6, <3>2 DEF GoodSave, AnswersAsStored, AnswerRow
    <3> QED
      BY <3>1, <3>2
  <2>4. UNCHANGED <<kind, rows, tabs, saveFaults, lastForm, mixed, behind>> /\ SaveIs(t, s)
    BY <1>1, <2>1 DEF SaveIs
  <2>5. ~s.early /\ s # NoSave => LoadEnded(t)
    BY <1>1, <1>2, <1>5 DEF GoodSave, ShowsAsStored
  <2> QED
    BY <1>1, <1>4, <2>2, <2>3, <2>4, <2>5, SaveMoves
<1>7. CASE o.op # "none"
  <2> DEFINE id == o.id
             others == {<<u, id>> : u \in Tabs \ {t}}
  <2>1. /\ rows' = [rows EXCEPT ![id] = o.result]
        /\ lastForm' = IF o.op = "delete" THEN lastForm ELSE [lastForm EXCEPT ![id] = o.form]
        /\ mixed' = IF o.op = "create" \/ rows[id] = o.loaded
                    THEN mixed \ {id} ELSE mixed \union {id}
        /\ behind' = (behind \ {<<t, id>>}) \union others \union Overlapped(t)
    BY <1>7 DEF CommitSave
  <2>2. Holds(o) /\ WritesAsAsked(o) /\ HoldsKeyAlone(t, o)
    BY <1>1, <1>7 DEF Holds, GoodSave
  <2>3. o.result \in Row \union {NoRow} /\ o.form \in Row \union {NoRow}
    BY <1>1 DEF SaveRows
  <2>4. /\ rows' \in [Ids -> Row \union {NoRow}] /\ rows'[id] = o.result
        /\ \A i \in Ids \ {id} : rows'[i] = rows[i]
    BY <1>1, <1>2, <2>1, <2>3
  <2>5. /\ lastForm' \in [Ids -> Row \union {NoRow}]
        /\ \A i \in Ids \ {id} : lastForm'[i] = lastForm[i]
        /\ o.op # "delete" => lastForm'[id] = o.form
    BY <1>1, <1>2, <2>1, <2>3
  <2>6. \A i \in Ids \ {id} : i \in mixed' <=> i \in mixed
    BY <2>1
  <2>7. /\ \A u \in Tabs \ {t} : <<u, id>> \in behind'
        /\ \A u \in Tabs, i \in Ids \union {0} :
             i # id /\ <<u, i>> \notin behind' => <<u, i>> \notin behind
        /\ o.early => <<t, id>> \in behind'
    BY <2>1 DEF Overlapped
  <2>8. saves' \in [Tabs -> SaveRows] /\ saves'[t] = s
          /\ \A u \in Tabs \ {t} : saves'[u] = saves[u]
    BY <1>1, <1>4
  <2>9. o.op # "delete" => o.form \in Row /\ (o.result = o.form \/ id \in mixed')
    <3>1. o.op \in {"create", "update", "upsert", "delete"}
      BY <1>1, <1>7 DEF SaveRows
    <3>2. CASE o.op = "create"
      BY <1>1, <2>2, <3>2 DEF WritesAsAsked, GoodSave, SaveStage
    <3>3. CASE o.op \in {"update", "upsert"}
      <4>1. /\ rows[id] \in Row /\ o.form \in Row
            /\ o.result = Merged(o.loaded, o.form, rows[id])
        BY <1>1, <2>2, <3>3 DEF WritesAsAsked, GoodSave, SaveStage
      <4>2. CASE rows[id] = o.loaded
        BY <4>1, <4>2, MergedRow
      <4>3. CASE rows[id] # o.loaded
        BY <2>1, <3>3, <4>1, <4>3
      <4> QED
        BY <4>2, <4>3
    <3> QED
      BY <3>1, <3>2, <3>3
  <2>10. o.op = "delete" => o.result = NoRow /\ o.form = NoRow
    BY <1>1, <2>2 DEF WritesAsAsked, GoodSave, SaveStage
  <2> HIDE DEF id, others
  <2>11. CatalogueShape'
    BY <1>1, <2>4, <2>5, <2>8 DEF CatalogueIInv, CatalogueShape
  <2>12. KeysDiffer'
    <3> SUFFICES ASSUME UniqueKeys, NEW i \in Ids, NEW j \in Ids, i # j, rows'[i] # NoRow
                 PROVE  rows'[i].key # rows'[j].key
      BY <1>1 DEF KeysDiffer, UniqueKeys
    <3>1. CASE i # id /\ j # id
      BY <2>4, <3>1 DEF CatalogueIInv, KeysDiffer, UniqueKeys
    <3>2. CASE i = id
      <4>1. rows'[i] = o.result /\ o.result \in Row /\ rows'[j] = rows[j]
        BY <2>3, <2>4, <3>2
      <4>2. CASE rows[j] # NoRow
        BY <2>2, <3>2, <4>1, <4>2 DEF HoldsKeyAlone, id
      <4>3. CASE rows[j] = NoRow
        BY <4>1, <4>3, RowFacts
      <4> QED
        BY <4>2, <4>3
    <3>3. CASE j = id
      <4>1. rows'[j] = o.result /\ rows'[i] = rows[i] /\ rows[i] \in Row
        BY <1>1, <2>4, <3>3
      <4>2. CASE o.result # NoRow
        BY <2>2, <3>3, <4>1, <4>2, RowFacts DEF HoldsKeyAlone, id
      <4>3. CASE o.result = NoRow
        BY <4>1, <4>3, RowFacts
      <4> QED
        BY <4>2, <4>3
    <3> QED
      BY <3>1, <3>2, <3>3
  <2>13. StoredAsSaid'
    <3> SUFFICES ASSUME NEW i \in Ids, rows'[i] # NoRow, i \notin mixed'
                 PROVE  rows'[i] = lastForm'[i]
      BY DEF StoredAsSaid
    <3>1. CASE i = id
      BY <2>4, <2>5, <2>9, <2>10, <3>1
    <3>2. CASE i # id
      BY <2>4, <2>5, <2>6, <3>2 DEF CatalogueIInv, StoredAsSaid
    <3> QED
      BY <3>1, <3>2
  <2>14. ASSUME NEW u \in Tabs, u # t, NEW c, c = saves[u]
         PROVE  GoodSave(u, c)'
    <3>1. GoodSave(u, c) /\ c \in SaveRows /\ saves'[u] = c /\ c.id \in Ids \union {0}
      BY <1>1, <2>8, <2>14 DEF CatalogueIInv, SaveRows
    <3>2. SaveStage(c)'
      BY <3>1 DEF GoodSave, SaveStage
    <3>3. ASSUME Holds(c)
          PROVE  WritesAsAsked(c)' /\ HoldsKeyAlone(u, c)'
      <4>1. /\ c.id # id /\ WritesAsAsked(c) /\ HoldsKeyAlone(u, c)
            /\ UniqueKeys /\ o.result # NoRow => c.result.key # o.result.key
            /\ c.id \in Ids
        BY <2>2, <2>14, <3>1, <3>3 DEF GoodSave, HoldsKeyAlone, id, SaveStage, Holds
      <4>2. rows'[c.id] = rows[c.id]
        BY <2>4, <4>1
      <4>3. WritesAsAsked(c)'
        BY <4>1, <4>2 DEF WritesAsAsked
      <4>4. ASSUME NEW v \in Tabs \ {u}, Holds(saves'[v])
            PROVE  /\ saves'[v].id # c.id
                   /\ UniqueKeys /\ c.result # NoRow => saves'[v].result.key # c.result.key
        <5>1. v # t
          BY <1>4, <2>8, <4>4
        <5> QED
          BY <2>8, <4>1, <4>4, <5>1 DEF HoldsKeyAlone
      <4>5. ASSUME UniqueKeys, c.result # NoRow, NEW j \in Ids \ {c.id}, rows'[j] # NoRow
            PROVE  rows'[j].key # c.result.key
        <5>1. CASE j = id
          BY <2>4, <4>1, <4>5, <5>1
        <5>2. CASE j # id
          BY <2>4, <4>1, <4>5, <5>2 DEF HoldsKeyAlone
        <5> QED
          BY <5>1, <5>2
      <4> QED
        BY <1>1, <4>3, <4>4, <4>5 DEF HoldsKeyAlone, UniqueKeys, Holds
    <3>4. AnswersAsStored(u, c)'
      <4>1. CASE c.id = id
        BY <1>1, <2>7, <2>14, <3>1, <4>1 DEF GoodSave, AnswersAsStored, AnswerRow
      <4>2. CASE c.id # id
        <5>1. <<u, c.id>> \notin behind' => <<u, c.id>> \notin behind
          BY <2>7, <3>1, <4>2
        <5>2. c.at \in {"loaded", "written", "done"} /\ c.op # "create" => c.id \in Ids
          BY <3>1 DEF GoodSave, SaveStage
        <5>3. c.at \in {"written", "done"} => c.id \in Ids
          BY <3>1 DEF GoodSave, SaveStage
        <5>4. c.id \in Ids => rows'[c.id] = rows[c.id] /\ (c.id \in mixed' <=> c.id \in mixed)
          BY <2>4, <2>6, <4>2
        <5> QED
          BY <1>1, <3>1, <5>1, <5>2, <5>3, <5>4 DEF GoodSave, AnswersAsStored, AnswerRow, Stored
      <4> QED
        BY <4>1, <4>2
    <3>5. ShowsAsStored(u, c)'
      <4>1. ASSUME NEW i \in Ids, <<u, i>> \notin behind'
            PROVE  /\ <<u, i>> \notin behind /\ rows'[i] = rows[i]
                   /\ (i \in mixed' <=> i \in mixed)
        <5>1. i # id
          BY <2>7, <2>14, <4>1
        <5> QED
          BY <2>4, <2>6, <2>7, <4>1, <5>1
      <4> QED
        BY <1>1, <3>1, <4>1 DEF GoodSave, ShowsAsStored, Stored, Awaited, LoadEnded
    <3> QED
      BY <3>2, <3>3, <3>4, <3>5 DEF GoodSave, Holds
  <2>15. Stored(AnswerRow(o), id)'
    <3>1. CASE o.op = "delete"
      BY <2>4, <2>10, <3>1 DEF Stored, AnswerRow
    <3>2. CASE o.op # "delete"
      BY <1>1, <2>4, <2>9, <3>2 DEF Stored, AnswerRow
    <3> QED
      BY <3>1, <3>2
  <2>16. GoodSave(t, s)'
    <3>1. SaveStage(s)' /\ ~Holds(s)'
      BY <1>4 DEF SaveStage, Holds
    <3>2. AnswersAsStored(t, s)'
      <4>1. CASE s = NoSave
        BY <4>1, EmptySave DEF AnswersAsStored
      <4>2. CASE s # NoSave
        BY <1>1, <1>5, <2>15, <4>2 DEF AnswersAsStored, AnswerRow, Stored, id
      <4> QED
        BY <4>1, <4>2
    <3>3. tabs'[t].load = "read" =>
            \A i \in Ids : <<t, i>> \notin behind' => tabs'[t].read[i] = rows'[i]
      <4> SUFFICES ASSUME tabs[t].load = "read", NEW i \in Ids, <<t, i>> \notin behind'
                   PROVE  tabs[t].read[i] = rows'[i]
        BY <1>1
      <4>1. o.early
        BY <1>2, LoadingTab DEF LoadEnded
      <4>2. i # id
        BY <2>7, <4>1
      <4>3. <<t, i>> \notin behind /\ rows'[i] = rows[i]
        BY <2>4, <2>7, <4>2
      <4> QED
        BY <1>1, <4>3 DEF GoodSave, ShowsAsStored
    <3>4. ASSUME tabs'[t].load = "done", NEW i \in Ids, <<t, i>> \notin behind', ~Awaited(s, i)
          PROVE  Stored(tabs[t].shown[i], i)'
      <4>1. CASE i # id
        <5>1. ~Awaited(o, i) /\ <<t, i>> \notin behind
          BY <2>7, <3>4, <4>1 DEF Awaited, id
        <5>2. Stored(tabs[t].shown[i], i)
          BY <1>1, <3>4, <5>1 DEF GoodSave, ShowsAsStored
        <5> QED
          BY <1>1, <2>4, <2>6, <4>1, <5>2 DEF Stored
      <4>2. CASE i = id
        <5>1. s = NoSave /\ o.answered /\ ~o.early
          BY <1>3, <1>5, <2>7, <3>4, <4>2 DEF Awaited, id
        <5>2. tabs[t].shown[id] = AnswerRow(o)
          BY <1>1, <1>7, <5>1 DEF GoodSave, AnswersAsStored, id
        <5> QED
          BY <1>1, <2>15, <4>2, <5>2 DEF Stored, AnswerRow
      <4> QED
        BY <4>1, <4>2
    <3>5. s # NoSave /\ ~s.early => LoadEnded(t)'
      BY <1>1, <1>2, <1>5 DEF GoodSave, ShowsAsStored, LoadEnded
    <3>6. ShowsAsStored(t, s)'
      BY <3>3, <3>4, <3>5 DEF ShowsAsStored, Awaited
    <3> QED
      BY <3>1, <3>2, <3>6 DEF GoodSave
  <2>17. ASSUME NEW u \in Tabs
         PROVE  GoodSave(u, saves[u])'
    <3> PICK c : c = saves'[u]
      OBVIOUS
    <3>1. GoodSave(u, c)'
      BY <2>8, <2>14, <2>16, <2>17
    <3> QED
      BY <3>1 DEF GoodSave, SaveStage, Holds, WritesAsAsked, HoldsKeyAlone, AnswersAsStored,
                  ShowsAsStored, AnswerRow, Stored, Awaited
  <2> QED
    BY <2>11, <2>12, <2>13, <2>17 DEF CatalogueIInv
<1> QED
  BY <1>6, <1>7 DEF CommitSave

-----------------------------------------------------------------------------
(* The catalogue.                                                          *)

LEMMA CatalogueStep ==
  CatalogueIInv /\ [CatalogueNext]_catalogueVars => CatalogueIInv'
<1> SUFFICES ASSUME CatalogueIInv, [CatalogueNext]_catalogueVars
             PROVE  CatalogueIInv'
  OBVIOUS
<1>1. CASE UNCHANGED catalogueVars
  <2>1. /\ kind' = kind /\ rows' = rows /\ tabs' = tabs /\ saves' = saves /\ saved' = saved
        /\ saveFaults' = saveFaults /\ lastForm' = lastForm /\ mixed' = mixed
        /\ behind' = behind
    BY <1>1 DEF catalogueVars
  <2>2. CatalogueShape' /\ KeysDiffer' /\ StoredAsSaid'
    BY <2>1 DEF CatalogueIInv, CatalogueShape, KeysDiffer, StoredAsSaid
  <2>3. ASSUME NEW t \in Tabs
        PROVE  GoodSave(t, saves[t])'
    <3>1. GoodSave(t, saves[t])
      BY <2>3 DEF CatalogueIInv
    <3> QED
      BY <2>1, <3>1 DEF GoodSave, SaveStage, Holds, WritesAsAsked, HoldsKeyAlone, UniqueKeys,
                        AnswersAsStored, ShowsAsStored, AnswerRow, Stored, Awaited, LoadEnded
  <2> QED
    BY <2>2, <2>3 DEF CatalogueIInv
<1>2. ASSUME NEW t \in Tabs, ReadRows(t) \/ ShowRows(t) \/ LoadRowsFails(t)
      PROVE  CatalogueIInv'
  BY <1>2, ReadRowsKeeps, ShowRowsKeeps, LoadRowsFailsKeeps
<1>3. ASSUME NEW t \in Tabs, SendNew(t) \/ SendEdit(t) \/ SendRemoval(t) \/ SendWhole(t)
      PROVE  CatalogueIInv'
  BY <1>3, SendNewKeeps, SendEditKeeps, SendRemovalKeeps, SendWholeKeeps
<1>4. ASSUME NEW t \in Tabs,
             \/ ServicesTab(t) \/ KeywordsTab(t) \/ FaqsTab(t) \/ AreasTab(t)
             \/ HoursTab(t) \/ ProfileTab(t)
      PROVE  CatalogueIInv'
  BY <1>3, <1>4 DEF ServicesTab, KeywordsTab, FaqsTab, AreasTab, HoursTab, ProfileTab
<1>5. ASSUME NEW t \in Tabs, UniqueKeys, Insert(t, TRUE) \/ Update(t, TRUE) \/ Delete(t)
      PROVE  CatalogueIInv'
  BY <1>5, InsertKeeps, UpdateKeeps, DeleteKeeps
<1>6. ASSUME NEW t \in Tabs, ~UniqueKeys, Insert(t, FALSE) \/ Update(t, FALSE) \/ Delete(t)
      PROVE  CatalogueIInv'
  BY <1>6, InsertKeeps, UpdateKeeps, DeleteKeeps
<1>7. ASSUME NEW t \in Tabs,
             \/ ServicesTable(t) \/ KeywordsTable(t) \/ ExceptionsTable(t)
             \/ HoursTable(t) \/ ProfileTable(t)
      PROVE  CatalogueIInv'
  BY <1>5, <1>7 DEF ServicesTable, KeywordsTable, ExceptionsTable, HoursTable, ProfileTable,
                    UniqueKeys
<1>8. ASSUME NEW t \in Tabs, FaqsTable(t) \/ AreasTable(t)
      PROVE  CatalogueIInv'
  BY <1>6, <1>8 DEF FaqsTable, AreasTable, UniqueKeys
<1>9. ASSUME NEW t \in Tabs, LoadRow(t) \/ SaveAnswered(t) \/ CommitSave(t) \/ SaveFails(t)
      PROVE  CatalogueIInv'
  BY <1>9, LoadRowKeeps, SaveAnsweredKeeps, CommitSaveKeeps, SaveFailsKeeps
<1> QED
  BY <1>1, <1>2, <1>4, <1>7, <1>8, <1>9 DEF CatalogueNext

LEMMA GoodCatalogueIsSafe ==
  CatalogueIInv => CatalogueInv
<1> SUFFICES ASSUME CatalogueIInv
             PROVE  CatalogueInv
  OBVIOUS
<1>1. CatalogueTypeOK
  BY DEF CatalogueTypeOK, CatalogueIInv, CatalogueShape, TabRows, SaveRows
<1>2. ShownAsStored
  <2> SUFFICES ASSUME NEW t \in Tabs, NEW i \in Ids, tabs[t].load = "done",
                      saves[t] = NoSave, <<t, i>> \notin behind
               PROVE  tabs[t].shown[i] = rows[i] \/ (kind = "profile" /\ i \in mixed)
    BY DEF ShownAsStored
  <2>1. ~Awaited(saves[t], i)
    BY EmptySave
  <2> QED
    BY <2>1 DEF CatalogueIInv, GoodSave, ShowsAsStored, Stored
<1> QED
  BY <1>1, <1>2 DEF CatalogueInv, CatalogueIInv

\* Every reachable state of the rows and the tabs satisfies CatalogueIInv.
THEOREM CatalogueInductive == CatalogueSpec => []CatalogueIInv
<1>1. CatalogueInit => CatalogueIInv
  BY CatalogueStart
<1>2. CatalogueIInv /\ [CatalogueNext]_catalogueVars => CatalogueIInv'
  BY CatalogueStep
<1> QED
  BY <1>1, <1>2, PTL DEF CatalogueSpec

\* However the changes of tabs cross: what is stored is told apart by its key, is what
\* one form said as a whole unless it was sent past another, and is what a tab shows
\* that waits for nothing (the settings repositories, useOrganizationSettings).
THEOREM CatalogueIsAsSaid == CatalogueSpec => []CatalogueInv
<1>1. CatalogueIInv => CatalogueInv
  BY GoodCatalogueIsSafe
<1> QED
  BY <1>1, CatalogueInductive, PTL

-----------------------------------------------------------------------------
(* The dashboard's conversation page.                                      *)

Messages == [by : {"pending", "customer", "assistant", "gone"}, n : Nat]
LoadRows ==
  [number : Nat, of : Nat, at : {"asked", "read", "call"}, messages : Seq(Messages),
   crossed : BOOLEAN]

PanelShape ==
  /\ conversations \in Existing..MaxConversations
  /\ sentTo \in Seq(Conversations)
  /\ transcript \in [0..MaxConversations -> Seq(Messages)]
  /\ selected \in 0..conversations
  /\ panel \in [conversation : 0..conversations, call : 0..conversations,
                messages : Seq(Messages)]
  /\ loads \subseteq LoadRows /\ newest \in Nat
  /\ sending \in [at : {"none", "asked", "done"}, to : 0..conversations]
  /\ starting \in [at : {"none", "asked", "done"}, id : 0..conversations]

\* What is under way is of the last message, or of a conversation there is.
UnderWay ==
  /\ sending.at = "none" <=> sending.to = 0
  /\ sending.at # "none" => sentTo # <<>> /\ sentTo[Len(sentTo)] = sending.to
  /\ starting.at = "asked" => conversations < MaxConversations
  /\ starting.at = "done" => starting.id # 0

\* The messages that are left of a list were sent to c.
Belong(messages, c) ==
  \A i \in DOMAIN messages :
    messages[i] # Gone => messages[i].n \in DOMAIN sentTo /\ sentTo[messages[i].n] = c

TranscriptsBelong ==
  /\ \A c \in 0..MaxConversations : Belong(transcript[c], c)
  /\ transcript[0] = <<>>

\* A fetch that has read has what is stored, unless a message crossed it.
GoodLoad(load) ==
  /\ load.number \in 1..newest /\ load.of \in Conversations
  /\ CurrentLoad(load) => load.of = selected
  /\ load.at # "asked" =>
       /\ Belong(load.messages, load.of)
       /\ ~load.crossed => load.messages = transcript[load.of]
  /\ ~load.crossed => sending.to # load.of
GoodLoads ==
  /\ \A load \in loads : GoodLoad(load)
  /\ \A load, other \in loads : load.number = other.number => load = other

\* What is selected has been loaded, its call perhaps not yet.
DetailsShown == ~unloaded /\ \A load \in loads : CurrentLoad(load) => load.at = "call"
CallShown == ~unloaded /\ \A load \in loads : ~CurrentLoad(load)

PanelOfSelected ==
  /\ \A i \in DOMAIN panel.messages :
       panel.messages[i] # Gone => panel.messages[i].n \in DOMAIN sentTo
  /\ DetailsShown => panel.conversation = selected /\ Belong(panel.messages, selected)
  /\ CallShown => panel.call \in {0, selected}

\* It lists the transcript, but for what the message under way adds to either.
PanelUpToDate ==
  DetailsShown /\ ~unsynced =>
    LET stored == transcript[selected]
    IN  /\ sending.at = "none" \/ sending.to # selected => Lists(panel.messages, stored)
        /\ sending.at = "asked" /\ sending.to = selected =>
             Lists(panel.messages, Append(stored, Message("customer", Len(sentTo))))
        /\ sending.at = "done" /\ sending.to = selected =>
             Lists(Append(panel.messages, Message("assistant", Len(sentTo))), stored)

PanelIInv ==
  /\ PanelShape /\ UnderWay /\ TranscriptsBelong /\ GoodLoads
  /\ PanelOfSelected /\ PanelUpToDate

LEMMA PanelBounds ==
  ASSUME PanelIInv
  PROVE  /\ conversations \in Nat /\ MaxConversations \in Nat /\ newest \in Nat
         /\ conversations <= MaxConversations /\ Existing \in Nat /\ Existing <= conversations
         /\ Conversations = 1..conversations
         /\ 0..conversations \subseteq 0..MaxConversations
         /\ sentTo \in Seq(Conversations) /\ Len(sentTo) \in Nat
         /\ DOMAIN sentTo = 1..Len(sentTo)
         /\ selected \in 0..MaxConversations /\ transcript[selected] \in Seq(Messages)
         /\ panel.messages \in Seq(Messages) /\ loads \subseteq LoadRows
<1>1. {Existing, MaxConversations} \subseteq Nat /\ conversations \in Existing..MaxConversations
  BY PanelAssumption DEF PanelIInv, PanelShape
<1>2. /\ Conversations = 1..conversations /\ sentTo \in Seq(Conversations)
      /\ selected \in 0..conversations /\ newest \in Nat /\ loads \subseteq LoadRows
  BY DEF PanelIInv, PanelShape, Conversations
<1>3. /\ transcript \in [0..MaxConversations -> Seq(Messages)]
      /\ panel.messages \in Seq(Messages)
  BY DEF PanelIInv, PanelShape
<1>4. conversations \in Nat /\ 0..conversations \subseteq 0..MaxConversations
  BY <1>1
<1>5. Len(sentTo) \in Nat /\ DOMAIN sentTo = 1..Len(sentTo)
  BY <1>2
<1>6. transcript[selected] \in Seq(Messages)
  BY <1>2, <1>3, <1>4
<1> QED
  BY <1>1, <1>2, <1>3, <1>4, <1>5, <1>6

LEMMA MessageFacts ==
  /\ Gone \in Messages /\ Gone.by = "gone"
  /\ \A by \in {"pending", "customer", "assistant"}, n \in Nat :
       /\ Message(by, n) \in Messages /\ Message(by, n) # Gone
       /\ Message(by, n).by = by /\ Message(by, n).n = n
  BY DEF Gone, Message, Messages

LEMMA ListGrows ==
  ASSUME NEW list \in Seq(Messages), NEW m \in Messages
  PROVE  /\ Append(list, m) \in Seq(Messages) /\ Len(list) \in Nat
         /\ DOMAIN list = 1..Len(list) /\ DOMAIN Append(list, m) = 1..(Len(list) + 1)
         /\ Len(Append(list, m)) = Len(list) + 1
         /\ Append(list, m)[Len(list) + 1] = m
         /\ \A i \in 1..Len(list) : Append(list, m)[i] = list[i]
  OBVIOUS

\* A list to which a message that was sent to c is added still belongs to c.
LEMMA BelongGrows ==
  ASSUME PanelIInv, NEW c, NEW list \in Seq(Messages),
         NEW by \in {"pending", "customer", "assistant"},
         NEW n \in DOMAIN sentTo, sentTo[n] = c, Belong(list, c)
  PROVE  Belong(Append(list, Message(by, n)), c)
<1> PICK m \in Messages : m = Message(by, n) /\ m.n = n
  BY PanelBounds, MessageFacts
<1>1. Belong(Append(list, m), c)
  BY ListGrows DEF Belong
<1> QED
  BY <1>1

\* Two lists stay alike when like messages are added to both.
LEMMA ListsGrow ==
  ASSUME NEW list \in Seq(Messages), NEW stored \in Seq(Messages),
         NEW m \in Messages, NEW e \in Messages, Lists(list, stored),
         m.n = e.n, m.by = e.by \/ (m.by = "pending" /\ e.by = "customer")
  PROVE  Lists(Append(list, m), Append(stored, e))
<1> PICK longer : longer = Append(list, m)
  OBVIOUS
<1> PICK more : more = Append(stored, e)
  OBVIOUS
<1>1. /\ Len(list) \in Nat /\ Len(stored) = Len(list)
      /\ Len(longer) = Len(list) + 1 /\ Len(more) = Len(list) + 1
      /\ longer[Len(list) + 1] = m /\ more[Len(list) + 1] = e
      /\ \A i \in 1..Len(list) : longer[i] = list[i] /\ more[i] = stored[i]
  BY ListGrows DEF Lists
<1>2. \A i \in 1..Len(more) : i = Len(list) + 1 \/ i \in 1..Len(list)
  BY <1>1
<1>3. Lists(longer, more)
  BY <1>1, <1>2 DEF Lists
<1> QED
  BY <1>3

\* What was sent stays sent.
LEMMA BelongStays ==
  ASSUME NEW list, NEW c, Belong(list, c),
         \A n \in DOMAIN sentTo : n \in DOMAIN sentTo' /\ sentTo'[n] = sentTo[n]
  PROVE  Belong(list, c)'
  BY DEF Belong

LEMMA PanelStart == PanelInit => PanelIInv
<1> SUFFICES ASSUME PanelInit
             PROVE  PanelIInv
  OBVIOUS
<1>1. <<>> \in Seq(Messages) /\ <<>> \in Seq(Conversations) /\ Len(<<>>) = 0
  OBVIOUS
<1>2. PanelShape
  BY <1>1, PanelAssumption DEF PanelInit, PanelShape, Nothing, NotSending, NotStarting
<1>3. UnderWay /\ TranscriptsBelong /\ GoodLoads
  BY PanelAssumption DEF PanelInit, UnderWay, TranscriptsBelong, GoodLoads, Belong,
     NotSending, NotStarting
<1>4. PanelOfSelected
  BY DEF PanelInit, PanelOfSelected, Nothing, Belong
<1>5. PanelUpToDate
  BY PanelAssumption DEF PanelInit, PanelUpToDate, Nothing, Lists, NotSending
<1> QED
  BY <1>2, <1>3, <1>4, <1>5 DEF PanelIInv

\* Starts, and their answers' absence, show nothing.
LEMMA CalmKeeps ==
  ASSUME PanelIInv,
         UNCHANGED <<sentTo, transcript, selected, panel, loads, newest, sending, unloaded,
                     unsynced>>,
         conversations' \in conversations..MaxConversations,
         starting' \in [at : {"none", "asked", "done"}, id : 0..conversations'],
         starting'.at = "asked" => conversations' < MaxConversations,
         starting'.at = "done" => starting'.id # 0
  PROVE  PanelIInv'
<1>1. /\ conversations' \in Nat /\ conversations <= conversations'
      /\ Conversations \subseteq Conversations'
      /\ 0..conversations \subseteq 0..conversations'
  BY PanelBounds DEF Conversations
<1>2. sentTo' \in Seq(Conversations')
  <2>1. sentTo \in Seq(Conversations) /\ sentTo' = sentTo
    BY PanelBounds
  <2>2. \A i \in 1..Len(sentTo) : sentTo[i] \in Conversations'
    BY <1>1, <2>1
  <2> PICK known : known = Conversations'
    OBVIOUS
  <2>3. sentTo \in Seq(known)
    BY <2>1, <2>2
  <2> QED
    BY <2>1, <2>3
<1>3. PanelShape'
  <2>1. conversations' \in Existing..MaxConversations
    BY <1>1, PanelBounds
  <2>4. selected' \in 0..conversations'
    BY <1>1 DEF PanelIInv, PanelShape
  <2>2. sending' \in [at : {"none", "asked", "done"}, to : 0..conversations']
    BY <1>1 DEF PanelIInv, PanelShape
  <2>3. panel' \in [conversation : 0..conversations', call : 0..conversations',
                    messages : Seq(Messages)]
    BY <1>1 DEF PanelIInv, PanelShape
  <2> QED
    BY <1>2, <2>1, <2>2, <2>3, <2>4 DEF PanelIInv, PanelShape
<1>4. UnderWay' /\ TranscriptsBelong'
  BY DEF PanelIInv, UnderWay, TranscriptsBelong, Belong
<1>5. GoodLoads'
  BY <1>1 DEF PanelIInv, GoodLoads, GoodLoad, Belong, CurrentLoad
<1>6. PanelOfSelected' /\ PanelUpToDate'
  BY DEF PanelIInv, PanelOfSelected, PanelUpToDate, DetailsShown, CallShown, CurrentLoad,
     Belong, Lists
<1> QED
  BY <1>3, <1>4, <1>5, <1>6 DEF PanelIInv

-----------------------------------------------------------------------------
(* Selecting and loading.                                                  *)

\* Another conversation that is selected is not shown before it is loaded.
LEMMA SelectingMoves ==
  ASSUME PanelIInv, NEW c \in Conversations, Selecting(c),
         sending' \in {sending, NotSending},
         UNCHANGED <<serverVars, sentTo>>
  PROVE  /\ selected' = c /\ loads' \subseteq LoadRows /\ newest' \in Nat /\ GoodLoads'
         /\ c # selected => ~DetailsShown' /\ ~CallShown'
         /\ c = selected => loads' = loads /\ newest' = newest
<1>1. selected' = c /\ transcript' = transcript /\ conversations' = conversations
  BY DEF Selecting, serverVars
<1>2. /\ \A load \in loads : /\ load.number \in 1..newest /\ load.of \in Conversations
                             /\ load \in LoadRows
      /\ newest \in Nat /\ c \in Nat /\ c # 0 /\ c \in Conversations'
      /\ sending'.to \in {sending.to, 0}
  BY <1>1, PanelBounds DEF PanelIInv, GoodLoads, GoodLoad, NotSending, Conversations
<1>3. CASE c = selected
  <2>1. loads' = loads /\ newest' = newest
    BY <1>3 DEF Selecting
  <2>2. GoodLoads'
    <3> SUFFICES ASSUME NEW load \in loads
                 PROVE  GoodLoad(load)'
      BY <2>1 DEF PanelIInv, GoodLoads
    <3>1. GoodLoad(load) /\ load.of # 0
      BY PanelBounds DEF PanelIInv, GoodLoads, GoodLoad
    <3> QED
      BY <1>1, <1>2, <1>3, <2>1, <3>1 DEF GoodLoad, CurrentLoad, Belong, Conversations
  <2> QED
    BY <1>1, <1>3, <2>1, <2>2, PanelBounds
<1>4. CASE c # selected
  <2> PICK new : new = [number |-> newest + 1, of |-> c, at |-> "asked",
                        messages |-> <<>>, crossed |-> sending.to = c]
    OBVIOUS
  <2>1. loads' = loads \union {new} /\ newest' = newest + 1
    BY <1>4 DEF Selecting
  <2>2. /\ new \in LoadRows /\ new.number = newest + 1 /\ new.of = c /\ new.at = "asked"
        /\ ~new.crossed => sending.to # c
    <3>1. newest + 1 \in Nat /\ <<>> \in Seq(Messages) /\ (sending.to = c) \in BOOLEAN
      BY <1>2
    <3> QED
      BY <1>2, <3>1 DEF LoadRows
  <2>3. GoodLoad(new)'
    BY <1>1, <1>2, <2>1, <2>2 DEF GoodLoad, CurrentLoad
  <2>4. \A load \in loads : GoodLoad(load)'
    <3> SUFFICES ASSUME NEW load \in loads
                 PROVE  GoodLoad(load)'
      OBVIOUS
    <3>1. GoodLoad(load) /\ load.of # 0 /\ load.number # newest + 1
          /\ load.number \in 1..(newest + 1)
      BY <1>2, PanelBounds DEF PanelIInv, GoodLoads
    <3> QED
      BY <1>1, <1>2, <2>1, <3>1 DEF GoodLoad, CurrentLoad, Belong, Conversations
  <2>5. \A load \in loads : load.number # new.number
    BY <1>2, <2>2
  <2>6. GoodLoads'
    BY <2>1, <2>3, <2>4, <2>5 DEF PanelIInv, GoodLoads
  <2>7. ~DetailsShown' /\ ~CallShown'
    BY <2>1, <2>2 DEF DetailsShown, CallShown, CurrentLoad
  <2> QED
    BY <1>1, <1>2, <1>4, <2>1, <2>2, <2>6, <2>7
<1> QED
  BY <1>3, <1>4

\* A step of a fetch: it goes on, with the same number, or ends.
LEMMA LoadMoves ==
  ASSUME PanelIInv, NEW load \in loads, NEW next \in SUBSET LoadRows,
         loads' = (loads \ {load}) \union next,
         \A l \in next : l.number = load.number /\ GoodLoad(l),
         \A l, k \in next : l = k,
         UNCHANGED <<serverVars, sentTo, selected, newest, sending, starting>>,
         panel' \in [conversation : 0..conversations, call : 0..conversations,
                     messages : Seq(Messages)],
         PanelOfSelected', PanelUpToDate'
  PROVE  PanelIInv'
<1>1. loads' \subseteq LoadRows
  BY PanelBounds
<1>2. PanelShape' /\ UnderWay' /\ TranscriptsBelong'
  BY <1>1 DEF PanelIInv, PanelShape, UnderWay, TranscriptsBelong, Belong, Conversations,
     serverVars
<1>3. \A l \in loads' : GoodLoad(l)'
  <2> SUFFICES ASSUME NEW l \in loads'
               PROVE  GoodLoad(l)'
    OBVIOUS
  <2>1. GoodLoad(l)
    BY DEF PanelIInv, GoodLoads
  <2> QED
    BY <2>1 DEF GoodLoad, CurrentLoad, Belong, Conversations, serverVars
<1>4. \A l, k \in loads' : l.number = k.number => l = k
  BY DEF PanelIInv, GoodLoads
<1> QED
  BY <1>2, <1>3, <1>4 DEF PanelIInv, GoodLoads

LEMMA LoadEnds ==
  ASSUME PanelIInv, NEW load \in loads, loads' = (loads \ {load}) \union {},
         UNCHANGED <<serverVars, sentTo, selected, newest, sending, starting>>,
         panel' \in [conversation : 0..conversations, call : 0..conversations,
                     messages : Seq(Messages)],
         PanelOfSelected', PanelUpToDate'
  PROVE  PanelIInv'
<1> PICK next : next = {}
  OBVIOUS
<1>1. /\ next \in SUBSET LoadRows /\ loads' = (loads \ {load}) \union next
      /\ \A l \in next : l.number = load.number /\ GoodLoad(l)
      /\ \A l, k \in next : l = k
  OBVIOUS
<1> QED
  BY <1>1, LoadMoves

\* While it goes on what is shown is not taken for more than before.
LEMMA ShownNoMore ==
  ASSUME NEW load \in loads, NEW next,
         loads' = (loads \ {load}) \union next, newest' = newest, unloaded' = unloaded,
         \/ ~CurrentLoad(load)
         \/ load.at = "call"
         \/ \E l \in next : l.number = load.number /\ l.at # "call"
  PROVE  DetailsShown' => DetailsShown
  BY DEF DetailsShown, CurrentLoad

LEMMA LoadReadKeeps ==
  ASSUME PanelIInv, NEW load \in loads, LoadRead(load)
  PROVE  PanelIInv'
<1>1. GoodLoad(load) /\ load \in LoadRows /\ load.of \in 0..MaxConversations
  BY PanelBounds DEF PanelIInv, GoodLoads, GoodLoad
<1> PICK l : l = [load EXCEPT !.at = "read", !.messages = transcript[load.of]]
  OBVIOUS
<1>2. /\ l.number = load.number /\ l.of = load.of /\ l.at = "read" /\ l.crossed = load.crossed
      /\ l.messages = transcript[load.of] /\ l \in LoadRows
  <2>1. transcript[load.of] \in Seq(Messages)
    BY <1>1 DEF PanelIInv, PanelShape
  <2> QED
    BY <1>1, <2>1 DEF LoadRows
<1>3. GoodLoad(l)
  BY <1>1, <1>2 DEF GoodLoad, CurrentLoad, PanelIInv, TranscriptsBelong
<1>4. /\ loads' = (loads \ {load}) \union {l} /\ load.at = "asked"
      /\ UNCHANGED <<serverVars, sentTo, selected, newest, sending, starting, panel,
                     unloaded, unsynced>>
  BY DEF LoadRead
<1>5. DetailsShown' => DetailsShown
  BY <1>2, <1>4, ShownNoMore
<1>6. CallShown' => CallShown
  BY <1>2, <1>4 DEF CallShown, CurrentLoad
<1>7. PanelOfSelected' /\ PanelUpToDate'
  BY <1>4, <1>5, <1>6 DEF PanelIInv, PanelOfSelected, PanelUpToDate, Belong, Lists, serverVars
<1>8. panel' \in [conversation : 0..conversations, call : 0..conversations,
                  messages : Seq(Messages)]
  BY <1>4 DEF PanelIInv, PanelShape
<1> PICK next : next = {l}
  OBVIOUS
<1>9. /\ next \in SUBSET LoadRows /\ loads' = (loads \ {load}) \union next
      /\ \A k \in next : k.number = load.number /\ GoodLoad(k)
      /\ \A k, m \in next : k = m
  BY <1>2, <1>3, <1>4
<1> QED
  BY <1>4, <1>7, <1>8, <1>9, LoadMoves

LEMMA LoadArrivesKeeps ==
  ASSUME PanelIInv, NEW load \in loads, LoadArrives(load)
  PROVE  PanelIInv'
<1>1. /\ GoodLoad(load) /\ load \in LoadRows /\ load.at = "read"
      /\ load.of \in 1..conversations /\ load.messages \in Seq(Messages)
  BY PanelBounds DEF PanelIInv, GoodLoads, GoodLoad, LoadRows, LoadArrives
<1>2. UNCHANGED <<serverVars, sentTo, selected, newest, sending, starting>>
  BY DEF LoadArrives
<1>3. CASE ~CurrentLoad(load)
  <2>1. /\ loads' = (loads \ {load}) \union {}
        /\ panel' = panel /\ unloaded' = unloaded /\ unsynced' = unsynced
    BY <1>3 DEF LoadArrives
  <2>2. DetailsShown' => DetailsShown
    BY <1>2, <1>3, <2>1, ShownNoMore
  <2>3. CallShown' => CallShown
    BY <1>2, <1>3, <2>1 DEF CallShown, CurrentLoad
  <2>4. PanelOfSelected' /\ PanelUpToDate'
    BY <1>2, <2>1, <2>2, <2>3
       DEF PanelIInv, PanelOfSelected, PanelUpToDate, Belong, Lists, serverVars
  <2>5. panel' \in [conversation : 0..conversations, call : 0..conversations,
                    messages : Seq(Messages)]
    BY <2>1 DEF PanelIInv, PanelShape
  <2> QED
    BY <1>2, <2>1, <2>4, <2>5, LoadEnds
<1>4. CASE CurrentLoad(load)
  <2> PICK next : next = IF load.of \in VoiceCalls THEN {[load EXCEPT !.at = "call"]} ELSE {}
    OBVIOUS
  <2>1. /\ loads' = (loads \ {load}) \union next
        /\ panel' = [conversation |-> load.of, messages |-> load.messages,
                     call |-> IF load.of \in VoiceCalls THEN panel.call ELSE 0]
        /\ unloaded' = FALSE /\ unsynced' = load.crossed
    BY <1>4 DEF LoadArrives
  <2>2. /\ next \in SUBSET LoadRows
        /\ \A k \in next : k.number = load.number /\ k.at = "call" /\ GoodLoad(k)
        /\ \A k, m \in next : k = m
        /\ load.of \notin VoiceCalls => next = {}
        /\ load.of \in VoiceCalls => \E k \in next : k.number = newest
    <3> PICK k : k = [load EXCEPT !.at = "call"]
      OBVIOUS
    <3>1. /\ k \in LoadRows /\ k.number = load.number /\ k.of = load.of /\ k.at = "call"
          /\ k.messages = load.messages /\ k.crossed = load.crossed
      BY <1>1 DEF LoadRows
    <3>2. GoodLoad(k)
      BY <1>1, <3>1 DEF GoodLoad, CurrentLoad
    <3>3. next = IF load.of \in VoiceCalls THEN {k} ELSE {}
      OBVIOUS
    <3> QED
      BY <1>4, <3>1, <3>2, <3>3 DEF CurrentLoad
  <2>3. panel'.conversation = selected /\ panel'.messages = load.messages /\ load.of = selected
    BY <1>1, <1>4, <2>1 DEF GoodLoad
  <2>4. /\ panel.call \in 0..conversations
        /\ load.of \notin VoiceCalls => panel'.call = 0
        /\ load.of \in VoiceCalls => panel'.call = panel.call
    BY <2>1 DEF PanelIInv, PanelShape
  <2>5. panel' \in [conversation : 0..conversations, call : 0..conversations,
                    messages : Seq(Messages)]
    <3>1. load.of \in 0..conversations /\ 0 \in 0..conversations
      BY <1>1, PanelBounds
    <3> QED
      BY <1>1, <2>1, <2>4, <3>1
  <2>6. CallShown' => load.of \notin VoiceCalls
    BY <1>2, <2>1, <2>2 DEF CallShown, CurrentLoad
  <2>7. PanelOfSelected'
    <3>1. Belong(load.messages, selected)
      BY <1>1, <2>3 DEF GoodLoad
    <3> QED
      BY <1>2, <2>3, <2>4, <2>6, <3>1 DEF PanelOfSelected, Belong
  <2>8. PanelUpToDate'
    <3> SUFFICES ASSUME ~load.crossed
                 PROVE  /\ sending.to # selected
                        /\ Lists(load.messages, transcript[selected])
      BY <1>2, <2>1, <2>3 DEF PanelUpToDate, Lists, serverVars
    <3>1. load.messages = transcript[selected] /\ sending.to # selected
      BY <1>1, <2>3 DEF GoodLoad
    <3>2. transcript[selected] \in Seq(Messages)
      BY PanelBounds
    <3> QED
      BY <3>1, <3>2 DEF Lists
  <2>9. \A k \in next : k.number = load.number /\ GoodLoad(k)
    BY <2>2
  <2> QED
    BY <1>2, <2>1, <2>2, <2>5, <2>7, <2>8, <2>9, LoadMoves
<1> QED
  BY <1>3, <1>4

LEMMA CallArrivesKeeps ==
  ASSUME PanelIInv, NEW load \in loads, CallArrives(load)
  PROVE  PanelIInv'
<1>1. /\ GoodLoad(load) /\ load \in LoadRows /\ load.at = "call" /\ load.of \in 0..conversations
  BY PanelBounds DEF PanelIInv, GoodLoads, GoodLoad, CallArrives
<1>2. /\ UNCHANGED <<serverVars, sentTo, selected, newest, sending, starting, unloaded,
                     unsynced>>
      /\ loads' = (loads \ {load}) \union {}
      /\ panel' = IF CurrentLoad(load) THEN [panel EXCEPT !.call = load.of] ELSE panel
  BY DEF CallArrives
<1>3. /\ panel' \in [conversation : 0..conversations, call : 0..conversations,
                     messages : Seq(Messages)]
      /\ panel'.conversation = panel.conversation /\ panel'.messages = panel.messages
      /\ panel'.call = IF CurrentLoad(load) THEN selected ELSE panel.call
  BY <1>1, <1>2 DEF PanelIInv, PanelShape, GoodLoad
<1>4. DetailsShown' => DetailsShown
  BY <1>1, <1>2, ShownNoMore
<1>5. CallShown' /\ ~CurrentLoad(load) => CallShown
  BY <1>2 DEF CallShown, CurrentLoad
<1>6. PanelOfSelected' /\ PanelUpToDate'
  BY <1>2, <1>3, <1>4, <1>5
     DEF PanelIInv, PanelOfSelected, PanelUpToDate, Belong, Lists, serverVars
<1> QED
  BY <1>2, <1>3, <1>6, LoadEnds

LEMMA LoadFailsKeeps ==
  ASSUME PanelIInv, NEW load \in loads, LoadFails(load)
  PROVE  PanelIInv'
<1>1. /\ UNCHANGED <<serverVars, sentTo, selected, newest, sending, starting, unsynced>>
      /\ loads' = (loads \ {load}) \union {}
      /\ unloaded' = (unloaded \/ (CurrentLoad(load) /\ load.at # "call"))
      /\ panel' = IF CurrentLoad(load) /\ load.at = "call"
                  THEN [panel EXCEPT !.call = 0] ELSE panel
  BY DEF LoadFails
<1>2. /\ panel' \in [conversation : 0..conversations, call : 0..conversations,
                     messages : Seq(Messages)]
      /\ panel'.conversation = panel.conversation /\ panel'.messages = panel.messages
      /\ panel'.call = IF CurrentLoad(load) /\ load.at = "call" THEN 0 ELSE panel.call
  <2>1. 0 \in 0..conversations
    BY PanelBounds
  <2> QED
    BY <1>1, <2>1 DEF PanelIInv, PanelShape
<1>3. DetailsShown' => DetailsShown
  BY <1>1 DEF DetailsShown, CurrentLoad
<1>4. CallShown' => CallShown \/ (CurrentLoad(load) /\ load.at = "call")
  BY <1>1 DEF CallShown, CurrentLoad
<1>5. PanelOfSelected' /\ PanelUpToDate'
  BY <1>1, <1>2, <1>3, <1>4
     DEF PanelIInv, PanelOfSelected, PanelUpToDate, Belong, Lists, serverVars
<1> QED
  BY <1>1, <1>2, <1>5, LoadEnds

LEMMA SelectKeeps ==
  ASSUME PanelIInv, NEW c \in Conversations, SelectConversation(c)
  PROVE  PanelIInv'
<1>1. /\ c # selected /\ Selecting(c)
      /\ UNCHANGED <<serverVars, sentTo, panel, sending, starting, unloaded, unsynced>>
  BY DEF SelectConversation
<1>2. /\ selected' = c /\ loads' \subseteq LoadRows /\ newest' \in Nat /\ GoodLoads'
      /\ ~DetailsShown' /\ ~CallShown'
  BY <1>1, SelectingMoves
<1>3. PanelShape'
  BY <1>1, <1>2 DEF PanelIInv, PanelShape, Conversations, serverVars
<1>4. UnderWay' /\ TranscriptsBelong'
  BY <1>1 DEF PanelIInv, UnderWay, TranscriptsBelong, Belong, serverVars
<1>5. PanelOfSelected' /\ PanelUpToDate'
  BY <1>1, <1>2 DEF PanelIInv, PanelOfSelected, PanelUpToDate
<1> QED
  BY <1>2, <1>3, <1>4, <1>5 DEF PanelIInv

-----------------------------------------------------------------------------
(* Starting and writing to a conversation.                                 *)

LEMMA StartKeeps ==
  ASSUME PanelIInv, StartConversation \/ CreateConversation \/ StartFails
  PROVE  PanelIInv'
<1>1. /\ conversations \in Nat /\ conversations <= MaxConversations /\ MaxConversations \in Nat
      /\ starting \in [at : {"none", "asked", "done"}, id : 0..conversations]
      /\ starting.at = "asked" => conversations < MaxConversations
      /\ starting.at = "done" => starting.id # 0
  BY PanelBounds DEF PanelIInv, PanelShape, UnderWay
<1>2. UNCHANGED <<sentTo, transcript, selected, panel, loads, newest, sending, unloaded,
                  unsynced>>
  BY DEF StartConversation, CreateConversation, StartFails, serverVars
<1>3. /\ conversations' \in conversations..MaxConversations
      /\ starting' \in [at : {"none", "asked", "done"}, id : 0..conversations']
      /\ starting'.at = "asked" => conversations' < MaxConversations
      /\ starting'.at = "done" => starting'.id # 0
  <2>1. CASE StartConversation
    BY <1>1, <2>1 DEF StartConversation, NotStarting, serverVars
  <2>2. CASE CreateConversation
    <3>1. /\ conversations' = conversations + 1 /\ conversations' <= MaxConversations
          /\ starting' = [at |-> "done", id |-> conversations + 1]
      BY <1>1, <2>2 DEF CreateConversation
    <3>2. conversations + 1 \in 0..(conversations + 1) /\ conversations + 1 # 0
      BY <1>1
    <3> QED
      BY <1>1, <3>1, <3>2
  <2>3. CASE StartFails
    BY <1>1, <2>3 DEF StartFails, NotStarting, serverVars
  <2> QED
    BY <2>1, <2>2, <2>3
<1> QED
  BY <1>2, <1>3, CalmKeeps

\* What is listed, for a conversation that was just selected, is of it.
LEMMA StartAnsweredKeeps ==
  ASSUME PanelIInv, StartAnswered
  PROVE  PanelIInv'
<1> PICK c : c = starting.id
  OBVIOUS
<1>1. /\ c \in Conversations /\ Selecting(c)
      /\ starting' = NotStarting
      /\ panel' = [panel EXCEPT !.conversation = c, !.messages = <<>>]
      /\ unsynced' = (unsynced \/ selected = c)
      /\ UNCHANGED <<serverVars, sentTo, sending, unloaded>>
  BY PanelBounds DEF StartAnswered, PanelIInv, PanelShape, UnderWay
<1>2. /\ selected' = c /\ loads' \subseteq LoadRows /\ newest' \in Nat /\ GoodLoads'
      /\ c # selected => ~DetailsShown' /\ ~CallShown'
      /\ c = selected => loads' = loads /\ newest' = newest
  BY <1>1, SelectingMoves
<1>3. /\ panel'.conversation = c /\ panel'.call = panel.call /\ panel'.messages = <<>>
      /\ panel' \in [conversation : 0..conversations, call : 0..conversations,
                     messages : Seq(Messages)]
  <2>1. c \in 0..conversations /\ <<>> \in Seq(Messages)
    BY <1>1, PanelBounds
  <2> QED
    BY <1>1, <2>1 DEF PanelIInv, PanelShape
<1>4. NotStarting \in [at : {"none", "asked", "done"}, id : 0..conversations]
  BY PanelBounds DEF NotStarting
<1>5. PanelShape'
  BY <1>1, <1>2, <1>3, <1>4 DEF PanelIInv, PanelShape, Conversations, serverVars
<1>6. UnderWay' /\ TranscriptsBelong'
  BY <1>1 DEF PanelIInv, UnderWay, TranscriptsBelong, Belong, NotStarting, serverVars
<1>7. CallShown' /\ c = selected => CallShown
  BY <1>1, <1>2 DEF CallShown, CurrentLoad
<1>8. PanelOfSelected'
  BY <1>1, <1>2, <1>3, <1>7 DEF PanelIInv, PanelOfSelected, Belong
<1>9. PanelUpToDate'
  BY <1>1, <1>2 DEF PanelUpToDate
<1> QED
  BY <1>2, <1>5, <1>6, <1>8, <1>9 DEF PanelIInv

LEMMA SendMessageKeeps ==
  ASSUME PanelIInv, SendMessage
  PROVE  PanelIInv'
<1> PICK to : to = panel.conversation
  OBVIOUS
<1> PICK n : n = Len(sentTo) + 1
  OBVIOUS
<1> PICK m : m = Message("pending", n)
  OBVIOUS
<1>1. /\ to \in Conversations /\ sending.at = "none" /\ sending.to = 0
      /\ sentTo' = Append(sentTo, to) /\ sending' = [at |-> "asked", to |-> to]
      /\ panel' = [panel EXCEPT !.messages = Append(panel.messages, m)]
      /\ loads' = {[l EXCEPT !.crossed = l.crossed \/ l.of = to] : l \in loads}
      /\ UNCHANGED <<serverVars, selected, newest, starting, unloaded, unsynced>>
  BY PanelBounds DEF SendMessage, PanelIInv, PanelShape, UnderWay
<1>2. n \in Nat /\ m \in Messages /\ m # Gone /\ m.n = n /\ m.by = "pending"
  BY PanelBounds, MessageFacts
<1>3. /\ sentTo' \in Seq(Conversations) /\ Len(sentTo') = n /\ sentTo'[n] = to
      /\ DOMAIN sentTo' = 1..n /\ n \in DOMAIN sentTo' /\ sentTo' # <<>>
      /\ \A i \in DOMAIN sentTo : i \in DOMAIN sentTo' /\ sentTo'[i] = sentTo[i]
  <2>1. sentTo \in Seq(Conversations) /\ to \in Conversations /\ sentTo' = Append(sentTo, to)
    BY <1>1, PanelBounds
  <2>2. /\ sentTo' \in Seq(Conversations) /\ Len(sentTo) \in Nat /\ Len(sentTo') = n
        /\ DOMAIN sentTo = 1..Len(sentTo) /\ DOMAIN sentTo' = 1..n /\ sentTo'[n] = to
        /\ \A i \in 1..Len(sentTo) : sentTo'[i] = sentTo[i]
    BY <2>1
  <2>3. n \in 1..n /\ \A i \in 1..Len(sentTo) : i \in 1..n
    BY <2>2
  <2>4. sentTo' # <<>>
    BY <2>2, <2>3
  <2> QED
    BY <2>2, <2>3, <2>4
<1>4. /\ panel'.messages = Append(panel.messages, m) /\ panel.messages \in Seq(Messages)
      /\ panel'.conversation = to /\ panel'.call = panel.call
      /\ panel' \in [conversation : 0..conversations, call : 0..conversations,
                     messages : Seq(Messages)]
  <2>1. Append(panel.messages, m) \in Seq(Messages)
    BY <1>2, PanelBounds
  <2> QED
    BY <1>1, <2>1, PanelBounds DEF PanelIInv, PanelShape
<1>5. \A l \in loads : [l EXCEPT !.crossed = l.crossed \/ l.of = to] \in LoadRows
  BY PanelBounds DEF LoadRows
<1>6. PanelShape'
  <2>1. sending' \in [at : {"none", "asked", "done"}, to : 0..conversations]
    BY <1>1, PanelBounds
  <2> QED
    BY <1>1, <1>3, <1>4, <1>5, <2>1 DEF PanelIInv, PanelShape, Conversations, serverVars
<1>7. UnderWay'
  <2>1. to # 0 /\ sending'.at = "asked" /\ sending'.to = to /\ conversations' = conversations
    BY <1>1, PanelBounds DEF serverVars
  <2> QED
    BY <1>1, <1>3, <2>1 DEF PanelIInv, UnderWay
<1>8. TranscriptsBelong'
  <2>1. \A c \in 0..MaxConversations : Belong(transcript[c], c)'
    <3> SUFFICES ASSUME NEW c \in 0..MaxConversations
                 PROVE  Belong(transcript[c], c)'
      OBVIOUS
    <3> PICK list : list = transcript[c]
      OBVIOUS
    <3>1. Belong(list, c)'
      BY <1>3, BelongStays DEF PanelIInv, TranscriptsBelong
    <3> QED
      BY <1>1, <3>1 DEF serverVars, Belong
  <2> QED
    BY <1>1, <2>1 DEF PanelIInv, TranscriptsBelong, serverVars
<1>9. ASSUME NEW l \in loads
      PROVE  GoodLoad([l EXCEPT !.crossed = l.crossed \/ l.of = to])'
  <2> PICK passed : passed = (l.crossed \/ l.of = to)
    OBVIOUS
  <2> PICK k : k = [l EXCEPT !.crossed = passed]
    OBVIOUS
  <2>1. /\ k.number = l.number /\ k.of = l.of /\ k.at = l.at /\ k.messages = l.messages
        /\ k.crossed = passed
    BY PanelBounds DEF LoadRows
  <2>2. GoodLoad(l)
    BY DEF PanelIInv, GoodLoads
  <2>3. l.at # "asked" => Belong(l.messages, l.of)'
    BY <1>3, <2>2, BelongStays DEF GoodLoad
  <2>4. GoodLoad(k)'
    BY <1>1, <2>1, <2>2, <2>3 DEF GoodLoad, CurrentLoad, Conversations, serverVars, Belong
  <2> QED
    BY <2>4
<1>10. GoodLoads'
  <2>1. \A l \in loads' : GoodLoad(l)'
    BY <1>1, <1>9
  <2>2. \A l \in loads : [l EXCEPT !.crossed = l.crossed \/ l.of = to].number = l.number
    BY PanelBounds DEF LoadRows
  <2>3. ASSUME NEW l \in loads', NEW k \in loads', l.number = k.number
        PROVE  l = k
    <3> PICK a \in loads : l = [a EXCEPT !.crossed = a.crossed \/ a.of = to]
      BY <1>1
    <3> PICK b \in loads : k = [b EXCEPT !.crossed = b.crossed \/ b.of = to]
      BY <1>1
    <3>1. a.number = b.number
      BY <2>2, <2>3
    <3>2. a = b
      BY <3>1 DEF PanelIInv, GoodLoads
    <3> QED
      BY <3>2
  <2> QED
    BY <2>1, <2>3 DEF GoodLoads
<1>11. (DetailsShown' => DetailsShown) /\ (CallShown' => CallShown)
  <2>1. \A l \in loads : \E k \in loads' : k.number = l.number /\ k.at = l.at
    <3> SUFFICES ASSUME NEW l \in loads
                 PROVE  \E k \in loads' : k.number = l.number /\ k.at = l.at
      OBVIOUS
    <3> PICK k \in loads' : k = [l EXCEPT !.crossed = l.crossed \/ l.of = to]
      BY <1>1
    <3> QED
      BY PanelBounds DEF LoadRows
  <2>2. ASSUME DetailsShown'
        PROVE  DetailsShown
    <3> SUFFICES ASSUME NEW l \in loads, l.number = newest
                 PROVE  l.at = "call"
      BY <1>1, <2>2 DEF DetailsShown, CurrentLoad
    <3> QED
      BY <1>1, <2>1, <2>2 DEF DetailsShown, CurrentLoad
  <2>3. ASSUME CallShown'
        PROVE  CallShown
    <3> SUFFICES ASSUME NEW l \in loads
                 PROVE  l.number # newest
      BY <1>1, <2>3 DEF CallShown, CurrentLoad
    <3> QED
      BY <1>1, <2>1, <2>3 DEF CallShown, CurrentLoad
  <2> QED
    BY <2>2, <2>3
<1> PICK longer : longer = Append(panel.messages, m)
  OBVIOUS
<1>12. \A i \in DOMAIN longer :
         \/ longer[i] = m
         \/ i \in DOMAIN panel.messages /\ longer[i] = panel.messages[i]
  BY <1>2, <1>4, ListGrows
<1>13. PanelOfSelected'
  <2>1. \A i \in DOMAIN longer : longer[i] # Gone => longer[i].n \in DOMAIN sentTo'
    BY <1>2, <1>3, <1>12 DEF PanelIInv, PanelOfSelected
  <2>2. DetailsShown' => to = selected /\ Belong(longer, selected)'
    BY <1>1, <1>2, <1>3, <1>11, <1>12 DEF PanelIInv, PanelOfSelected, Belong
  <2> QED
    BY <1>1, <1>4, <1>11, <2>1, <2>2 DEF PanelIInv, PanelOfSelected, Belong
<1>14. PanelUpToDate'
  <2>0. DetailsShown' => to = selected
    BY <1>11 DEF PanelIInv, PanelOfSelected
  <2> SUFFICES ASSUME DetailsShown', ~unsynced'
               PROVE  Lists(longer, Append(transcript[selected], Message("customer", n)))
    BY <1>1, <1>3, <1>4, <2>0 DEF PanelUpToDate, serverVars, Lists
  <2>1. Lists(panel.messages, transcript[selected])
    BY <1>1, <1>11 DEF PanelIInv, PanelUpToDate
  <2>2. transcript[selected] \in Seq(Messages)
    BY PanelBounds
  <2> PICK e \in Messages : e = Message("customer", n) /\ e.n = n /\ e.by = "customer"
    BY <1>2, MessageFacts
  <2> QED
    BY <1>2, <1>4, <2>1, <2>2, ListsGrow
<1> QED
  BY <1>6, <1>7, <1>8, <1>10, <1>13, <1>14 DEF PanelIInv

LEMMA CommitMessageKeeps ==
  ASSUME PanelIInv, CommitMessage
  PROVE  PanelIInv'
<1> PICK to : to = sending.to
  OBVIOUS
<1> PICK n : n = Len(sentTo)
  OBVIOUS
<1> PICK asked : asked = Append(transcript[to], Message("customer", n))
  OBVIOUS
<1> PICK turn : turn = Append(asked, Message("assistant", n))
  OBVIOUS
<1>1. /\ sending.at = "asked" /\ sending' = [sending EXCEPT !.at = "done"]
      /\ transcript' = [transcript EXCEPT ![to] = turn]
      /\ UNCHANGED <<conversations, sentTo, selected, panel, loads, newest, starting,
                     unloaded, unsynced>>
  BY DEF CommitMessage
<1>2. /\ to \in Conversations /\ to \in 0..MaxConversations /\ to # 0 /\ n \in DOMAIN sentTo
      /\ sentTo[n] = to /\ sending'.at = "done" /\ sending'.to = to
      /\ sending' \in [at : {"none", "asked", "done"}, to : 0..conversations]
  <2>1. /\ sending \in [at : {"none", "asked", "done"}, to : 0..conversations]
        /\ to # 0 /\ sentTo # <<>> /\ sentTo[n] = to
    BY <1>1 DEF PanelIInv, PanelShape, UnderWay
  <2>2. sentTo \in Seq(Conversations) /\ DOMAIN sentTo = 1..n
    BY PanelBounds
  <2>3. n \in DOMAIN sentTo
    BY <2>1, <2>2
  <2>4. to \in Conversations /\ to \in 0..MaxConversations
    BY <2>1, PanelBounds
  <2>5. /\ sending'.at = "done" /\ sending'.to = to
        /\ sending' \in [at : {"none", "asked", "done"}, to : 0..conversations]
    BY <1>1, <2>1
  <2> QED
    BY <2>1, <2>3, <2>4, <2>5
<1>3. /\ transcript \in [0..MaxConversations -> Seq(Messages)]
      /\ transcript[to] \in Seq(Messages) /\ asked \in Seq(Messages) /\ turn \in Seq(Messages)
      /\ Message("customer", n) \in Messages /\ Message("assistant", n) \in Messages
  <2>1. Message("customer", n) \in Messages /\ Message("assistant", n) \in Messages
    BY PanelBounds, MessageFacts
  <2>2. /\ transcript \in [0..MaxConversations -> Seq(Messages)]
        /\ transcript[to] \in Seq(Messages)
    BY <1>2 DEF PanelIInv, PanelShape
  <2>3. asked \in Seq(Messages)
    BY <2>1, <2>2, ListGrows
  <2>4. turn \in Seq(Messages)
    BY <2>1, <2>3, ListGrows
  <2> QED
    BY <2>1, <2>2, <2>3, <2>4
<1>4. /\ transcript'[to] = turn
      /\ \A c \in 0..MaxConversations : c # to => transcript'[c] = transcript[c]
      /\ transcript' \in [0..MaxConversations -> Seq(Messages)]
  BY <1>1, <1>2, <1>3
<1>5. PanelShape'
  BY <1>1, <1>2, <1>4 DEF PanelIInv, PanelShape, Conversations
<1>6. UnderWay'
  BY <1>1, <1>2 DEF PanelIInv, UnderWay
<1>7. TranscriptsBelong'
  <2>1. Belong(turn, to)
    <3>1. Belong(transcript[to], to)
      BY <1>2 DEF PanelIInv, TranscriptsBelong
    <3>2. Belong(asked, to)
      BY <1>2, <1>3, <3>1, BelongGrows
    <3> QED
      BY <1>2, <1>3, <3>2, BelongGrows
  <2>2. \A c \in 0..MaxConversations : Belong(transcript[c], c)'
    BY <1>1, <1>4, <2>1 DEF PanelIInv, TranscriptsBelong, Belong
  <2> QED
    BY <1>2, <1>4, <2>2, PanelBounds DEF PanelIInv, TranscriptsBelong
<1>8. \A l \in loads : GoodLoad(l)'
  <2> SUFFICES ASSUME NEW l \in loads
               PROVE  GoodLoad(l)'
    OBVIOUS
  <2>1. GoodLoad(l) /\ l.of \in 0..MaxConversations
    BY PanelBounds DEF PanelIInv, GoodLoads, GoodLoad
  <2>2. ~l.crossed => l.of # to /\ transcript'[l.of] = transcript[l.of]
    BY <1>4, <2>1 DEF GoodLoad
  <2> QED
    BY <1>1, <1>2, <2>1, <2>2 DEF GoodLoad, CurrentLoad, Belong, Conversations
<1>9. GoodLoads'
  BY <1>1, <1>8 DEF PanelIInv, GoodLoads
<1>10. PanelOfSelected' /\ (DetailsShown' => DetailsShown)
  BY <1>1 DEF PanelIInv, PanelOfSelected, DetailsShown, CallShown, CurrentLoad, Belong
<1>11. PanelUpToDate'
  <2> PICK messages : messages = panel.messages
    OBVIOUS
  <2> PICK listed : listed = Append(messages, Message("assistant", n))
    OBVIOUS
  <2>1. CASE to # selected
    <3>1. transcript'[selected] = transcript[selected]
      BY <1>4, <2>1, PanelBounds
    <3> QED
      BY <1>1, <1>2, <1>10, <2>1, <3>1 DEF PanelIInv, PanelUpToDate, Lists
  <2>2. CASE to = selected
    <3>1. DetailsShown' /\ ~unsynced' => Lists(messages, asked)
      BY <1>1, <1>10, <2>2 DEF PanelIInv, PanelUpToDate
    <3>2. DetailsShown' /\ ~unsynced' => Lists(listed, turn)
      BY <1>3, <3>1, PanelBounds, ListsGrow
    <3> QED
      BY <1>1, <1>2, <1>4, <2>2, <3>2 DEF PanelUpToDate, Lists
  <2> QED
    BY <2>1, <2>2
<1> QED
  BY <1>5, <1>6, <1>7, <1>9, <1>10, <1>11 DEF PanelIInv

LEMMA SendAnsweredKeeps ==
  ASSUME PanelIInv, SendAnswered
  PROVE  PanelIInv'
<1> PICK to : to = sending.to
  OBVIOUS
<1> PICK n : n = Len(sentTo)
  OBVIOUS
<1> PICK m : m = Message("assistant", n)
  OBVIOUS
<1> PICK listed : listed = Append(panel.messages, m)
  OBVIOUS
<1>1. /\ sending.at = "done" /\ sending' = NotSending /\ Selecting(to)
      /\ panel' = [panel EXCEPT !.conversation = to, !.messages = listed]
      /\ UNCHANGED <<serverVars, sentTo, starting, unloaded, unsynced>>
  BY DEF SendAnswered
<1>2. /\ to \in Conversations /\ to \in 0..conversations
      /\ n \in DOMAIN sentTo /\ sentTo[n] = to
  <2>1. /\ sending \in [at : {"none", "asked", "done"}, to : 0..conversations]
        /\ to # 0 /\ sentTo # <<>> /\ sentTo[n] = to
    BY <1>1 DEF PanelIInv, PanelShape, UnderWay
  <2>2. sentTo \in Seq(Conversations) /\ DOMAIN sentTo = 1..n
    BY PanelBounds
  <2>3. n \in DOMAIN sentTo
    BY <2>1, <2>2
  <2> QED
    BY <2>1, <2>3, PanelBounds
<1>3. m \in Messages /\ m.n = n /\ panel.messages \in Seq(Messages) /\ listed \in Seq(Messages)
  <2>1. m \in Messages /\ m.n = n /\ panel.messages \in Seq(Messages)
    BY PanelBounds, MessageFacts
  <2> QED
    BY <2>1, ListGrows
<1>4. /\ selected' = to /\ loads' \subseteq LoadRows /\ newest' \in Nat /\ GoodLoads'
      /\ to # selected => ~DetailsShown' /\ ~CallShown'
      /\ to = selected => loads' = loads /\ newest' = newest
  BY <1>1, <1>2, SelectingMoves
<1>5. /\ panel'.conversation = to /\ panel'.call = panel.call /\ panel'.messages = listed
      /\ panel' \in [conversation : 0..conversations, call : 0..conversations,
                     messages : Seq(Messages)]
  BY <1>1, <1>2, <1>3 DEF PanelIInv, PanelShape
<1>6. /\ NotSending \in [at : {"none", "asked", "done"}, to : 0..conversations]
      /\ NotSending.at = "none" /\ NotSending.to = 0
  BY PanelBounds DEF NotSending
<1>7. PanelShape'
  BY <1>1, <1>2, <1>4, <1>5, <1>6 DEF PanelIInv, PanelShape, Conversations, serverVars
<1>8. UnderWay' /\ TranscriptsBelong'
  BY <1>1, <1>6 DEF PanelIInv, UnderWay, TranscriptsBelong, Belong, serverVars
<1>9. to = selected => (DetailsShown' => DetailsShown) /\ (CallShown' => CallShown)
  BY <1>1, <1>4 DEF DetailsShown, CallShown, CurrentLoad
<1>10. PanelOfSelected'
  <2>1. \A i \in DOMAIN listed :
          listed[i] = m \/ (i \in DOMAIN panel.messages /\ listed[i] = panel.messages[i])
    BY <1>3, ListGrows
  <2>2. \A i \in DOMAIN listed : listed[i] # Gone => listed[i].n \in DOMAIN sentTo
    BY <1>2, <1>3, <2>1 DEF PanelIInv, PanelOfSelected
  <2>3. DetailsShown' => Belong(listed, to)
    BY <1>2, <1>3, <1>4, <1>9, <2>1 DEF PanelIInv, PanelOfSelected, Belong
  <2> QED
    BY <1>1, <1>4, <1>5, <1>9, <2>2, <2>3 DEF PanelIInv, PanelOfSelected, Belong
<1>11. PanelUpToDate'
  <2>1. DetailsShown' /\ ~unsynced' => Lists(listed, transcript[to])
    BY <1>1, <1>4, <1>9 DEF PanelIInv, PanelUpToDate
  <2> QED
    BY <1>1, <1>4, <1>5, <1>6, <2>1 DEF PanelUpToDate, Lists, serverVars
<1> QED
  BY <1>4, <1>7, <1>8, <1>10, <1>11 DEF PanelIInv

LEMMA SendFailsKeeps ==
  ASSUME PanelIInv, SendFails
  PROVE  PanelIInv'
<1> PICK left : left = NotPending(panel.messages)
  OBVIOUS
<1>1. /\ sending' = NotSending /\ unsynced' = TRUE
      /\ panel' = [panel EXCEPT !.messages = left]
      /\ UNCHANGED <<serverVars, sentTo, selected, loads, newest, starting, unloaded>>
  BY DEF SendFails
<1>2. /\ left \in Seq(Messages) /\ DOMAIN left = DOMAIN panel.messages
      /\ \A i \in DOMAIN left : left[i] \in {Gone, panel.messages[i]}
  <2> PICK list \in Seq(Messages) : list = panel.messages
    BY PanelBounds
  <2>1. /\ left = [i \in 1..Len(list) |-> IF list[i].by = "pending" THEN Gone ELSE list[i]]
        /\ Len(list) \in Nat /\ DOMAIN list = 1..Len(list)
    BY DEF NotPending
  <2>2. \A i \in 1..Len(list) : left[i] \in Messages /\ left[i] \in {Gone, list[i]}
    BY <2>1, MessageFacts
  <2>3. left \in Seq(Messages)
    <3> PICK k \in Nat : k = Len(list)
      BY <2>1
    <3>1. left \in [1..k -> Messages]
      BY <2>1, <2>2
    <3> QED
      BY <3>1, SeqDef
  <2> QED
    BY <2>1, <2>2, <2>3
<1>3. /\ NotSending \in [at : {"none", "asked", "done"}, to : 0..conversations]
      /\ NotSending.at = "none" /\ NotSending.to = 0
  BY PanelBounds DEF NotSending
<1>4. /\ panel'.conversation = panel.conversation /\ panel'.call = panel.call
      /\ panel'.messages = left
      /\ panel' \in [conversation : 0..conversations, call : 0..conversations,
                     messages : Seq(Messages)]
  BY <1>1, <1>2 DEF PanelIInv, PanelShape
<1>5. PanelShape'
  BY <1>1, <1>3, <1>4 DEF PanelIInv, PanelShape, Conversations, serverVars
<1>6. UnderWay' /\ TranscriptsBelong'
  BY <1>1, <1>3 DEF PanelIInv, UnderWay, TranscriptsBelong, Belong, serverVars
<1>7. GoodLoads'
  <2>1. \A l \in loads : GoodLoad(l)'
    <3> SUFFICES ASSUME NEW l \in loads
                 PROVE  GoodLoad(l)'
      OBVIOUS
    <3>1. GoodLoad(l) /\ l.of # 0
      BY PanelBounds DEF PanelIInv, GoodLoads, GoodLoad
    <3> QED
      BY <1>1, <1>3, <3>1 DEF GoodLoad, CurrentLoad, Belong, Conversations, serverVars
  <2> QED
    BY <1>1, <2>1 DEF PanelIInv, GoodLoads
<1>8. (DetailsShown' => DetailsShown) /\ (CallShown' => CallShown)
  BY <1>1 DEF DetailsShown, CallShown, CurrentLoad
<1>9. PanelOfSelected' /\ PanelUpToDate'
  BY <1>1, <1>2, <1>4, <1>8 DEF PanelIInv, PanelOfSelected, PanelUpToDate, Belong
<1> QED
  BY <1>5, <1>6, <1>7, <1>9 DEF PanelIInv

-----------------------------------------------------------------------------
(* The page.                                                               *)

LEMMA PanelStep == PanelIInv /\ [PanelNext]_panelVars => PanelIInv'
<1> SUFFICES ASSUME PanelIInv, [PanelNext]_panelVars
             PROVE  PanelIInv'
  OBVIOUS
<1>1. CASE UNCHANGED panelVars
  <2>1. /\ conversations \in Nat /\ conversations <= MaxConversations /\ MaxConversations \in Nat
        /\ starting \in [at : {"none", "asked", "done"}, id : 0..conversations]
        /\ starting.at = "asked" => conversations < MaxConversations
        /\ starting.at = "done" => starting.id # 0
    BY PanelBounds DEF PanelIInv, PanelShape, UnderWay
  <2> QED
    BY <1>1, <2>1, CalmKeeps DEF panelVars
<1>2. CASE PanelNext
  <2>1. ASSUME NEW c \in Conversations, SelectConversation(c)
        PROVE  PanelIInv'
    BY <2>1, SelectKeeps
  <2>2. ASSUME NEW load \in loads,
               LoadRead(load) \/ LoadArrives(load) \/ CallArrives(load) \/ LoadFails(load)
        PROVE  PanelIInv'
    BY <2>2, LoadReadKeeps, LoadArrivesKeeps, CallArrivesKeeps, LoadFailsKeeps
  <2>3. CASE StartConversation \/ CreateConversation \/ StartFails
    BY <2>3, StartKeeps
  <2>4. CASE StartAnswered
    BY <2>4, StartAnsweredKeeps
  <2>5. CASE SendMessage \/ CommitMessage
    BY <2>5, SendMessageKeeps, CommitMessageKeeps
  <2>6. CASE SendAnswered \/ SendFails
    BY <2>6, SendAnsweredKeeps, SendFailsKeeps
  <2> QED
    BY <1>2, <2>1, <2>2, <2>3, <2>4, <2>5, <2>6 DEF PanelNext
<1> QED
  BY <1>1, <1>2

LEMMA GoodPanelIsShown ==
  ASSUME PanelIInv
  PROVE  PanelInv
<1>1. PanelTypeOK
  <2>1. {selected, panel.conversation, panel.call, sending.to} \subseteq Conversations \union {0}
    <3>1. {selected, panel.conversation, panel.call, sending.to} \subseteq 0..conversations
      BY DEF PanelIInv, PanelShape
    <3>2. 0..conversations = Conversations \union {0}
      BY PanelBounds
    <3> QED
      BY <3>1, <3>2
  <2> QED
    BY <2>1, PanelBounds
       DEF PanelIInv, PanelShape, PanelTypeOK, GoodLoads, GoodLoad, PanelOfSelected
<1>2. Settled /\ ~unloaded => DetailsShown /\ CallShown
  BY DEF Settled, DetailsShown, CallShown
<1>3. ShownIsSelected
  BY <1>2 DEF ShownIsSelected, PanelIInv, PanelOfSelected, Belong
<1>4. TranscriptShown
  BY <1>2 DEF TranscriptShown, Settled, PanelIInv, PanelUpToDate, NotSending
<1> QED
  BY <1>1, <1>3, <1>4 DEF PanelInv

\* Every state of the conversation page satisfies the inductive invariant.
THEOREM PanelInductive == PanelSpec => []PanelIInv
<1> QED
  BY PanelStart, PanelStep, PTL DEF PanelSpec

\* However selecting, loading, starting and writing cross: when all is answered the page
\* shows the conversation that is selected, its call, and each message of its transcript
\* once unless one failed or crossed the load (chat-panel.tsx, page.tsx).
THEOREM PanelShowsWhatIsSelected == PanelSpec => []PanelInv
  BY PanelInductive, GoodPanelIsShown, PTL

-----------------------------------------------------------------------------
(* Who the owners are.                                                     *)

USE TeamAssumption

Stages == {"none", "sent", "read", "allowed", "written"}
Kinds == {"none", "invite", "role", "activate", "deactivate"}
Roles == {"Owner", "Admin", "Member"}

Changes == [at : Stages, kind : Kinds, target : Members, to : Roles \union {"none"},
            actor : Users, was : Users]

Started(m) == change[m].at # "none"
Checked(m) == change[m].at \in {"allowed", "written"}
Seen(m) == change[m].at \in {"read", "allowed", "written"}
Writes(m) == change[m].at = "written"

Shape ==
  /\ member \in [Members -> Users]
  /\ change \in [Members -> Changes]
  /\ changed \in Nat /\ together \in BOOLEAN

\* What any request is about, whatever else is under way.
RequestsMeaningful ==
  \A m \in Members :
    /\ Started(m) => change[m].kind # "none"
    /\ change[m].kind \in {"invite", "role"} => change[m].to \in Roles
    /\ Seen(m) /\ change[m].kind # "invite" => member[change[m].target] # Absent
    /\ change[m].kind = "invite" =>
         change[m].at \in {"none", "sent"}
           \/ (Writes(m) /\ change[m].to # "Owner")
    /\ Writes(m) /\ change[m].kind = "invite" => member[change[m].target] = Absent

\* Who asked for what touches an owner.
AskedByOwner ==
  \A m \in Members :
    Checked(m) /\ change[m].kind # "invite" /\ NeedsOwner(change[m]) =>
      IsOwner(change[m].actor)

\* A role that is taken away is there until it is.
RolesHeld ==
  /\ \A m \in Members : Writes(m) /\ change[m].kind = "role" =>
       member[change[m].target].role = change[m].was.role
  /\ \A m, o \in Members :
       /\ m # o /\ Writes(m) /\ Writes(o) /\ change[m].target = change[o].target
       => (change[m].kind = "role") # (change[o].kind = "role")

\* One request at a time knows what it has read.
AloneKnows ==
  ~together =>
    /\ \A m, o \in Members : Started(m) /\ Started(o) => m = o
    /\ \A m \in Members :
         /\ Started(m) => change[m].actor = member[m]
         /\ Seen(m) /\ change[m].kind # "invite" =>
              change[m].was = member[change[m].target]
         /\ Checked(m) /\ TakesOwner(change[m]) => OtherOwner(m, change[m])

TeamIInv ==
  /\ Shape /\ RequestsMeaningful /\ AskedByOwner /\ RolesHeld /\ AloneKnows
  /\ OwnerRemainsAlone

-----------------------------------------------------------------------------
(* A step of one request.                                                  *)

LEMMA AbsentIsUser == Absent \in Users /\ Absent.role = "none" /\ ~Absent.active
BY DEF Users, Absent

LEMMA InitTeamIInv == TeamInit => TeamIInv
<1> SUFFICES ASSUME TeamInit PROVE TeamIInv
  OBVIOUS
<1>1. /\ NoChange \in Changes
      /\ NoChange.at = "none" /\ NoChange.kind = "none"
  BY AbsentIsUser DEF NoChange, Changes, Stages, Kinds
<1>2. Shape
  BY <1>1, AbsentIsUser DEF TeamInit, Shape, Users
<1>3. \A m \in Members : change[m] = NoChange
  BY DEF TeamInit
<1>4. RequestsMeaningful /\ AskedByOwner /\ RolesHeld /\ AloneKnows
  BY <1>1, <1>3 DEF RequestsMeaningful, AskedByOwner, RolesHeld, AloneKnows,
                    Started, Checked, Seen, Writes
<1>5. Founder \in ActiveOwners
  BY DEF TeamInit, ActiveOwners, IsOwner
<1>6. QED BY <1>2, <1>4, <1>5 DEF TeamIInv, OwnerRemainsAlone

\* A request of m goes on to next; nobody else's does, and no member changes.
LEMMA OwnStep ==
  ASSUME TeamIInv, NEW m \in Members, NEW next \in Changes, Ask(m, next)
  PROVE  /\ change' \in [Members -> Changes]
         /\ change'[m] = next
         /\ \A o \in Members : o # m => change'[o] = change[o]
BY DEF TeamIInv, Shape, Ask

LEMMA SendChangeIInv ==
  ASSUME TeamIInv, NEW m \in Members, NEW target \in Members,
         NEW sort \in Kinds, NEW to \in Roles \union {"none"},
         sort # "none", sort \in {"invite", "role"} => to \in Roles,
         SendChange(m, sort, target, to)
  PROVE  TeamIInv'
<1> DEFINE c == [NoChange EXCEPT !.at = "sent", !.kind = sort, !.target = target,
                                 !.to = to, !.actor = member[m]]
<1>1. /\ c \in Changes /\ c.at = "sent" /\ c.kind = sort /\ c.to = to
      /\ c.actor = member[m]
  BY AbsentIsUser DEF NoChange, Changes, Stages, Kinds, TeamIInv, Shape
<1>2. Ask(m, c) /\ change[m].at = "none" /\ member' = member /\ changed' = changed + 1
      /\ together' = (together \/ \E o \in Members : change[o].at # "none")
  BY DEF SendChange
<1> HIDE DEF c
<1>3. /\ change' \in [Members -> Changes]
      /\ change'[m] = c
      /\ \A o \in Members : o # m => change'[o] = change[o]
  BY <1>1, <1>2, OwnStep
<1>4. Shape'
  BY <1>2, <1>3 DEF TeamIInv, Shape
<1>5. RequestsMeaningful' /\ AskedByOwner' /\ RolesHeld'
  BY <1>1, <1>2, <1>3
     DEF TeamIInv, RequestsMeaningful, AskedByOwner, RolesHeld, Started, Checked,
         Seen, Writes, NeedsOwner
<1>6. AloneKnows'
  <2> SUFFICES ASSUME ~together' PROVE AloneKnows'
    BY DEF AloneKnows
  <2>1. ~together /\ \A o \in Members : change[o].at = "none"
    BY <1>2
  <2>2. \A o \in Members : Started(o)' => o = m
    BY <1>3, <2>1 DEF Started
  <2>3. /\ \A o \in Members : ~Seen(o)' /\ ~Checked(o)'
        /\ change'[m].actor = member'[m]
    BY <1>1, <1>2, <1>3, <2>1 DEF Seen, Checked
  <2>4. QED BY <2>2, <2>3 DEF AloneKnows
<1>7. OwnerRemainsAlone'
  BY <1>2 DEF TeamIInv, OwnerRemainsAlone, ActiveOwners
<1>8. QED BY <1>4, <1>5, <1>6, <1>7 DEF TeamIInv

LEMMA InviteIInv ==
  ASSUME TeamIInv, NEW m \in Members, Invite(m)
  PROVE  TeamIInv'
<1> DEFINE c == [change[m] EXCEPT !.at = "written"]
<1> change[m] \in Changes
  BY DEF TeamIInv, Shape
<1>1. /\ c \in Changes /\ c.at = "written" /\ c.kind = "invite"
      /\ c.to = change[m].to /\ c.to \in {"Admin", "Member"}
      /\ c.target = change[m].target /\ member[c.target] = Absent
      /\ c.actor = change[m].actor /\ c.was = change[m].was
  BY DEF Invite, Changes, Stages
<1>2. /\ Ask(m, c) /\ change[m].at = "sent" /\ change[m].kind = "invite"
      /\ member' = member /\ changed' = changed /\ together' = together
      /\ \A o \in Members : ~(Writes(o) /\ change[o].target = c.target)
  BY DEF Invite, OnlyChange, Writes
<1> HIDE DEF c
<1>3. /\ change' \in [Members -> Changes]
      /\ change'[m] = c
      /\ \A o \in Members : o # m => change'[o] = change[o]
  BY <1>1, <1>2, OwnStep
<1>4. Shape'
  BY <1>2, <1>3 DEF TeamIInv, Shape
<1>5. RequestsMeaningful' /\ AskedByOwner'
  BY <1>1, <1>2, <1>3
     DEF TeamIInv, RequestsMeaningful, AskedByOwner, Started, Checked, Seen, Writes
<1>6. RolesHeld'
  BY <1>1, <1>2, <1>3 DEF TeamIInv, RolesHeld, Writes
<1>7. AloneKnows'
  <2>1. ~TakesOwner(c)
    BY <1>1 DEF TakesOwner
  <2>2. QED
    BY <1>1, <1>2, <1>3, <2>1
       DEF TeamIInv, AloneKnows, Started, Checked, Seen, OtherOwner
<1>8. OwnerRemainsAlone'
  BY <1>2 DEF TeamIInv, OwnerRemainsAlone, ActiveOwners
<1>9. QED BY <1>4, <1>5, <1>6, <1>7, <1>8 DEF TeamIInv

LEMMA ReadTargetIInv ==
  ASSUME TeamIInv, NEW m \in Members, ReadTarget(m)
  PROVE  TeamIInv'
<1> DEFINE was == IF change[m].target = m THEN change[m].actor
                                          ELSE member[change[m].target]
           c == [change[m] EXCEPT !.at = "read", !.was = was]
<1> change[m] \in Changes
  BY DEF TeamIInv, Shape
<1>1. /\ c \in Changes /\ c.at = "read" /\ c.kind = change[m].kind
      /\ c.to = change[m].to /\ c.target = change[m].target
      /\ c.actor = change[m].actor /\ c.was = was
  BY DEF TeamIInv, Shape, Changes, Stages
<1>2. /\ Ask(m, c) /\ change[m].at = "sent" /\ change[m].kind # "invite"
      /\ member[change[m].target] # Absent
      /\ member' = member /\ changed' = changed /\ together' = together
  BY DEF ReadTarget, OnlyChange
<1> HIDE DEF c
<1>3. /\ change' \in [Members -> Changes]
      /\ change'[m] = c
      /\ \A o \in Members : o # m => change'[o] = change[o]
  BY <1>1, <1>2, OwnStep
<1>4. Shape'
  BY <1>2, <1>3 DEF TeamIInv, Shape
<1>5. RequestsMeaningful' /\ AskedByOwner' /\ RolesHeld'
  BY <1>1, <1>2, <1>3
     DEF TeamIInv, RequestsMeaningful, AskedByOwner, RolesHeld, Started, Checked,
         Seen, Writes
<1>6. AloneKnows'
  <2>1. ~together => was = member[change[m].target]
    BY <1>2 DEF TeamIInv, AloneKnows, Started
  <2>2. QED
    BY <1>1, <1>2, <1>3, <2>1
       DEF TeamIInv, AloneKnows, Started, Checked, Seen, OtherOwner
<1>7. OwnerRemainsAlone'
  BY <1>2 DEF TeamIInv, OwnerRemainsAlone, ActiveOwners
<1>8. QED BY <1>4, <1>5, <1>6, <1>7 DEF TeamIInv

LEMMA AllowIInv ==
  ASSUME TeamIInv, NEW m \in Members, Allow(m)
  PROVE  TeamIInv'
<1> DEFINE c == [change[m] EXCEPT !.at = "allowed"]
<1> change[m] \in Changes
  BY DEF TeamIInv, Shape
<1>1. /\ c \in Changes /\ c.at = "allowed" /\ c.kind = change[m].kind
      /\ c.to = change[m].to /\ c.target = change[m].target
      /\ c.actor = change[m].actor /\ c.was = change[m].was
  BY DEF Changes, Stages
<1>2. /\ Ask(m, c) /\ change[m].at = "read"
      /\ NeedsOwner(c) => IsOwner(c.actor)
      /\ TakesOwner(c) => OtherOwner(m, c)
      /\ member' = member /\ changed' = changed /\ together' = together
  BY <1>1 DEF Allow, OnlyChange, NeedsOwner, TakesOwner, OtherOwner
<1> HIDE DEF c
<1>3. /\ change' \in [Members -> Changes]
      /\ change'[m] = c
      /\ \A o \in Members : o # m => change'[o] = change[o]
  BY <1>1, <1>2, OwnStep
<1>4. Shape'
  BY <1>2, <1>3 DEF TeamIInv, Shape
<1>5. RequestsMeaningful' /\ RolesHeld'
  BY <1>1, <1>2, <1>3
     DEF TeamIInv, RequestsMeaningful, RolesHeld, Started, Seen, Writes
<1>6. AskedByOwner'
  BY <1>1, <1>2, <1>3 DEF TeamIInv, AskedByOwner, Checked
<1>7. AloneKnows'
  BY <1>1, <1>2, <1>3
     DEF TeamIInv, AloneKnows, Started, Checked, Seen, OtherOwner
<1>8. OwnerRemainsAlone'
  BY <1>2 DEF TeamIInv, OwnerRemainsAlone, ActiveOwners
<1>9. QED BY <1>4, <1>5, <1>6, <1>7, <1>8 DEF TeamIInv

LEMMA WriteIInv ==
  ASSUME TeamIInv, NEW m \in Members, Write(m)
  PROVE  TeamIInv'
<1> DEFINE c == [change[m] EXCEPT !.at = "written"]
<1> change[m] \in Changes
  BY DEF TeamIInv, Shape
<1>1. /\ c \in Changes /\ c.at = "written" /\ c.kind = change[m].kind
      /\ c.to = change[m].to /\ c.target = change[m].target
      /\ c.actor = change[m].actor /\ c.was = change[m].was
  BY DEF Changes, Stages
<1>2. /\ Ask(m, c) /\ change[m].at = "allowed" /\ ~Held(m, c)
      /\ c.kind = "role" => member[c.target].role = c.was.role
      /\ member' = member /\ changed' = changed /\ together' = together
  BY <1>1 DEF Write, OnlyChange, Held
<1> HIDE DEF c
<1>3. /\ change' \in [Members -> Changes]
      /\ change'[m] = c
      /\ \A o \in Members : o # m => change'[o] = change[o]
  BY <1>1, <1>2, OwnStep
<1>4. Shape'
  BY <1>2, <1>3 DEF TeamIInv, Shape
<1>5. RequestsMeaningful' /\ AskedByOwner'
  <2>1. /\ change[m].kind # "invite"
        /\ NeedsOwner(c) <=> NeedsOwner(change[m])
        /\ member[change[m].target] # Absent
    BY <1>1, <1>2 DEF TeamIInv, RequestsMeaningful, NeedsOwner, Writes, Seen
  <2>2. QED
    BY <1>1, <1>2, <1>3, <2>1
       DEF TeamIInv, RequestsMeaningful, AskedByOwner, Started, Checked, Seen, Writes
<1>6. RolesHeld'
  <2>1. \A o \in Members : o # m /\ Writes(o) /\ change[o].target = c.target =>
          (change[o].kind = "role") # (c.kind = "role")
    BY <1>2 DEF Held, Writes
  <2>2. QED
    BY <1>1, <1>2, <1>3, <2>1 DEF TeamIInv, RolesHeld, Writes
<1>7. AloneKnows'
  <2>1. /\ TakesOwner(change'[m]) <=> TakesOwner(change[m])
        /\ OtherOwner(m, change[m])' <=> OtherOwner(m, change[m])
    BY <1>1, <1>2, <1>3 DEF TakesOwner, OtherOwner
  <2>2. QED
    BY <1>1, <1>2, <1>3, <2>1
       DEF TeamIInv, AloneKnows, Started, Checked, Seen, OtherOwner
<1>8. OwnerRemainsAlone'
  BY <1>2 DEF TeamIInv, OwnerRemainsAlone, ActiveOwners
<1>9. QED BY <1>4, <1>5, <1>6, <1>7, <1>8 DEF TeamIInv

LEMMA DropChangeIInv ==
  ASSUME TeamIInv, NEW m \in Members, DropChange(m)
  PROVE  TeamIInv'
<1>1. NoChange \in Changes /\ NoChange.at = "none" /\ NoChange.kind = "none"
  BY AbsentIsUser DEF NoChange, Changes, Stages, Kinds
<1>2. /\ Ask(m, NoChange)
      /\ member' = member /\ changed' = changed /\ together' = together
  BY DEF DropChange, OnlyChange
<1>3. /\ change' \in [Members -> Changes]
      /\ change'[m] = NoChange
      /\ \A o \in Members : o # m => change'[o] = change[o]
  BY <1>1, <1>2, OwnStep
<1>4. Shape'
  BY <1>2, <1>3 DEF TeamIInv, Shape
<1>5. RequestsMeaningful' /\ AskedByOwner' /\ RolesHeld'
  BY <1>1, <1>2, <1>3
     DEF TeamIInv, RequestsMeaningful, AskedByOwner, RolesHeld, Started, Checked,
         Seen, Writes
<1>6. AloneKnows'
  BY <1>1, <1>2, <1>3
     DEF TeamIInv, AloneKnows, Started, Checked, Seen, OtherOwner
<1>7. OwnerRemainsAlone'
  BY <1>2 DEF TeamIInv, OwnerRemainsAlone, ActiveOwners
<1>8. QED BY <1>4, <1>5, <1>6, <1>7 DEF TeamIInv

\* What a commit makes of its member.
LEMMA CommitEffect ==
  ASSUME TeamIInv, NEW m \in Members, CommitChange(m)
  PROVE  LET c == change[m]
             old == member[c.target]
             new == member'[c.target]
         IN  /\ c \in Changes /\ c.target \in Members /\ c.at = "written"
             /\ member' \in [Members -> Users]
             /\ \A o \in Members : o # c.target => member'[o] = member[o]
             /\ c.kind \in {"invite", "role", "activate", "deactivate"}
             /\ new # Absent
             /\ c.kind = "invite" => old = Absent /\ new.role # "Owner"
             /\ c.kind = "role" => new.role = c.to /\ new.active = old.active
             /\ c.kind = "activate" => /\ new.role = old.role
                                       /\ old.active => new.active
             /\ c.kind = "deactivate" => new.role = old.role
<1> DEFINE c == change[m]
           old == member[c.target]
<1>1. /\ c \in Changes /\ c.target \in Members /\ c.at = "written"
      /\ member \in [Members -> Users] /\ old \in Users
  BY DEF TeamIInv, Shape, Changes, CommitChange
<1>2. /\ c.kind \in {"invite", "role", "activate", "deactivate"}
      /\ c.kind \in {"invite", "role"} => c.to \in Roles
      /\ c.kind = "invite" => old = Absent /\ c.to # "Owner"
      /\ c.kind # "invite" => old # Absent
  BY <1>1 DEF TeamIInv, RequestsMeaningful, Started, Seen, Writes, Changes, Kinds
<1>3. old # Absent => old.role \in Roles /\ old.active \in BOOLEAN
                      /\ old = [role |-> old.role, active |-> old.active]
  BY <1>1 DEF Users, Roles
<1> HIDE DEF c, old
<1>4. CASE c.kind = "invite"
  <2> DEFINE new == [role |-> c.to, active |-> TRUE]
  <2>1. member' = [member EXCEPT ![c.target] = new]
    BY <1>4 DEF CommitChange, c
  <2>2. new \in Users /\ new # Absent /\ new.role = c.to
    BY <1>2, <1>4, AbsentIsUser DEF Users, Roles
  <2>3. QED BY <1>1, <1>2, <1>4, <2>1, <2>2 DEF c, old
<1>5. CASE c.kind = "role"
  <2> DEFINE new == [old EXCEPT !.role = c.to]
  <2>1. member' = [member EXCEPT ![c.target] = new]
    BY <1>1, <1>5 DEF CommitChange, c, old
  <2>2. new \in Users /\ new # Absent /\ new.role = c.to /\ new.active = old.active
    BY <1>2, <1>3, <1>5, AbsentIsUser DEF Users, Roles
  <2>3. QED BY <1>1, <1>2, <1>5, <2>1, <2>2 DEF c, old
<1>6. CASE c.kind = "activate"
  <2> DEFINE new == [old EXCEPT !.active = old.active \/ ~c.was.active]
  <2>1. member' = [member EXCEPT ![c.target] = new]
    BY <1>1, <1>6 DEF CommitChange, c, old
  <2>2. new \in Users /\ new # Absent /\ new.role = old.role
        /\ (old.active => new.active)
    BY <1>2, <1>3, <1>6, AbsentIsUser DEF Users, Roles
  <2>3. QED BY <1>1, <1>2, <1>6, <2>1, <2>2 DEF c, old
<1>7. CASE c.kind = "deactivate"
  <2> DEFINE new == [old EXCEPT !.active = old.active /\ ~c.was.active]
  <2>1. member' = [member EXCEPT ![c.target] = new]
    BY <1>1, <1>7 DEF CommitChange, c, old
  <2>2. new \in Users /\ new # Absent /\ new.role = old.role
    BY <1>2, <1>3, <1>7, AbsentIsUser DEF Users, Roles
  <2>3. QED BY <1>1, <1>2, <1>7, <2>1, <2>2 DEF c, old
<1>8. QED BY <1>2, <1>4, <1>5, <1>6, <1>7

LEMMA CommitChangeIInv ==
  ASSUME TeamIInv, NEW m \in Members, CommitChange(m)
  PROVE  TeamIInv'
<1> DEFINE c == change[m]
           t == c.target
<1>1. NoChange \in Changes /\ NoChange.at = "none" /\ NoChange.kind = "none"
  BY AbsentIsUser DEF NoChange, Changes, Stages, Kinds
<1>2. /\ Ask(m, NoChange) /\ changed' = changed /\ together' = together
      /\ c.at = "written"
  BY DEF CommitChange
<1>3. /\ change' \in [Members -> Changes]
      /\ change'[m] = NoChange
      /\ \A o \in Members : o # m => change'[o] = change[o]
  BY <1>1, <1>2, OwnStep
<1>4. /\ t \in Members /\ member' \in [Members -> Users]
      /\ \A o \in Members : o # t => member'[o] = member[o]
      /\ c.kind \in {"invite", "role", "activate", "deactivate"}
      /\ member'[t] # Absent
      /\ c.kind = "invite" => member[t] = Absent
      /\ c.kind = "role" => /\ member'[t].role = c.to
                            /\ member'[t].active = member[t].active
      /\ c.kind = "activate" => /\ member'[t].role = member[t].role
                                /\ member[t].active => member'[t].active
      /\ c.kind = "deactivate" => member'[t].role = member[t].role
  BY CommitEffect
<1>5. Shape'
  BY <1>2, <1>3, <1>4 DEF TeamIInv, Shape
<1>6. \A o \in Members : o # m /\ Writes(o) /\ change[o].target = t =>
        /\ change[o].kind # "invite"
        /\ change[o].kind = "role" => c.kind # "role" /\ c.kind # "invite"
  <2> SUFFICES ASSUME NEW o \in Members, o # m, Writes(o), change[o].target = t
               PROVE  /\ change[o].kind # "invite"
                      /\ change[o].kind = "role" => c.kind # "role" /\ c.kind # "invite"
    OBVIOUS
  <2>1. (c.kind = "role") # (change[o].kind = "role")
    BY <1>2 DEF TeamIInv, RolesHeld, Writes
  <2>2. /\ change[o].kind = "invite" => member[t] = Absent
        /\ change[o].kind # "invite" => member[t] # Absent
        /\ c.kind = "invite" => member[t] = Absent
        /\ c.kind # "invite" => member[t] # Absent
    BY <1>2 DEF TeamIInv, RequestsMeaningful, Writes, Seen
  <2>3. QED BY <2>1, <2>2
<1>7. RequestsMeaningful'
  <2>1. \A o \in Members :
          LET u == change[o].target
          IN  /\ u \in Members
              /\ member[u] # Absent => member'[u] # Absent
              /\ o # m /\ Writes(o) /\ change[o].kind = "invite" => u # t
    BY <1>4, <1>6 DEF TeamIInv, Shape, Changes
  <2>2. QED
    BY <1>1, <1>2, <1>3, <1>4, <2>1
       DEF TeamIInv, RequestsMeaningful, Started, Seen, Writes
<1>8. AskedByOwner'
  BY <1>1, <1>3 DEF TeamIInv, AskedByOwner, Checked
<1>9. RolesHeld'
  <2>1. \A o \in Members : o # m /\ Writes(o) /\ change[o].kind = "role" =>
          member'[change[o].target].role = member[change[o].target].role
    <3> SUFFICES ASSUME NEW o \in Members, o # m, Writes(o), change[o].kind = "role"
                 PROVE  member'[change[o].target].role = member[change[o].target].role
      OBVIOUS
    <3> change[o].target \in Members
      BY DEF TeamIInv, Shape, Changes
    <3>1. QED BY <1>4, <1>6
  <2>2. QED BY <1>1, <1>3, <2>1 DEF TeamIInv, RolesHeld, Writes
<1>10. AloneKnows'
  BY <1>1, <1>2, <1>3 DEF TeamIInv, AloneKnows, Started, Checked, Seen
<1>11. OwnerRemainsAlone'
  <2> SUFFICES ASSUME ~together PROVE ActiveOwners' # {}
    BY <1>2 DEF OwnerRemainsAlone
  <2>1. PICK a \in Members : member[a].active /\ IsOwner(member[a])
    BY DEF TeamIInv, OwnerRemainsAlone, ActiveOwners
  <2>2. /\ c.actor = member[m]
        /\ c.kind # "invite" => c.was = member[t]
        /\ TakesOwner(c) => OtherOwner(m, c)
    BY <1>2 DEF TeamIInv, AloneKnows, Started, Checked, Seen
  <2>3. CASE TakesOwner(c)
    <3>1. PICK o \in Members \ {t} : member[o].active /\ IsOwner(member[o])
      BY <2>2, <2>3 DEF OtherOwner
    <3>2. member'[o] = member[o]
      BY <1>4
    <3>3. o \in ActiveOwners'
      BY <3>1, <3>2 DEF ActiveOwners
    <3>4. QED BY <3>3
  <2>4. CASE ~TakesOwner(c)
    <3>1. member'[a].active /\ IsOwner(member'[a])
      <4>1. CASE a # t
        BY <1>4, <2>1, <4>1
      <4>2. CASE a = t
        <5>1. c.kind # "invite" /\ IsOwner(c.was)
          BY <1>4, <2>1, <2>2, <4>2, AbsentIsUser
        <5>2. c.kind # "deactivate" /\ (c.kind = "role" => c.to = "Owner")
          BY <2>4, <5>1 DEF TakesOwner
        <5>3. QED BY <1>4, <2>1, <4>2, <5>1, <5>2 DEF IsOwner
      <4>3. QED BY <4>1, <4>2
    <3>2. a \in ActiveOwners'
      BY <3>1 DEF ActiveOwners
    <3>3. QED BY <3>2
  <2>5. QED BY <2>3, <2>4
<1>12. QED BY <1>5, <1>7, <1>8, <1>9, <1>10, <1>11 DEF TeamIInv

LEMMA StutterTeamIInv ==
  ASSUME TeamIInv, UNCHANGED teamVars
  PROVE  TeamIInv'
<1>1. /\ member' = member /\ change' = change /\ changed' = changed
      /\ together' = together
  BY DEF teamVars
<1>2. Shape'
  BY <1>1 DEF TeamIInv, Shape
<1>3. RequestsMeaningful' /\ AskedByOwner' /\ RolesHeld'
  BY <1>1 DEF TeamIInv, RequestsMeaningful, AskedByOwner, RolesHeld, Started, Checked,
              Seen, Writes
<1>4. AloneKnows' /\ OwnerRemainsAlone'
  BY <1>1 DEF TeamIInv, AloneKnows, OwnerRemainsAlone, Started, Checked, Seen,
              OtherOwner, ActiveOwners
<1>5. QED BY <1>2, <1>3, <1>4 DEF TeamIInv

\* TeamIInv is inductive: no request of anybody's breaks it.
THEOREM TeamInductive == TeamSpec => []TeamIInv
<1>1. ASSUME TeamIInv, [TeamNext]_teamVars
      PROVE  TeamIInv'
  <2>1. CASE UNCHANGED teamVars
    BY <1>1, <2>1, StutterTeamIInv
  <2>2. ASSUME NEW m \in Members, NEW target \in Members,
               NEW sort \in {"invite", "role"}, NEW to \in {"Owner", "Admin", "Member"},
               SendChange(m, sort, target, to)
        PROVE  TeamIInv'
    BY <1>1, <2>2, SendChangeIInv DEF Kinds, Roles
  <2>3. ASSUME NEW m \in Members, NEW target \in Members,
               NEW sort \in {"activate", "deactivate"},
               SendChange(m, sort, target, "none")
        PROVE  TeamIInv'
    BY <1>1, <2>3, SendChangeIInv DEF Kinds, Roles
  <2>4. ASSUME NEW m \in Members,
               \/ Invite(m) \/ ReadTarget(m) \/ Allow(m) \/ Write(m)
               \/ CommitChange(m) \/ DropChange(m)
        PROVE  TeamIInv'
    BY <1>1, <2>4, InviteIInv, ReadTargetIInv, AllowIInv, WriteIInv,
       CommitChangeIInv, DropChangeIInv
  <2>5. QED BY <1>1, <2>1, <2>2, <2>3, <2>4 DEF TeamNext
<1>2. QED BY <1>1, InitTeamIInv, PTL DEF TeamSpec

\* TeamInv: types, and as long as no two requests have been under way at once, an
\* active owner remains (_ensure_other_active_owner_exists).
THEOREM OwnerKept == TeamSpec => []TeamInv
<1>1. TeamIInv => TeamInv
  <2> SUFFICES ASSUME TeamIInv PROVE TeamTypeOK
    BY DEF TeamIInv, TeamInv
  <2> SUFFICES ASSUME NEW m \in Members
               PROVE  /\ {member[m], change[m].actor, change[m].was} \subseteq Users
                      /\ change[m].at \in {"none", "sent", "read", "allowed", "written"}
                      /\ change[m].kind \in
                           {"none", "invite", "role", "activate", "deactivate"}
                      /\ change[m].target \in Members
    BY DEF TeamIInv, Shape, TeamTypeOK
  <2>1. QED BY DEF TeamIInv, Shape, Changes, Stages, Kinds
<1>2. QED BY <1>1, TeamInductive, PTL

\* OnlyOwnersTouchOwners: whoever becomes an owner, or stops being one, does so
\* by the request of someone who was an owner when he sent it, however the
\* requests crossed (_require_acting_owner).
THEOREM OwnersTouchedByOwners == TeamSpec => OnlyOwnersTouchOwners
<1> DEFINE Touched ==
      \A t \in Members :
        IsOwner(member[t]) # IsOwner(member'[t]) =>
        \E m \in Members :
          change[m].at = "written" /\ change[m].target = t /\ IsOwner(change[m].actor)
<1>1. ASSUME TeamIInv, [TeamNext]_teamVars
      PROVE  [Touched]_teamVars
  <2>1. ASSUME NEW m \in Members, CommitChange(m)
        PROVE  Touched
    <3> DEFINE c == change[m]
    <3>1. SUFFICES ASSUME IsOwner(member[c.target]) # IsOwner(member'[c.target])
                   PROVE  IsOwner(c.actor)
      BY <1>1, <2>1, CommitEffect
    <3>2. c.kind = "role" /\ member'[c.target].role = c.to /\ c.at = "written"
      BY <1>1, <2>1, <3>1, CommitEffect, AbsentIsUser DEF IsOwner
    <3>3. member[c.target].role = c.was.role
      BY <1>1, <3>2 DEF TeamIInv, RolesHeld, Writes
    <3>4. NeedsOwner(c)
      BY <3>1, <3>2, <3>3 DEF NeedsOwner, IsOwner
    <3>5. QED BY <1>1, <3>2, <3>4 DEF TeamIInv, AskedByOwner, Checked
  <2>2. CASE UNCHANGED teamVars
    BY <2>2
  <2>3. CASE member' = member
    BY <2>3
  <2>4. CASE \E m \in Members : CommitChange(m)
    BY <2>1, <2>4
  <2>5. QED
    BY <1>1, <2>2, <2>3, <2>4
       DEF TeamNext, SendChange, Invite, ReadTarget, Allow, Write, DropChange, OnlyChange
<1>2. QED
  BY <1>1, TeamInductive, PTL DEF TeamSpec, OnlyOwnersTouchOwners
=============================================================================
