------------------------------ MODULE Sessions ------------------------------
(***************************************************************************)
(* A browser's session: the refresh token in its cookie, which every       *)
(* refresh replaces, and the rows the server keeps of the tokens.  The     *)
(* tabs of a browser share the cookie and know nothing of each other.  A   *)
(* request reads, writes and is answered, and only then commits: the       *)
(* answer, with its cookie, may arrive before or after, or not at all.     *)
(***************************************************************************)
EXTENDS Naturals

CONSTANTS
  Requests,   \* requests of the browser that may be under way at once
  MaxTokens,  \* bound: tokens issued
  MaxSessionFaults   \* bound: requests that fail, answers and commits that are lost

ASSUME SessionBoundsAssumption == {MaxTokens, MaxSessionFaults} \subseteq Nat

VARIABLES
  token,      \* the refresh_tokens table
  issued,     \* how many tokens were made: they are 1..issued
  cookie,     \* the token in the browser, 0 if none
  active,     \* the user and the organization are active
  request,    \* the requests under way
  faults,     \* how many answers and commits were lost
  crossed,    \* history: a request was sent while another was under way
  raced       \* history: the tokens two requests had presented at once

sessionVars == <<token, issued, cookie, active, request, faults, crossed, raced>>

Tokens == 1..MaxTokens

\* kind: what was asked; at: how far the server is; shown: the token presented;
\* new: the token made for it; revokes: it has written that the one shown is
\* revoked, and holds its row; answer: what the response does to the cookie.
NoRequest == [kind |-> "none", at |-> "done", shown |-> 0, new |-> 0,
              revokes |-> FALSE, answer |-> "none"]

SessionsInit ==
  /\ token = [t \in Tokens |-> [state |-> "none", parent |-> 0]]
  /\ issued = 0
  /\ cookie = 0
  /\ active = TRUE
  /\ request = [b \in Requests |-> NoRequest]
  /\ faults = 0
  /\ crossed = FALSE
  /\ raced = {}

Free(b) == request[b].kind = "none"
Quiet == \A b \in Requests : Free(b)
Live == {t \in Tokens : token[t].state = "live"}

RequestIs(b, r) == request' = [request EXCEPT ![b] = r]

-----------------------------------------------------------------------------
(* The browser.                                                            *)

Send(b, kind, at) ==
  /\ Free(b)
  /\ RequestIs(b, [NoRequest EXCEPT !.kind = kind, !.at = at, !.shown = cookie])
  /\ crossed' = (crossed \/ ~Quiet)
  /\ raced' = IF cookie # 0 /\ \E o \in Requests : request[o].shown = cookie
              THEN raced \union {cookie} ELSE raced
  /\ UNCHANGED <<token, issued, cookie, active, faults>>

\* The pages to sign in are kept from a browser that has the cookie.
SendLogin(b) == cookie = 0 /\ Send(b, "login", "checking")

\* One tab asks for one refresh at a time; another tab does not wait for it.
SendRefresh(b) == cookie # 0 /\ Send(b, "refresh", "looking")

SendLogout(b) == cookie # 0 /\ Send(b, "logout", "looking")

-----------------------------------------------------------------------------
(* The server.                                                             *)

GoesTo(b, at) == RequestIs(b, [request[b] EXCEPT !.at = at])

Answer(b, answer) == RequestIs(b, [request[b] EXCEPT !.at = "done", !.answer = answer])

OnlyRequest == UNCHANGED <<token, issued, cookie, active, faults, crossed, raced>>

\* Mutant: a token is good while it is on record.
LookUpAny(b) ==
  /\ request[b].kind = "refresh" /\ request[b].at = "looking"
  /\ IF token[request[b].shown].state # "none"
     THEN GoesTo(b, "checking")
     ELSE Answer(b, "clear")
  /\ OnlyRequest

\* The token is on record, neither revoked nor expired; else its cookie, which
\* can never refresh again, is cleared.
LookUp(b) ==
  /\ request[b].kind = "refresh" /\ request[b].at = "looking"
  /\ IF request[b].shown \in Live
     THEN GoesTo(b, "checking")
     ELSE Answer(b, "clear")
  /\ OnlyRequest

CheckAccount(b) ==
  /\ request[b].at = "checking"
  /\ IF active THEN GoesTo(b, "issuing")
     ELSE Answer(b, IF request[b].kind = "refresh" THEN "inactive" ELSE "keep")
  /\ OnlyRequest

RowFree(t) == \A o \in Requests : request[o].revokes => request[o].shown # t

\* A token is made, and the one that was shown is revoked, as it was found
\* active: whoever has revoked it since is waited for and written over.
Issue(b) ==
  /\ request[b].at = "issuing"
  /\ issued < MaxTokens
  /\ RowFree(request[b].shown)
  /\ issued' = issued + 1
  /\ RequestIs(b, [request[b] EXCEPT !.at = "answered", !.answer = "set", !.new = issued',
                                     !.revokes = request[b].kind = "refresh"])
  /\ UNCHANGED <<token, cookie, active, faults, crossed, raced>>

\* A logout revokes what it finds and clears the cookie in any case.
Revoke(b) ==
  /\ request[b].kind = "logout" /\ request[b].at = "looking"
  /\ RowFree(request[b].shown)
  /\ RequestIs(b, [request[b] EXCEPT !.at = "answered", !.answer = "clear",
                    !.revokes = token[request[b].shown].state \in {"live", "expired"}])
  /\ OnlyRequest

\* A request that is carried out and answered is over.
Ended(r) == IF r.at = "done" /\ r.answer = "none" THEN NoRequest ELSE r

\* The server is done with it; the answer is with the browser.
ServerEnds(b) == RequestIs(b, Ended([request[b] EXCEPT !.at = "done", !.revokes = FALSE]))
AnswerEnds(b) == RequestIs(b, Ended([request[b] EXCEPT !.answer = "none"]))

\* The response has been sent: the transaction commits.
Commit(b) ==
  /\ request[b].at = "answered"
  /\ token' = [t \in Tokens |->
       IF t = request[b].new
       THEN [state |-> "live", parent |-> request[b].shown]
       ELSE IF request[b].revokes /\ t = request[b].shown /\ token[t].state = "live"
       THEN [token[t] EXCEPT !.state = "revoked"] ELSE token[t]]
  /\ ServerEnds(b)
  /\ UNCHANGED <<issued, cookie, active, faults, crossed, raced>>

\* The answer reaches the browser, whose cookie may be another one by now.
Arrive(b) ==
  /\ request[b].answer # "none"
  /\ cookie' = CASE request[b].answer = "set" -> request[b].new
                 [] request[b].answer \in {"clear", "inactive"} -> 0
                 [] request[b].answer = "keep" -> cookie
  /\ AnswerEnds(b)
  /\ UNCHANGED <<token, issued, active, faults, crossed, raced>>

-----------------------------------------------------------------------------
(* What may happen to them.                                                *)

SessionFault ==
  /\ faults < MaxSessionFaults
  /\ faults' = faults + 1
  /\ UNCHANGED <<token, issued, cookie, active, crossed, raced>>

\* Mutant: a fault is answered as a token that is no good.
FailsCleared(b) ==
  /\ SessionFault
  /\ request[b].at \in {"looking", "checking", "issuing"}
  /\ Answer(b, "clear")

\* The database is away: the request is rolled back and the cookie kept.
Fails(b) ==
  /\ SessionFault
  /\ request[b].at \in {"looking", "checking", "issuing"}
  /\ Answer(b, "keep")

\* The commit fails, though the request was answered.
CommitFails(b) ==
  /\ SessionFault
  /\ request[b].at = "answered"
  /\ ServerEnds(b)

AnswerLost(b) ==
  /\ SessionFault
  /\ request[b].answer # "none"
  /\ AnswerEnds(b)

Expire(t) ==
  /\ t \in Live
  /\ token' = [token EXCEPT ![t].state = "expired"]
  /\ UNCHANGED <<issued, cookie, active, request, faults, crossed, raced>>

Deactivate ==
  /\ active
  /\ active' = FALSE
  /\ UNCHANGED <<token, issued, cookie, request, faults, crossed, raced>>

SessionsNext ==
  \/ \E b \in Requests :
       \/ SendLogin(b) \/ SendRefresh(b) \/ SendLogout(b)
       \/ LookUp(b) \/ CheckAccount(b) \/ Issue(b) \/ Revoke(b)
       \/ Commit(b) \/ Arrive(b)
       \/ Fails(b) \/ CommitFails(b) \/ AnswerLost(b)
  \/ \E t \in Tokens : Expire(t)
  \/ Deactivate

SessionsSpec == SessionsInit /\ [][SessionsNext]_sessionVars

-----------------------------------------------------------------------------
(* Properties.                                                             *)

\* Every variable holds what the code can put there.
SessionsTypeOK ==
  /\ token \in [Tokens -> [state : {"none", "live", "revoked", "expired"},
                           parent : 0..MaxTokens]]
  /\ {issued, cookie} \subseteq 0..MaxTokens
  /\ active \in BOOLEAN
  /\ request \in [Requests -> [kind : {"none", "login", "refresh", "logout"},
       at : {"looking", "checking", "issuing", "answered", "done"},
       shown : 0..MaxTokens, new : 0..MaxTokens, revokes : BOOLEAN,
       answer : {"none", "set", "clear", "inactive", "keep"}]]
  /\ \A a, b \in Requests :
       a # b /\ request[a].revokes /\ request[b].revokes =>
         request[a].shown # request[b].shown

\* Where nothing was lost, no two requests crossed and the account is
\* active, the cookie holds the one token that works, if it has not
\* expired, and a browser that was signed out leaves none behind
\* (AuthService.refresh, logout).
CookieIsTheSession ==
  Quiet /\ faults = 0 /\ ~crossed /\ active =>
    /\ Live \subseteq {cookie}
    /\ cookie # 0 => token[cookie].state \in {"live", "expired"}

\* One token gives two sessions only if two requests had it in hand at once:
\* once the first has committed, the old token is worth nothing
\* (get_active_by_hash, revoke).
ForkOnlyIfRaced ==
  \A s, t \in Tokens :
    s # t /\ token[s].parent = token[t].parent /\ token[s].parent # 0 =>
      token[s].parent \in raced

\* Tokens that are made and still to be stored; and those that never will be: their
\* request was answered, and its commit failed.
TokensToCome == {request[b].new : b \in {o \in Requests : request[o].at = "answered"}} \ {0}
Unsaved == {t \in 1..issued : token[t].state = "none"} \ TokensToCome

LiveCookieTaken == cookie \in Live /\ cookie' # cookie /\ cookie' \notin Live \union TokensToCome

\* Where no requests cross, a cookie that works gives way to nothing, or to a token that
\* does not work, only by a logout, because the account is not active, or for a token
\* whose commit failed after it was sent. That one fault does sign somebody out, although
\* "a transient fault must not sign anyone out" (endpoints/auth.py refresh); no other,
\* before that answer or in any request before, takes a cookie that still works.
LiveCookieKept ==
  [][LiveCookieTaken /\ ~crossed =>
       \/ \E b \in Requests :
            \/ request[b].answer = "inactive"
            \/ request[b].answer = "clear" /\ request[b].kind = "logout"
       \/ cookie' \in Unsaved]_sessionVars

\* Types, the cookie of a browser left to itself is its session, and one token
\* becomes two only in a race (AuthService.refresh, logout).
SessionsInv == SessionsTypeOK /\ CookieIsTheSession /\ ForkOnlyIfRaced

=============================================================================
