------------------------------ MODULE Sessions ------------------------------
(***************************************************************************)
(* Refresh tokens and device sessions of the MemoVoy API: routes/auth.js   *)
(* (refresh, logout, the end of register, login and 2fa/authenticate) and  *)
(* the session routes of routes/users.js.                                  *)
(*                                                                         *)
(* A refresh token is a signed JWT; the server keeps no list of the valid  *)
(* ones.  What it keeps are two tables: revoked_tokens, the jtis that are  *)
(* no longer good, and device_sessions, the rows the user is shown and can *)
(* terminate.  A handler is a sequence of single-statement queries, each   *)
(* of them an await, so handlers interleave between queries.  Every action *)
(* below is one query, or the code between two of them.                    *)
(***************************************************************************)
EXTENDS Naturals

CONSTANTS
  Users,     \* accounts that exist initially
  Devices,   \* browsers, each with one cookie jar
  Jtis,      \* the random UUIDs makeTokens may draw (bounds how many are minted)
  Requests,  \* slots for requests the server handles at the same time
  None,      \* "no token", "no account", "no device"
  MaxMishaps \* bounds failures, losses, expiries, deletions and crashes

ASSUME NoneAssumption == None \notin Jtis \cup Users \cup Devices

ASSUME MaxMishapsAssumption == MaxMishaps \in Nat

VARIABLES
  account,     \* rows of table users
  revoked,     \* table revoked_tokens (column jti)
  rows,        \* table device_sessions (column jti)
  owner,       \* the user a minted token was signed for, None if not minted
  parent,      \* the token presented to /refresh to obtain this one
  expired,     \* tokens past their exp (7 days)
  cookie,      \* the refreshToken cookie of each browser
  req,         \* the requests being handled
  sweep,       \* DELETEs of device_sessions left to the background
  unlisted,    \* history: tokens whose bookkeeping write failed or was cut short
  unswept,     \* history: background DELETEs that failed or were cut short
  terminated,  \* history: tokens whose DELETE /me/sessions/:jti answered ok
  mishaps      \* how many of the events MaxMishaps bounds have happened

tables  == <<account, revoked, rows>>
tokens  == <<owner, parent, expired>>
history == <<unlisted, unswept, terminated>>

vars == <<tables, tokens, cookie, req, sweep, history, mishaps>>

-----------------------------------------------------------------------------
(* Requests *)

\* Where a request is: the query it will issue next.
PC == {"idle", "check", "load", "rotate", "record", "reply",
       "logout", "clear", "erase"}

\* The two queries DELETE /me/sessions/:jti issues in one Promise.all.
Query == {"row", "token"}

Request == [pc     : PC,
            device : Devices \cup {None},
            token  : Jtis \cup {None},    \* presented or targeted token
            fresh  : Jtis \cup {None},    \* token being issued
            todo   : SUBSET Query,        \* Promise.all members not settled
            clean  : BOOLEAN]             \* none of them has failed

Idle == [pc |-> "idle", device |-> None, token |-> None, fresh |-> None,
         todo |-> {}, clean |-> TRUE]

At(r, p) == req[r].pc = p

Goto(r, p) == req' = [req EXCEPT ![r].pc = p]

Answer(r) == req' = [req EXCEPT ![r] = Idle]

Start(r, request) ==
  /\ At(r, "idle")
  /\ req' = [req EXCEPT ![r] = request]

Mishap ==
  /\ mishaps < MaxMishaps
  /\ mishaps' = mishaps + 1

-----------------------------------------------------------------------------
(* Tokens *)

Minted == {j \in Jtis : owner[j] # None}

\* jwt.verify, the revocation check and the user lookup would all accept j.
Live(j) == owner[j] \in account /\ j \notin revoked \cup expired

\* crypto.randomUUID(): one that was never drawn; which one makes no difference.
FreshJti == CHOOSE j \in Jtis : j \notin Minted

\* makeTokens: a token with a fresh jti, in exchange for token p or for none.
Mint(u, p) ==
  /\ Minted # Jtis
  /\ owner' = [owner EXCEPT ![FreshJti] = u]
  /\ parent' = [parent EXCEPT ![FreshJti] = p]

Init ==
  /\ account = Users
  /\ revoked = {}
  /\ rows = {}
  /\ owner = [j \in Jtis |-> None]
  /\ parent = [j \in Jtis |-> None]
  /\ expired = {}
  /\ cookie = [d \in Devices |-> None]
  /\ req = [r \in Requests |-> Idle]
  /\ sweep = {}
  /\ unlisted = {}
  /\ unswept = {}
  /\ terminated = {}
  /\ mishaps = 0

-----------------------------------------------------------------------------
(* Issuing a session: register, login and 2fa/authenticate end alike *)

\* Mutant: recordSession is not awaited, and the process dies before it writes.
IssueUnrecorded(r, d, u) ==
  /\ u \in account
  /\ Mint(u, None)
  /\ Start(r, [Idle EXCEPT !.pc = "reply", !.device = d, !.fresh = FreshJti])
  /\ UNCHANGED <<tables, expired, cookie, sweep, history, mishaps>>

\* The credentials were accepted: sign the tokens and set the cookie on the
\* reply, then go on to recordSession.
IssueSession(r, d, u) ==
  /\ u \in account
  /\ Mint(u, None)
  /\ Start(r, [Idle EXCEPT !.pc = "record", !.device = d, !.fresh = FreshJti])
  /\ UNCHANGED <<tables, expired, cookie, sweep, history, mishaps>>

\* Mutant: the row is written under the jti of the token that was presented.
RecordSessionOldJti(r) ==
  /\ At(r, "record")
  /\ owner[req[r].fresh] \in account
  /\ rows' = rows \cup {req[r].token}
  /\ Goto(r, "reply")
  /\ UNCHANGED <<account, revoked, tokens, cookie, sweep, history, mishaps>>

\* await recordSession: INSERT INTO device_sessions.
RecordSession(r) ==
  /\ At(r, "record")
  /\ owner[req[r].fresh] \in account
  /\ rows' = rows \cup {req[r].fresh}
  /\ Goto(r, "reply")
  /\ UNCHANGED <<account, revoked, tokens, cookie, sweep, history, mishaps>>

\* The INSERT fails, as it must when the user is gone (foreign key).  That is
\* only logged and the session is handed out all the same.
RecordFails(r) ==
  /\ At(r, "record")
  /\ \/ owner[req[r].fresh] \notin account /\ UNCHANGED mishaps
     \/ Mishap
  /\ unlisted' = unlisted \cup {req[r].fresh}
  /\ Goto(r, "reply")
  /\ UNCHANGED <<tables, tokens, cookie, sweep, unswept, terminated>>

\* The reply arrives and its Set-Cookie replaces the browser's cookie.
DeliverSession(r) ==
  /\ At(r, "reply")
  /\ cookie' = [cookie EXCEPT ![req[r].device] = req[r].fresh]
  /\ Answer(r)
  /\ UNCHANGED <<tables, tokens, sweep, history, mishaps>>

\* The connection is gone: the server has done its part, the browser knows
\* nothing of it.
LoseReply(r) ==
  /\ req[r].pc \in {"reply", "clear"}
  /\ Answer(r)
  /\ Mishap
  /\ UNCHANGED <<tables, tokens, cookie, sweep, history>>

-----------------------------------------------------------------------------
(* POST /auth/refresh *)

\* Without a cookie, or with one jwt.verify rejects, the answer is 401 and
\* nothing changes.
RefreshStart(r, d) ==
  /\ cookie[d] \notin {None} \cup expired
  /\ Start(r, [Idle EXCEPT !.pc = "check", !.device = d, !.token = cookie[d]])
  /\ UNCHANGED <<tables, tokens, cookie, sweep, history, mishaps>>

\* Mutant: the answer of the revocation query is not looked at.
CheckNothing(r) ==
  /\ At(r, "check")
  /\ Goto(r, "load")
  /\ UNCHANGED <<tables, tokens, cookie, sweep, history, mishaps>>

\* SELECT 1 FROM revoked_tokens.
CheckRevoked(r) ==
  /\ At(r, "check")
  /\ IF req[r].token \in revoked THEN Answer(r) ELSE Goto(r, "load")
  /\ UNCHANGED <<tables, tokens, cookie, sweep, history, mishaps>>

\* Mutant: a missing user is not answered.
LoadUserSilently(r) ==
  /\ At(r, "load")
  /\ owner[req[r].token] \in account
  /\ Goto(r, "rotate")
  /\ UNCHANGED <<tables, tokens, cookie, sweep, history, mishaps>>

\* SELECT * FROM users.
LoadUser(r) ==
  /\ At(r, "load")
  /\ IF owner[req[r].token] \in account THEN Goto(r, "rotate") ELSE Answer(r)
  /\ UNCHANGED <<tables, tokens, cookie, sweep, history, mishaps>>

\* Mutant: the presented token is left good.
RotateWithoutRevoking(r) ==
  LET old == req[r].token IN
  /\ At(r, "rotate")
  /\ sweep' = sweep \cup {old}
  /\ Mint(owner[old], old)
  /\ req' = [req EXCEPT ![r].pc = "record", ![r].token = None, ![r].fresh = FreshJti]
  /\ UNCHANGED <<tables, expired, cookie, history, mishaps>>

\* Mutant: the old row is left in the list.
RotateWithoutSweep(r) ==
  LET old == req[r].token IN
  /\ At(r, "rotate")
  /\ revoked' = revoked \cup {old}
  /\ Mint(owner[old], old)
  /\ req' = [req EXCEPT ![r].pc = "record", ![r].token = None, ![r].fresh = FreshJti]
  /\ UNCHANGED <<account, rows, expired, cookie, sweep, history, mishaps>>

\* INSERT INTO revoked_tokens ... ON CONFLICT DO NOTHING, whose row count is not
\* looked at; then the background DELETE of the old row is started and the new
\* tokens are signed.
Rotate(r) ==
  LET old == req[r].token IN
  /\ At(r, "rotate")
  /\ revoked' = revoked \cup {old}
  /\ sweep' = sweep \cup {old}
  /\ Mint(owner[old], old)
  /\ req' = [req EXCEPT ![r].pc = "record", ![r].token = None, ![r].fresh = FreshJti]
  /\ UNCHANGED <<account, rows, expired, cookie, history, mishaps>>

\* A query of /refresh fails: 500, and the handler stops where it was.
QueryFails(r) ==
  /\ req[r].pc \in {"check", "load", "rotate"}
  /\ Answer(r)
  /\ Mishap
  /\ UNCHANGED <<tables, tokens, cookie, sweep, history>>

\* emSegundoPlano(query('DELETE FROM device_sessions ...')).
Sweep(j) ==
  /\ j \in sweep
  /\ sweep' = sweep \ {j}
  /\ rows' = rows \ {j}
  /\ UNCHANGED <<account, revoked, tokens, cookie, req, history, mishaps>>

\* Its failure is swallowed.
SweepFails(j) ==
  /\ j \in sweep
  /\ sweep' = sweep \ {j}
  /\ unswept' = unswept \cup {j}
  /\ Mishap
  /\ UNCHANGED <<tables, tokens, cookie, req, unlisted, terminated>>

-----------------------------------------------------------------------------
(* POST /auth/logout *)

LogoutStart(r, d) ==
  /\ IF cookie[d] \in {None} \cup expired
       THEN Start(r, [Idle EXCEPT !.pc = "clear", !.device = d])
       ELSE Start(r, [Idle EXCEPT !.pc = "logout", !.device = d, !.token = cookie[d]])
  /\ UNCHANGED <<tables, tokens, cookie, sweep, history, mishaps>>

\* INSERT INTO revoked_tokens.  The row of device_sessions is left alone.
LogoutRevoke(r) ==
  /\ At(r, "logout")
  /\ revoked' = revoked \cup {req[r].token}
  /\ req' = [req EXCEPT ![r].pc = "clear", ![r].token = None]
  /\ UNCHANGED <<account, rows, tokens, cookie, sweep, history, mishaps>>

\* The INSERT is inside the try of jwt.verify, whose catch swallows any error.
LogoutRevokeFails(r) ==
  /\ At(r, "logout")
  /\ req' = [req EXCEPT ![r].pc = "clear", ![r].token = None]
  /\ Mishap
  /\ UNCHANGED <<tables, tokens, cookie, sweep, history>>

\* clearCookie arrives at the browser.
DeliverLogout(r) ==
  /\ At(r, "clear")
  /\ cookie' = [cookie EXCEPT ![req[r].device] = None]
  /\ Answer(r)
  /\ UNCHANGED <<tables, tokens, sweep, history, mishaps>>

-----------------------------------------------------------------------------
(* DELETE /users/me/sessions/:jti, asked by user u *)

\* SELECT id, expires_at ... WHERE jti = $1 AND user_id = $2; 404 without a row.
TerminateStart(r, u, j) ==
  /\ j \in rows
  /\ owner[j] = u
  /\ Start(r, [Idle EXCEPT !.pc = "erase", !.token = j, !.todo = Query])
  /\ UNCHANGED <<tables, tokens, cookie, sweep, history, mishaps>>

\* One member of the Promise.all settles; a failure does not stop the other one.
\* The answer is ok only when none of them failed.
Settle(r, q, ok) ==
  LET left  == req[r].todo \ {q}
      clean == req[r].clean /\ ok
  IN /\ At(r, "erase")
     /\ q \in req[r].todo
     /\ req' = [req EXCEPT ![r] = IF left = {} THEN Idle
                                  ELSE [@ EXCEPT !.todo = left, !.clean = clean]]
     /\ terminated' = IF left = {} /\ clean THEN terminated \cup {req[r].token}
                                            ELSE terminated

EraseRow(r) ==
  /\ Settle(r, "row", TRUE)
  /\ rows' = rows \ {req[r].token}
  /\ UNCHANGED <<account, revoked, tokens, cookie, sweep, unlisted, unswept,
                 mishaps>>

\* Mutant: the row goes, the token stays good.
EraseTokenForgotten(r) ==
  /\ Settle(r, "token", TRUE)
  /\ UNCHANGED <<tables, tokens, cookie, sweep, unlisted, unswept, mishaps>>

EraseToken(r) ==
  /\ Settle(r, "token", TRUE)
  /\ revoked' = revoked \cup {req[r].token}
  /\ UNCHANGED <<account, rows, tokens, cookie, sweep, unlisted, unswept,
                 mishaps>>

EraseFails(r, q) ==
  /\ Settle(r, q, FALSE)
  /\ unlisted' = unlisted \cup {req[r].token}
  /\ Mishap
  /\ UNCHANGED <<tables, tokens, cookie, sweep, unswept>>

-----------------------------------------------------------------------------
(* The environment *)

\* DELETE /users/me, asked from device d: device_sessions goes by ON DELETE
\* CASCADE, revoked_tokens has no reference to the user and stays, and the reply
\* clears the cookie of the browser that asked, and of no other.
DeleteAccount(r, u, d) ==
  /\ u \in account
  /\ account' = account \ {u}
  /\ rows' = {j \in rows : owner[j] # u}
  /\ Start(r, [Idle EXCEPT !.pc = "clear", !.device = d])
  /\ Mishap
  /\ UNCHANGED <<revoked, tokens, cookie, sweep, history>>

\* Seven days go by: the token, its row and the cookie's maxAge end together.
Expire(j) ==
  /\ j \in Minted \ expired
  /\ expired' = expired \cup {j}
  /\ Mishap
  /\ UNCHANGED <<tables, owner, parent, cookie, req, sweep, history>>

\* The process dies: requests and background work are gone, the tables stay.
Crash ==
  /\ Mishap
  /\ req' = [r \in Requests |-> Idle]
  /\ sweep' = {}
  /\ unswept' = unswept \cup sweep
  /\ unlisted' = unlisted \cup {req[r].token : r \in {s \in Requests : At(s, "erase")}}
  /\ UNCHANGED <<tables, tokens, cookie, terminated>>

-----------------------------------------------------------------------------
(* The specification *)

\* What the server does by itself once a request is in.
Serve(r) ==
  \/ RecordSession(r) \/ RecordFails(r) \/ DeliverSession(r)
  \/ CheckRevoked(r) \/ LoadUser(r) \/ Rotate(r)
  \/ LogoutRevoke(r) \/ DeliverLogout(r)
  \/ EraseRow(r) \/ EraseToken(r)

Fault(r) ==
  \/ LoseReply(r) \/ QueryFails(r) \/ LogoutRevokeFails(r)
  \/ \E q \in Query : EraseFails(r, q)

Ask(r) ==
  \/ \E d \in Devices : RefreshStart(r, d) \/ LogoutStart(r, d)
  \/ \E d \in Devices, u \in Users : IssueSession(r, d, u)
  \/ \E u \in Users, j \in Jtis : TerminateStart(r, u, j)

Next ==
  \/ \E r \in Requests : Serve(r) \/ Fault(r) \/ Ask(r)
  \/ \E j \in Jtis : Sweep(j) \/ SweepFails(j) \/ Expire(j)
  \/ \E r \in Requests, u \in Users, d \in Devices : DeleteAccount(r, u, d)
  \/ Crash

Spec == Init /\ [][Next]_vars

\* A query that was sent is answered and a promise that was started settles.
\* Nothing obliges a client to ask for anything, a token to expire or the
\* process to crash.
Fairness ==
  /\ \A r \in Requests : WF_vars(Serve(r))
  /\ \A j \in Jtis : WF_vars(Sweep(j))

FairSpec == Spec /\ Fairness

-----------------------------------------------------------------------------
(* Properties *)

\* A request carries the tokens its next query needs.
Equipped(q) ==
  /\ q.pc \in {"check", "load", "rotate", "logout", "erase"} => q.token \in Jtis
  /\ q.pc \in {"record", "reply"} => q.fresh \in Jtis
  /\ q.pc \notin {"idle", "erase"} => q.device \in Devices

TypeOK ==
  /\ account \subseteq Users
  /\ revoked \subseteq Jtis
  /\ rows \subseteq Jtis
  /\ owner \in [Jtis -> Users \cup {None}]
  /\ parent \in [Jtis -> Jtis \cup {None}]
  /\ expired \subseteq Jtis
  /\ cookie \in [Devices -> Jtis \cup {None}]
  /\ req \in [Requests -> Request]
  /\ \A r \in Requests : Equipped(req[r])
  /\ sweep \subseteq Jtis
  /\ unlisted \subseteq Jtis
  /\ unswept \subseteq Jtis
  /\ terminated \subseteq Jtis
  /\ mishaps \in 0..MaxMishaps

\* A rotation never leaves both tokens good: whatever was issued in exchange for
\* a token, that token is revoked by then, even if the process dies half-way.
\* (auth.js, /refresh: the INSERT into revoked_tokens comes before makeTokens.)
ExchangedIsRevoked ==
  \A j \in Jtis : parent[j] # None => parent[j] \in revoked

\* A session the user can use is one the user can see and terminate: a browser
\* that holds a live token has its row in device_sessions, unless the write of
\* that bookkeeping failed or its termination is under way.  (auth.js,
\* recordSession, "AGUARDADA, de proposito": the row comes before the reply.)
BeingTerminated(j) == \E r \in Requests : At(r, "erase") /\ req[r].token = j

HeldIsListed ==
  \A d \in Devices :
    LET j == cookie[d] IN
      j # None /\ Live(j) => j \in rows \cup unlisted \/ BeingTerminated(j)

\* What the user terminated stays terminated: no late INSERT brings the row back
\* and nothing makes the token good again.  (users.js, DELETE /me/sessions/:jti.)
TerminatedStaysDead ==
  \A j \in terminated : j \in revoked /\ j \notin rows

\* Once a token is revoked and the refreshes that had already passed the check
\* are over, nothing is ever issued for it again, whichever way it was revoked
\* (rotation, logout or termination).
PastCheck(j) ==
  \E r \in Requests : req[r].pc \in {"load", "rotate"} /\ req[r].token = j

Issued(j) == {k \in Jtis : parent[k] = j}

NothingForRevoked ==
  [][\A j \in Jtis :
       j \in revoked /\ ~PastCheck(j) => ~PastCheck(j)' /\ Issued(j)' = Issued(j)]_vars

\* Every request is answered, unless the model has no jti left to give it.
Starved(r) == At(r, "rotate") /\ Minted = Jtis

EveryRequestAnswered ==
  \A r \in Requests : ~At(r, "idle") ~> At(r, "idle") \/ Starved(r)

\* The row of a token that was exchanged disappears from the user's list of
\* sessions, unless the background DELETE failed or died with the process.
ExchangedLeavesList ==
  \A j \in Jtis : Issued(j) # {} ~> j \notin rows \/ j \in unswept

\* auth.js, /refresh, "Revoke the used refresh token immediately (rotation -
\* one-time use)": a token is exchanged at most once.
OneTimeUse ==
  \A j, k \in Jtis : parent[j] # None /\ parent[j] = parent[k] => j = k

\* users.js, "list active sessions for the authenticated user": a row that is
\* listed stands for a token that still works, but for the time it takes to
\* remove it.
ListedIsActive ==
  \A j \in rows \ expired :
    j \notin revoked \/ j \in sweep \cup unswept \cup unlisted \/ BeingTerminated(j)
=============================================================================
