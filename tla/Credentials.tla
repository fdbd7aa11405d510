---------------------------- MODULE Credentials ----------------------------
(***************************************************************************)
(* What an account is opened with: the password, the lock after failed     *)
(* attempts, the links sent by e-mail and the second factor (routes/auth.js *)
(* of the MemoVoy API, up to the point where Sessions.IssueSession begins). *)
(*                                                                         *)
(* All of it is one row of table users.  Every handler reads the row, works *)
(* on what it read (hashing a password takes tens of milliseconds) and     *)
(* writes some columns back by id, whatever the row has become by then.     *)
(* Handlers that answer without writing are left out: they change nothing.  *)
(***************************************************************************)
EXTENDS Naturals

CONSTANTS
  Passwords,   \* the passwords the owner of the address thinks of
  Links,       \* the random tokens that may be drawn for links
  Secrets,     \* the random TOTP secrets that may be drawn
  Requests,    \* slots for requests the server handles at the same time
  MaxAttempts, \* MAX_ATTEMPTS, 5 in the code
  MaxAccounts, \* bounds how often the address is registered
  MaxAsks,     \* bounds the requests that are made
  None         \* "no password", "no link", "no secret"

ASSUME NoneAssumption == None \notin Passwords \cup Links \cup Secrets

ASSUME BoundsAssumption ==
  MaxAttempts \in Nat \ {0} /\ MaxAccounts \in Nat \ {0} /\ MaxAsks \in Nat

VARIABLES
  user,     \* the row of the address in table users; id 0 stands for no row
  req,      \* the requests being handled
  rehash,   \* [id, password]: background rehashes that have not written yet
  ids,      \* how many accounts the address has had
  mailed,   \* links that went out by e-mail
  shown,    \* secrets an answer has shown to the user
  asked,    \* how many requests were made
  chosen,   \* history: the password last chosen for the account
  wrong,    \* history: wrong passwords judged since the account was last unlocked
  latest,   \* history: the last reset and the last verification link written
  resets,   \* history: [link |-> how many passwords were set through it]
  proved,   \* history: secrets for which a right code was given
  overlaps  \* history: which kinds of handlers have overlapped

outside == <<ids, mailed, shown>>
history == <<chosen, wrong, latest, resets, proved, overlaps>>

vars == <<user, req, rehash, outside, asked, history>>

-----------------------------------------------------------------------------
(* The row and the requests *)

Scheme == {"bcrypt", "argon2"}

Row == [id           : 0..MaxAccounts,
        password     : Passwords \cup {None},
        scheme       : Scheme,
        attempts     : Nat,                  \* failed_login_attempts
        locked       : BOOLEAN,              \* locked_until > now
        reset        : Links \cup {None},    \* reset_token, if not expired
        verification : Links \cup {None},    \* verification_token, if not expired
        verified     : BOOLEAN,              \* email_verified
        secret       : Secrets \cup {None},  \* totp_secret
        enabled      : BOOLEAN]              \* totp_enabled

NoRow == [id |-> 0, password |-> None, scheme |-> "argon2", attempts |-> 0,
          locked |-> FALSE, reset |-> None, verification |-> None,
          verified |-> FALSE, secret |-> None, enabled |-> FALSE]

\* An account as old as bcrypt, with its e-mail verified.
Legacy(p) == [NoRow EXCEPT !.id = 1, !.password = p, !.scheme = "bcrypt",
                           !.verified = TRUE]

\* The query a request will issue next.
PC == {"idle", "insert", "count", "welcome", "change", "link", "reset",
       "resend", "verify", "setup", "enable", "disable"}

Request == [pc     : PC,
            id     : 0..MaxAccounts,          \* the row that was read
            tries  : Nat,                     \* attempts read, plus one
            old    : BOOLEAN,                 \* the hash read was bcrypt's
            chosen : Passwords \cup {None},   \* the password to be written
            link   : Links \cup {None}]       \* the link that was presented

Idle == [pc |-> "idle", id |-> 0, tries |-> 0, old |-> FALSE, chosen |-> None,
         link |-> None]

Exists == user.id # 0

\* The row is still the one the request has read: UPDATE ... WHERE id = $n.
Same(r) == user.id = req[r].id

\* Some request is about to issue one of these queries.
Busy(queries) == \E r \in Requests : req[r].pc \in queries

Start(r, request) ==
  /\ req[r].pc = "idle"
  /\ asked < MaxAsks
  /\ asked' = asked + 1
  /\ req' = [req EXCEPT ![r] = request]

Finish(r, query) ==
  /\ req[r].pc = query
  /\ req' = [req EXCEPT ![r] = Idle]

Overlap(kind, queries) ==
  overlaps' = IF Busy(queries) THEN overlaps \cup {kind} ELSE overlaps

\* crypto.randomBytes: a token that was never drawn, whichever it is.
FreshLink == CHOOSE l \in Links : l \notin mailed

CanDraw == Links \ mailed # {}

Init ==
  /\ user \in {NoRow} \cup {Legacy(p) : p \in Passwords}
  /\ req = [r \in Requests |-> Idle]
  /\ rehash = {}
  /\ ids = user.id
  /\ mailed = {}
  /\ shown = {}
  /\ asked = 0
  /\ chosen = user.password
  /\ wrong = 0
  /\ latest = [reset |-> None, verification |-> None]
  /\ resets = [l \in Links |-> 0]
  /\ proved = {}
  /\ overlaps = {}

-----------------------------------------------------------------------------
(* POST /auth/register *)

\* The address is looked up after the password was hashed.
RegisterRead(r, p) ==
  /\ ~Exists
  /\ Start(r, [Idle EXCEPT !.pc = "insert", !.chosen = p])
  /\ UNCHANGED <<user, rehash, outside, history>>

\* Mutant: an upsert, so that a second registration takes the first one over.
RegisterInsertAnyway(r) ==
  /\ Finish(r, "insert")
  /\ CanDraw /\ ids < MaxAccounts
  /\ ids' = ids + 1
  /\ user' = [NoRow EXCEPT !.id = ids + 1, !.password = req[r].chosen,
                           !.verification = FreshLink]
  /\ mailed' = mailed \cup {FreshLink}
  /\ chosen' = IF Exists THEN chosen ELSE req[r].chosen
  /\ latest' = [latest EXCEPT !.verification = FreshLink]
  /\ UNCHANGED <<rehash, shown, asked, wrong, resets, proved, overlaps>>

\* INSERT INTO users, and the verification link goes out.  The address is unique:
\* whoever comes second gets an error.
RegisterInsert(r) ==
  /\ Finish(r, "insert")
  /\ IF Exists
       THEN UNCHANGED <<user, outside, history>>
       ELSE /\ CanDraw /\ ids < MaxAccounts
            /\ ids' = ids + 1
            /\ user' = [NoRow EXCEPT !.id = ids + 1, !.password = req[r].chosen,
                                     !.verification = FreshLink]
            /\ mailed' = mailed \cup {FreshLink}
            /\ chosen' = req[r].chosen
            /\ wrong' = 0
            /\ latest' = [latest EXCEPT !.verification = FreshLink]
            /\ UNCHANGED <<shown, resets, proved, overlaps>>
  /\ UNCHANGED <<rehash, asked>>

-----------------------------------------------------------------------------
(* POST /auth/login *)

\* The queries of handlers that write the counter of failed attempts.
Counting == {"count", "welcome", "reset"}

\* SELECT * FROM users; a locked account is answered here.  The password is
\* compared with the hash that was read.
LoginRead(r, p) ==
  /\ Exists /\ ~user.locked
  /\ Start(r, [Idle EXCEPT !.pc = IF p = user.password THEN "welcome" ELSE "count",
                           !.id = user.id, !.tries = user.attempts + 1,
                           !.old = user.scheme = "bcrypt", !.chosen = p])
  /\ Overlap("login", Counting)
  /\ UNCHANGED <<user, rehash, outside, chosen, wrong, latest, resets, proved>>

\* Mutant: the account is locked one attempt too late.
LoginCountLate(r) ==
  /\ Finish(r, "count")
  /\ user' = IF Same(r) THEN [user EXCEPT !.attempts = req[r].tries,
                                          !.locked = @ \/ req[r].tries > MaxAttempts]
                        ELSE user
  /\ wrong' = IF Same(r) THEN wrong + 1 ELSE wrong
  /\ UNCHANGED <<rehash, outside, asked, chosen, latest, resets, proved, overlaps>>

\* A wrong password: the counter is written as read, plus one, and the account is
\* locked when that is enough.
LoginCount(r) ==
  /\ Finish(r, "count")
  /\ user' = IF Same(r) THEN [user EXCEPT !.attempts = req[r].tries,
                                          !.locked = @ \/ req[r].tries >= MaxAttempts]
                        ELSE user
  /\ wrong' = IF Same(r) THEN wrong + 1 ELSE wrong
  /\ UNCHANGED <<rehash, outside, asked, chosen, latest, resets, proved, overlaps>>

\* The right password: the counter is cleared, an old hash is replaced in the
\* background, and the session (or the question for the code) follows.
LoginWelcome(r) ==
  /\ Finish(r, "welcome")
  /\ user' = IF Same(r) THEN [user EXCEPT !.attempts = 0, !.locked = FALSE] ELSE user
  /\ wrong' = IF Same(r) THEN 0 ELSE wrong
  /\ rehash' = IF req[r].old
                 THEN rehash \cup {[id |-> req[r].id, password |-> req[r].chosen]}
                 ELSE rehash
  /\ UNCHANGED <<outside, asked, chosen, latest, resets, proved, overlaps>>

\* Mutant: what is written is the pending hash and not its result.
RehashWritePending(h) ==
  /\ h \in rehash
  /\ rehash' = rehash \ {h}
  /\ user' = [user EXCEPT !.password = h, !.scheme = "argon2"]
  /\ UNCHANGED <<req, outside, asked, history>>

\* hashPassword(password).then(UPDATE users SET password_hash).
RehashWrite(h) ==
  /\ h \in rehash
  /\ rehash' = rehash \ {h}
  /\ user' = IF user.id = h.id
               THEN [user EXCEPT !.password = h.password, !.scheme = "argon2"]
               ELSE user
  /\ UNCHANGED <<req, outside, asked, history>>

\* Its failure is swallowed.
RehashFails(h) ==
  /\ h \in rehash
  /\ rehash' = rehash \ {h}
  /\ UNCHANGED <<user, req, outside, asked, history>>

-----------------------------------------------------------------------------
(* POST /auth/change-password, /auth/forgot-password, /auth/reset-password *)

\* A rehash of the current password is under way, or a login will start one.
Migrating ==
  \/ \E h \in rehash : h.id = user.id
  \/ \E r \in Requests : req[r].pc = "welcome" /\ req[r].old /\ Same(r)

\* What every handler that sets password p does to the history.
Chosen(p) ==
  /\ chosen' = p
  /\ overlaps' = IF Migrating THEN overlaps \cup {"rehash"} ELSE overlaps

\* The current password was right when it was read.
ChangeRead(r, p, q) ==
  /\ Exists /\ p = user.password
  /\ Start(r, [Idle EXCEPT !.pc = "change", !.id = user.id, !.chosen = q])
  /\ UNCHANGED <<user, rehash, outside, history>>

ChangeWrite(r) ==
  /\ Finish(r, "change")
  /\ IF Same(r)
       THEN /\ user' = [user EXCEPT !.password = req[r].chosen, !.scheme = "argon2"]
            /\ Chosen(req[r].chosen)
       ELSE UNCHANGED <<user, chosen, overlaps>>
  /\ UNCHANGED <<rehash, outside, asked, wrong, latest, resets, proved>>

\* An address without an account is answered like any other.
ForgotRead(r) ==
  /\ Exists
  /\ Start(r, [Idle EXCEPT !.pc = "link", !.id = user.id])
  /\ UNCHANGED <<user, rehash, outside, history>>

\* Mutant: a link that is still good is not replaced, but the new one is sent.
ForgotWriteKeeping(r) ==
  /\ Finish(r, "link")
  /\ CanDraw
  /\ user' = IF Same(r) /\ user.reset = None
               THEN [user EXCEPT !.reset = FreshLink] ELSE user
  /\ latest' = IF Same(r) THEN [latest EXCEPT !.reset = FreshLink] ELSE latest
  /\ mailed' = mailed \cup {FreshLink}
  /\ Overlap("link", {"reset"})
  /\ UNCHANGED <<rehash, ids, shown, asked, chosen, wrong, resets, proved>>

\* UPDATE users SET reset_token, and the link goes out.
ForgotWrite(r) ==
  /\ Finish(r, "link")
  /\ CanDraw
  /\ user' = IF Same(r) THEN [user EXCEPT !.reset = FreshLink] ELSE user
  /\ latest' = IF Same(r) THEN [latest EXCEPT !.reset = FreshLink] ELSE latest
  /\ mailed' = mailed \cup {FreshLink}
  /\ Overlap("link", {"reset"})
  /\ UNCHANGED <<rehash, ids, shown, asked, chosen, wrong, resets, proved>>

\* The link is looked up, then the new password is hashed.
ResetRead(r, l, p) ==
  /\ Exists /\ l \in mailed /\ l = user.reset
  /\ Start(r, [Idle EXCEPT !.pc = "reset", !.id = user.id, !.chosen = p, !.link = l])
  /\ Overlap("login", Counting)
  /\ UNCHANGED <<user, rehash, outside, chosen, wrong, latest, resets, proved>>

\* Mutant: the link is left good.
ResetWriteKeepingLink(r) ==
  /\ Finish(r, "reset")
  /\ IF Same(r)
       THEN /\ user' = [user EXCEPT !.password = req[r].chosen, !.scheme = "argon2",
                                    !.attempts = 0, !.locked = FALSE]
            /\ Chosen(req[r].chosen)
            /\ wrong' = 0
            /\ resets' = [resets EXCEPT ![req[r].link] = @ + 1]
       ELSE UNCHANGED <<user, chosen, overlaps, wrong, resets>>
  /\ UNCHANGED <<rehash, outside, asked, latest, proved>>

\* UPDATE users by id: the password is set, the link is gone, whichever it is by
\* now, and the account is unlocked.
ResetWrite(r) ==
  /\ Finish(r, "reset")
  /\ IF Same(r)
       THEN /\ user' = [user EXCEPT !.password = req[r].chosen, !.scheme = "argon2",
                                    !.reset = None, !.attempts = 0, !.locked = FALSE]
            /\ Chosen(req[r].chosen)
            /\ wrong' = 0
            /\ resets' = [resets EXCEPT ![req[r].link] = @ + 1]
       ELSE UNCHANGED <<user, chosen, overlaps, wrong, resets>>
  /\ UNCHANGED <<rehash, outside, asked, latest, proved>>

-----------------------------------------------------------------------------
(* POST /auth/resend-verification, GET /auth/verify-email *)

ResendRead(r) ==
  /\ Exists /\ ~user.verified
  /\ Start(r, [Idle EXCEPT !.pc = "resend", !.id = user.id])
  /\ UNCHANGED <<user, rehash, outside, history>>

ResendWrite(r) ==
  /\ Finish(r, "resend")
  /\ CanDraw
  /\ user' = IF Same(r) THEN [user EXCEPT !.verification = FreshLink] ELSE user
  /\ latest' = IF Same(r) THEN [latest EXCEPT !.verification = FreshLink] ELSE latest
  /\ mailed' = mailed \cup {FreshLink}
  /\ UNCHANGED <<rehash, ids, shown, asked, chosen, wrong, resets, proved, overlaps>>

VerifyRead(r, l) ==
  /\ Exists /\ l \in mailed /\ l = user.verification /\ ~user.verified
  /\ Start(r, [Idle EXCEPT !.pc = "verify", !.id = user.id])
  /\ UNCHANGED <<user, rehash, outside, history>>

VerifyWrite(r) ==
  /\ Finish(r, "verify")
  /\ user' = IF Same(r) THEN [user EXCEPT !.verified = TRUE, !.verification = None]
                        ELSE user
  /\ UNCHANGED <<rehash, outside, asked, history>>

-----------------------------------------------------------------------------
(* The second factor *)

SetupRead(r) ==
  /\ Exists
  /\ Start(r, [Idle EXCEPT !.pc = "setup", !.id = user.id])
  /\ UNCHANGED <<user, rehash, outside, history>>

\* generateTotpSecret, UPDATE users, and the answer shows the secret.  A second
\* factor that was on is off until the new one is confirmed.
SetupWrite(r, s) ==
  /\ s \notin shown
  /\ Finish(r, "setup")
  /\ user' = IF Same(r) THEN [user EXCEPT !.secret = s, !.enabled = FALSE] ELSE user
  /\ shown' = shown \cup {s}
  /\ Overlap("setup", {"enable"})
  /\ UNCHANGED <<rehash, ids, mailed, asked, chosen, wrong, latest, resets, proved>>

\* Mutant: the code is not compared with the secret.
ConfirmReadUnchecked(r, s) ==
  /\ Exists /\ s \in shown
  /\ user.secret # None /\ ~user.enabled
  /\ Start(r, [Idle EXCEPT !.pc = "enable", !.id = user.id])
  /\ proved' = proved \cup {s}
  /\ UNCHANGED <<user, rehash, outside, chosen, wrong, latest, resets, overlaps>>

\* A code for secret s, which has to be the one in the row.
ConfirmRead(r, s) ==
  /\ Exists /\ s \in shown
  /\ user.secret = s /\ ~user.enabled
  /\ Start(r, [Idle EXCEPT !.pc = "enable", !.id = user.id])
  /\ proved' = proved \cup {s}
  /\ UNCHANGED <<user, rehash, outside, chosen, wrong, latest, resets, overlaps>>

\* UPDATE users SET totp_enabled = TRUE, whatever the secret is by now.
ConfirmWrite(r) ==
  /\ Finish(r, "enable")
  /\ user' = IF Same(r) THEN [user EXCEPT !.enabled = TRUE] ELSE user
  /\ UNCHANGED <<rehash, outside, asked, history>>

DisableRead(r, s) ==
  /\ Exists /\ s \in shown
  /\ user.enabled /\ user.secret = s
  /\ Start(r, [Idle EXCEPT !.pc = "disable", !.id = user.id])
  /\ UNCHANGED <<user, rehash, outside, history>>

DisableWrite(r) ==
  /\ Finish(r, "disable")
  /\ user' = IF Same(r) THEN [user EXCEPT !.secret = None, !.enabled = FALSE] ELSE user
  /\ Overlap("setup", {"enable"})
  /\ UNCHANGED <<rehash, outside, asked, chosen, wrong, latest, resets, proved>>

-----------------------------------------------------------------------------
(* The environment *)

\* Fifteen minutes: locked_until is in the past, the counter stays.
LockExpires ==
  /\ user.locked
  /\ user' = [user EXCEPT !.locked = FALSE]
  /\ wrong' = 0
  /\ UNCHANGED <<req, rehash, outside, asked, chosen, latest, resets, proved, overlaps>>

\* An hour, or a day: the link that was sent last is good no more.
LinkExpires ==
  /\ \/ /\ user.reset # None
        /\ user' = [user EXCEPT !.reset = None]
        /\ latest' = [latest EXCEPT !.reset = None]
     \/ /\ user.verification # None
        /\ user' = [user EXCEPT !.verification = None]
        /\ latest' = [latest EXCEPT !.verification = None]
  /\ UNCHANGED <<req, rehash, outside, asked, chosen, wrong, resets, proved, overlaps>>

\* DELETE /users/me.
DeleteAccount ==
  /\ Exists
  /\ asked < MaxAsks
  /\ asked' = asked + 1
  /\ user' = NoRow
  /\ chosen' = None
  /\ wrong' = 0
  /\ latest' = [reset |-> None, verification |-> None]
  /\ UNCHANGED <<req, rehash, outside, resets, proved, overlaps>>

\* A query fails, and the handler with it.
RequestFails(r) ==
  /\ req[r].pc # "idle"
  /\ req' = [req EXCEPT ![r] = Idle]
  /\ UNCHANGED <<user, rehash, outside, asked, history>>

Crash ==
  /\ req' = [r \in Requests |-> Idle]
  /\ rehash' = {}
  /\ UNCHANGED <<user, outside, asked, history>>

-----------------------------------------------------------------------------
(* The specification *)

Ask(r) ==
  \/ \E p \in Passwords : RegisterRead(r, p) \/ LoginRead(r, p)
  \/ \E p, q \in Passwords : ChangeRead(r, p, q)
  \/ ForgotRead(r) \/ ResendRead(r) \/ SetupRead(r)
  \/ \E l \in Links : VerifyRead(r, l) \/ \E p \in Passwords : ResetRead(r, l, p)
  \/ \E s \in Secrets : ConfirmRead(r, s) \/ DisableRead(r, s)

Serve(r) ==
  \/ RegisterInsert(r) \/ LoginCount(r) \/ LoginWelcome(r) \/ ChangeWrite(r)
  \/ ForgotWrite(r) \/ ResetWrite(r) \/ ResendWrite(r) \/ VerifyWrite(r)
  \/ \E s \in Secrets : SetupWrite(r, s)
  \/ ConfirmWrite(r) \/ DisableWrite(r)

Next ==
  \/ \E r \in Requests : Ask(r) \/ Serve(r) \/ RequestFails(r)
  \/ \E h \in rehash : RehashWrite(h) \/ RehashFails(h)
  \/ LockExpires \/ LinkExpires \/ DeleteAccount \/ Crash

Spec == Init /\ [][Next]_vars

-----------------------------------------------------------------------------
(* Properties *)

TypeOK ==
  /\ user \in Row
  /\ req \in [Requests -> Request]
  /\ rehash \subseteq [id : 1..MaxAccounts, password : Passwords]
  /\ ids \in 0..MaxAccounts
  /\ mailed \subseteq Links
  /\ shown \subseteq Secrets
  /\ asked \in 0..MaxAsks
  /\ chosen \in Passwords \cup {None}
  /\ wrong \in Nat
  /\ latest \in [reset : Links \cup {None}, verification : Links \cup {None}]
  /\ resets \in [Links -> Nat]
  /\ proved \subseteq Secrets
  /\ overlaps \subseteq {"login", "rehash", "link", "setup"}

\* The password that works is the one chosen last, whether by registering, by
\* changing it or by a link, and whatever happened to its hash meanwhile; only a
\* migration of the hash that was already under way when it was chosen may undo
\* it.  (auth.js, /login: the rehash writes what was typed, when it is done.)
PasswordIsChosen ==
  user.password = chosen \/ "rehash" \in overlaps

\* As many wrong passwords in a row as MAX_ATTEMPTS lock the account, as long as
\* no two handlers that write the counter overlap.  (auth.js, /login: the counter
\* is read, incremented in memory and written back, and outlives the lock.)
WrongPasswordsLock ==
  "login" \notin overlaps =>
    wrong <= MaxAttempts /\ (wrong = MaxAttempts => user.locked)

\* The last link that was sent works until it is used or expires, unless it was
\* sent while an older one was being used.  (auth.js, /reset-password: the UPDATE
\* goes by id and clears whatever token the row has.)
SpentReset == latest.reset # None /\ resets[latest.reset] > 0

LastLinkWorks ==
  /\ latest.reset # None /\ ~SpentReset /\ "link" \notin overlaps
       => user.reset = latest.reset
  /\ latest.verification # None /\ ~user.verified
       => user.verification = latest.verification

\* A second factor that is asked for is one the user has shown to be able to
\* answer, unless a set-up (or a removal) ran through its confirmation.
\* (auth.js, /2fa/confirm: the UPDATE does not say which secret was verified.)
AnswerableFactor ==
  user.enabled /\ "setup" \notin overlaps => user.secret \in proved

\* A link that was used, replaced or has expired sets no password any more, but
\* for the uses that had looked it up by then.
LookedUp(l) == \E r \in Requests : req[r].pc = "reset" /\ req[r].link = l

DeadLinkStaysDead ==
  [][\A l \in mailed :
       (l # latest.reset \/ resets[l] > 0) /\ ~LookedUp(l)
         => ~LookedUp(l)' /\ resets'[l] = resets[l]]_vars
=============================================================================
