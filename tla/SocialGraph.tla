----------------------------- MODULE SocialGraph -----------------------------
(***************************************************************************)
(* Following in the MemoVoy API: the follow and follow-request routes of   *)
(* routes/users.js, notifyUser, and the follower badges of badges.js.      *)
(*                                                                         *)
(* Tables follows and follow_requests hold pairs <<fan, host>>.  Handlers  *)
(* are sequences of awaited single-statement queries, so they interleave   *)
(* between queries; each action below is one query with the code up to the *)
(* next one.  After the reply a slot goes on as the background check of    *)
(* the badges the handler leaves to emSegundoPlano.                        *)
(***************************************************************************)
EXTENDS Integers, FiniteSets

CONSTANTS
  Users,
  Pairs,       \* the <<fan, host>> pairs that make requests
  Requests,    \* slots for requests (and the background check each leaves)
  Milestones,  \* follower counts that earn a badge (1, 50 and 100 in the code)
  OneTab,      \* TRUE: a fan has one request about a host in flight at a time
  None,
  MaxAsks,     \* bounds how many request rows a pair may insert
  MaxMishaps   \* bounds failed queries and crashes

ASSUME PairsAssumption == Pairs \subseteq {p \in Users \X Users : p[1] # p[2]}

ASSUME BoundsAssumption ==
  /\ MaxAsks \in Nat
  /\ MaxMishaps \in Nat
  /\ Milestones \subseteq Nat
  /\ OneTab \in BOOLEAN
  /\ None \notin Pairs

VARIABLES
  private,     \* users.is_private
  follows,     \* table follows
  requests,    \* table follow_requests
  badges,      \* table user_badges: <<host, milestone>>
  req,         \* the requests being handled
  open,        \* history: accounts that have been public at some time
  approved,    \* history: pairs whose request the host has accepted
  asked,       \* history: how many request rows each pair has inserted
  acceptances, \* history: follow_accepted notifications inserted for each pair
  announced,   \* history: badge notifications inserted for each badge
  unannounced, \* history: badges whose notification failed or was cut short
  mishaps

tables  == <<private, follows, requests, badges>>
history == <<open, approved, asked, acceptances, announced, unannounced>>

vars == <<tables, req, history, mishaps>>

-----------------------------------------------------------------------------
PC == {"idle", "already", "ask", "join", "withdraw", "admit", "tell",
       "count", "award", "announce"}

News == {"none", "follow_request", "follow", "follow_accepted"}

Request == [pc     : PC,
            pair   : Pairs \cup {None},
            closed : BOOLEAN,            \* is_private as the SELECT saw it
            news   : News,               \* the notification to insert
            mark   : Milestones \cup {None}]

Idle == [pc |-> "idle", pair |-> None, closed |-> FALSE, news |-> "none",
         mark |-> None]

\* The accounts whose privacy some request depends on.
Hosts == {p[2] : p \in Pairs}

Badges == Hosts \X Milestones

At(r, p) == req[r].pc = p

Goto(r, p) == req' = [req EXCEPT ![r].pc = p]

End(r) == req' = [req EXCEPT ![r] = Idle]

Host(r) == req[r].pair[2]

Start(r, request) ==
  /\ At(r, "idle")
  /\ req' = [req EXCEPT ![r] = request]

Mishap ==
  /\ mishaps < MaxMishaps
  /\ mishaps' = mishaps + 1

\* The fan's own requests about the pair, up to their reply.
FanBusy(p) ==
  \E r \in Requests :
    /\ req[r].pair = p
    /\ \/ req[r].pc \in {"already", "ask", "join", "withdraw"}
       \/ At(r, "tell") /\ req[r].news # "follow_accepted"

FanFree(p) == OneTab => ~FanBusy(p)

Init ==
  /\ private \in SUBSET Hosts
  /\ follows = {}
  /\ requests = {}
  /\ badges = {}
  /\ req = [r \in Requests |-> Idle]
  /\ open = Hosts \ private
  /\ approved = {}
  /\ asked = [p \in Pairs |-> 0]
  /\ acceptances = [p \in Pairs |-> 0]
  /\ announced = [b \in Badges |-> 0]
  /\ unannounced = {}
  /\ mishaps = 0

-----------------------------------------------------------------------------
(* PATCH /users/me { isPrivate } *)

\* Pending requests of an account that opens are left as they are.
SetPrivate(u) ==
  /\ u \notin private
  /\ private' = private \cup {u}
  /\ UNCHANGED <<follows, requests, badges, req, history, mishaps>>

SetPublic(u) ==
  /\ u \in private
  /\ private' = private \ {u}
  /\ open' = open \cup {u}
  /\ UNCHANGED <<follows, requests, badges, req, approved, asked, acceptances,
                 announced, unannounced, mishaps>>

-----------------------------------------------------------------------------
(* POST /users/:id/follow *)

\* Mutant: the privacy that is read is the fan's own.
FollowStartOwnPrivacy(r, p) ==
  /\ FanFree(p)
  /\ Start(r, [Idle EXCEPT !.pc = "already", !.pair = p,
                           !.closed = p[1] \in private])
  /\ UNCHANGED <<tables, history, mishaps>>

\* SELECT is_private FROM users.
FollowStart(r, p) ==
  /\ FanFree(p)
  /\ Start(r, [Idle EXCEPT !.pc = "already", !.pair = p,
                           !.closed = p[2] \in private])
  /\ UNCHANGED <<tables, history, mishaps>>

\* Mutant: a pending request counts as following already.
CheckKnown(r) ==
  /\ At(r, "already")
  /\ LET waits == req[r].closed /\ req[r].pair \notin follows \cup requests
     IN req' = [req EXCEPT ![r].pc = IF waits THEN "ask" ELSE "join",
                           ![r].closed = FALSE]
  /\ UNCHANGED <<tables, history, mishaps>>

\* SELECT 1 FROM follows: to follow already takes precedence over privacy.
CheckFollowing(r) ==
  /\ At(r, "already")
  /\ LET waits == req[r].closed /\ req[r].pair \notin follows
     IN req' = [req EXCEPT ![r].pc = IF waits THEN "ask" ELSE "join",
                           ![r].closed = FALSE]
  /\ UNCHANGED <<tables, history, mishaps>>

\* INSERT INTO follow_requests ... ON CONFLICT DO NOTHING.
Ask(r) ==
  LET p == req[r].pair IN
  /\ At(r, "ask")
  /\ \/ p \in requests /\ UNCHANGED asked
     \/ /\ p \notin requests
        /\ asked[p] < MaxAsks
        /\ asked' = [asked EXCEPT ![p] = @ + 1]
  /\ requests' = requests \cup {p}
  /\ req' = [req EXCEPT ![r].pc = "tell", ![r].news = "follow_request"]
  /\ UNCHANGED <<private, follows, badges, open, approved, acceptances,
                 announced, unannounced, mishaps>>

\* INSERT INTO follows ... ON CONFLICT DO NOTHING.
Join(r) ==
  /\ At(r, "join")
  /\ follows' = follows \cup {req[r].pair}
  /\ req' = [req EXCEPT ![r].pc = "tell", ![r].news = "follow"]
  /\ UNCHANGED <<private, requests, badges, history, mishaps>>

\* notifyUser's INSERT INTO notifications; then the reply, and for a new
\* follower the background check.
Tell(r) ==
  /\ At(r, "tell")
  /\ IF req[r].news = "follow_request"
       THEN End(r)
       ELSE req' = [req EXCEPT ![r].pc = "count", ![r].news = "none"]
  /\ acceptances' = IF req[r].news = "follow_accepted"
                      THEN [acceptances EXCEPT ![req[r].pair] = @ + 1]
                      ELSE acceptances
  /\ UNCHANGED <<tables, open, approved, asked, announced, unannounced, mishaps>>

-----------------------------------------------------------------------------
(* DELETE /users/:id/follow *)

\* DELETE FROM follows.
UnfollowStart(r, p) ==
  /\ FanFree(p)
  /\ Start(r, [Idle EXCEPT !.pc = "withdraw", !.pair = p])
  /\ follows' = follows \ {p}
  /\ UNCHANGED <<private, requests, badges, history, mishaps>>

\* DELETE FROM follow_requests, then the reply.
Withdraw(r) ==
  /\ At(r, "withdraw")
  /\ requests' = requests \ {req[r].pair}
  /\ End(r)
  /\ UNCHANGED <<private, follows, badges, history, mishaps>>

-----------------------------------------------------------------------------
(* POST and DELETE /users/me/follow-requests/:requesterId *)

\* Mutant: the row count of the DELETE is not looked at.
AcceptAnyway(r, p) ==
  /\ Start(r, [Idle EXCEPT !.pc = "admit", !.pair = p])
  /\ requests' = requests \ {p}
  /\ approved' = approved \cup {p}
  /\ UNCHANGED <<private, follows, badges, open, asked, acceptances, announced,
                 unannounced, mishaps>>

\* DELETE FROM follow_requests: whoever deleted the row goes on; 404 otherwise.
AcceptStart(r, p) ==
  /\ p \in requests
  /\ Start(r, [Idle EXCEPT !.pc = "admit", !.pair = p])
  /\ requests' = requests \ {p}
  /\ approved' = approved \cup {p}
  /\ UNCHANGED <<private, follows, badges, open, asked, acceptances, announced,
                 unannounced, mishaps>>

\* INSERT INTO follows ... ON CONFLICT DO NOTHING.
Admit(r) ==
  /\ At(r, "admit")
  /\ follows' = follows \cup {req[r].pair}
  /\ req' = [req EXCEPT ![r].pc = "tell", ![r].news = "follow_accepted"]
  /\ UNCHANGED <<private, requests, badges, history, mishaps>>

\* A single DELETE, and nobody is told.
Decline(p) ==
  /\ p \in requests
  /\ requests' = requests \ {p}
  /\ UNCHANGED <<private, follows, badges, req, history, mishaps>>

-----------------------------------------------------------------------------
(* checkFirstFollower and awardBadge, in the background *)

Followers(u) == {p \in follows : p[2] = u}

\* Mutant: any count goes on to the award.
CountAnything(r) ==
  /\ At(r, "count")
  /\ Goto(r, "award")
  /\ UNCHANGED <<tables, history, mishaps>>

\* SELECT COUNT(*) FROM follows: only a count that hits a milestone exactly
\* awards its badge.
Count(r) ==
  LET n == Cardinality(Followers(Host(r))) IN
  /\ At(r, "count")
  /\ IF n \in Milestones
       THEN req' = [req EXCEPT ![r].pc = "award", ![r].mark = n]
       ELSE End(r)
  /\ UNCHANGED <<tables, history, mishaps>>

\* Mutant: the row count of the INSERT is not looked at.
AwardAgain(r) ==
  /\ At(r, "award")
  /\ badges' = badges \cup {<<Host(r), req[r].mark>>}
  /\ Goto(r, "announce")
  /\ UNCHANGED <<private, follows, requests, history, mishaps>>

\* INSERT INTO user_badges ... ON CONFLICT DO NOTHING; only who inserted goes on.
Award(r) ==
  LET b == <<Host(r), req[r].mark>> IN
  /\ At(r, "award")
  /\ badges' = badges \cup {b}
  /\ IF b \in badges THEN End(r) ELSE Goto(r, "announce")
  /\ UNCHANGED <<private, follows, requests, history, mishaps>>

\* INSERT INTO notifications.
Announce(r) ==
  /\ At(r, "announce")
  /\ announced' = [announced EXCEPT ![<<Host(r), req[r].mark>>] = @ + 1]
  /\ End(r)
  /\ UNCHANGED <<tables, open, approved, asked, acceptances, unannounced,
                 mishaps>>

-----------------------------------------------------------------------------
(* Failures *)

\* The badge the slot was about to announce.
Unsaid(r) == IF At(r, "announce") THEN {<<Host(r), req[r].mark>>} ELSE {}

\* A query fails: 500 (or silence, in the background) and the handler stops where
\* it was.  What the earlier queries wrote stays written.
QueryFails(r) ==
  /\ ~At(r, "idle")
  /\ End(r)
  /\ unannounced' = unannounced \cup Unsaid(r)
  /\ Mishap
  /\ UNCHANGED <<tables, open, approved, asked, acceptances, announced>>

\* The process dies, with everything it was doing.
Crash ==
  /\ Mishap
  /\ req' = [r \in Requests |-> Idle]
  /\ unannounced' = unannounced \cup UNION {Unsaid(r) : r \in Requests}
  /\ UNCHANGED <<tables, open, approved, asked, acceptances, announced>>

-----------------------------------------------------------------------------
Serve(r) ==
  \/ CheckFollowing(r) \/ Ask(r) \/ Join(r) \/ Tell(r)
  \/ Withdraw(r) \/ Admit(r)
  \/ Count(r) \/ Award(r) \/ Announce(r)

Arrive(r) ==
  \E p \in Pairs : FollowStart(r, p) \/ UnfollowStart(r, p) \/ AcceptStart(r, p)

Next ==
  \/ \E r \in Requests : Serve(r) \/ Arrive(r) \/ QueryFails(r)
  \/ \E p \in Pairs : Decline(p)
  \/ \E u \in Hosts : SetPrivate(u) \/ SetPublic(u)
  \/ Crash

Spec == Init /\ [][Next]_vars

-----------------------------------------------------------------------------
(* Properties *)

Counter == [Pairs -> Nat]

\* A slot carries what its next query needs.
Equipped(q) ==
  /\ q.pc # "idle" => q.pair \in Pairs
  /\ q.pc = "tell" => q.news # "none"
  /\ q.pc \in {"award", "announce"} => q.mark \in Milestones

TypeOK ==
  /\ private \subseteq Hosts
  /\ follows \subseteq Pairs
  /\ requests \subseteq Pairs
  /\ badges \subseteq Badges
  /\ req \in [Requests -> Request]
  /\ \A r \in Requests : Equipped(req[r])
  /\ open \subseteq Hosts
  /\ approved \subseteq Pairs
  /\ asked \in Counter
  /\ acceptances \in Counter
  /\ announced \in [Badges -> Nat]
  /\ unannounced \subseteq Badges
  /\ mishaps \in 0..MaxMishaps

\* autorVisivel: whose content a viewer is shown.
Visible(host, viewer) ==
  host \notin private \/ host = viewer \/ <<viewer, host>> \in follows

\* Let in by what was read or deleted already: the account was public when it was
\* read, the pair followed when that was read, or a request was accepted.
Entering(p) ==
  \E r \in Requests :
    /\ req[r].pair = p
    /\ \/ req[r].pc \in {"join", "admit"}
       \/ At(r, "already") /\ ~req[r].closed

ShutOut(p) == ~Visible(p[2], p[1]) /\ ~Entering(p)

\* Whom a private account keeps out stays out until the account opens or accepts a
\* request of his that is waiting, however follows, acceptances, withdrawals, privacy
\* changes and failures interleave.  That the account was open in the past lets
\* nobody in, except for a request that had read it by then.
\* (db/visibilidade.js, autorVisivel; users.js, POST /:id/follow.  The note above
\* autorVisivel still says that to follow "e imediato e nao precisa de aprovacao [...]
\* mesmo que a conta seja privada": the handler files a request instead.)
Accepted(p) ==
  /\ p \in requests
  /\ \E r \in Requests : At(r, "idle") /\ At(r, "admit")' /\ req'[r].pair = p

ConsentedAccess ==
  [][\A p \in Pairs :
       ShutOut(p) => ShutOut(p)' \/ p[2] \notin private' \/ Accepted(p)]_vars

\* Accepting moves a request: each row ends in one acceptance at most, so two taps
\* cannot notify the fan twice.  (users.js, accept: "dois toques no botao ... so
\* podem aceitar uma vez".)
Admitting(p) ==
  {r \in Requests :
     /\ req[r].pair = p
     /\ \/ At(r, "admit")
        \/ At(r, "tell") /\ req[r].news = "follow_accepted"}

AcceptedOnce ==
  \A p \in Pairs :
    acceptances[p] + Cardinality(Admitting(p)) + Cardinality(requests \cap {p})
      <= asked[p]

\* A badge is announced exactly once, however many background checks award it at
\* the same time, unless the announcement failed.  (badges.js, awardBadge:
\* "No-op if already awarded. Creates a notification if new.")
Announcing(b) == {r \in Requests : b \in Unsaid(r)}

AnnouncedOnce ==
  \A b \in Badges :
    announced[b] + Cardinality(Announcing(b)) + Cardinality(unannounced \cap {b})
      = IF b \in badges THEN 1 ELSE 0

\* The implementation of Consent: a request that is being accepted has left its
\* table and still counts as asked until its row is in follows.
Granted == {req[r].pair : r \in {s \in Requests : At(s, "admit")}}

Promise == INSTANCE Consent WITH asking <- requests \cup Granted,
                                 following <- follows

RefinesConsent == Promise!Spec

\* users.js, DELETE /:id/follow, "o mesmo botao serve para retirar um pedido ainda
\* por responder": when it answers ok, the fan neither follows nor is waiting to.
WithdrawalHolds ==
  [][\A r \in Requests :
       Withdraw(r) => req[r].pair \notin follows' \cup requests']_vars
=============================================================================
