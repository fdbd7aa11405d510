---------------------------- MODULE ProfilePage ----------------------------
(***************************************************************************)
(* The page of a profile (app/(app)/profile/[userId]/page.tsx) and what it *)
(* asks of routes/users.js and routes/map.js: the tie between who looks    *)
(* and whose profile it is, the button that changes it, and the contents   *)
(* that are fetched once the page knows that they may be seen.  Whose      *)
(* profile it is (the host) answers requests, hides the account, publishes *)
(* and hides trips meanwhile.  What the button does to the tables step by  *)
(* step is in SocialGraph; here it is what the page makes of it.           *)
(***************************************************************************)
EXTENDS Naturals, FiniteSets

CONSTANTS
  Trips,     \* of the host, each with a country, a post and a check-in of its own
  Over,      \* those that have ended
  MaxActs    \* bounds what is pressed, opened and done meanwhile, and what fails

Lists == {"itineraries", "map", "stats"}
Dates == {"posts", "checkins"}
Parts == Lists \cup Dates

VARIABLES
  own,       \* it is one's own profile
  host,      \* [private, shares, public -> trips]: users and itineraries
  tie,       \* [follows, requested]: the rows of follows and follow_requests
  page,      \* the cached profile: [private, follows, requested]
  query,     \* GET /users/:id on its way
  press,     \* the request of the button on its way, with what the button said
  seen,      \* [part the page has -> the trips it tells of]
  fetch,     \* GET of a part on its way
  acts,
  stale,     \* history: what changed since the page read it, not by the page
  slips      \* history: what should not have happened

vars == <<own, host, tie, page, query, press, seen, fetch, acts, stale, slips>>

-----------------------------------------------------------------------------
NoQuery == [pc |-> "idle", reply |-> <<>>]
Asked   == [NoQuery EXCEPT !.pc = "asked"]
NoPress == [pc |-> "idle", said |-> "nothing", sure |-> FALSE]
NoFetch == [pc |-> "idle", part |-> "posts", reply |-> {}, sure |-> FALSE]

Act == acts < MaxActs /\ acts' = acts + 1

\* Nothing is under way and nothing changed since: the page knows the tie.
Sure == press.pc = "idle" /\ query.pc = "idle" /\ "tie" \notin stale

\* GET /users/:id: the profile, with EXISTS over the two tables.
Profile == [private |-> host.private, follows |-> tie.follows, requested |-> tie.requested]

\* podeVerConteudo: what the page believes.
MaySee == own \/ ~page.private \/ page.follows

\* autorVisivel: what the server decides.
Visible == own \/ ~host.private \/ tie.follows

\* datasVisiveis: a trip that has ended is a story, one to come is a whereabouts.
DatesShown(t) == t \in Over \/ host.shares \/ own \/ tie.follows

\* What each part answers, once the account is visible: the trips it tells of.
Itineraries == {t \in Trips : t \in host.public \/ own}
Mine        == Trips
OnTheMap    == host.public
Counted     == {t \in Trips : t \in host.public \/ own}
Dated       == {t \in Trips : DatesShown(t)}
CheckedIn   == {t \in Trips : DatesShown(t)}

Reply(p) ==
  CASE p = "itineraries" -> Itineraries
    [] p = "map"         -> IF own THEN Mine ELSE OnTheMap
    [] p = "stats"       -> Counted
    [] p = "posts"       -> Dated
    [] p = "checkins"    -> CheckedIn

\* The page has been opened; somebody's request may be waiting, public account or not:
\* the host may have opened it since.
Init ==
  /\ own \in BOOLEAN
  /\ host \in [private : BOOLEAN, shares : {FALSE}, public : {Over}]
  /\ tie \in {[follows |-> FALSE, requested |-> FALSE], [follows |-> TRUE, requested |-> FALSE],
              [follows |-> FALSE, requested |-> TRUE]}
  /\ own => ~tie.follows /\ ~tie.requested
  /\ page = Profile
  /\ query = NoQuery
  /\ press = NoPress
  /\ seen = [p \in {} |-> {}]
  /\ fetch = NoFetch
  /\ acts = 0
  /\ stale = {}
  /\ slips = {}

-----------------------------------------------------------------------------
(* The button *)

\* The text of the button and what it does are both taken from the cached profile; the
\* button is disabled while a request of it is on its way.
Press ==
  /\ ~own /\ press.pc = "idle"
  /\ Act
  /\ press' = [pc |-> "sent", sure |-> Sure,
               said |-> IF page.follows THEN "following"
                        ELSE IF page.requested THEN "requested" ELSE "follow"]
  /\ UNCHANGED <<own, host, tie, page, query, seen, fetch, stale, slips>>

\* From here on what was asked of the server on the ground of the old tie may be refused.
Unsure == [fetch EXCEPT !.sure = FALSE]

\* POST: a private account is asked, any other followed.
Follow ==
  /\ press.pc = "sent" /\ press.said = "follow"
  /\ tie' = IF host.private /\ ~tie.follows
              THEN [tie EXCEPT !.requested = TRUE] ELSE [tie EXCEPT !.follows = TRUE]
  /\ press' = [press EXCEPT !.pc = "done"]
  /\ fetch' = Unsure
  /\ UNCHANGED <<own, host, page, query, seen, acts, stale, slips>>

\* DELETE: the follow first, whatever the button said, then the request.
Unfollow ==
  /\ press.pc = "sent" /\ press.said # "follow"
  /\ tie' = [tie EXCEPT !.follows = FALSE]
  /\ press' = [press EXCEPT !.pc = "unfollowed"]
  /\ fetch' = Unsure
  /\ slips' = slips \cup (IF tie.follows /\ press.said = "requested" /\ press.sure
                            THEN {"withdrew a follow"} ELSE {})
  /\ stale' = stale \cup Dates
  /\ UNCHANGED <<own, host, page, query, seen, acts>>

Withdraw ==
  /\ press.pc = "unfollowed"
  /\ tie' = [tie EXCEPT !.requested = FALSE]
  /\ press' = [press EXCEPT !.pc = "done"]
  /\ UNCHANGED <<own, host, page, query, seen, fetch, acts, stale, slips>>

\* onSuccess: the profile is fetched anew, a query that is running cancelled.  The parts
\* are not.
Answered ==
  /\ press.pc = "done"
  /\ press' = NoPress
  /\ query' = Asked
  /\ UNCHANGED <<own, host, tie, page, seen, fetch, acts, stale, slips>>

\* Nothing is said of a failure and nothing fetched; when it is the answer that was lost,
\* the page keeps the old tie.
PressFails ==
  /\ press.pc \in {"sent", "done"}
  /\ Act
  /\ press' = NoPress
  /\ stale' = stale \cup (IF press.pc = "done" THEN {"tie"} ELSE {})
  /\ UNCHANGED <<own, host, tie, page, query, seen, fetch, slips>>

-----------------------------------------------------------------------------
(* The profile *)

\* The page is mounted or gets the focus with a profile that is no longer fresh.
Revisit ==
  /\ query.pc = "idle"
  /\ Act
  /\ query' = Asked
  /\ UNCHANGED <<own, host, tie, page, press, seen, fetch, stale, slips>>

QueryRead ==
  /\ query.pc = "asked"
  /\ query' = [pc |-> "read", reply |-> Profile]
  /\ stale' = stale \ {"tie"}
  /\ UNCHANGED <<own, host, tie, page, press, seen, fetch, acts, slips>>

QueryArrives ==
  /\ query.pc = "read"
  /\ page' = query.reply
  /\ query' = NoQuery
  /\ UNCHANGED <<own, host, tie, press, seen, fetch, acts, stale, slips>>

QueryFails ==
  /\ query.pc # "idle"
  /\ Act
  /\ query' = NoQuery
  /\ stale' = stale \cup {"tie"}
  /\ UNCHANGED <<own, host, tie, page, press, seen, fetch, slips>>

-----------------------------------------------------------------------------
(* The parts *)

\* A tab or a panel is opened: its query is enabled when the page believes that the
\* contents may be seen.  Bound: one is on its way at a time.
Open(p) ==
  /\ fetch.pc = "idle" /\ MaySee
  /\ Act
  /\ fetch' = [NoFetch EXCEPT !.pc = "asked", !.part = p, !.sure = Sure]
  /\ UNCHANGED <<own, host, tie, page, query, press, seen, stale, slips>>

\* The handler asks autorVisivelPara first; a refusal leaves what the page has.
Refused ==
  /\ fetch.pc = "asked" /\ ~Visible
  /\ fetch' = NoFetch
  /\ slips' = slips \cup (IF fetch.sure THEN {"refused"} ELSE {})
  /\ UNCHANGED <<own, host, tie, page, query, press, seen, acts, stale>>

Allowed ==
  /\ fetch.pc = "asked" /\ Visible
  /\ fetch' = [fetch EXCEPT !.pc = "allowed"]
  /\ UNCHANGED <<own, host, tie, page, query, press, seen, acts, stale, slips>>

PartRead ==
  /\ fetch.pc = "allowed"
  /\ fetch' = [fetch EXCEPT !.pc = "read", !.reply = Reply(fetch.part)]
  /\ stale' = stale \ {fetch.part}
  /\ UNCHANGED <<own, host, tie, page, query, press, seen, acts, slips>>

PartArrives ==
  /\ fetch.pc = "read"
  /\ seen' = [p \in DOMAIN seen \cup {fetch.part} |-> IF p = fetch.part THEN fetch.reply ELSE seen[p]]
  /\ fetch' = NoFetch
  /\ UNCHANGED <<own, host, tie, page, query, press, acts, stale, slips>>

PartFails ==
  /\ fetch.pc # "idle"
  /\ Act
  /\ fetch' = NoFetch
  /\ stale' = stale \cup {fetch.part}
  /\ UNCHANGED <<own, host, tie, page, query, press, seen, slips>>

-----------------------------------------------------------------------------
(* The host, elsewhere *)

\* Accepting deletes the request and inserts the follow; declining deletes the request.
Answer ==
  /\ tie.requested
  /\ Act
  /\ \E accepted \in BOOLEAN :
       tie' = [follows |-> tie.follows \/ accepted, requested |-> FALSE]
  /\ stale' = stale \cup {"tie"}
  /\ fetch' = Unsure
  /\ press' = [press EXCEPT !.sure = FALSE]
  /\ UNCHANGED <<own, host, page, query, seen, slips>>

\* PATCH /users/me: followers and requests stay as they are.
Settings ==
  /\ ~own
  /\ Act
  /\ \/ host' = [host EXCEPT !.private = ~@] /\ stale' = stale \cup {"tie"} /\ fetch' = Unsure
     \/ host' = [host EXCEPT !.shares = ~@] /\ stale' = stale \cup Dates /\ UNCHANGED fetch
  /\ UNCHANGED <<own, tie, page, query, press, seen, slips>>

Publish(t) ==
  /\ Act
  /\ host' = [host EXCEPT !.public = IF t \in @ THEN @ \ {t} ELSE @ \cup {t}]
  /\ stale' = stale \cup Lists
  /\ UNCHANGED <<own, tie, page, query, press, seen, fetch, slips>>

-----------------------------------------------------------------------------
Next ==
  \/ Press \/ Follow \/ Unfollow \/ Withdraw \/ Answered \/ PressFails
  \/ Revisit \/ QueryRead \/ QueryArrives \/ QueryFails
  \/ \E p \in Parts : Open(p)
  \/ Refused \/ Allowed \/ PartRead \/ PartArrives \/ PartFails
  \/ Answer \/ Settings
  \/ \E t \in Trips : Publish(t)

Spec == Init /\ [][Next]_vars

-----------------------------------------------------------------------------
(* Properties *)

TypeOK ==
  /\ own \in BOOLEAN
  /\ host \in [private : BOOLEAN, shares : BOOLEAN, public : SUBSET Trips]
  /\ tie \in [follows : BOOLEAN, requested : BOOLEAN]
  /\ page \in [private : BOOLEAN, follows : BOOLEAN, requested : BOOLEAN]
  /\ press.said \in {"nothing", "following", "requested", "follow"}
  /\ DOMAIN seen \subseteq Parts /\ \A p \in DOMAIN seen : seen[p] \subseteq Trips
  /\ stale \subseteq Parts \cup {"tie"}

\* With nothing under way the page shows the tie as the server has it, unless the host
\* changed it since the page last read it, or an answer was lost.
PageKnowsTheTie == Sure => page = Profile

\* A press on "Pedido enviado" removes no follow, and a page that is not behind is not
\* refused what it asks for ("a interface deixa de bater a uma porta que sabe estar
\* fechada"): both take a host who answered, or hid the account, meanwhile.
DoesAsItSays == slips = {}

\* What the page says of the same trips agrees: as many in the statistics and on the map
\* as in the list, unless some were published or hidden between the readings.
NumbersAgree ==
  \A p, q \in (Lists \cap DOMAIN seen) \ stale :
    fetch.pc = "idle" => Cardinality(seen[p]) = Cardinality(seen[q])

\* A date of a trip to come is on the page of somebody who no longer may know of it
\* only as long as that part was not read again: unfollowing fetches the profile and no part.
DatesAreForFollowers ==
  \A p \in (Dates \cap DOMAIN seen) \ stale :
    fetch.pc = "idle" => \A t \in seen[p] : DatesShown(t)
=============================================================================
