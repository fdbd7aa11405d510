# MemoVoy in TLA+

Specifications, model checks and proofs for the MemoVoy travel planner: the
Fastify API (`src/memovoy-api`) and the parts of the Next.js client
(`src/memovoy-web`) that decide what the API is asked and what a user is shown.

The API runs in Node.js over PostgreSQL. With the exception of the migration
runner, no handler opens a transaction: a handler is a chain of
`await query(...)`, each a statement that is atomic by itself, so between any
two of them every other handler, every piece of background work
(`lib/emSegundoPlano.js`) and the end of the process can intervene. That is
where most of what can go wrong in this program lives, and it is what the modules
are about. The general rule of translation is: **one action per query, together
with the code up to the next query; the variables are the tables and the state a
suspended handler has in its locals.**

## Inventory

| Part | State | Operations | What is hard | What makes it correct |
| --- | --- | --- | --- | --- |
| Sessions (`routes/auth.js`, `routes/users.js`) | `revoked_tokens`, `device_sessions`, the cookie of each browser | register, login, 2FA login, refresh, logout, list, terminate, delete account | two refreshes of one cookie; bookkeeping that fails; termination against rotation; background deletes | what is exchanged or terminated is revoked; what is held is listed; nothing is issued for a revoked token |
| Credentials (`routes/auth.js`, `services/totp.js`) | password hash, failed attempts, lock, reset token, TOTP secret | login, change, forgot, reset, 2FA set-up and confirmation | slow hashes between a read and a write; absolute counters; lazy rehash | the last password set is the one that works; five failures lock; a link works once |
| Social graph (`routes/users.js`, `db/visibilidade.js`) | `follows`, `follow_requests`, `users.is_private` | follow, unfollow, accept, decline, change privacy | accepting is two queries; privacy read before use | nobody sees a private account without its consent |
| Notifications and badges (`services/notifyUser.js`, `services/badges.js`, `routes/notifications.js`) | `notifications`, `user_badges`, preferences | notify, award, read, set preferences | counts compared with `===`; award and announcement are two writes | each badge is announced once |
| Itineraries (`routes/itineraries.js`) | one row: `data` (all the days as JSONB), `confirmado`, `is_public`; check-ins; collaborators | create, generate, edit, refine, reorder, confirm, publish, delete, fork, check in | read-modify-write of the whole document; background geocoding; draft and publication | edits are not lost; a draft and a private roteiro stay private |
| Itinerary page and review screen (web) | the days it shows, the reordering timer | drag, edit, save, discard, refetch | a list captured by a timer; polling that stops after an edit | the screen shows what was saved |
| Wizard (`itineraries/new`, `DestinationInput`) and manual builder (`new/manual`) | the form, the stream of a generation, days by id | type, choose, generate, cancel, try again, add, drag, keep | late replies; a handler that outlives its page; days with a number and a date | what is reviewed is the row that will be kept |
| Profile page (web) | tie, parts fetched | follow, withdraw, open a list | a tie that changed under the button | the button does what it says |
| Saves, comments, reactions (`routes/bookmarks.js`, `routes/itinerariesSocial.js`) | `bookmarks`, `saves_count`, comments, reactions | save, unsave, comment, react | counter changed apart from the row | the counter counts the rows |
| Posts (`routes/posts.js`) | posts, likes, comments, tags | create, like, comment, tag | side effects that do not depend on the row | one like, one notification |
| Groups (`routes/groups.js`) | groups, members, invitations | create, join, leave, transfer, invite, accept | check and act in two queries | the owner is a member; private groups are entered by invitation |
| Conversations and messages (`routes/conversations.js`, `routes/messages.js`) | conversations, participants, messages | open, send, read | two openers; insertion cut in two | one conversation per pair |
| Real time (`services/socket.js`) | rooms of each connection, its event budget | join, leave, mark read, broadcast | asynchronous join, synchronous leave; dropped events | a connection is in the rooms it asked for last and may be in |
| Moderation (`routes/reports.js`, `routes/admin.js`) | reports | report, classify, resolve | three steps without a transaction | what is resolved was seen |
| Geocoding (`services/geocodificar.js`, `services/horarios.js`) | cache, time of the last request | fill coordinates, opening hours | pacing by a shared timestamp | one request per second |
| Background work and shutdown (`lib/emSegundoPlano.js`, `server.js`) | set of promises | register, drain, exit | work that starts work | nothing is cut off that would have ended |
| Generation (`services/aiAgent.js`, `services/agenda.js`) | counters of calls | retries, another model, repair and measure of days, second round | calls that fail or are cut; days with gaps and overlaps | every call is counted once; a day without problems has none |
| Migrations (`db/migrate.js`) | `_migrations` | apply | two instances | each applied once |
| Packing lists and expenses (`routes/packing.js`, `routes/expenses.js` and their panels) | rows, what the panel shows | add, tick, drag, edit, delete | optimistic ticks and orders; one form for all rows | the panel shows the list |
| Composing (`CreatePostModal.tsx`, `routes/uploads.js`, `routes/posts.js`) | window, uploads, post, background tag | write, upload, publish, edit, tag | a window changed while it is sent; a model that answers late | the place the author gave stays |
| Feed, explore, search, map, rankings, export | rows read | | little | |

Handlers call the services directly; the only shared memory is the set of
background promises, the socket server and the pacing timestamp. Everything else
they share through the tables. The client talks to the API by HTTP and is told
of changes by socket events that make it fetch again.

## Modules

| Module | What it is |
| --- | --- |
| `Sessions` | refresh tokens and device sessions |
| `SessionsProofs` | its theorems |
| `MCSessions` | its instances for TLC |
| `Consent` | the abstract promise of the social graph: who may come to follow whom |
| `SocialGraph` | the follow handlers, notifications of follows and follower badges; implements `Consent` |
| `SocialGraphProofs`, `MCSocialGraph` | its theorems and instances |
| `Itinerary` | the life of an itinerary, its concurrent writers and the owner's tabs |
| `ItineraryProofs`, `MCItinerary` | its theorems and instances |
| `Credentials` | passwords, lock-out, links by e-mail, second factor |
| `CredentialsProofs`, `MCCredentials` | its theorems and instance |
| `Groups` | a travel group: owner, members, invitations, posts |
| `Ordered` | lists in an order: what a query answers with `ORDER BY`, what a page keeps of a list |
| `Conversations` | two people, their messages, sockets and pages |
| `PlanningRoom` | the socket room of an itinerary and a page that follows it |
| `Moderation` | reports and the queue |
| `Shutdown` | background work at the end of the server |
| `Places`, `OpeningHours` | geocoding with a shared table and a pace; does a visit fit the hours |
| `Generation`, `Agenda` | the wizard, its stream and the ladder of calls; repair and measure of days |
| `DestinationInput`, `ManualTrip` | the field with suggestions; building by hand |
| `TripDays` | the days of a kept itinerary on its owner's page, by position |
| `PackingList`, `Expenses` | the two panels of an itinerary with their handlers |
| `PostCard`, `CommentThread`, `Compose` | a card, a thread of comments, the window of a new post |
| `ProfilePage` | a profile and the tie to whoever looks at it |
| `Features` | the eighteen modules from `Groups` on that share no state, side by side, and what each promises |
| `Threads`, `Services`, `Screens` | the same eighteen in three layers (what people write to each other, what the server keeps, what screens show and send): their instances, variables and assumptions, which `Features` puts together |
| `ThreadsProofs`, `ServicesProofs`, `ScreensProofs` | for each layer, the inductive invariants of its modules and what follows from them |
| `FeaturesProofs` | the theorems about `Features` |
| `MCFeatures` | the instance of `Features` for TLC |

Each specification ends its actions with failures (`QueryFails`, `Crash` and the
like), bounded by `MaxMishaps`, and keeps *history* variables (named so where
they are declared) which no guard reads, except that `asked` and `used` also cap
how many times something may be asked. Definitions whose comment starts with
"Mutant" are not part of the specification: each is a plausible mistake in the
operation it stands beside, kept to show that a property notices it.

### Sessions

A refresh token is a signed JWT with a random `jti`. `owner` and `parent` say for
whom and in exchange for what it was minted (`makeTokens`), `expired` that its
seven days are over; `revoked` and `rows` are the columns `jti` of
`revoked_tokens` and `device_sessions`; `cookie` is the cookie of each browser;
`sweep` holds the `DELETE`s handed to `emSegundoPlano`. A request is a record
whose `pc` names the query it will issue next:

- register, login and 2fa/authenticate end alike: `IssueSession`,
  `RecordSession` or `RecordFails` (the failure is only logged), `DeliverSession`;
- `POST /refresh`: `RefreshStart`, `CheckRevoked`, `LoadUser`, `Rotate`, and then
  the same `RecordSession` and `DeliverSession`; the old row goes with `Sweep`;
- `POST /logout`: `LogoutStart`, `LogoutRevoke` or `LogoutRevokeFails` (swallowed
  by the `catch` of `jwt.verify`), `DeliverLogout`;
- `DELETE /users/me/sessions/:jti`: `TerminateStart`, and then the two members of
  its `Promise.all` settle in either order: `EraseRow`, `EraseToken`, `EraseFails`;
- `DELETE /users/me`: `DeleteAccount`, which takes the user and its rows away and
  answers with a cleared cookie for the browser that asked (`DeliverLogout`), so the
  other browsers keep theirs;
- the environment: `Expire`, `LoseReply`, `QueryFails`, `SweepFails`, `Crash`.

`FreshJti` picks the new token by `CHOOSE`: which UUID is drawn makes no
difference, as long as it was never drawn before. The access token is left out: it
is verified by its signature alone and no table knows of it. Passwords and codes
are left out: `IssueSession` starts where they were accepted.

### SocialGraph and Consent

`private`, `follows`, `requests`, `badges` are the tables. A handler goes on,
after its answer, as the background check of badges it leaves behind
(`Count`, `Award`, `Announce`), so two checks can count together. `Consent` says
in five actions what a private account was promised: a pair starts to follow only
if the host has been open at some time or has approved a request that was asked.
The refinement maps `asking` to the requests in the table *and* those an
acceptance has already taken out of it without having inserted the follow: with
the table alone the two-query acceptance would not implement the one-step
promise. `Visible` is `autorVisivel` for a viewer who is signed in. `ConsentedAccess` is
an action property about each moment, not about the past: whom a private account keeps out
(`ShutOut`: not `Visible`, and no request of his has been let in by what it read, `Entering`)
stays out until the account opens or accepts his waiting request.

Fans of several hosts do not interact, which is why the instance has one host.
`MaxAsks` caps how many times a pair inserts a request row.

### Itinerary

Every edit of the days reads the whole JSONB value, changes it in JavaScript and
writes it back, so the interesting thing about a value is *which edits it has taken
in*. `data` is the set of effects the stored days show; `copy` gives every holder
of a copy (a handler between its `SELECT` and its `UPDATE`, what a tab shows, the
list captured by the reordering timer, the data left to the geocoder) the set of
effects it shows. Three history variables say what was promised to the user: `written`
has the edits an UPDATE has put into the row, `exposed` those that somebody may
undo, `hidden` that the owner has made a confirmed roteiro private. An edit is exposed when
it is written while anybody but its own tab holds the days without it (`Lacking`), when that tab drags
before the answer, or when the answer never comes: that is looked at when the edit is
written or loses its answer, and not when the edit is lost. `QuietEditsStay` says
that every other edit stays in `data`, through later edits of other tabs, drags, fills and
re-reads. It depends on a tab taking its answer in (`Answer`), on each handler reading the
row anew and on the timer sending the list of its own tab: where one of them kept an
older copy, an edit would go that nothing had put at stake.

- Creation: `CreateManual` (columns by default: confirmed and public), `Generate`
  and `GenerateStream` (draft, private; the latter leaves `Fill` a copy).
- Background: `FillWrite` is the `then` of `preencherCoordenadas`, `FillFails` its
  rejection.
- Reading: `Fetch` and `Show`. A tab may fetch at any time, which covers the
  polling of the review screen, refetching after `itinerary_changed`, and reopening.
- Editing: `EditStart`, `Write`, `Answer` for the four handlers that read and
  write back one change; `Drop`, `SendOrder`, `Write`, `Answer` for reordering,
  whose list comes from the tab and not from the row.
- Publication: `ConfirmStart`, `Confirm`, `PatchStart`, `Patch`, `Moderate`.
- `DeleteStart`, `Delete`, and `RequestFails`, `CloseTab`, `Crash`.

The days are abstracted to one: a reordering replaces what the day shows by what
the list shows. Left out, because nothing above depends on it: the metadata
columns other than `is_public`, view counts, score and badges, check-ins,
collaborators (they have no right to edit: the handlers compare `user_id`), and
fork, whose INSERT names a column `currency` that `itineraries` does not have and
so always fails without changing anything. With `Solo` the owner waits for each
answer before asking for anything else.

### Credentials

One row of `users` and the requests that have read it. `req` holds, per request,
the query it will issue next (`pc`) and what it took from the row: `id`, the counter
plus one, whether the hash was bcrypt's, the password to be written, the link that
was presented. Each handler of `auth.js` that writes is a `...Read` that looks at the
row and a second action that updates it by id: `RegisterRead`/`RegisterInsert`,
`LoginRead`/`LoginCount` or `LoginWelcome`, `ChangeRead`/`ChangeWrite`,
`ForgotRead`/`ForgotWrite`, `ResetRead`/`ResetWrite`, `ResendRead`/`ResendWrite`,
`VerifyRead`/`VerifyWrite`, `SetupRead`/`SetupWrite`, `ConfirmRead`/`ConfirmWrite`,
`DisableRead`/`DisableWrite`. The lazy rehash is `rehash`, written by `RehashWrite`
whenever it is done. An expired link is one that is gone, an expired lock one that is
off (`LinkExpires`, `LockExpires`). `overlaps` records which kinds of handlers have
crossed; the properties hold until then, and each names the one kind that breaks it:
that *nothing else* does is what they say.

### Groups

`group`, `members` and `invite` are the tables; a request is a user, another user
and the query to come. Check and act are apart, so `Transfer` may hand a group to
somebody who is leaving and `Join` may let in somebody who found the door open.
`inviter` is the column of whoever sent an invitation first: deleting that account takes
the pending invitation with it (`ON DELETE CASCADE`), as deleting the invited one does, and
an acceptance that had read it marks nothing (`Lasts`, `Mark`). `slips` records overlaps,
`let` whom an invitation has let in, `invited` who was invited since last asking to accept.

### Conversations and PlanningRoom

`Conversations` has two people, the table of messages and, for each of them, a page
with its three sources: the reply to its query (which replaces everything), socket
events (appended unseen) and the answers to its own messages. `missed` records, with
the reason beside the action, every announcement that was lost. A page that closes leaves
what it showed in the cache of `useQuery` and drops its socket (`PageCloses`). Opened again
it shows that and asks the server only if it is older than the 30 s `staleTime` of
`Providers.tsx` or never came, or it begins anew (`PageOpens`, three cases). What was
sent while it was closed is then missing, which `missed` records as what it is: announced
to nobody. The cache remembers one conversation at a time. `PlanningRoom` has one
connection with its buffer, wire and event budget, the room, and the page's copy of
the edits made by others. Joining waits for a query, leaving does not.

### Cards, threads and panels

`PostCard`, `CommentThread`, `PackingList`, `Expenses` and `TripDays` are built alike:
`rows` (or `row`, `saved`) is the table, `screen` (`cache`) what the page shows, and each
mutation goes through "painted", "sent", "written", "answered", with the snapshot it
will put back on an error. A query reads in one action and replaces what is shown in
another. `acts` bounds what the user starts, what fails and what others do. `slips`
names the crossings after which the screen may be wrong until it is fetched again;
every other order of the same steps must leave it right.

`TripDays` is the part of `Itinerary` that an owner sees: days are sequences, an
activity is named by its position, one timer of half a second serves every day, and
`refined` is the copy that hides the row after a refinement.

### Generation, Agenda, Places, OpeningHours

`Generation` has, per job, the stages of a generation and where each call is on the
ladder of `callOpenAI` (retry, without a schema, another model): validation, days, the call
that mends days with gaps (`completarDias`), tips. The first two and the tips may come from
the cache. A failure ends the job, but for the mending call, whose failure is counted and
swallowed (`CallFails`). The request without a schema is made inside the `catch`, so its own
failure is counted nowhere (`PlainFails`, "uncounted"). The page listens to
one job at a time; a job goes on when the page is left. `Agenda` begins with what a model
sent (any days within the bounds, also with an hour nobody can read) and repairs,
measures and completes it; its measure is checked against the set of slots in which
something happens. `Places` fills several itineraries over one table and one pace: a
name is read, paced, asked, kept, and a last pass looks for a pin that is far from the
rest of its day. `OpeningHours` evaluates one visit after the other and is checked
against a slot-by-slot reading of the same label.

### The remaining pages

`DestinationInput` (typing, a debounced request, replies in any order), `ManualTrip`
(days and activities by id, numbers by place, dates that stay until `EditDate` gives another;
`Shift` counts them in local time and writes them in UTC, so that the date on which the clock
goes forward comes twice), `Compose` (window, uploads one by one, post, edits that give
another place or clear it, background tag) and `ProfilePage` (tie, button, parts
that are fetched once they may be seen) follow the code of their pages in the same way.

### Features

These modules share no state, so one specification holds them side by side and one run
checks them: `which` says whose behaviour it is, every feature has its variables under
their own names (with the name of the feature in front where several have the same), and
those of a feature that is not chosen are zero. The state space is the sum of theirs, not
the product. A property of `Features` is what its modules promise, conjoined where two of
them answer for one question; the comment above each names the code. `FeaturesSpec` is
what the run checks and the theorems are about.

## Runs

| Run | Checks | Result |
| --- | --- | --- |
| `sessions_safety` | `TypeOK`, `ExchangedIsRevoked`, `HeldIsListed`, `TerminatedStaysDead`, `NothingForRevoked` | holds |
| `sessions_liveness` | `EveryRequestAnswered`, `ExchangedLeavesList` | holds |
| `sessions_replay` | `OneTimeUse` | violated |
| `sessions_listing` | `ListedIsActive` | violated |
| `social_graph` | `TypeOK`, `ConsentedAccess`, `AcceptedOnce`, `AnnouncedOnce`, `RefinesConsent` | holds |
| `social_withdrawal` | `WithdrawalHolds` | violated |
| `itinerary` | `TypeOK`, `QuietEditsStay`, `PrivateStaysPrivate` | holds |
| `itinerary_review` | `SavedEditsStay` | violated |
| `itinerary_confirm` | `ConfirmKeepsPrivate` | violated |
| `credentials` | `TypeOK`, `PasswordIsChosen`, `WrongPasswordsLock`, `LastLinkWorks`, `AnswerableFactor`, `DeadLinkStaysDead` | holds |
| `features` | nineteen properties of eighteen features, see below | holds |
| `trip_dragged` | `DragIsPainted` | violated |

| Property of `features` | Module | Says |
| --- | --- | --- |
| `TypesOK` | all | every feature keeps its types |
| `OwnerIsMember`, `InvitationsHold`, `PrivateDoorHolds` | `Groups` | the owner belongs; invitations are used up only by letting in, and stand while their sender's account does, unless sent again during an acceptance; a private door is shut |
| `ThreadsMeet`, `PageTellsMessages` | `Conversations` | one conversation a pair; no message missing or twice without a named reason, such as a page that was closed and shows what it remembers |
| `RoomFollows` | `PlanningRoom` | in the room exactly when wished; what others save arrives |
| `CardTellsTruth` | `PostCard`, `ProfilePage` | at rest both show what the server has; an undone deletion does not happen; the button does what it says |
| `RemovedMeansTaken` | `Moderation` | closed as removed, then taken down |
| `LeavesNothingBehind` | `Shutdown` | a quiet exit lost no write |
| `VerdictIsTrue` | `OpeningHours` | open and closed are what the label says |
| `PinsFit` | `Places` | no pin on another continent, no hours of another place |
| `PanelShowsList` | `PackingList`, `Expenses` | the panel shows the rows, in order, and changes only what was touched |
| `ScreenShowsThread` | `CommentThread` | each comment once, newest first, with its likes |
| `PageShowsTrip` | `TripDays` | the page shows what is saved, and edits fall on what was meant |
| `PlanIsTrue` | `Agenda` | the measure is the truth; mending does not repeat a day |
| `GenerationEnds` | `Generation`, `DestinationInput` | the review shows the row; no row is forgotten unless a connection was lost, a stream closed early, a page left or a deletion failed; each call is counted once until one without a schema fails; names are for what is typed unless a reply came late |
| `AuthorsPlaceStays` | `Compose` | a model never replaces a place the author gave, though it may fill one he cleared; one post a window, unless its answer is lost |
| `DaysGoOn` | `ManualTrip` | numbers by place; dates that go on unless days were dragged or dated, the date of a clock change excepted; kept as shown |

To run one: `tlc -workers 2 -config SessionsSafety.cfg MCSessions`. The largest,
`features` (2.6 million states), takes about two and a half minutes.

**What an exemption means.** Many properties of `features` and `credentials` hold "unless"
something named in `slips` or `overlaps` happened. Each of those names an order of
steps after which the code itself is wrong, and stands beside the action that brings it
about; the hazards in `PROJECT.json` say which. Such a property does not deny
the hazard: it says that nothing *else* goes wrong, in any other order of the same steps.
Where the repository claims the contrary a violated run shows the fault itself.

**The six disagreements.** Each violated property quotes the code base:

1. `OneTimeUse` (auth.js, "one-time use"): two refreshes of one cookie both pass
   the check before either revokes, and each mints a token. What does hold is
   `ExchangedIsRevoked` and `NothingForRevoked`: the window is the one between the
   check and the insertion, never longer.
2. `ListedIsActive` (users.js, "list active sessions"): logout revokes the token
   and leaves the row.
3. `WithdrawalHolds` (users.js, "retirar um pedido"): a withdrawal deletes the follow
   and then the request, in two queries; an acceptance that has taken the request out
   inserts the follow between them, so that the first finds no follow yet and the
   second no request any more. It answers ok and the fan follows.
4. `SavedEditsStay` (RevisaoDoRoteiro.tsx, "As alterações gravam à medida"): the
   coordinates arrive with the days as generated and undo what was edited.
5. `ConfirmKeepsPrivate` (itineraries.js, above POST /:id/confirm): the check and
   the update are two queries. Two confirmations have passed the check; after the first
   UPDATE the owner's PATCH makes the roteiro private, and the second publishes it.
6. `DragIsPainted` (ItineraryClient.tsx:405-406, "pintar o resultado já e gravar com
   atraso"): after a refinement the page shows `refinedDays` (478), a drag changes the
   cached itinerary, and the order is saved without ever being shown.

A seventh is a comment that the code has overtaken. db/visibilidade.js:19-21 says that
"seguir alguém é imediato e não precisa de aprovação [...] mesmo que a conta seja privada";
since migration 028 the handler gives a private account a request, and nobody follows it
until it accepts. `ConsentedAccess` and `Consent` state what the handlers do, and hold;
they would not if the comment were right.

**Bounds.** Two requests at a time are enough for every race of two handlers; a
third would only add handlers that start after one of the two has ended, or
repeat a race with the same tables. Three tokens allow two exchanges of one token
or a chain of two. One mishap at any point, against handlers in any position,
covers each failure by itself; sequences of failures are covered by the proofs, which
bound nothing, for the properties that are proved. Two fans and milestones one and two
make two background checks count together. Two edits from two tabs are a lost update; more
edits repeat it.
In `credentials` three attempts lock instead of five, so that a lock, its expiry and a
second lock fit in seven requests; three links allow one that is replaced and one that
replaces it during a use. In `features` each module has two of what interacts (two
mutations, two people, two fills, two jobs) and three to six acts: enough for a change, a
second that crosses it, a query between them and a failure of either. Three rounds stand
for the ten of the shutdown, with chains of four writes, so that the rounds can run out.
Days have four or five slots instead of minutes, weeks three days and years three
months, which leaves ranges that go round the end and hours past midnight. A trip by hand
begins on date 1 and has its clock change on date 1, on date 2 or not at all; its days are
dated by hand from 0 (emptied) to the largest number of days.

`SYMMETRY` is used where slots, edits or tabs are interchangeable, and never in a
run of liveness.

**Deadlock** is not checked: a server to which nobody sends anything may rest, and
bounded instances run out of tokens, edits and mishaps.

**Fairness** is assumed in `sessions_liveness` only: weak fairness of each
request's own steps (a query that was sent is answered, a reply that was written
is delivered or lost) and of each background `DELETE`. Node runs the continuation
of every settled promise and the driver settles every query, with a result or an
error, so a step that stays enabled is taken. No client is obliged to ask, no
token to expire and no process to crash. `EveryRequestAnswered` excepts a request
for which the instance has no token left to mint.

## Proofs

Eight modules hold theorems or the lemmas they rest on, which are true of every value of
the constants under the assumptions named in the modules: `None` is not a token, user,
device or job, the bounds on attempts, days, messages and chained writes are naturals, there
are finitely many jobs, pairs are of different users, and the holders of copies are told
apart. `WorldsAssumption`: everything a plan names has something to search for, and the
service answers all there is to ask. `TextsAssumption`: no text that is long enough to be
looked up is empty, and none is what the page reads past the end of a list.
`ItemsAssumption`: items are numbered as they are created, the first two to begin with;
`ExpensesAssumption`: the id of the first expense is one;
`NumbersAssumption`: messages and comments are numbered, too, there may be a message, and a
page of messages holds at least one. `RoundsAssumption`: background work is waited for in
one round at least (the code has ten). `BudgetAssumption`: what a connection may send in a
window is a number. `OverAssumption`: trips that are over are trips. `HoursAssumption`: a day has at least
four slots, so that the hours of the rules end with it. `AgendaAssumption`: the window in
which activities are planned lies in the day. TLC evaluates those assumptions on every run.

**Sessions** (`SessionsProofs`). `TypeCorrect`; from an inductive invariant
`IInv`, the theorems `ExchangeRevokes`, `HeldSessionsAreListed` and
`TerminationIsFinal`; and the action property `RevocationIsFinal`. The properties
are not inductive by themselves. `NamesAreMinted` says that whatever names a token
names one that was drawn, so that a fresh one is named nowhere; it is what makes
minting harmless. `RecordedBeforeUse` carries the row from `RecordSession` through
the reply to the cookie. `EraseProgress` says which half of a termination has
been done, so that its end means both. `RepliedIsListed` and `CookieIsListed` are
`HeldIsListed` one step before and at the browser.

**SocialGraph** (`SocialGraphProofs`). `TypeCorrect`; `AccessIsConsented`, from the types
alone: whoever is let in comes from a request that was `Entering`, or from an acceptance that
takes his request out of the table (`LettingIn`, `DoorStep`); and
`Refinement`: each step maps to a step of `Consent` or to a stutter, from the
invariant that every follow, and every handler about to insert one, belongs to a
pair whose host has been open or has approved it (`Welcome`, `Licensed`): the
handler read an open account or an existing follow, or it deleted a request.

`RequestsAcceptedOnce` and `BadgesAnnouncedOnce` prove the two properties that count
rows. `Tallied` balances them: the acceptances of a pair, those under way and the
request still in the table are together no more than the requests that were inserted. `Told`
says that a badge that was awarded has been announced once, is about to be by exactly
one check, or had its announcement cut short.

**Itinerary** (`ItineraryProofs`). `TypeCorrect`. `QuietEditsAreKept` proves that a
saved edit stays unless it was exposed. The strengthening `IInv` says of every such edit
that it is in the row and that nobody can take it out (`Kept`): whoever holds the days has
it, or is the tab that waits for its answer (`Awaits`) and will take it in before it sends
anything. `KeptStep` shows it for edits already written, one action after the other, and
`WrittenIsKept` for the edit a `Write` adds. `PrivacyHolds` proves the action property
`PrivateStaysPrivate` from `ConfirmedIsBorn`, which rules out creation.

**Credentials** (`CredentialsProofs`). `TypeCorrect` carries `Named`: what requests,
rehashes and the row name is one account after the other, so that an UPDATE by id meets
the account it read or nothing. Each property has an invariant of its own on top:
`PasswordInv` (every rehash that may still write the row writes the chosen password),
`LockInv` (one handler that writes the counter at a time, which has read it as it is;
the counter has seen every wrong password), `LinkInv` (the link in the row is the last
one and unused; who uses a link uses the last), `FactorInv` (who is about to switch the
factor on has answered for the secret in the row). Two lemmas, `AskEffect` and
`ServeEffect`, say once what a request takes and leaves. `DeadLinksStayDead` is the
action property, from `OnlyGoodLinksUsed`. The theorems hold for every `MAX_ATTEMPTS`
and any number of concurrent requests, where the run has two.

**Features.** Four modules are about `FeaturesSpec`, so that each theorem states what the
run `features` checks. They are layered by what they read, because the provers are shown all
that a module can see: a proof about a layer sees its instances and no others.
`FeaturesProofs` holds the theorems. For each feature it has a lemma that its steps are
those of its module (`...Moves`) and one that the invariant holds always (`...Hold`); the
invariant, which TLC has checked on the feature's instance, is stated beside its module's
layer, with the lemmas that it holds at first and that every step keeps it. Where the
invariant has parts, each part has a lemma with one step per action.

**What people write to each other** (`ThreadsProofs`).

- Groups: `TypeCorrect`; `OwnerBelongs` from `OwnerInv`, which says of every handler under
  way why the owner will still be a member when it is done: who is about to found is not in
  yet, who is about to leave does not own, who was chosen was a member; `InvitationsAreKept`
  from `InviteInv`; `DoorHolds` and `MembersPost`, action properties, the second of which
  (`OnlyMembersPost`) no run repeats. They are about the module's own `Spec`;
  `GroupsAreGroups` shows that what groups do in `FeaturesSpec` they do there, which carries
  the first three over: `OwnersBelong`, `InvitationsHoldGood`, `DoorsHold`.
- Conversations: `OneConversation`. A second row needs somebody past his `SELECT` while
  another inserts, which is what `twice` records.
- The pages of a conversation: `MessagesAreTold`, from `PagesInv`. From the first message
  that a page shows on, every one that was announced, or answered to its author, is on the
  page, or its event is on the way, or the announcement was lost for a reason that is named;
  the same of a reply that has been read and not yet taken in (`Tells`). A message is there
  twice only if a reply brought it before its event came (`Once`, `Events`). Both
  hold of a page that is closed, about what it remembers, and so when it opens again.
  The proof found a mistake in the model: the step in which sending fails (`PostFails`) could
  never be taken, as it both counted and left the counter alone. It was corrected, and the
  run now takes it.
- Comments: `CommentsAreShown`, from `ThreadInv`. Until one of `slips` happens, the rows and
  what is under way account for each other (`RowsInv`), the screen has every row but those
  that are leaving, the newest first (`ScreenInv`), and nothing crosses a reply (`ReplyInv`).

**What services keep** (`ServicesProofs`).

- Moderation: `RemovalIsReal`, as an administrator about to mark reports as removed has
  taken the content down; `DecisionsAreFinal`, in no run: a resolution writes pending
  reports only.
- Shutdown: `NothingIsLeftBehind`, for any number of rounds: after `app.close()` nothing is
  handled, and the rounds end with nothing in flight or used up, which is reported.
- Planning room: `RoomIsFollowed`. Events are handled in order, so the last one of the
  room on its way, or else the room itself, is what the page wishes (`LastOfAppend`,
  `LastOfTail`); every save the page has not fetched is on its way, will be fetched, or
  was missed for a named reason.
- Places: `PinsAreNear`. `PinsInv` says of every row and of every fill under way which
  answer of the world it carries, and which searches came before it, over a table that
  several fills read and write.
- Opening hours: `VerdictsAreTrue`, for any number of rules. The rule that decides a slot is
  the last one that applies to the day; that going through the rules one after the other
  comes to the same is an induction over them. The library's theorem of induction has an
  operator for a parameter; `Least` does its work: a set of naturals that is not empty has a
  least element, as `<` is well-founded, and so has the set of the numbers of rules for
  which the two would differ.
- Agenda: `PlansAreTrue`, for days of any length and any window. `ByTime` is a list because
  every rank is taken once (`ChainIsTaken`: in a chain of finite sets, each with a member
  of its own, there is one of every size). Of a day without problems the blocks of slots do not
  overlap (`StaysLie`, `NextIsEnough`), so the sum that the loop makes is the number of
  slots in which something happens (`OcupadoIs`, `SpentIsTaken`). `PlanInv` says that what
  is kept can be measured and bears the numbers of the first answer.
- The days of a trip: `PageIsTheTrip`, rows and page together. Until something of `slips`
  happens each day has one change at a time (`ChangesKeepApart`), whether it is dragged,
  waits for the timer or is on its way; `Meets` follows it: before it is written, the row
  and the page agree on the day and on the activity that was meant; once it is, what the
  page will make of the answer (`CachedDay`) is what the handler wrote.

**What screens show and send** (`ScreensProofs`).

- A card and a profile: `ScreensTellTruth`. Between a press and the fetch that ends it the
  screen may be wrong; `CardInv` and `LooksInv` name, for every difference between the
  screen and the tables, what is under way that will put it right, or the crossing that
  will not.
- The panels: `PanelsShowLists`. `SpentInv`: what was typed in a form and sent is what will
  be kept, once; `PackInv`: unless a fetch is to come the screen is a listing of the rows,
  in their order unless an order is on its way. That list is sorted, and sorting would
  need induction; it is said instead by place, an item's being how many are not after it
  (`RanksAreTaken`: places and items correspond; `SortedIsListed`: a listing in which each
  item is before the next is the list).
- A new post: `PlaceIsTheAuthors`. `WindowInv` follows the place from the window through
  the request to the row, past the model that tags photos whenever it answers and the
  edits that give another place or none; `RowPlaced` says which place a row may have.
- A trip by hand: `DaysAreAsShown`, for any limit on the days: every operation of the page
  keeps the numbers in place, the dates going on (but for the clock change) and the ids
  apart (`NumberedList`, `OtherActs`).
- The generation: `GenerationsEnd`. `WhereInv`: every reply on its way names the text it
  was asked for. `WizardInv`: a job's stage, its stream, its row and its count are in
  step, and the page shows the days of the job it listens to.

**The types of all features.** `TypesAreKept`: whatever crosses, fails or is lost, a handler
reads rows, and a screen a cache, of the form it expects. Most of it is in the invariants
above (`...HasTypes`); some have an invariant of their own, as the others say nothing once a
change was lost:

- `TripTyped`: the days that are saved, shown, sent, put back and answered are days, and
  what is on its way has what its handler needs, whatever slipped. The proof has the
  place of every activity from `EveryRank` (each place of an order is somebody's).
  It found that two cases of `CachedDay` overlapped, an answer to an edit that brings the
  list of the day and any answer to an edit, and TLA+ does not say which of two is taken;
  they now exclude each other.
- `RowsAreFull`: an expense has an amount and a category, because the form asks for the
  one before it sends anything and opens with the other.
- `EndTypes`: what a round waits for is in flight, and while it waits there are rounds left.
- `TalkRows` and `TalkLogs`, `LikesTypes`, `RoomFlags` and `RoomCounts`, `PackReasons`: what
  tables, likes, counters and histories name is there.

Every invariant and every action property of a passing run is stated by a theorem. Only
model-checked: liveness, as the prover has no `ENABLED` (`EveryRequestAnswered`,
`ExchangedLeavesList`), and what the violated runs show.

## Not modelled

- **Migrations and pool** (`db/migrate.js`, `db/pool.js`): the runner is a sequence of
  transactions. Two instances that start together may both find a migration missing
  (migrate.js:21); the second INSERT into `_migrations` fails and its transaction with
  it, so nothing is applied twice, but that instance stops.
- **HTTP application**: plugins, rate limiting and the hook that verifies access
  tokens, which keep no state the modules need.
- **`lib/api.ts`**: the refresh after a 401; what it asks of the server is in `Sessions`.
- **Saves and reactions** of itineraries. `saves_count` is changed apart from the row of
  `bookmarks`, and whether the INSERT or the DELETE touched a row is not looked at
  (bookmarks.js:31, 57): saving what is saved counts again, removing what is not saved
  counts down. The counter promises nothing that a property could hold it to.
- **Notification preferences and web push**: the preferences are read, merged and
  written whole (notifications.js:94-98), so two switches at once lose one.
- **Exchange rates**: one cache in memory, kept a day, which answers for whatever
  base it was last filled with when the service fails (expenses.js:142).
- **Check-ins, collaborators, fork, score and views** of itineraries; **prompts, prices
  and the other agents** of the language model; **resemblance of names** in geocoding.
- **Feed, explore, search, rankings, agenda export, sanitising, configuration check**:
  reads, formatting, pure input and output.

## Plan

What would add most from here, in this order:

1. `TripDays` shown to implement `Itinerary`: a position that moves is an effect on the
   day, `saved` maps to `data` and the copies of the page to `copy`.
2. Account deletion in `SocialGraph`, with its cascades.
3. `lib/api.ts` composed with `Sessions`: one refresh for the requests that were refused
   together.
4. Check-ins, which are keyed by the position of an activity and follow no drag.
5. Liveness of the socket room and of the wizard, for which the browser's scheduling
   has to be stated first.
