------------------------------ MODULE Features ------------------------------
(***************************************************************************)
(* The features of MemoVoy that do not meet, side by side: a behaviour is  *)
(* a behaviour of one of them, chosen at the start by "which", and the     *)
(* states of the whole are the sum of theirs.  Each keeps its variables    *)
(* under their own names, but for those that several features have, which  *)
(* carry its name in front; the variables of a feature that is not chosen  *)
(* are zero.  What a feature promises is stated once more at the end, for  *)
(* the whole.                                                              *)
(***************************************************************************)
EXTENDS Threads, Services, Screens

VARIABLE which  \* the feature a behaviour is of

-----------------------------------------------------------------------------
(* One at a time *)

FeaturesInit ==
  /\ which \in {"groups", "talk", "room", "card", "report", "end", "hours", "pins", "pack",
                "thread", "trip", "agenda", "generate", "compose", "manual", "spent",
                "where", "looks"}
  /\ Init
  /\ IF which = "talk" THEN Talk!Init ELSE TalkRests
  /\ IF which = "room" THEN Room!Init ELSE RoomRests
  /\ IF which = "card" THEN Card!Init ELSE CardRests
  /\ IF which = "report" THEN Report!Init ELSE ReportRests
  /\ IF which = "end" THEN End!Init ELSE EndRests
  /\ IF which = "hours" THEN Hours!Init ELSE HoursRests
  /\ IF which = "pins" THEN Pins!Init ELSE PinsRests
  /\ IF which = "pack" THEN Pack!Init ELSE PackRests
  /\ IF which = "thread" THEN Thread!Init ELSE ThreadRests
  /\ IF which = "trip" THEN Trip!Init ELSE TripRests
  /\ IF which = "agenda" THEN Plan!Init ELSE PlanRests
  /\ IF which = "generate" THEN Wizard!Init ELSE WizardRests
  /\ IF which = "compose" THEN Window!Init ELSE WindowRests
  /\ IF which = "manual" THEN Manual!Init ELSE ManualRests
  /\ IF which = "spent" THEN Spent!Init ELSE SpentRests
  /\ IF which = "where" THEN Where!Init ELSE WhereRests
  /\ IF which = "looks" THEN Looks!Init ELSE LooksRests

\* The variables of a feature that is not chosen stay as they are.
OthersRest ==
  /\ UNCHANGED which
  /\ IF which = "groups" THEN TRUE ELSE UNCHANGED vars
  /\ IF which = "talk" THEN TRUE ELSE UNCHANGED talkVars
  /\ IF which = "room" THEN TRUE ELSE UNCHANGED roomVars
  /\ IF which = "card" THEN TRUE ELSE UNCHANGED cardVars
  /\ IF which = "report" THEN TRUE ELSE UNCHANGED reportVars
  /\ IF which = "end" THEN TRUE ELSE UNCHANGED endVars
  /\ IF which = "hours" THEN TRUE ELSE UNCHANGED hoursVars
  /\ IF which = "pins" THEN TRUE ELSE UNCHANGED pinsVars
  /\ IF which = "pack" THEN TRUE ELSE UNCHANGED packVars
  /\ IF which = "thread" THEN TRUE ELSE UNCHANGED threadVars
  /\ IF which = "trip" THEN TRUE ELSE UNCHANGED tripVars
  /\ IF which = "agenda" THEN TRUE ELSE UNCHANGED agendaVars
  /\ IF which = "generate" THEN TRUE ELSE UNCHANGED generateVars
  /\ IF which = "compose" THEN TRUE ELSE UNCHANGED composeVars
  /\ IF which = "manual" THEN TRUE ELSE UNCHANGED manualVars
  /\ IF which = "spent" THEN TRUE ELSE UNCHANGED spentVars
  /\ IF which = "where" THEN TRUE ELSE UNCHANGED whereVars
  /\ IF which = "looks" THEN TRUE ELSE UNCHANGED looksVars

FeaturesNext ==
  /\ OthersRest
  /\ \/ which = "groups" /\ Next
     \/ which = "talk" /\ Talk!Next
     \/ which = "room" /\ Room!Next
     \/ which = "card" /\ Card!Next
     \/ which = "report" /\ Report!Next
     \/ which = "end" /\ End!Next
     \/ which = "hours" /\ Hours!Next
     \/ which = "pins" /\ Pins!Next
     \/ which = "pack" /\ Pack!Next
     \/ which = "thread" /\ Thread!Next
     \/ which = "trip" /\ Trip!Next
     \/ which = "agenda" /\ Plan!Next
     \/ which = "generate" /\ Wizard!Next
     \/ which = "compose" /\ Window!Next
     \/ which = "manual" /\ Manual!Next
     \/ which = "spent" /\ Spent!Next
     \/ which = "where" /\ Where!Next
     \/ which = "looks" /\ Looks!Next

features == <<which, vars, talkVars, roomVars, cardVars, reportVars, endVars, hoursVars,
    pinsVars, packVars, threadVars, tripVars, agendaVars, generateVars, composeVars,
    manualVars, spentVars, whereVars, looksVars>>

FeaturesSpec == FeaturesInit /\ [][FeaturesNext]_features

-----------------------------------------------------------------------------
(* Properties *)

\* Every feature keeps its types: what its handlers and screens read is of the form
\* they expect, whatever came in between.
TypesOK ==
  /\ which = "groups" => TypeOK
  /\ which = "talk" => Talk!TypeOK
  /\ which = "room" => Room!TypeOK
  /\ which = "card" => Card!TypeOK
  /\ which = "report" => Report!TypeOK
  /\ which = "end" => End!TypeOK
  /\ which = "hours" => Hours!TypeOK
  /\ which = "pins" => Pins!TypeOK
  /\ which = "pack" => Pack!TypeOK
  /\ which = "thread" => Thread!TypeOK
  /\ which = "trip" => Trip!TypeOK
  /\ which = "agenda" => Plan!TypeOK
  /\ which = "generate" => Wizard!TypeOK
  /\ which = "compose" => Window!TypeOK
  /\ which = "manual" => Manual!TypeOK
  /\ which = "spent" => Spent!TypeOK
  /\ which = "where" => Where!TypeOK
  /\ which = "looks" => Looks!TypeOK

\* Who opens a conversation with somebody finds what that person wrote: there is one
\* conversation of a pair, whatever was cut in two, unless two requests to open it
\* overlapped.  (conversations.js: a SELECT and two INSERTs)
ThreadsMeet == which = "talk" => Talk!ThreadsMeet

\* No message is missing from a page, or on it twice, without one of the reasons the code
\* leaves open: it is on its way, or its announcement found nobody in the room (as while
\* the page was closed, which opens again with what it showed), a page without data, or a
\* reply that replaced it.  (messages.js and the page's cache)
PageTellsMessages == which = "talk" => Talk!NothingMissed /\ Talk!ShownOnce

\* When all that was emitted has been handled, a connection is in the planning room
\* exactly if the page is open and the user may enter, dropped and overtaken events
\* excepted; and what others save reaches the page.  (socket.js, useSalaDoRoteiro.ts)
RoomFollows == which = "room" => Room!RoomAsWished /\ Room!FollowsEdits

\* A card at rest shows the post as the server has it: likes that failed were taken back,
\* deletions that failed put the post back, and a deletion that was undone in time does
\* not happen.  A profile at rest shows the tie as it is, its button does what it says and
\* it asks for what it may see, all of it unless the host did something meanwhile; list,
\* map and statistics agree.  (PostCard.tsx, optimistic updates and the timer of a toast;
\* profile/[userId]/page.tsx, users.js, map.js)
CardTellsTruth ==
  /\ which = "card" => Card!CardTellsTruth /\ Card!UndoneIsKept
  /\ which = "looks" =>
       /\ Looks!PageKnowsTheTie /\ Looks!DoesAsItSays
       /\ Looks!NumbersAgree /\ Looks!DatesAreForFollowers

\* Reports closed as "removed" are about content that was taken down, wherever the
\* decision was cut.  (admin.js: the content first, the reports last)
RemovedMeansTaken == which = "report" => Report!RemovedMeansTaken

\* A server that left by itself and reported no unfinished work lost no write.
\* (server.js and emSegundoPlano.js: requests, rounds of background work, pool)
LeavesNothingBehind == which = "end" => End!LeavesNothingBehind

\* "Open" and "closed" are what the label says of the visit, slot after slot; of a label
\* that was not read in full nothing is said.  (horarios.js, avaliarHorario)
VerdictIsTrue == which = "hours" => Hours!VerdictIsTrue

\* Nobody who knows where the destination is gets a pin on another continent, or the hours
\* of another place, unless somebody who did not know put it in the table, or the name
\* was found as an address before.  (geocodificar.js, the shared table)
PinsFit == which = "pins" => Pins!NoPinFarAway /\ Pins!HoursOfThePlace

\* A packing panel at rest shows the list as it is kept, in its order with the newest
\* last, ticks that failed or overlapped included; a panel of expenses the expenses, each
\* added once, and changed in the fields that were touched.  (packing.js, PackingPanel.tsx,
\* expenses.js, ExpensesPanel.tsx)
PanelShowsList ==
  /\ which = "pack" => Pack!PanelShowsList /\ Pack!NewestIsLast
  /\ which = "spent" => Spent!PanelShowsExpenses /\ Spent!OnlyWhatWasTyped /\ Spent!OneAForm

\* A screen of comments at rest shows the thread, each comment once, the newest first,
\* with its likes.  (PostDetailClient.tsx, ItineraryComments.tsx)
ScreenShowsThread == which = "thread" => Thread!ScreenShowsThread

\* An itinerary page at rest shows what is saved, the known ways of losing a change
\* excepted.  (ItineraryClient.tsx and the six requests that write its days)
PageShowsTrip == which = "trip" => Trip!PageShowsTrip

\* A day is without problems exactly if it lies in its window, nothing overlapping, and
\* its cover is the time in which something happens; and mending a plan never makes two
\* days of it the same.  (agenda.js, medirDia; aiAgent.js, completarDias)
PlanIsTrue == which = "agenda" => Plan!MeasureIsTrue /\ Plan!DaysStayApart

\* The destination is what was typed or one of the names that were offered for it, unless
\* they were replaced under the cursor, and they are for what is typed unless a reply came
\* late.  The days under review are those of the row that will be confirmed or discarded, all
\* of them and of no other try.  As long as no connection is lost, no stream is closed early,
\* no page is left and no deletion fails, no row is left that nobody will confirm or discard;
\* and each call to the model is counted once, until a request without a schema fails.
\* (new/page.tsx, itineraries.js, aiAgent.js)
GenerationEnds ==
  /\ which = "where" => Where!OffersWhatIsTyped /\ Where!ChosenIsAName
  /\ which = "generate" =>
       Wizard!ReviewShowsTheRow /\ Wizard!NoRowForgotten /\ Wizard!LedgerBalances

\* The place a model finds in a photo never replaces the one the author last gave; a post
\* without one, and one whose place the author cleared, may get it.  A window brings one
\* post, unless its answer is lost.  (posts.js: the background UPDATE asks for a destination
\* that is NULL by then; CreatePostModal.tsx)
AuthorsPlaceStays == which = "compose" => Window!AuthorsPlaceStays /\ Window!OnePostAWindow

\* The days that are kept are numbered by their places, and their dates go on unless days
\* were dragged or given another date, but for the day on which the clock goes forward,
\* which the next may repeat; and they are the days that were shown.  (manual/page.tsx)
DaysGoOn == which = "manual" => Manual!DaysGoOn /\ Manual!KeptAsShown

=============================================================================
