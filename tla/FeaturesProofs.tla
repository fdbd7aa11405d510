------------------------- MODULE FeaturesProofs -----------------------------
(***************************************************************************)
(* Theorems about the features, for every value of the constants. What a   *)
(* feature promises follows from an inductive invariant, stated and shown  *)
(* to be kept in the proofs about its own module; here a step of a         *)
(* behaviour of the feature is shown to be a step of that module, or to    *)
(* change nothing of it, so that the invariant holds throughout.           *)
(***************************************************************************)
EXTENDS Features, ThreadsProofs, ServicesProofs, ScreensProofs

-----------------------------------------------------------------------------
(* Travel groups *)

\* What groups do in a behaviour of the features, they do on their own.
LEMMA GroupsAreGroups == FeaturesSpec => Spec
<1>1. FeaturesInit => Init
  BY DEF FeaturesInit
<1>2. [FeaturesNext]_features => [Next]_vars
  BY DEF FeaturesNext, OthersRest, features
<1>3. QED
  BY <1>1, <1>2, PTL DEF FeaturesSpec, Spec

\* A group in use has its owner among its members, unless a transfer met the new owner's
\* leaving, or the founder's request was cut.  (groups.js, leave and transfer)
THEOREM OwnersBelong == FeaturesSpec => []OwnerIsMember
  BY GroupsAreGroups, OwnerBelongs, PTL

\* An invitation is used up only by letting its user in, and one that was sent after the
\* user last asked can still be accepted while the account that sent it first exists,
\* unless it was sent again during an acceptance.  (groups.js, invite and join/:token)
THEOREM InvitationsHoldGood == FeaturesSpec => []InvitationsHold
  BY GroupsAreGroups, InvitationsAreKept, PTL

\* Whoever is not invited stays outside a private group.  (groups.js, join)
THEOREM DoorsHold == FeaturesSpec => PrivateDoorHolds
  BY GroupsAreGroups, DoorHolds, PTL

-----------------------------------------------------------------------------
(* What people write to each other *)

\* A step in a behaviour of conversations is a step of its own, or changes nothing of it.
LEMMA TalkMoves ==
  ASSUME [FeaturesNext]_features, which' = "talk"
  PROVE  which = "talk" /\ [Talk!Next]_(Talk!vars)
BY DEF FeaturesNext, OthersRest, features, talkVars, Talk!vars, Talk!server

\* The invariant of conversations holds throughout its behaviours.
LEMMA TalkHolds == FeaturesSpec => [](which = "talk" => TalkInv)
<1>1. FeaturesInit => (which = "talk" => TalkInv)
  BY TalkInitially DEF FeaturesInit
<1>2. (which = "talk" => TalkInv) /\ [FeaturesNext]_features
        => (which = "talk" => TalkInv)'
  BY TalkMoves, TalkInductive
<1>3. QED
  BY <1>1, <1>2, PTL DEF FeaturesSpec

\* There is one conversation of a pair, whatever was cut in two before, unless two
\* requests to open it overlapped.  (conversations.js: a SELECT and two INSERTs)
THEOREM OneConversation == FeaturesSpec => []ThreadsMeet
<1>1. (which = "talk" => TalkInv) => ThreadsMeet
  BY TalkTells DEF ThreadsMeet
<1>2. QED
  BY TalkHolds, <1>1, PTL

\* The invariant of the pages holds throughout the behaviours of conversations.
LEMMA PagesHold == FeaturesSpec => [](which = "talk" => PagesInv)
<1>1. FeaturesInit => (which = "talk" => PagesInv)
  BY PagesInitially DEF FeaturesInit
<1>2. (which = "talk" => PagesInv) /\ [FeaturesNext]_features
        => (which = "talk" => PagesInv)'
  BY TalkMoves, PagesInductive
<1>3. QED
  BY <1>1, <1>2, PTL DEF FeaturesSpec

\* No message is missing from a page, or on it twice, without one of the reasons that the
\* code leaves open: a page has every message from its first one on that was announced
\* (or, for one's own, answered), or the event is on its way, or its announcement was lost,
\* as it is while the page is closed, which may open again with what it showed; and only a
\* message that a reply brought before its event is there twice.
\* (messages.js, socket.js and the three sources of messages/[convId]/page.tsx)
THEOREM MessagesAreTold == FeaturesSpec => []PageTellsMessages
<1>1. (which = "talk" => PagesInv) => PageTellsMessages
  BY PagesTell DEF PageTellsMessages
<1>2. QED
  BY PagesHold, <1>1, PTL

\* A step in a behaviour of comments is a step of its own, or changes nothing of it.
LEMMA ThreadMoves ==
  ASSUME [FeaturesNext]_features, which' = "thread"
  PROVE  which = "thread" /\ [Thread!Next]_(Thread!vars)
BY DEF FeaturesNext, OthersRest, features, threadVars, Thread!vars

\* The invariant of the comments holds throughout their behaviours.
LEMMA ThreadHolds == FeaturesSpec => [](which = "thread" => ThreadInv)
<1>1. FeaturesInit => (which = "thread" => ThreadInv)
  BY ThreadInitially DEF FeaturesInit
<1>2. (which = "thread" => ThreadInv) /\ [FeaturesNext]_features
        => (which = "thread" => ThreadInv)'
  BY ThreadMoves, ThreadInductive
<1>3. QED
  BY <1>1, <1>2, PTL DEF FeaturesSpec

\* With nothing under way the screen shows the thread: every comment once, the newest
\* first, with its likes, and a post counts as many as there are, unless a query crossed
\* something, an answer was lost, somebody else wrote, a like was pressed twice at once, or
\* a comment came back together with one that was being deleted.
\* (PostDetailClient.tsx, ItineraryComments.tsx, posts.js and itinerariesSocial.js)
THEOREM CommentsAreShown == FeaturesSpec => []ScreenShowsThread
<1>1. (which = "thread" => ThreadInv) => ScreenShowsThread
  BY ThreadTells DEF ScreenShowsThread
<1>2. QED
  BY ThreadHolds, <1>1, PTL

-----------------------------------------------------------------------------
(* What the server keeps *)

\* A step in a behaviour of the planning room is a step of its own, or changes nothing of it.
LEMMA RoomMoves ==
  ASSUME [FeaturesNext]_features, which' = "room"
  PROVE  which = "room" /\ [Room!Next]_(Room!vars)
BY DEF FeaturesNext, OthersRest, features, roomVars, Room!vars, Room!net, Room!history

\* The invariant of the planning room holds throughout its behaviours.
LEMMA RoomHolds == FeaturesSpec => [](which = "room" => RoomInv)
<1>1. FeaturesInit => (which = "room" => RoomInv)
  BY RoomInitially DEF FeaturesInit
<1>2. (which = "room" => RoomInv) /\ [FeaturesNext]_features => (which = "room" => RoomInv)'
  BY RoomMoves, RoomInductive
<1>3. QED
  BY <1>1, <1>2, PTL DEF FeaturesSpec

\* When all that was emitted has been handled, a connection is in the planning room exactly
\* if the page is open and the user may enter, dropped and overtaken events excepted, and
\* what others save reaches the page: however many events there are, and whatever the
\* budget.  (socket.js, useSalaDoRoteiro.ts)
THEOREM RoomIsFollowed == FeaturesSpec => []RoomFollows
<1>1. (which = "room" => RoomInv) => RoomFollows
  BY RoomTells DEF RoomFollows
<1>2. QED
  BY RoomHolds, <1>1, PTL

\* A step in a behaviour of moderation is a step of its own, or changes nothing of it.
LEMMA ReportMoves ==
  ASSUME [FeaturesNext]_features, which' = "report"
  PROVE  which = "report" /\ [Report!Next]_(Report!vars)
BY DEF FeaturesNext, OthersRest, features, reportVars, Report!vars

\* The invariant of moderation holds throughout its behaviours.
LEMMA ReportHolds == FeaturesSpec => [](which = "report" => ReportInv)
<1>1. FeaturesInit => (which = "report" => ReportInv)
  BY ReportInitially DEF FeaturesInit
<1>2. (which = "report" => ReportInv) /\ [FeaturesNext]_features
        => (which = "report" => ReportInv)'
  BY ReportMoves, ReportInductive
<1>3. QED
  BY <1>1, <1>2, PTL DEF FeaturesSpec

\* A report closed as "removed" is about content that was taken down, whichever of
\* the three queries of a decision fails.  (admin.js)
THEOREM RemovalIsReal == FeaturesSpec => []RemovedMeansTaken
<1>1. (which = "report" => ReportInv) => RemovedMeansTaken
  BY DEF ReportInv, RemovedMeansTaken
<1>2. QED
  BY ReportHolds, <1>1, PTL

\* A step in a behaviour of shutdown is a step of its own, or changes nothing of it.
LEMMA EndMoves ==
  ASSUME [FeaturesNext]_features, which' = "end"
  PROVE  which = "end" /\ [End!Next]_(End!vars)
BY DEF FeaturesNext, OthersRest, features, endVars, End!vars

\* The invariant of shutdown holds throughout its behaviours.
LEMMA EndHolds == FeaturesSpec => [](which = "end" => EndInv)
<1>1. FeaturesInit => (which = "end" => EndInv)
  BY EndInitially DEF FeaturesInit
<1>2. (which = "end" => EndInv) /\ [FeaturesNext]_features
        => (which = "end" => EndInv)'
  BY EndMoves, EndInductive
<1>3. QED
  BY <1>1, <1>2, PTL DEF FeaturesSpec

\* A server that left by itself, and said nothing of unfinished work, lost no write:
\* app.close() comes before the rounds and the pool is closed after them, so what is
\* registered when a round ends either has a round to come or is reported.
\* (server.js, emSegundoPlano.js)
THEOREM NothingIsLeftBehind == FeaturesSpec => []LeavesNothingBehind
<1>1. (which = "end" => EndInv) => LeavesNothingBehind
  BY DEF EndInv, LeavesNothingBehind
<1>2. QED
  BY EndHolds, <1>1, PTL

\* A step in a behaviour of pins and hours is a step of its own, or changes nothing of it.
LEMMA PinsMoves ==
  ASSUME [FeaturesNext]_features, which' = "pins"
  PROVE  which = "pins" /\ [Pins!Next]_(Pins!vars)
BY DEF FeaturesNext, OthersRest, features, pinsVars, Pins!vars

\* The invariant of pins and hours holds throughout its behaviours.
LEMMA PinsHold == FeaturesSpec => [](which = "pins" => PinsInv)
<1>1. FeaturesInit => (which = "pins" => PinsInv)
  BY PinsInitially DEF FeaturesInit
<1>2. (which = "pins" => PinsInv) /\ [FeaturesNext]_features => (which = "pins" => PinsInv)'
  BY PinsMoves, PinsInductive
<1>3. QED
  BY <1>1, <1>2, PTL DEF FeaturesSpec

\* Nobody who knows where the destination is gets a pin on another continent, or the hours
\* of another place, unless the table had it from somebody who did not, or from an address:
\* whatever there is to look up, and however many itineraries are filled at a time.
\* (geocodificar.js, the shared table)
THEOREM PinsAreNear == FeaturesSpec => []PinsFit
<1>1. (which = "pins" => PinsInv) => PinsFit
  BY PinsTell DEF PinsFit
<1>2. QED
  BY PinsHold, <1>1, PTL

\* A step in a behaviour of opening hours is a step of its own, or changes nothing of it.
LEMMA HoursMoves ==
  ASSUME [FeaturesNext]_features, which' = "hours"
  PROVE  which = "hours" /\ [Hours!Next]_(Hours!vars)
BY DEF FeaturesNext, OthersRest, features, hoursVars, Hours!vars

\* The invariant of opening hours holds throughout its behaviours.
LEMMA HoursHold == FeaturesSpec => [](which = "hours" => HoursInv)
<1>1. FeaturesInit => (which = "hours" => HoursInv)
  BY HoursInitially DEF FeaturesInit
<1>2. (which = "hours" => HoursInv) /\ [FeaturesNext]_features
        => (which = "hours" => HoursInv)'
  BY HoursMoves, HoursInductive
<1>3. QED
  BY <1>1, <1>2, PTL DEF FeaturesSpec

\* "Open" and "closed" are what the label says of the visit, slot after slot, whatever rules
\* it has and however many; of a label that was not read in full nothing is said.
\* (horarios.js, avaliarHorario: the last rule about the day, a pair of hours at a time)
THEOREM VerdictsAreTrue == FeaturesSpec => []VerdictIsTrue
<1>1. (which = "hours" => HoursInv) => VerdictIsTrue
  BY DEF HoursInv, VerdictIsTrue
<1>2. QED
  BY HoursHold, <1>1, PTL

\* A step in a behaviour of planned days is a step of its own, or changes nothing of it.
LEMMA PlanMoves ==
  ASSUME [FeaturesNext]_features, which' = "agenda"
  PROVE  which = "agenda" /\ [Plan!Next]_(Plan!vars)
BY DEF FeaturesNext, OthersRest, features, agendaVars, Plan!vars

\* The invariant of planned days holds throughout their behaviours.
LEMMA PlanHolds == FeaturesSpec => [](which = "agenda" => PlanInv)
<1>1. FeaturesInit => (which = "agenda" => PlanInv)
  BY PlanInitially DEF FeaturesInit
<1>2. (which = "agenda" => PlanInv) /\ [FeaturesNext]_features
        => (which = "agenda" => PlanInv)'
  BY PlanMoves, PlanInductive
<1>3. QED
  BY <1>1, <1>2, PTL DEF FeaturesSpec

\* The measure of a planned day is true of whatever a model sends: a day has no problem
\* exactly if its activities lie in the window one after the other, and then it is as full as
\* the slots in which something happens; and a second answer makes no two days the same that
\* had different numbers.  (agenda.js, medirDia; aiAgent.js, completarDias)
THEOREM PlansAreTrue == FeaturesSpec => []PlanIsTrue
<1>1. (which = "agenda" => PlanInv) => PlanIsTrue
  BY PlanTells DEF PlanIsTrue
<1>2. QED
  BY PlanHolds, <1>1, PTL

\* A step in a behaviour of the days of a trip is a step of its own, or changes nothing of it.
LEMMA TripMoves ==
  ASSUME [FeaturesNext]_features, which' = "trip"
  PROVE  which = "trip" /\ [Trip!Next]_(Trip!vars)
BY DEF FeaturesNext, OthersRest, features, tripVars, Trip!vars

\* The invariant of a trip holds throughout its behaviours.
LEMMA TripHolds == FeaturesSpec => [](which = "trip" => TripInv)
<1>1. FeaturesInit => (which = "trip" => TripInv)
  BY TripInitially DEF FeaturesInit
<1>2. (which = "trip" => TripInv) /\ [FeaturesNext]_features => (which = "trip" => TripInv)'
  BY TripMoves, TripInductive
<1>3. QED
  BY <1>1, <1>2, PTL DEF FeaturesSpec

\* With nothing under way, the page of a trip shows its owner the days as they are saved,
\* whatever was edited, added, deleted, dragged, refined or refused before, and no edit or
\* deletion fell on another activity than the one it was pressed on
\* (itineraries/[id]/ItineraryClient.tsx with the handlers of routes/itineraries.js), unless
\* one of the eight things happened that lose a change.
THEOREM PageIsTheTrip == FeaturesSpec => []PageShowsTrip
<1>1. (which = "trip" => TripInv) => PageShowsTrip
  BY TripTells DEF PageShowsTrip
<1>2. QED
  BY TripHolds, <1>1, PTL

-----------------------------------------------------------------------------
(* What the screens show *)

\* A step in a behaviour of the card is a step of its own, or changes nothing of it.
LEMMA CardMoves ==
  ASSUME [FeaturesNext]_features, which' = "card"
  PROVE  which = "card" /\ [Card!Next]_(Card!vars)
BY DEF FeaturesNext, OthersRest, features, cardVars, Card!vars

\* The invariant of the card holds throughout its behaviours.
LEMMA CardHolds == FeaturesSpec => [](which = "card" => CardInv)
<1>1. FeaturesInit => (which = "card" => CardInv)
  BY CardInitially DEF FeaturesInit
<1>2. (which = "card" => CardInv) /\ [FeaturesNext]_features => (which = "card" => CardInv)'
  BY CardMoves, CardInductive
<1>3. QED
  BY <1>1, <1>2, PTL DEF FeaturesSpec

\* A step in a behaviour of the profile is a step of its own, or changes nothing of it.
LEMMA LooksMoves ==
  ASSUME [FeaturesNext]_features, which' = "looks"
  PROVE  which = "looks" /\ [Looks!Next]_(Looks!vars)
BY DEF FeaturesNext, OthersRest, features, looksVars, Looks!vars

\* The invariant of the profile holds throughout its behaviours.
LEMMA LooksHolds == FeaturesSpec => [](which = "looks" => LooksInv)
<1>1. FeaturesInit => (which = "looks" => LooksInv)
  BY LooksInitially DEF FeaturesInit
<1>2. (which = "looks" => LooksInv) /\ [FeaturesNext]_features => (which = "looks" => LooksInv)'
  BY LooksMoves, LooksInductive
<1>3. QED
  BY <1>1, <1>2, PTL DEF FeaturesSpec

\* A card at rest shows the post as the server has it, and a deletion that was undone in
\* time does not happen; a profile at rest shows the tie as it is, its button does what it
\* says, it asks for what it may see, and its parts agree.  (PostCard.tsx;
\* profile/[userId]/page.tsx, users.js, map.js)
THEOREM ScreensTellTruth == FeaturesSpec => []CardTellsTruth
<1>1. (which = "card" => CardInv) /\ (which = "looks" => LooksInv) => CardTellsTruth
  BY CardShowsIt, LooksTellsTruth DEF CardTellsTruth
<1>2. QED
  BY CardHolds, LooksHolds, <1>1, PTL

\* A step in a behaviour of the panel of expenses is a step of its own, or changes nothing of it.
LEMMA SpentMoves ==
  ASSUME [FeaturesNext]_features, which' = "spent"
  PROVE  which = "spent" /\ [Spent!Next]_(Spent!vars)
BY DEF FeaturesNext, OthersRest, features, spentVars, Spent!vars

\* The invariant of the panel of expenses holds throughout its behaviours.
LEMMA SpentHolds == FeaturesSpec => [](which = "spent" => SpentInv)
<1>1. FeaturesInit => (which = "spent" => SpentInv)
  BY SpentInitially DEF FeaturesInit
<1>2. (which = "spent" => SpentInv) /\ [FeaturesNext]_features => (which = "spent" => SpentInv)'
  BY SpentMoves, SpentInductive
<1>3. QED
  BY <1>1, <1>2, PTL DEF FeaturesSpec

\* A step in a behaviour of the packing list is a step of its own, or changes nothing of it.
LEMMA PackMoves ==
  ASSUME [FeaturesNext]_features, which' = "pack"
  PROVE  which = "pack" /\ [Pack!Next]_(Pack!vars)
BY DEF FeaturesNext, OthersRest, features, packVars, Pack!vars

\* The invariant of the packing list holds throughout its behaviours.
LEMMA PackHolds == FeaturesSpec => [](which = "pack" => PackInv)
<1>1. FeaturesInit => (which = "pack" => PackInv)
  BY PackInitially DEF FeaturesInit
<1>2. (which = "pack" => PackInv) /\ [FeaturesNext]_features => (which = "pack" => PackInv)'
  BY PackMoves, PackInductive
<1>3. QED
  BY <1>1, <1>2, PTL DEF FeaturesSpec

\* A panel with nothing under way shows what is kept: of the expenses the amounts that were
\* typed and no others, one for each form that was sent; of the packing list the ticks and
\* the order, with the item that was added last at the end.  Where the code lets the two
\* part (a lost answer, an order that was not saved or crossed a fetch) is the hypothesis.
\* (ExpensesPanel.tsx, PackingPanel.tsx, expenses.js, packing.js)
THEOREM PanelsShowLists == FeaturesSpec => []PanelShowsList
<1>1. (which = "pack" => PackInv) /\ (which = "spent" => SpentInv) => PanelShowsList
  BY PackShows, SpentShows DEF PanelShowsList
<1>2. QED
  BY PackHolds, SpentHolds, <1>1, PTL

\* A step in a behaviour of the window of a new post is a step of its own, or changes nothing of it.
LEMMA WindowMoves ==
  ASSUME [FeaturesNext]_features, which' = "compose"
  PROVE  which = "compose" /\ [Window!Next]_(Window!vars)
BY DEF FeaturesNext, OthersRest, features, composeVars, Window!vars

\* The invariant of the window of a new post holds throughout its behaviours.
LEMMA WindowHolds == FeaturesSpec => [](which = "compose" => WindowInv)
<1>1. FeaturesInit => (which = "compose" => WindowInv)
  BY WindowInitially DEF FeaturesInit
<1>2. (which = "compose" => WindowInv) /\ [FeaturesNext]_features
        => (which = "compose" => WindowInv)'
  BY WindowMoves, WindowInductive
<1>3. QED
  BY <1>1, <1>2, PTL DEF FeaturesSpec

\* What the background search finds never replaces the place the author last gave, in the
\* window or in an edit that was quicker, and is only for a post that has none, be it that
\* the author cleared it; and a window brings one post unless its answer is lost.
\* (posts.js: UPDATE ... WHERE destination IS NULL; CreatePostModal.tsx)
THEOREM PlaceIsTheAuthors == FeaturesSpec => []AuthorsPlaceStays
<1>1. (which = "compose" => WindowInv) => AuthorsPlaceStays
  BY WindowTells DEF AuthorsPlaceStays
<1>2. QED
  BY WindowHolds, <1>1, PTL

\* A step in a behaviour of the form of a manual trip is a step of its own, or changes nothing of it.
LEMMA ManualMoves ==
  ASSUME [FeaturesNext]_features, which' = "manual"
  PROVE  which = "manual" /\ [Manual!Next]_(Manual!vars)
BY DEF FeaturesNext, OthersRest, features, manualVars, Manual!vars

\* The invariant of the form of a manual trip holds throughout its behaviours.
LEMMA ManualHolds == FeaturesSpec => [](which = "manual" => ManualInv)
<1>1. FeaturesInit => (which = "manual" => ManualInv)
  BY ManualInitially DEF FeaturesInit
<1>2. (which = "manual" => ManualInv) /\ [FeaturesNext]_features
        => (which = "manual" => ManualInv)'
  BY ManualMoves, ManualInductive
<1>3. QED
  BY <1>1, <1>2, PTL DEF FeaturesSpec

\* The days that are kept are numbered by their places, their dates go on unless days were
\* dragged or given another date (but for the day of the clock change, which the next may
\* repeat), and they are the days that were shown when nothing was changed meanwhile,
\* however many days and activities there are.  (manual/page.tsx, generateDays, addDay,
\* updateDay and handleSave)
THEOREM DaysAreAsShown == FeaturesSpec => []DaysGoOn
<1>1. (which = "manual" => ManualInv) => DaysGoOn
  BY ManualTells DEF DaysGoOn
<1>2. QED
  BY ManualHolds, <1>1, PTL

\* A step in a behaviour of the field of the destination is a step of its own, or changes nothing of it.
LEMMA WhereMoves ==
  ASSUME [FeaturesNext]_features, which' = "where"
  PROVE  which = "where" /\ [Where!Next]_(Where!vars)
BY DEF FeaturesNext, OthersRest, features, whereVars, Where!vars

\* The invariant of the field of the destination holds throughout its behaviours.
LEMMA WhereHolds == FeaturesSpec => [](which = "where" => WhereInv)
<1>1. FeaturesInit => (which = "where" => WhereInv)
  BY WhereInitially DEF FeaturesInit
<1>2. (which = "where" => WhereInv) /\ [FeaturesNext]_features
        => (which = "where" => WhereInv)'
  BY WhereMoves, WhereInductive
<1>3. QED
  BY <1>1, <1>2, PTL DEF FeaturesSpec

\* A step in a behaviour of the pages of the generation is a step of its own, or changes nothing of it.
LEMMA WizardMoves ==
  ASSUME [FeaturesNext]_features, which' = "generate"
  PROVE  which = "generate" /\ [Wizard!Next]_(Wizard!vars)
BY DEF FeaturesNext, OthersRest, features, generateVars, Wizard!vars, Wizard!page

\* The invariant of the pages of the generation holds throughout its behaviours.
LEMMA WizardHolds == FeaturesSpec => [](which = "generate" => WizardInv)
<1>1. FeaturesInit => (which = "generate" => WizardInv)
  BY WizardInitially DEF FeaturesInit
<1>2. (which = "generate" => WizardInv) /\ [FeaturesNext]_features
        => (which = "generate" => WizardInv)'
  BY WizardMoves, WizardInductive
<1>3. QED
  BY <1>1, <1>2, PTL DEF FeaturesSpec

\* The destination is what was typed or one of the names that were offered for it, unless
\* they were replaced under the cursor or a reply came late; the days under review are
\* those of the row that will be confirmed or discarded; unless a connection is lost, a
\* stream closed early, a page left or a deletion fails, no row is left that nobody will
\* confirm or discard; each call to the model, the second one that mends a plan included, is
\* counted once until one without a schema fails, which is counted nowhere: however many
\* generations there are, and however long the trip and its texts.  (new/page.tsx,
\* itineraries.js, aiAgent.js)
THEOREM GenerationsEnd == FeaturesSpec => []GenerationEnds
<1>1. (which = "where" => WhereInv) /\ (which = "generate" => WizardInv) => GenerationEnds
  BY WhereTells, WizardTells DEF GenerationEnds
<1>2. QED
  BY WhereHolds, WizardHolds, <1>1, PTL

-----------------------------------------------------------------------------
(* The types of all of them *)

\* The types of conversations hold throughout.
LEMMA TalkTypesHold == FeaturesSpec => [](which = "talk" => PagesInv /\ TalkRows /\ TalkLogs)
<1>1. FeaturesInit => (which = "talk" => PagesInv /\ TalkRows /\ TalkLogs)
  BY PagesInitially, TalkTypesInitially DEF FeaturesInit
<1>2. (which = "talk" => PagesInv /\ TalkRows /\ TalkLogs) /\ [FeaturesNext]_features
        => (which = "talk" => PagesInv /\ TalkRows /\ TalkLogs)'
  BY TalkMoves, PagesInductive, RowsInductive, LogsInductive DEF PagesInv
<1>3. QED
  BY <1>1, <1>2, PTL DEF FeaturesSpec

\* The types of comments hold throughout.
LEMMA ThreadTypesHold == FeaturesSpec => [](which = "thread" => ThreadInv /\ LikesTypes)
<1>1. FeaturesInit => (which = "thread" => ThreadInv /\ LikesTypes)
  BY ThreadInitially, LikesTypesInitially DEF FeaturesInit
<1>2. (which = "thread" => ThreadInv /\ LikesTypes) /\ [FeaturesNext]_features
        => (which = "thread" => ThreadInv /\ LikesTypes)'
  BY ThreadMoves, ThreadInductive, LikesInductive DEF ThreadInv
<1>3. QED
  BY <1>1, <1>2, PTL DEF FeaturesSpec

\* The types of the planning room hold throughout.
LEMMA RoomTypesHold == FeaturesSpec => [](which = "room" => RoomInv /\ RoomFlags /\ RoomCounts)
<1>1. FeaturesInit => (which = "room" => RoomInv /\ RoomFlags /\ RoomCounts)
  BY RoomInitially, FlagsInitially, CountsInitially DEF FeaturesInit
<1>2. (which = "room" => RoomInv /\ RoomFlags /\ RoomCounts) /\ [FeaturesNext]_features
        => (which = "room" => RoomInv /\ RoomFlags /\ RoomCounts)'
  BY RoomMoves, RoomInductive, FlagsInductive, CountsInductive
<1>3. QED
  BY <1>1, <1>2, PTL DEF FeaturesSpec

\* The types of shutdown hold throughout.
LEMMA EndTypesHold == FeaturesSpec => [](which = "end" => EndTypes)
<1>1. FeaturesInit => (which = "end" => EndTypes)
  BY EndTypesInitially DEF FeaturesInit
<1>2. (which = "end" => EndTypes) /\ [FeaturesNext]_features
        => (which = "end" => EndTypes)'
  BY EndMoves, EndTypesInductive
<1>3. QED
  BY <1>1, <1>2, PTL DEF FeaturesSpec

\* The types of a trip hold throughout, whatever slipped.
LEMMA TripTypesHold == FeaturesSpec => [](which = "trip" => TripTyped)
<1>1. FeaturesInit => (which = "trip" => TripTyped)
  BY TripTypedInitially DEF FeaturesInit
<1>2. (which = "trip" => TripTyped) /\ [FeaturesNext]_features
        => (which = "trip" => TripTyped)'
  BY TripMoves, TripTypedInductive
<1>3. QED
  BY <1>1, <1>2, PTL DEF FeaturesSpec

\* The types of the packing list hold throughout.
LEMMA PackTypesHold == FeaturesSpec => [](which = "pack" => PackInv /\ PackReasons)
<1>1. FeaturesInit => (which = "pack" => PackInv /\ PackReasons)
  BY PackInitially DEF FeaturesInit, Pack!Init, PackReasons
<1>2. (which = "pack" => PackInv /\ PackReasons) /\ [FeaturesNext]_features
        => (which = "pack" => PackInv /\ PackReasons)'
  BY PackMoves, PackInductive, ReasonsInductive
<1>3. QED
  BY <1>1, <1>2, PTL DEF FeaturesSpec

\* The types of expenses hold throughout.
LEMMA SpentTypesHold == FeaturesSpec => [](which = "spent" => SpentInv /\ RowsAreFull)
<1>1. FeaturesInit => (which = "spent" => SpentInv /\ RowsAreFull)
  BY SpentInitially, FullInitially DEF FeaturesInit
<1>2. (which = "spent" => SpentInv /\ RowsAreFull) /\ [FeaturesNext]_features
        => (which = "spent" => SpentInv /\ RowsAreFull)'
  BY SpentMoves, SpentInductive, FullInductive DEF SpentInv
<1>3. QED
  BY <1>1, <1>2, PTL DEF FeaturesSpec

\* Every feature keeps its types, however many take part in it and whatever crosses, fails
\* or is lost: what a handler reads of the tables, and a screen of its cache, is of the form
\* it expects.  (all handlers and screens that Features is made of)
THEOREM TypesAreKept == FeaturesSpec => []TypesOK
<1> DEFINE Talked  == /\ which = "groups" => TypeOK
                      /\ which = "talk" => Talk!TypeOK
                      /\ which = "thread" => Thread!TypeOK
           Served  == /\ which = "room" => Room!TypeOK
                      /\ which = "report" => Report!TypeOK
                      /\ which = "end" => End!TypeOK
                      /\ which = "hours" => Hours!TypeOK
           Planned == /\ which = "pins" => Pins!TypeOK
                      /\ which = "trip" => Trip!TypeOK
                      /\ which = "agenda" => Plan!TypeOK
           Watched == /\ which = "card" => Card!TypeOK
                      /\ which = "looks" => Looks!TypeOK
                      /\ which = "pack" => Pack!TypeOK
                      /\ which = "spent" => Spent!TypeOK
           Filled  == /\ which = "compose" => Window!TypeOK
                      /\ which = "manual" => Manual!TypeOK
                      /\ which = "where" => Where!TypeOK
                      /\ which = "generate" => Wizard!TypeOK
<1>1. FeaturesSpec => []Talked
  <2>1. Spec => []TypeOK
    BY TypeCorrect
  <2>2. /\ PagesInv /\ TalkRows /\ TalkLogs => Talk!TypeOK
        /\ ThreadInv /\ LikesTypes => Thread!TypeOK
    BY TalkHasTypes, ThreadHasTypes DEF PagesInv
  <2>3. QED
    BY <2>1, <2>2, GroupsAreGroups, TalkTypesHold, ThreadTypesHold, PTL
<1>2. FeaturesSpec => []Served
  <2>1. /\ RoomInv /\ RoomFlags /\ RoomCounts => Room!TypeOK
        /\ ReportInv => Report!TypeOK
        /\ EndTypes => End!TypeOK
        /\ HoursInv => Hours!TypeOK
    BY RoomHasTypes DEF ReportInv, EndTypes, HoursInv
  <2>2. QED
    BY <2>1, RoomTypesHold, ReportHolds, EndTypesHold, HoursHold, PTL
<1>3. FeaturesSpec => []Planned
  <2>1. /\ PinsInv => Pins!TypeOK
        /\ TripTyped => Trip!TypeOK
        /\ PlanInv => Plan!TypeOK
    BY PinsHasTypes, TripHasTypes, PlanHasTypes DEF PinsInv
  <2>2. QED
    BY <2>1, PinsHold, TripTypesHold, PlanHolds, PTL
<1>4. FeaturesSpec => []Watched
  <2>1. /\ CardInv => Card!TypeOK
        /\ LooksInv => Looks!TypeOK
        /\ PackInv /\ PackReasons => Pack!TypeOK
        /\ RowsAreFull => Spent!TypeOK
    BY PackHasTypes, SpentHasTypes DEF CardInv, LooksInv, LooksTypes
  <2>2. QED
    BY <2>1, CardHolds, LooksHolds, PackTypesHold, SpentTypesHold, PTL
<1>5. FeaturesSpec => []Filled
  BY WindowHasTypes, ManualHasTypes, WhereHasTypes, WizardHasTypes, WindowHolds, ManualHolds,
     WhereHolds, WizardHolds, PTL
<1>6. Talked /\ Served /\ Planned /\ Watched /\ Filled => TypesOK
  BY DEF TypesOK
<1> HIDE DEF Talked, Served, Planned, Watched, Filled
<1>7. QED
  BY <1>1, <1>2, <1>3, <1>4, <1>5, <1>6, PTL

=============================================================================
