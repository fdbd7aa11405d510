-------------------------------- MODULE Screens -----------------------------
(***************************************************************************)
(* The features of which a screen shows, asks or changes something before  *)
(* the server does: a card, a profile, the panels of an itinerary and the  *)
(* forms with which something is made.                                     *)
(***************************************************************************)
EXTENDS Naturals, Sequences, FiniteSets

CONSTANTS
  Mutations, Timers, CardActs,
  Items, Toggles, PackActs,
  Jobs, NoJob, NumDays, WizardActs,
  Photos, Posts, WindowActs,
  ManualIds, MaxDays, ManualActs,
  ExpenseIds, Values, SpentActs,
  Short, Long, Suggestions, Lookups, WhereActs,
  Trips, Over, LooksActs

VARIABLES
  cardRow, cardCache, cardLikes, timers, cardQuery, cardActs, undone, cardSlips,
  packRows, packScreen, adders, toggles, reorder, packRemoving, packQuery, packActs,
  newest, packSlips,
  phase, listening, shown, reviewed, draft, job, generateWire, generateRows,
  generateCount, generateActs, generateSlips,
  window, photos, caption, dest, stream, detect, composeSend, composeRow, tag, edit,
  composeActs, kept, composeSlips,
  span, manualDays, named, editing, asking, offered, manualSend, manualRows,
  manualActs, manualSlips,
  spentRows, given, spentScreen, form, spentReq, spentRemoving, spentQuery, spentActs,
  meant, forms, spentSlips,
  text, names, open, active, whereTimer, requests, loading, leaving, whereActs, late,
  cut,
  own, host, tie, looksPage, looksQuery, press, seen, fetch, looksActs, stale,
  looksSlips

-----------------------------------------------------------------------------
(* The features *)

Card == INSTANCE PostCard WITH
    row <- cardRow, cache <- cardCache, likes <- cardLikes, query <- cardQuery,
    acts <- cardActs, slips <- cardSlips, MaxActs <- CardActs

Pack == INSTANCE PackingList WITH
    rows <- packRows, screen <- packScreen, removing <- packRemoving,
    query <- packQuery, acts <- packActs, slips <- packSlips, MaxActs <- PackActs

Wizard == INSTANCE Generation WITH
    wire <- generateWire, rows <- generateRows, count <- generateCount,
    acts <- generateActs, slips <- generateSlips, MaxActs <- WizardActs

Window == INSTANCE Compose WITH
    send <- composeSend, row <- composeRow, acts <- composeActs, slips <- composeSlips,
    MaxActs <- WindowActs

Manual == INSTANCE ManualTrip WITH
    days <- manualDays, send <- manualSend, rows <- manualRows, acts <- manualActs,
    slips <- manualSlips, Ids <- ManualIds, MaxActs <- ManualActs

Spent == INSTANCE Expenses WITH
    rows <- spentRows, screen <- spentScreen, req <- spentReq,
    removing <- spentRemoving, query <- spentQuery, acts <- spentActs,
    slips <- spentSlips, Ids <- ExpenseIds, MaxActs <- SpentActs

Where == INSTANCE DestinationInput WITH
    timer <- whereTimer, acts <- whereActs, Suggest <- Suggestions,
    Requests <- Lookups, MaxActs <- WhereActs

Looks == INSTANCE ProfilePage WITH
    page <- looksPage, query <- looksQuery, acts <- looksActs, slips <- looksSlips,
    MaxActs <- LooksActs

ASSUME MaxDaysAssumption == MaxDays \in Nat

ASSUME JobsAssumption == IsFiniteSet(Jobs) /\ NoJob \notin Jobs /\ NumDays \in Nat

\* Items are numbered in the order in which they are created; a list has two to begin with.
ASSUME ItemsAssumption == Items \subseteq Nat /\ {1, 2} \subseteq Items

\* There is one expense to begin with.
ASSUME ExpensesAssumption == 1 \in ExpenseIds

\* What the code compares with: nothing was typed, and what is read past the end of a list.
ASSUME TextsAssumption ==
  /\ Where!NoText \notin Long
  /\ Where!Undefined \notin Short \cup Long \cup Where!Names
  /\ \A t \in Long : Suggestions[t] \in Seq(Where!Names)

\* The trips that are over are trips of the host.
ASSUME OverAssumption == Over \subseteq Trips

-----------------------------------------------------------------------------
(* Their variables, and what these are when another feature is chosen *)

cardVars == <<cardRow, cardCache, cardLikes, timers, cardQuery, cardActs, undone,
    cardSlips>>
packVars == <<packRows, packScreen, adders, toggles, reorder, packRemoving, packQuery,
    packActs, newest, packSlips>>
generateVars == <<phase, listening, shown, reviewed, draft, job, generateWire,
    generateRows, generateCount, generateActs, generateSlips>>
composeVars == <<window, photos, caption, dest, stream, detect, composeSend, composeRow,
    tag, edit, composeActs, kept, composeSlips>>
manualVars == <<span, manualDays, named, editing, asking, offered, manualSend,
    manualRows, manualActs, manualSlips>>
spentVars == <<spentRows, given, spentScreen, form, spentReq, spentRemoving, spentQuery,
    spentActs, meant, forms, spentSlips>>
whereVars == <<text, names, open, active, whereTimer, requests, loading, leaving,
    whereActs, late, cut>>
looksVars == <<own, host, tie, looksPage, looksQuery, press, seen, fetch, looksActs,
    stale, looksSlips>>

CardRests ==
  /\ cardRow = 0 /\ cardCache = 0 /\ cardLikes = 0 /\ timers = 0 /\ cardQuery = 0
  /\ cardActs = 0 /\ undone = 0 /\ cardSlips = 0

PackRests ==
  /\ packRows = 0 /\ packScreen = 0 /\ adders = 0 /\ toggles = 0 /\ reorder = 0
  /\ packRemoving = 0 /\ packQuery = 0 /\ packActs = 0 /\ newest = 0 /\ packSlips = 0

WizardRests ==
  /\ phase = 0 /\ listening = 0 /\ shown = 0 /\ reviewed = 0 /\ draft = 0
  /\ job = 0 /\ generateWire = 0 /\ generateRows = 0 /\ generateCount = 0 /\ generateActs = 0
  /\ generateSlips = 0

WindowRests ==
  /\ window = 0 /\ photos = 0 /\ caption = 0 /\ dest = 0 /\ stream = 0
  /\ detect = 0 /\ composeSend = 0 /\ composeRow = 0 /\ tag = 0 /\ edit = 0
  /\ composeActs = 0 /\ kept = 0 /\ composeSlips = 0

ManualRests ==
  /\ span = 0 /\ manualDays = 0 /\ named = 0 /\ editing = 0 /\ asking = 0
  /\ offered = 0 /\ manualSend = 0 /\ manualRows = 0 /\ manualActs = 0 /\ manualSlips = 0

SpentRests ==
  /\ spentRows = 0 /\ given = 0 /\ spentScreen = 0 /\ form = 0 /\ spentReq = 0
  /\ spentRemoving = 0 /\ spentQuery = 0 /\ spentActs = 0 /\ meant = 0 /\ forms = 0
  /\ spentSlips = 0

WhereRests ==
  /\ text = 0 /\ names = 0 /\ open = 0 /\ active = 0 /\ whereTimer = 0
  /\ requests = 0 /\ loading = 0 /\ leaving = 0 /\ whereActs = 0 /\ late = 0
  /\ cut = 0

LooksRests ==
  /\ own = 0 /\ host = 0 /\ tie = 0 /\ looksPage = 0 /\ looksQuery = 0
  /\ press = 0 /\ seen = 0 /\ fetch = 0 /\ looksActs = 0 /\ stale = 0
  /\ looksSlips = 0
=============================================================================
