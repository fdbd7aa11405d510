------------------------------- MODULE Services -----------------------------
(***************************************************************************)
(* The features of which the server keeps the state: the planning room,    *)
(* what is reported, the end of the process, pins and opening hours, and   *)
(* the days of a trip.                                                     *)
(***************************************************************************)
EXTENDS Naturals, Sequences, FiniteSets

CONSTANTS
  Budget, MaxEdits, RoomActs,
  Reporters, Admins, MaxDecisions, MaxCuts,
  Tasks, Rounds, MaxChain,
  DaysOfWeek, MonthsOfYear, SlotsOfDay, MaxRules, MaxDuration,
  Fills, Terms, Town, Day, Worlds, MaxFailures,
  TripActs,
  Slots, From, To, Longest, MaxActivities

VARIABLES
  allowed, edits, mounted, roomPage, up, buffer, roomWire, joining, room, used, inbox,
  roomActs, roomSlips, unheard,
  target, reports, severity, reporting, jobs, admins, taken, budget,
  server, request, emVoo, waited, round, lost,
  label, visit, verdict,
  knows, lugares, fill, pinsActs, quiet, failures, pinsSlips,
  saved, tripCache, refined, tripTimer, tripReq, tripQuery, tripActs, tripMissed,
  tripSlips,
  stage, agendaDays, weak, first

-----------------------------------------------------------------------------
(* The features *)

Room == INSTANCE PlanningRoom WITH
    page <- roomPage, wire <- roomWire, acts <- roomActs, slips <- roomSlips,
    MaxActs <- RoomActs

Report == INSTANCE Moderation

End == INSTANCE Shutdown

Hours == INSTANCE OpeningHours

Pins == INSTANCE Places WITH
    acts <- pinsActs, slips <- pinsSlips

Trip == INSTANCE TripDays WITH
    cache <- tripCache, timer <- tripTimer, req <- tripReq, query <- tripQuery,
    acts <- tripActs, missed <- tripMissed, slips <- tripSlips, MaxActs <- TripActs

Plan == INSTANCE Agenda WITH
    days <- agendaDays

\* What may be in flight, and what a connection may send, is counted; background work is
\* waited for in one round at least.
ASSUME MaxChainAssumption == MaxChain \in Nat

ASSUME BudgetAssumption == Budget \in Nat

ASSUME RoundsAssumption == Rounds \in Nat \ {0}

\* The hours that rules give end with the day, or before.
ASSUME HoursAssumption ==
  MaxRules \in Nat /\ MaxDuration \in Nat /\ SlotsOfDay \in Nat /\ SlotsOfDay >= 4

\* The window of a day lies in it.
ASSUME AgendaAssumption ==
  /\ Slots \in Nat /\ Longest \in Nat /\ MaxActivities \in Nat
  /\ From \in Nat /\ To \in Nat /\ From < To /\ To <= Slots

\* Every activity has something to try, and Nominatim answers all there is to ask.
ASSUME WorldsAssumption ==
  /\ Town \in Terms
  /\ Worlds \subseteq [Terms -> [town : Pins!Answers, alone : Pins!Answers]]
  /\ Day \in Seq(Seq([term : Terms, name : BOOLEAN]) \ {<<>>})

-----------------------------------------------------------------------------
(* Their variables, and what these are when another feature is chosen *)

roomVars == <<allowed, edits, mounted, roomPage, up, buffer, roomWire, joining, room,
    used, inbox, roomActs, roomSlips, unheard>>
reportVars == <<target, reports, severity, reporting, jobs, admins, taken, budget>>
endVars == <<server, request, emVoo, waited, round, lost>>
hoursVars == <<label, visit, verdict>>
pinsVars == <<knows, lugares, fill, pinsActs, quiet, failures, pinsSlips>>
tripVars == <<saved, tripCache, refined, tripTimer, tripReq, tripQuery, tripActs,
    tripMissed, tripSlips>>
agendaVars == <<stage, agendaDays, weak, first>>

RoomRests ==
  /\ allowed = 0 /\ edits = 0 /\ mounted = 0 /\ roomPage = 0 /\ up = 0
  /\ buffer = 0 /\ roomWire = 0 /\ joining = 0 /\ room = 0 /\ used = 0
  /\ inbox = 0 /\ roomActs = 0 /\ roomSlips = 0 /\ unheard = 0

ReportRests ==
  /\ target = 0 /\ reports = 0 /\ severity = 0 /\ reporting = 0 /\ jobs = 0
  /\ admins = 0 /\ taken = 0 /\ budget = 0

EndRests ==
  /\ server = 0 /\ request = 0 /\ emVoo = 0 /\ waited = 0 /\ round = 0
  /\ lost = 0

HoursRests ==
  /\ label = 0 /\ visit = 0 /\ verdict = 0

PinsRests ==
  /\ knows = 0 /\ lugares = 0 /\ fill = 0 /\ pinsActs = 0 /\ quiet = 0
  /\ failures = 0 /\ pinsSlips = 0

TripRests ==
  /\ saved = 0 /\ tripCache = 0 /\ refined = 0 /\ tripTimer = 0 /\ tripReq = 0
  /\ tripQuery = 0 /\ tripActs = 0 /\ tripMissed = 0 /\ tripSlips = 0

PlanRests ==
  /\ stage = 0 /\ agendaDays = 0 /\ weak = 0 /\ first = 0
=============================================================================
