------------------------------ MODULE TripDays ------------------------------
(***************************************************************************)
(* The days of a kept itinerary, on the page of its owner                  *)
(* (itineraries/[id]/ItineraryClient.tsx with VistaDosDias, the modals,    *)
(* ItineraryRefinement and TripCompanion) and in the row the handlers of   *)
(* routes/itineraries.js rewrite.  Every handler reads the whole document, *)
(* changes a day of it and writes it back; an activity is named by its     *)
(* place in the day.  A drag is painted at once and saved half a second    *)
(* later; the other changes are painted when they are answered.  What      *)
(* language model answers is a day the other way round or without its last *)
(* activity.  An activity is a number, which is also its time of day.      *)
(***************************************************************************)
EXTENDS Naturals, Sequences, SequencesExt, FiniteSetsExt

CONSTANTS
  MaxActs    \* bounds what is started and what fails

Days       == {1, 2}
Activities == 1..5
Ops        == {"form", "ai", "delete", "reorder", "refine", "adapt"}
NoMask     == <<>>
NoList     == <<>>

VARIABLES
  saved,     \* [Days -> sequence of activities], the row
  cache,     \* the same as the query keeps it
  refined,   \* what is shown instead, once something was refined or adapted
  timer,     \* the one timer of the page: the day and the order it will save
  req,       \* [Ops -> request on its way]
  query,     \* GET on its way
  acts,
  missed,    \* history: an edit or a deletion fell on another activity than was meant
  slips      \* history: why the page may be wrong

vars == <<saved, cache, refined, timer, req, query, acts, missed, slips>>

-----------------------------------------------------------------------------
Shown == IF refined = NoMask THEN cache ELSE refined

NoReq   == [pc |-> "idle", kind |-> "", day |-> 0, at |-> 0, meant |-> 0, item |-> 0,
            list |-> NoList, data |-> NoMask]
NoTimer == [day |-> 0, list |-> NoList]
NoQuery == [pc |-> "idle", reply |-> NoMask]

Busy(op) == req[op].pc # "idle"

\* What a new activity may be; none once nothing may be started any more.
Fresh ==
  IF acts < MaxActs /\ slips = {}
    THEN Activities \ (UNION {ToSet(saved[d]) \cup ToSet(cache[d]) \cup ToSet(Shown[d]) : d \in Days}
                       \cup {req[op].item : op \in Ops})
    ELSE {}

\* Pressing something on day d while another change of it has not reached the row, or
\* on a page that shows something else than it edits.
Pressed(d) ==
  slips \cup (IF timer.day = d \/ \E op \in Ops : Busy(op) /\ (req[op].day = d \/ op = "refine")
                THEN {"overlap"} ELSE {})
        \cup (IF refined # NoMask THEN {"masked"} ELSE {})

\* Bounds: what comes after a slip is not looked at, so nothing is started then; two
\* requests are on their way at a time.
Act ==
  /\ acts < MaxActs /\ slips = {} /\ acts' = acts + 1
  /\ Quantify(Ops, Busy) < 2

Init ==
  /\ saved = [d \in Days |-> IF d = 1 THEN <<2, 3>> ELSE <<4, 5>>]
  /\ cache = saved
  /\ refined = NoMask
  /\ timer = NoTimer
  /\ req = [op \in Ops |-> NoReq]
  /\ query = NoQuery
  /\ acts = 0
  /\ missed = FALSE
  /\ slips = {}

-----------------------------------------------------------------------------
(* What the owner does *)

Press(op, kind, d, k, j, list) ==
  /\ ~Busy(op)
  /\ Act
  /\ req' = [req EXCEPT ![op] = [NoReq EXCEPT !.pc = "sent", !.kind = kind, !.day = d, !.at = k,
                                              !.meant = IF k = 0 THEN 0 ELSE Shown[d][k],
                                              !.item = j, !.list = list]]
  /\ slips' = Pressed(d)
  /\ UNCHANGED <<saved, cache, refined, timer, query, missed>>

\* The form remembers the day as it was shown, with the activity replaced.
Edit(d, k, j)     == Press("form", "edit", d, k, j, [Shown[d] EXCEPT ![k] = j])
AddOne(d, j)      == Press("form", "add", d, 0, j, NoList)
AcceptAi(d, k, j) == Press("ai", "edit", d, k, j, NoList)
DeleteOne(d, k)   == Press("delete", "delete", d, k, 0, NoList)
Adapt(d)          == Press("adapt", "adapt", d, 0, 0, NoList)

Refine ==
  /\ ~Busy("refine")
  /\ Act
  /\ req' = [req EXCEPT !["refine"] = [NoReq EXCEPT !.pc = "sent", !.kind = "refine"]]
  /\ slips' = slips \cup (IF timer # NoTimer \/ \E op \in Ops : Busy(op) THEN {"overlap"} ELSE {})
  /\ UNCHANGED <<saved, cache, refined, timer, query, missed>>

\* The order is painted, and the timer starts again, whatever it was to save.
Drag(d, k, l) ==
  /\ k # l
  /\ Act
  /\ LET moved == InsertAt(RemoveAt(Shown[d], k), l, Shown[d][k]) IN
       /\ cache' = [cache EXCEPT ![d] = moved]
       /\ timer' = [day |-> d, list |-> moved]
  /\ slips' = (IF timer.day \notin {0, d} THEN {"dropped"} ELSE {}) \cup
              (IF timer.day = d /\ ~\E op \in Ops : Busy(op) /\ (req[op].day = d \/ op = "refine")
                 THEN slips \cup (IF refined # NoMask THEN {"masked"} ELSE {}) ELSE Pressed(d))
  /\ UNCHANGED <<saved, refined, req, query, missed>>

\* Bound: one order is on its way at a time.
TimerFires ==
  /\ timer # NoTimer /\ ~Busy("reorder")
  /\ req' = [req EXCEPT !["reorder"] = [NoReq EXCEPT !.pc = "sent", !.kind = "reorder",
                                                     !.day = timer.day, !.list = timer.list]]
  /\ timer' = NoTimer
  /\ UNCHANGED <<saved, cache, refined, query, acts, missed, slips>>

-----------------------------------------------------------------------------
(* The handlers *)

\* An activity that is not there is a 400.
Read(op) ==
  /\ req[op].pc = "sent"
  /\ req[op].at > 0 => req[op].at \in DOMAIN saved[req[op].day]
  /\ req' = [req EXCEPT ![op].pc = "read", ![op].data = saved]
  /\ UNCHANGED <<saved, cache, refined, timer, query, acts, missed, slips>>

\* In the order of their times; what was there first stays before what has the same time.
InTime(s) ==
  LET Earlier(k) == {i \in DOMAIN s : s[i] < s[k] \/ (s[i] = s[k] /\ i <= k)}
  IN [p \in DOMAIN s |-> s[CHOOSE k \in DOMAIN s : Cardinality(Earlier(k)) = p]]

Rearranged(s) == {Reverse(s)} \cup (IF s = <<>> THEN {} ELSE {Front(s)})

\* What the request makes of the document it read.
Changes(r) ==
  CASE r.kind = "edit"    -> {[r.data EXCEPT ![r.day] = ReplaceAt(@, r.at, r.item)]}
    [] r.kind = "add"     -> {[r.data EXCEPT ![r.day] = InTime(Append(@, r.item))]}
    [] r.kind = "delete"  -> {[r.data EXCEPT ![r.day] = RemoveAt(@, r.at)]}
    [] r.kind = "reorder" -> {[r.data EXCEPT ![r.day] = r.list]}
    [] r.kind = "refine"  -> UNION {{[r.data EXCEPT ![d] = s] : s \in Rearranged(r.data[d])} : d \in Days}
    [] OTHER              -> {[r.data EXCEPT ![r.day] = s] : s \in Rearranged(r.data[r.day])}

\* The whole document is written.  A day that was adapted is answered and not saved.
Write(op) ==
  /\ req[op].pc = "read"
  /\ \E days \in Changes(req[op]) :
       /\ saved' = IF op = "adapt" THEN saved ELSE days
       /\ req' = [req EXCEPT ![op].pc = "done", ![op].data = days]
  /\ missed' = (missed \/ (req[op].at # 0 /\ req[op].data[req[op].day][req[op].at] # req[op].meant))
  /\ slips' = slips \cup (IF op # "adapt" /\ req[op].data # saved THEN {"crossed"} ELSE {})
  /\ UNCHANGED <<cache, refined, timer, query, acts>>

-----------------------------------------------------------------------------
(* The answers *)

\* How the page changes: an edit by the form puts the day back as it was remembered, an
\* addition shows the day the server answers, a deletion takes out the place.
CachedDay(r) ==
  LET day == cache[r.day] IN
  CASE r.kind = "add"                  -> r.data[r.day]
    [] r.kind = "delete"               -> IF r.at \in DOMAIN day THEN RemoveAt(day, r.at) ELSE day
    [] r.kind = "edit" /\ r.list # NoList -> r.list
    [] r.kind = "edit" /\ r.list = NoList -> IF r.at \in DOMAIN day THEN ReplaceAt(day, r.at, r.item) ELSE day
    [] OTHER                           -> day

\* Mutant: a day that was added to is shown with the activity at the end.
AnsweredAtEnd(op) ==
  /\ req[op].pc = "done"
  /\ cache' = IF op \in {"refine", "adapt"} THEN cache
              ELSE [cache EXCEPT ![req[op].day] = IF req[op].kind = "add" THEN Append(@, req[op].item)
                                                  ELSE CachedDay(req[op])]
  /\ refined' = CASE op = "refine" -> req[op].data
                  [] op = "adapt"  -> [Shown EXCEPT ![req[op].day] = req[op].data[req[op].day]]
                  [] OTHER         -> refined
  /\ req' = [req EXCEPT ![op] = NoReq]
  /\ slips' = slips \cup (IF op = "adapt" THEN {"adapted"} ELSE {})
  /\ UNCHANGED <<saved, timer, query, acts, missed>>

Answered(op) ==
  /\ req[op].pc = "done"
  /\ cache' = IF op \in {"refine", "adapt"} THEN cache
              ELSE [cache EXCEPT ![req[op].day] = CachedDay(req[op])]
  /\ refined' = CASE op = "refine" -> req[op].data
                  [] op = "adapt"  -> [Shown EXCEPT ![req[op].day] = req[op].data[req[op].day]]
                  [] OTHER         -> refined
  /\ req' = [req EXCEPT ![op] = NoReq]
  /\ slips' = slips \cup (IF op = "adapt" THEN {"adapted"} ELSE {})
                    \cup (IF refined # NoMask /\ op \notin {"refine", "adapt"} THEN {"masked"} ELSE {})
  /\ UNCHANGED <<saved, timer, query, acts, missed>>

\* The form says so; an order that could not be saved stays on the page.
Fails(op) ==
  /\ Busy(op)
  /\ Act
  /\ req' = [req EXCEPT ![op] = NoReq]
  /\ slips' = slips \cup (IF req[op].pc = "done" THEN {"lost"} ELSE {})
                    \cup (IF op = "reorder" THEN {"not saved"} ELSE {})
  /\ UNCHANGED <<saved, cache, refined, timer, query, missed>>

-----------------------------------------------------------------------------
(* The query: after a bookmark, and whenever the window is looked at again *)

Refetch ==
  /\ query.pc = "idle"
  /\ Act
  /\ query' = [NoQuery EXCEPT !.pc = "asked"]
  /\ UNCHANGED <<saved, cache, refined, timer, req, missed, slips>>

QueryRead ==
  /\ query.pc = "asked"
  /\ query' = [pc |-> "read", reply |-> saved]
  /\ UNCHANGED <<saved, cache, refined, timer, req, acts, missed, slips>>

QueryArrives ==
  /\ query.pc = "read"
  /\ cache' = query.reply
  /\ query' = NoQuery
  /\ slips' = slips \cup (IF timer # NoTimer \/ query.reply # saved \/ \E op \in Ops : Busy(op)
                            THEN {"stale"} ELSE {})
  /\ UNCHANGED <<saved, refined, timer, req, acts, missed>>

-----------------------------------------------------------------------------
Next ==
  \/ \E d \in Days, j \in Fresh :
       AddOne(d, j) \/ \E k \in DOMAIN Shown[d] : Edit(d, k, j) \/ AcceptAi(d, k, j)
  \/ \E d \in Days : \E k, l \in DOMAIN Shown[d] : Drag(d, k, l)
  \/ \E d \in Days : \E k \in DOMAIN Shown[d] : DeleteOne(d, k)
  \/ \E d \in Days : Adapt(d)
  \/ Refine \/ TimerFires
  \/ \E op \in Ops : Read(op) \/ Write(op) \/ Answered(op) \/ Fails(op)
  \/ Refetch \/ QueryRead \/ QueryArrives

Spec == Init /\ [][Next]_vars

-----------------------------------------------------------------------------
(* Properties *)

TypeOK ==
  /\ \A d \in Days : saved[d] \in Seq(Activities) /\ cache[d] \in Seq(Activities)
  /\ refined = NoMask \/ \A d \in Days : refined[d] \in Seq(Activities)
  /\ timer.day \in {0} \cup Days
  /\ slips \subseteq {"overlap", "masked", "dropped", "crossed", "lost", "not saved", "adapted", "stale"}

AtRest == timer = NoTimer /\ query.pc = "idle" /\ \A op \in Ops : ~Busy(op)

\* With nothing under way the page shows the itinerary as it is saved, and no edit or
\* deletion fell on another activity than the one it was pressed on, unless one of the
\* eight things in slips happened: each is a way in which the code loses a change.
PageShowsTrip ==
  /\ AtRest /\ slips = {} => Shown = saved
  /\ slips = {} => ~missed

\* An order that waits to be saved is on the page, if nothing else happened than that
\* something was refined before.  (ItineraryClient says of the drag: "pintar o resultado
\* já e gravar com atraso".)
DragIsPainted ==
  timer # NoTimer /\ slips \subseteq {"masked"} => Shown[timer.day] = timer.list
=============================================================================
