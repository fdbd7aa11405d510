----------------------------- MODULE ManualTrip -----------------------------
(***************************************************************************)
(* Building an itinerary by hand (itineraries/new/manual/page.tsx) and     *)
(* keeping it (POST /itineraries).  Days and activities are named by ids,  *)
(* so that a change finds what it is for wherever it was dragged; a day    *)
(* also has a number, which follows its place, and a date, which does not. *)
(* Dates are counted in the local time of the browser and written in UTC.  *)
(* What is sent is what was there when the button was pressed.             *)
(***************************************************************************)
EXTENDS Naturals, Sequences, SequencesExt, FiniteSets

CONSTANTS
  Ids,       \* of activities
  MaxDays,
  MaxActs    \* bounds what the user does and what fails

VARIABLES
  span,     \* the dates of the trip: [first, last], 0 when not filled in; and
            \* spring, the date on which the clock goes forward there, 0 for none
  days,     \* a sequence of [id, day, date, acts]; date 0 when emptied, acts of ids
  named,    \* the activities that have a name
  editing,  \* the activity in the editor: <<day id, id>>, or <<>>
  asking,   \* id of the day a model makes suggestions for, 0 when for none
  offered,  \* suggestions shown: [day, number], from the model
  send,     \* POST on its way: [pc, days]
  rows,     \* what was kept, one after another
  acts,
  slips     \* history: why dates or what is kept may not be as shown

vars == <<span, days, named, editing, asking, offered, send, rows, acts, slips>>

-----------------------------------------------------------------------------
NoOffer == [day |-> 0, number |-> 0]
NoSend  == [pc |-> "idle", days |-> <<>>]

Used == UNION {ToSet(days[i].acts) : i \in DOMAIN days}

DayIds == {days[i].id : i \in DOMAIN days}

NewDayId == CHOOSE n \in 1 .. 2 * MaxDays : n \notin DayIds

\* Bound: an id is used for one activity at a time.
NewId(a) == a \in Ids \ Used

Numbered(list) == [i \in DOMAIN list |-> [list[i] EXCEPT !.day = i]]

Late == IF send.pc # "idle" THEN {"late"} ELSE {}

Act == acts < MaxActs /\ acts' = acts + 1

Init ==
  /\ span \in [first : {1}, last : {0, 2}, spring : {0, 1, 2}]
  /\ days = <<>> /\ named = {} /\ editing = <<>>
  /\ asking = 0 /\ offered = NoOffer
  /\ send = NoSend /\ rows = <<>>
  /\ acts = 0 /\ slips = {}

-----------------------------------------------------------------------------
(* Days *)

\* The date n days after b: setDate keeps the hour of the clock, which after the change
\* is an hour earlier in UTC, before midnight.
Shift(b, n) ==
  LET s == span.spring IN
  IF s # 0 /\ b <= s /\ s < b + n THEN b + n - 1 ELSE b + n

\* One day for each date, each with an activity to fill in.  Bound: two days.
GenerateDays ==
  /\ days = <<>> /\ span.last > 0
  /\ Act
  /\ \E a, b \in Ids :
       /\ a # b
       /\ days' = <<[id |-> 1, day |-> 1, date |-> span.first, acts |-> <<a>>],
                    [id |-> 2, day |-> 2, date |-> Shift(span.first, 1), acts |-> <<b>>]>>
       /\ named' = named \ {a, b}
  /\ slips' = slips \cup Late
  /\ UNCHANGED <<span, editing, asking, offered, send, rows>>

\* The day after the last one in the list, if that has a date.
AddDay(a) ==
  /\ Len(days) < MaxDays /\ NewId(a)
  /\ days # <<>> => Last(days).date # 0
  /\ Act
  /\ days' = Append(days, [id |-> NewDayId, day |-> Len(days) + 1, acts |-> <<a>>,
                           date |-> IF days = <<>> THEN span.first ELSE Shift(Last(days).date, 1)])
  /\ named' = named \ {a}
  /\ slips' = slips \cup Late
  /\ UNCHANGED <<span, editing, asking, offered, send, rows>>

\* Mutant: the days behind keep their numbers.
RemoveDayOnly(i) ==
  /\ Act
  /\ days' = RemoveAt(days, i)
  /\ slips' = slips \cup Late
  /\ UNCHANGED <<span, named, editing, asking, offered, send, rows>>

\* The days behind move up: their numbers do, their dates do not.
RemoveDay(i) ==
  /\ Act
  /\ days' = Numbered(RemoveAt(days, i))
  /\ slips' = slips \cup Late
  /\ UNCHANGED <<span, named, editing, asking, offered, send, rows>>

\* updateDay: any date, or none.
EditDate(i, d) ==
  /\ Act
  /\ days' = [days EXCEPT ![i].date = d]
  /\ slips' = slips \cup Late \cup {"dated"}
  /\ UNCHANGED <<span, named, editing, asking, offered, send, rows>>

DragDay(i, k) ==
  /\ i # k
  /\ Act
  /\ days' = Numbered(InsertAt(RemoveAt(days, i), k, days[i]))
  /\ slips' = slips \cup Late \cup {"dragged"}
  /\ UNCHANGED <<span, named, editing, asking, offered, send, rows>>

-----------------------------------------------------------------------------
(* Activities *)

AddActivity(i, a) ==
  /\ NewId(a)
  /\ Act
  /\ days' = [days EXCEPT ![i].acts = Append(@, a)]
  /\ named' = named \ {a}
  /\ editing' = <<days[i].id, a>>
  /\ slips' = slips \cup Late
  /\ UNCHANGED <<span, asking, offered, send, rows>>

RemoveActivity(i, k) ==
  /\ Act
  /\ days' = [days EXCEPT ![i].acts = RemoveAt(@, k)]
  /\ slips' = slips \cup Late
  /\ UNCHANGED <<span, named, editing, asking, offered, send, rows>>

DragActivity(i, k, l) ==
  /\ k # l
  /\ Act
  /\ days' = [days EXCEPT ![i].acts = InsertAt(RemoveAt(@, k), l, @[k])]
  /\ slips' = slips \cup Late
  /\ UNCHANGED <<span, named, editing, asking, offered, send, rows>>

Edit(i, k) ==
  /\ editing = <<>>
  /\ editing' = <<days[i].id, days[i].acts[k]>>
  /\ UNCHANGED <<span, days, named, asking, offered, send, rows, acts, slips>>

\* The editor is open only while the activity is there.
NameIt ==
  /\ editing # <<>>
  /\ IF editing[2] \in Used
       THEN /\ named' = named \cup {editing[2]}
            /\ slips' = slips \cup Late
       ELSE UNCHANGED <<named, slips>>
  /\ editing' = <<>>
  /\ UNCHANGED <<span, days, asking, offered, send, rows, acts>>

-----------------------------------------------------------------------------
(* Suggestions for a day (POST /itineraries/suggest-for-day) *)

Suggest(i) ==
  /\ asking = 0
  /\ Act
  /\ asking' = days[i].id
  /\ offered' = NoOffer
  /\ UNCHANGED <<span, days, named, editing, send, rows, slips>>

\* They are kept by the card of the day, which goes with it.
Suggested ==
  /\ asking # 0
  /\ offered' = IF asking \in DayIds THEN [day |-> asking, number |-> 1] ELSE NoOffer
  /\ asking' = 0
  /\ UNCHANGED <<span, days, named, editing, send, rows, acts, slips>>

SuggestFails ==
  /\ asking # 0
  /\ Act
  /\ asking' = 0
  /\ UNCHANGED <<span, days, named, editing, offered, send, rows, slips>>

Accept(a) ==
  /\ offered.number > 0 /\ offered.day \in DayIds /\ NewId(a)
  /\ \E i \in DOMAIN days : /\ days[i].id = offered.day
                            /\ days' = [days EXCEPT ![i].acts = Append(@, a)]
  /\ named' = named \cup {a}
  /\ offered' = NoOffer
  /\ slips' = slips \cup Late
  /\ UNCHANGED <<span, editing, asking, send, rows, acts>>

-----------------------------------------------------------------------------
(* Keeping it *)

\* Nothing is sent without a day, or with an activity that has no name.
Save ==
  /\ send.pc = "idle" /\ days # <<>> /\ Used \subseteq named
  /\ Act
  /\ send' = [pc |-> "sent", days |-> days]
  /\ UNCHANGED <<span, days, named, editing, asking, offered, rows, slips>>

\* INSERT: confirmed, as what is made by hand is.  Then the page of the itinerary opens.
Insert ==
  /\ send.pc = "sent"
  /\ rows' = Append(rows, send.days)
  /\ send' = [send EXCEPT !.pc = "done"]
  /\ UNCHANGED <<span, days, named, editing, asking, offered, acts, slips>>

\* The button can be pressed again.
SaveFails ==
  /\ send.pc # "idle"
  /\ Act
  /\ slips' = slips \cup (IF send.pc = "done" THEN {"lost"} ELSE {})
  /\ send' = NoSend
  /\ UNCHANGED <<span, days, named, editing, asking, offered, rows>>

-----------------------------------------------------------------------------
Next ==
  \/ GenerateDays \/ NameIt \/ Suggested \/ SuggestFails \/ Save \/ Insert \/ SaveFails
  \/ \E a \in Ids : AddDay(a) \/ Accept(a)
  \/ \E i \in DOMAIN days :
       \/ RemoveDay(i) \/ Suggest(i)
       \/ \E k \in DOMAIN days : DragDay(i, k)
       \/ \E d \in 0 .. MaxDays : EditDate(i, d)
       \/ \E a \in Ids : AddActivity(i, a)
       \/ \E k \in DOMAIN days[i].acts :
            RemoveActivity(i, k) \/ Edit(i, k) \/ \E l \in DOMAIN days[i].acts : DragActivity(i, k, l)

Spec == Init /\ [][Next]_vars

-----------------------------------------------------------------------------
(* Properties *)

TypeOK ==
  /\ \A i \in DOMAIN days : days[i].acts \in Seq(Ids)
  /\ named \subseteq Ids
  /\ send.pc \in {"idle", "sent", "done"}
  /\ slips \subseteq {"late", "dragged", "dated", "lost"}

\* In what is kept, the days are numbered by their places and, unless they were dragged or
\* given another date, their dates go on: no two days of a trip are the same date, except
\* the one on which the clock goes forward, which the next day may repeat.
DaysGoOn ==
  \A n \in DOMAIN rows : \A i, k \in DOMAIN rows[n] :
    /\ rows[n][i].day = i
    /\ i < k /\ slips \cap {"dragged", "dated"} = {} =>
         \/ rows[n][i].date < rows[n][k].date
         \/ rows[n][i].date = span.spring /\ rows[n][k].date = span.spring

\* What is kept has a name everywhere, and is what is shown when the page of the itinerary
\* opens, unless something was changed while it was sent.
KeptAsShown ==
  send.pc = "done" /\ slips \cap {"late"} = {} => Last(rows) = days /\ Used \subseteq named
=============================================================================
