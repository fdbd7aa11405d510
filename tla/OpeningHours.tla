---------------------------- MODULE OpeningHours ----------------------------
(***************************************************************************)
(* Does a visit fit the opening hours of a place (services/horarios.js)?   *)
(* A label of OpenStreetMap is a sequence of rules; a rule is for a period *)
(* of the year and for days of the week, and closes or gives hours.  The   *)
(* text is left out and what is read from it kept: ranges that go round    *)
(* the end of the week or the year, hours that go past midnight, a rule    *)
(* nobody can read.  Days have SlotsOfDay slots instead of minutes.        *)
(***************************************************************************)
EXTENDS Naturals, Sequences

CONSTANTS
  DaysOfWeek, MonthsOfYear, SlotsOfDay,  \* 7, 12 and 1440 in the code
  MaxRules,      \* bounds a label
  MaxDuration    \* bounds a visit

VARIABLES label, visit, verdict

vars == <<label, visit, verdict>>

-----------------------------------------------------------------------------
Always == <<>>

\* "Sa-Mo" and "Nov-Feb" go round; no range at all is always.
Round(range, x) ==
  range = Always \/
  IF range[1] <= range[2] THEN x \in range[1] .. range[2]
                          ELSE x >= range[1] \/ x <= range[2]

\* Hours to an end that is not later are open until the end of the day.
Interval(hours) == [from |-> hours[1],
                    to |-> IF hours[2] <= hours[1] THEN SlotsOfDay ELSE hours[2]]

\* No hours mean "off".
Rules ==
  [ lida    : {TRUE},
    periodo : {Always, <<1, 1>>, <<MonthsOfYear - 1, 0>>},
    dias    : {Always, <<DaysOfWeek - 1, 0>>},
    horas   : {<<>>, << <<1, 3>> >>, << <<1, 2>>, <<2, 4>> >>, << <<3, 1>> >>} ]

Unreadable == [lida |-> FALSE, periodo |-> Always, dias |-> Always, horas |-> <<>>]

Labels == UNION {[1 .. n -> Rules \cup {Unreadable}] : n \in 1 .. MaxRules}

Visits == [ month : 0 .. MonthsOfYear - 1, weekday : 0 .. DaysOfWeek - 1,
            start : 0 .. SlotsOfDay - 1, duration : 0 .. MaxDuration ]

Init == label \in Labels /\ visit \in Visits /\ verdict = "none"

-----------------------------------------------------------------------------
AppliesTo(rule, v) == Round(rule.periodo, v.month) /\ Round(rule.dias, v.weekday)

\* The rules that speak of the day.
Applicable(v) == {i \in DOMAIN label : AppliesTo(label[i], v)}

Contains(hours, v) ==
  v.start >= Interval(hours).from /\ v.start + v.duration <= Interval(hours).to

Judge(rule, v) ==
  IF \E k \in DOMAIN rule.horas : Contains(rule.horas[k], v) THEN "aberto" ELSE "fechado"

\* Mutant: the first rule that applies wins.
AvaliarFirst ==
  /\ verdict = "none"
  /\ verdict' =
       IF \E i \in DOMAIN label : label[i] = Unreadable THEN "desconhecido"
       ELSE IF Applicable(visit) = {} THEN "fechado"
       ELSE Judge(label[CHOOSE i \in Applicable(visit) : \A j \in Applicable(visit) : i <= j],
                  visit)
  /\ UNCHANGED <<label, visit>>

\* avaliarHorario: one rule that cannot be read makes the label worthless, the last
\* rule that applies wins, and a day without a rule is a closed day.
AvaliarHorario ==
  /\ verdict = "none"
  /\ verdict' =
       IF \E i \in DOMAIN label : label[i] = Unreadable THEN "desconhecido"
       ELSE IF Applicable(visit) = {} THEN "fechado"
       ELSE Judge(label[CHOOSE i \in Applicable(visit) : \A j \in Applicable(visit) : i >= j],
                  visit)
  /\ UNCHANGED <<label, visit>>

Next == AvaliarHorario

Spec == Init /\ [][Next]_vars

-----------------------------------------------------------------------------
(* Properties *)

TypeOK == verdict \in {"none", "aberto", "fechado", "desconhecido"}

\* A rule has the slot among its hours.
Serves(rule, slot) ==
  \E k \in DOMAIN rule.horas :
    LET h == rule.horas[k] IN slot >= h[1] /\ (slot < h[2] \/ h[2] <= h[1])

\* What rules say of one slot of a day, told one after the other: each later rule about
\* the day takes the place of the earlier ones.
OpenSlot(rules, day, slot) ==
  LET says[n \in 0 .. Len(rules)] ==
        IF n = 0 THEN FALSE
        ELSE IF AppliesTo(rules[n], day) THEN Serves(rules[n], slot) ELSE says[n - 1]
  IN says[Len(rules)]

\* An "open" visit is open in every slot it has, and a "closed" one has a slot that
\* is closed (those after midnight are), or none at all, or crosses from one pair of
\* hours into the next.  Where one rule cannot be read nothing is said.
VerdictIsTrue ==
  LET slots == visit.start .. visit.start + visit.duration - 1
      open  == {s \in slots : s < SlotsOfDay /\ OpenSlot(label, visit, s)}
  IN /\ verdict = "aberto" => open = slots
     /\ verdict = "fechado" =>
          \/ open # slots \/ visit.duration = 0
          \/ \E i \in DOMAIN label : Len(label[i].horas) > 1
     /\ (\E i \in DOMAIN label : ~label[i].lida) => verdict \in {"none", "desconhecido"}
=============================================================================
