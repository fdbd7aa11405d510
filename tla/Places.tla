------------------------------- MODULE Places -------------------------------
(***************************************************************************)
(* Coordinates, hours and sites for the activities of new itineraries      *)
(* (services/geocodificar.js).  A name is looked up in the table of places *)
(* first and at Nominatim after that, with the town and without it, and    *)
(* what came back, or that nothing did, is kept for everybody.  Several    *)
(* itineraries are filled at a time and share the table and the pace.      *)
(* How much two names resemble each other (nomeDoLugar.js) is a property   *)
(* of the answer; a distance is near, aside (more than 6 km from the rest  *)
(* of the day) or far (more than 150 km from the destination).             *)
(***************************************************************************)
EXTENDS Naturals, FiniteSets, Sequences

CONSTANTS
  Fills,        \* itineraries that are being filled
  Terms,        \* names and addresses to look up
  Town,         \* the term of the destination itself
  Day,          \* the activities of the day: sequences of [term, name] to try in order
  Worlds,       \* what Nominatim may know: functions from Terms to [town, alone] answers
  MaxFailures   \* bounds the calls that are cut

VARIABLES
  knows,   \* one of the Worlds
  lugares, \* [Terms -> a row of the table, or Absent]
  fill,    \* [Fills -> where preencherCoordenadas is]
  acts,    \* [Fills -> what each activity of the day got]
  quiet,   \* a whole interval has passed since ultimoPedido
  failures,
  slips    \* history: what a wrong pin or wrong hours are due to

vars == <<knows, lugares, fill, acts, quiet, failures, slips>>

-----------------------------------------------------------------------------
(* Answers and rows *)

Nothing == [where |-> "nowhere", right |-> FALSE]
Answers == {Nothing} \cup [where : {"near", "aside", "far"}, right : BOOLEAN]

Absent  == [estado |-> "absent", where |-> "nowhere", right |-> FALSE, confirmado |-> FALSE]
Silence == [Absent EXCEPT !.estado = "sem_resposta"]
Distant == [Absent EXCEPT !.estado = "longe"]
Row(answer, confirmado) ==
  [estado |-> "ok", where |-> answer.where, right |-> answer.right, confirmado |-> confirmado]

\* lat and lon; opening hours and official site, which go with a confirmed name.
Blank == [pin |-> "nowhere", right |-> FALSE, hours |-> FALSE, site |-> FALSE]
Filled(row) == [pin |-> row.where, right |-> row.right,
                hours |-> row.confirmado, site |-> row.confirmado]

\* Activity 0 is the destination, looked up first and by its name.
Tries(i) == IF i = 0 THEN << [term |-> Town, name |-> TRUE] >> ELSE Day[i]

Try(f) == Tries(fill[f].act)[fill[f].try]

Init ==
  /\ knows \in Worlds
  /\ lugares = [t \in Terms |-> Absent]
  /\ fill = [f \in Fills |-> [pc |-> "read", act |-> 0, try |-> 1, alone |-> FALSE,
                              got |-> Nothing, kept |-> Nothing, centre |-> FALSE]]
  /\ acts = [f \in Fills |-> [i \in DOMAIN Day |-> Blank]]
  /\ quiet = TRUE
  /\ failures = 0
  /\ slips = {}

-----------------------------------------------------------------------------
(* One activity after the other, one try after the other *)

\* The next activity, or the last pass over the day.
NextAct(f, centre) ==
  [fill[f] EXCEPT !.pc = IF fill[f].act = Len(Day) THEN "pass" ELSE "read",
                  !.act = @ + 1, !.try = 1, !.alone = FALSE, !.got = Nothing,
                  !.kept = Nothing, !.centre = centre]

\* A try that led nowhere.
NextTry(f) ==
  IF fill[f].try = Len(Tries(fill[f].act)) THEN NextAct(f, fill[f].centre)
  ELSE [fill[f] EXCEPT !.pc = "read", !.try = @ + 1, !.alone = FALSE, !.got = Nothing,
                       !.kept = Nothing]

\* Something was found: the destination gives the centre, an activity its pin.
Found(f, row) ==
  /\ fill' = [fill EXCEPT ![f] = NextAct(f, fill[f].centre \/ fill[f].act = 0)]
  /\ acts' = IF fill[f].act = 0 THEN acts ELSE [acts EXCEPT ![f][fill[f].act] = Filled(row)]

\* The table answers, also that nothing was found; only a row that is missing makes
\* the fill ask.
ReadLugar(f) ==
  /\ fill[f].pc = "read"
  /\ LET row == lugares[Try(f).term]
     IN CASE row.estado = "ok"     -> Found(f, row)
          [] row.estado = "absent" -> /\ fill' = [fill EXCEPT ![f].pc = "pace"]
                                      /\ UNCHANGED acts
          [] OTHER                 -> fill' = [fill EXCEPT ![f] = NextTry(f)] /\ UNCHANGED acts
  /\ slips' = slips \cup
       (IF lugares[Try(f).term].confirmado /\ ~lugares[Try(f).term].right /\ Try(f).name
          THEN {"address"} ELSE {})
  /\ UNCHANGED <<knows, lugares, quiet, failures>>

\* respeitarRitmo: after a quiet interval the request goes out at once, else at the
\* end of the interval that is running.
Pace(f) ==
  /\ fill[f].pc = "pace"
  /\ fill' = [fill EXCEPT ![f].pc = IF quiet THEN "asked" ELSE "sleep"]
  /\ quiet' = FALSE
  /\ UNCHANGED <<knows, lugares, acts, failures, slips>>

\* The interval ends, and with it every sleep that began in it.
IntervalEnds ==
  /\ ~quiet
  /\ quiet' = TRUE
  /\ fill' = [f \in Fills |-> IF fill[f].pc = "sleep" THEN [fill[f] EXCEPT !.pc = "wake"]
                                                      ELSE fill[f]]
  /\ UNCHANGED <<knows, lugares, acts, failures, slips>>

\* A sleeper does not look again whether somebody woke before it.
Wake(f) ==
  /\ fill[f].pc = "wake"
  /\ fill' = [fill EXCEPT ![f].pc = "asked"]
  /\ quiet' = FALSE
  /\ UNCHANGED <<knows, lugares, acts, failures, slips>>

\* What came back, after escolherCandidato: an address confirms whatever it finds.
Confirms(f, answer) == answer.right \/ ~Try(f).name

Answered(f, answer) ==
  LET it == fill[f]
  IN fill' = [fill EXCEPT ![f] =
       IF answer # Nothing /\ Confirms(f, answer)
         THEN [it EXCEPT !.pc = "write", !.got = answer]
       ELSE IF ~it.alone
         THEN [it EXCEPT !.pc = "pace", !.alone = TRUE, !.kept = answer]
       ELSE [it EXCEPT !.pc = "write",
                       !.got = IF it.kept # Nothing THEN it.kept ELSE answer]]

\* With the town and, when that did not confirm, without; the first find is kept.
Answer(f) ==
  /\ fill[f].pc = "asked"
  /\ LET known == knows[Try(f).term]
     IN Answered(f, IF fill[f].alone THEN known.alone ELSE known.town)
  /\ UNCHANGED <<knows, lugares, acts, quiet, failures, slips>>

\* A timeout or an error of the service is null too: nothing found.
AnswerFails(f) ==
  /\ fill[f].pc = "asked" /\ failures < MaxFailures
  /\ failures' = failures + 1
  /\ Answered(f, Nothing)
  /\ UNCHANGED <<knows, lugares, acts, quiet, slips>>

\* Mutant: the distance is not looked at.
WriteLugarAnywhere(f) ==
  /\ fill[f].pc = "write"
  /\ LET got == fill[f].got
         row == IF got = Nothing THEN Silence ELSE Row(got, Confirms(f, got))
     IN /\ lugares' = [lugares EXCEPT ![Try(f).term] = row]
        /\ IF row.estado = "ok" THEN Found(f, row)
                                ELSE fill' = [fill EXCEPT ![f] = NextTry(f)] /\ UNCHANGED acts
  /\ UNCHANGED <<knows, quiet, failures, slips>>

\* The row is written over what is there, and read by everybody from now on.  What
\* is far from the centre is kept as such; with no centre nothing is far.
WriteLugar(f) ==
  /\ fill[f].pc = "write"
  /\ LET got == fill[f].got
         row == IF got = Nothing THEN Silence
                ELSE IF fill[f].centre /\ got.where = "far" THEN Distant
                ELSE Row(got, Confirms(f, got))
     IN /\ lugares' = [lugares EXCEPT ![Try(f).term] = row]
        /\ IF row.estado = "ok" THEN Found(f, row)
                                ELSE fill' = [fill EXCEPT ![f] = NextTry(f)] /\ UNCHANGED acts
        /\ slips' = slips \cup (IF row.where = "far" THEN {"no centre"} ELSE {})
                          \cup (IF row.confirmado /\ ~row.right THEN {"address"} ELSE {})
  /\ UNCHANGED <<knows, quiet, failures>>

-----------------------------------------------------------------------------
(* The last pass *)

Pins(day) == {i \in DOMAIN day : day[i].pin # "nowhere"}

\* The median of a day of three pins: as many lie before it as after it.
Where(pin) == CASE pin = "near" -> 0 [] pin = "aside" -> 1 [] OTHER -> 2
Middle(day) ==
  CHOOSE p \in {"near", "aside", "far"} :
    /\ Cardinality({i \in Pins(day) : Where(day[i].pin) < Where(p)}) < 2
    /\ Cardinality({i \in Pins(day) : Where(day[i].pin) > Where(p)}) < 2
    /\ \E i \in Pins(day) : day[i].pin = p

\* Two pins have no rest of the day.  A pin that is dropped takes its hours along;
\* the official site stays.
Dropped(day) ==
  [i \in DOMAIN day |->
     IF Cardinality(Pins(day)) < 3 \/ day[i].pin \in {"nowhere", Middle(day)} THEN day[i]
     ELSE [day[i] EXCEPT !.pin = "nowhere", !.hours = FALSE]]

DescartarPinos(f) ==
  /\ fill[f].pc = "pass"
  /\ acts' = [acts EXCEPT ![f] = Dropped(acts[f])]
  /\ fill' = [fill EXCEPT ![f].pc = "done"]
  /\ UNCHANGED <<knows, lugares, quiet, failures, slips>>

-----------------------------------------------------------------------------
Next ==
  \/ \E f \in Fills :
       \/ ReadLugar(f) \/ Pace(f) \/ Wake(f) \/ Answer(f) \/ AnswerFails(f)
       \/ WriteLugar(f) \/ DescartarPinos(f)
  \/ IntervalEnds

Spec == Init /\ [][Next]_vars

-----------------------------------------------------------------------------
(* Properties *)

TypeOK ==
  /\ \A f \in Fills :
       /\ fill[f].pc \in {"read", "pace", "sleep", "wake", "asked", "write", "pass", "done"}
       /\ fill[f].act \in 0 .. Len(Day) + 1
       /\ acts[f] \in [DOMAIN Day -> [pin : {"nowhere", "near", "aside", "far"},
                                      right : BOOLEAN, hours : BOOLEAN, site : BOOLEAN]]
  /\ \A t \in Terms : lugares[t].estado \in {"absent", "ok", "longe", "sem_resposta"}
  /\ slips \subseteq {"address", "no centre"}

\* Nobody who knows where the destination is gets a pin on another continent, unless
\* somebody who did not put it in the table.  (geocodificar.js: the distance is
\* looked at before a place is kept, and never when it is read.)
NoPinFarAway ==
  \A f \in Fills : \A i \in DOMAIN Day :
    acts[f][i].pin = "far" => ~fill[f].centre \/ "no centre" \in slips

\* Opening hours are those of the place that was asked for, and of a place that is
\* on the map, unless the name had been found as an address before: the key of the
\* table does not say which it was.
HoursOfThePlace ==
  \A f \in Fills : \A i \in DOMAIN Day :
    acts[f][i].hours => /\ acts[f][i].pin # "nowhere"
                        /\ acts[f][i].right \/ "address" \in slips
=============================================================================
