------------------------------- MODULE Agenda -------------------------------
(***************************************************************************)
(* What becomes of the days a language model sends (services/aiAgent.js:   *)
(* repararDias, agentGenerateDays, completarDias; services/agenda.js): an  *)
(* activity that can be repaired is repaired, every day is measured, and   *)
(* the days that are not full enough are sent back once; of the second     *)
(* answer a day is taken only when it is fuller and has no more problems.  *)
(* Time is a few slots of a day, the last of which runs to its end.        *)
(***************************************************************************)
EXTENDS Integers, Sequences, FiniteSets, SequencesExt, FiniteSetsExt, Ordered

CONSTANTS
  Slots,     \* the slots of a day are 0 .. Slots - 1
  From, To,  \* dayStart and dayEnd: the window is From .. To - 1
  Longest,   \* 720 minutes: a longer duration is taken for a mistake of units
  MaxActivities

Walk    == 1                      \* DESLOCACAO_MIN
Default == From                   \* 09:00, for an hour that cannot be read
Minimum(window) == (7 * window + 9) \div 10   \* COBERTURA_MINIMA, rounded up

VARIABLES
  stage,  \* "asked", "measured", "kept"
  days,   \* the answer, repaired: a sequence of [day, activities]
  weak,   \* places of the days sent back
  first   \* history: the days before the second answer

vars == <<stage, days, weak, first>>

-----------------------------------------------------------------------------
(* Repair *)

\* at = Slots: an hour that cannot be read; at = Odd: one like 27:80, which has the form
\* of an hour and is no hour; named = FALSE: nothing to save.
Odd == Slots + 1
Raw == [named : BOOLEAN, at : 0 .. Odd, lasts : 0 .. Longest + 1]

RepararActividade(a) ==
  [at    |-> IF a.at = Slots THEN Default ELSE a.at,
   lasts |-> IF a.lasts > Longest THEN 0 ELSE a.lasts]

\* What has no name is left out.
Named(acts) == Kept(acts, {k \in DOMAIN acts : acts[k].named})

\* A day without a number takes that of its place.
RepararDias(answer) ==
  [i \in DOMAIN answer |->
     [day        |-> IF answer[i].day = 0 THEN i ELSE answer[i].day,
      activities |-> LET named == Named(answer[i].activities)
                     IN [k \in DOMAIN named |-> RepararActividade(named[k])]]]

-----------------------------------------------------------------------------
(* Measure *)

\* What has no hour that can be read is not measured.
Timed(acts) == {k \in DOMAIN acts : acts[k].at # Odd}

\* How many are not after the one at k: of two at the same time the first stays first.
Rank(acts, k) ==
  Cardinality({j \in Timed(acts) :
                 acts[j].at < acts[k].at \/ (acts[j].at = acts[k].at /\ j <= k)})

\* In the order of their times, as a list that TLC evaluates once.
ByTime(acts) ==
  LET n == Cardinality(Timed(acts))
      sorted == [p \in 1 .. n |-> acts[CHOOSE k \in Timed(acts) : Rank(acts, k) = p]]
  IN SubSeq(sorted, 1, n)

Ends(a) == a.at + a.lasts

Gap(acts, i) == acts[i + 1].at - Ends(acts[i])

\* What the activity takes, and the time to get to the next one, at most the gap.
Takes(acts, i) ==
  acts[i].lasts +
  IF i = Len(acts) \/ Gap(acts, i) < 0 THEN 0
  ELSE IF Gap(acts, i) < Walk THEN Gap(acts, i) ELSE Walk

\* Mutant: every step to the next stop takes its time, whatever there is between them.
OcupadoAlways(acts) ==
  LET upTo[n \in 0 .. Len(acts)] ==
        IF n = 0 THEN 0
        ELSE upTo[n - 1] + acts[n].lasts +
             IF n = Len(acts) \/ Gap(acts, n) < 0 THEN 0 ELSE Walk
  IN upTo[Len(acts)]

Ocupado(acts) ==
  LET upTo[n \in 0 .. Len(acts)] ==
        IF n = 0 THEN 0 ELSE upTo[n - 1] + Takes(acts, n)
  IN upTo[Len(acts)]

Problemas(acts) ==
  {<<i, "no duration">> : i \in {k \in DOMAIN acts : acts[k].lasts = 0}} \cup
  {<<i, "early">> : i \in {k \in DOMAIN acts : acts[k].at < From}} \cup
  {<<i, "late">> : i \in {k \in DOMAIN acts : Ends(acts[k]) > To}} \cup
  {<<i, "overlap">> : i \in {k \in DOMAIN acts : k < Len(acts) /\ Gap(acts, k) < 0}} \cup
  (IF Ocupado(acts) > To - From THEN {<<0, "too much">>} ELSE {})

MedirDia(d) ==
  LET acts == ByTime(d.activities)
      busy == Ocupado(acts)
  IN [ocupado   |-> busy,
      cobertura |-> IF busy > To - From THEN To - From ELSE busy,
      problemas |-> Problemas(acts)]

DiasPorPreencher(list) == {i \in DOMAIN list : MedirDia(list[i]).cobertura < Minimum(To - From)}

-----------------------------------------------------------------------------
(* The two passes *)

Better(new, old) ==
  /\ MedirDia(new).cobertura > MedirDia(old).cobertura
  /\ Cardinality(MedirDia(new).problemas) <= Cardinality(MedirDia(old).problemas)

\* The last day of a number counts (a Map), and takes the place of every day of it.
Completed(old, new) ==
  [i \in DOMAIN old |->
     LET same == {k \in DOMAIN new : new[k].day = old[i].day}
     IN IF same # {} /\ Better(new[Max(same)], old[i]) THEN new[Max(same)] ELSE old[i]]

Answers ==
  {[day |-> n, activities |-> s] : n \in {0, 2}, s \in BoundedSeq(Raw, MaxActivities)}

\* Days the repair leaves as they are: the input of the second pass.
Plain == [named : {TRUE}, at : From .. To, lasts : 1 .. Longest]

Init ==
  /\ stage = "asked"
  /\ days = <<>> /\ first = <<>>
  /\ weak = {}

\* One day as the model may send it, and one that is good or weak.
FirstPass ==
  /\ stage = "asked"
  /\ \E a \in Answers, good \in BOOLEAN, n \in {1, 2} :
       days' = RepararDias(<<a, [day |-> n, activities |->
                 <<[named |-> TRUE, at |-> From, lasts |-> IF good THEN Longest ELSE 1]>>]>>)
  /\ weak' = DiasPorPreencher(days')
  /\ first' = days'
  /\ stage' = "measured"

\* Nothing is weak: the answer is kept for seven days as it is.
Keep ==
  /\ stage = "measured" /\ weak = {}
  /\ stage' = "kept"
  /\ UNCHANGED <<days, weak, first>>

\* The second call fails or brings no days: what there was is kept.
SecondPassFails ==
  /\ stage = "measured" /\ weak # {}
  /\ stage' = "kept"
  /\ UNCHANGED <<days, weak, first>>

\* The second answer should hold the weak days with more in them: it holds one more
\* activity or something else altogether, under any number.
SecondPass ==
  /\ stage = "measured" /\ weak # {}
  /\ \E i \in weak, n \in 0 .. 2, more \in BOOLEAN, a \in Plain :
       LET old == days[i].activities
           new == [k \in DOMAIN old |-> [named |-> TRUE, at |-> old[k].at, lasts |-> old[k].lasts]]
       IN days' = Completed(days, RepararDias(
                    <<[day |-> n, activities |-> IF more THEN Append(new, a) ELSE <<a>>]>>))
  /\ stage' = "kept"
  /\ UNCHANGED <<weak, first>>

Next == FirstPass \/ Keep \/ SecondPassFails \/ SecondPass

Spec == Init /\ [][Next]_vars

-----------------------------------------------------------------------------
(* Properties *)

TypeOK ==
  /\ stage \in {"asked", "measured", "kept"}
  /\ weak \subseteq DOMAIN days
  /\ \A i \in DOMAIN days : \A k \in DOMAIN days[i].activities :
       days[i].activities[k] \in [at : (0 .. Slots - 1) \cup {Odd}, lasts : 0 .. Longest]

\* The slots in which somebody is at a stop or on the way to the next one.
Spent(acts) ==
  (UNION {acts[i].at .. Ends(acts[i]) - 1 : i \in DOMAIN acts}) \cup
  (UNION {{t \in Ends(acts[i]) .. Ends(acts[i]) + Walk - 1 : t < acts[i + 1].at} :
            i \in {k \in DOMAIN acts : k < Len(acts)}})

\* The measure is true: a day without problems lies in its window, no two of its
\* activities at once, and is as full as the slots in which something happens; and a day
\* that is so has no problem.  (agenda.js, medirDia)
MeasureIsTrue ==
  \A i \in DOMAIN days :
    LET acts == ByTime(days[i].activities)
        m    == MedirDia(days[i])
        fits == /\ \A k \in DOMAIN acts : acts[k].lasts > 0 /\ acts[k].at >= From /\ Ends(acts[k]) <= To
                /\ \A k, l \in DOMAIN acts : k < l => Ends(acts[k]) <= acts[l].at
    IN /\ fits <=> m.problemas = {}
       /\ fits => m.cobertura = Cardinality(Spent(acts))

\* The second pass does not make a trip repeat itself: two days that bore different
\* numbers are not the same day afterwards.
DaysStayApart ==
  \A i, j \in DOMAIN days :
    days[i] = days[j] /\ i # j => first[i] = first[j] \/ first[i].day = first[j].day
=============================================================================
