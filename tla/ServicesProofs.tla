--------------------------- MODULE ServicesProofs ---------------------------
(***************************************************************************)
(* Inductive invariants of the features that are the server's: what is     *)
(* reported, what is in hand when the process ends, who is in a planning   *)
(* room, which pin a name gets, whether a place is open, how full a        *)
(* planned day is, and the days of a trip, in the row and on the page of   *)
(* its owner; and what follows from them.  That they hold throughout the   *)
(* behaviours is in FeaturesProofs.                                        *)
(***************************************************************************)
EXTENDS Services, FiniteSetTheorems, SequenceTheorems, WellFoundedInduction, TLAPS

-----------------------------------------------------------------------------
(* Reports and the queue *)

\* Only reports that were inserted are classified; what an administrator is about
\* to mark as removed has been taken down.
ReportInv ==
  /\ Report!TypeOK
  /\ admins \in [Admins -> [pc : {"idle", "check", "content", "mark"},
                            listed : BOOLEAN, removable : BOOLEAN,
                            resolution : Report!Resolutions \cup {"none"}]]
  /\ \A r \in jobs : reports[r] # "none"
  /\ \A a \in Admins :
       /\ admins[a].pc # "idle" => admins[a].resolution \in Report!Resolutions
       /\ admins[a].pc = "mark" /\ admins[a].resolution = "removed" => taken
  /\ Report!RemovedMeansTaken

\* The invariant of moderation holds to begin with.
LEMMA ReportInitially == Report!Init => ReportInv
<1> SUFFICES ASSUME Report!Init PROVE ReportInv
  OBVIOUS
<1>1. \A a \in Admins : admins[a].pc = "idle"
  BY DEF Report!Init, Report!NoDecision
<1>2. admins \in [Admins -> [pc : {"idle", "check", "content", "mark"},
                             listed : BOOLEAN, removable : BOOLEAN,
                             resolution : Report!Resolutions \cup {"none"}]]
  BY DEF Report!Init, Report!NoDecision
<1>3. QED
  BY <1>1, <1>2 DEF Report!Init, ReportInv, Report!TypeOK, Report!RemovedMeansTaken

\* Every step keeps the invariant of moderation.
LEMMA ReportInductive ==
  ASSUME ReportInv, [Report!Next]_(Report!vars)
  PROVE  ReportInv'
<1> USE DEF ReportInv, Report!TypeOK, Report!RemovedMeansTaken
<1>1. ASSUME NEW r \in Reporters,
             Report!Report(r) \/ Report!InsertFails(r) \/ Report!Classified(r) \/ Report!NotClassified(r)
      PROVE  ReportInv'
  BY <1>1 DEF Report!Report, Report!InsertFails, Report!Classified, Report!NotClassified
<1>2. ASSUME NEW r \in Reporters, Report!Insert(r)
      PROVE  ReportInv'
  BY <1>2 DEF Report!Insert, Report!Resolutions
<1>3. ASSUME NEW a \in Admins, NEW resolution \in Report!Resolutions, Report!Decide(a, resolution)
      PROVE  ReportInv'
  BY <1>3 DEF Report!Decide
<1>4. ASSUME NEW a \in Admins, Report!List(a)
      PROVE  ReportInv'
  <2> DEFINE listed    == Report!PendingReports # {}
             removable == target.kind = "itinerary" \/ target.up
  <2>1. listed \in BOOLEAN /\ removable \in BOOLEAN
    OBVIOUS
  <2>2. /\ admins[a].pc = "idle"
        /\ admins' = [admins EXCEPT ![a].listed = listed, ![a].removable = removable]
        /\ UNCHANGED <<target, reports, severity, reporting, jobs, taken, budget>>
    BY <1>4 DEF Report!List
  <2> HIDE DEF listed, removable
  <2>3. QED
    BY <2>1, <2>2
<1>5. ASSUME NEW a \in Admins, Report!ResolveCheck(a) \/ Report!ResolveFails(a)
      PROVE  ReportInv'
  BY <1>5 DEF Report!ResolveCheck, Report!ResolveFails, Report!Cut
<1>6. ASSUME NEW a \in Admins, Report!ResolveContent(a)
      PROVE  ReportInv'
  <2>1. CASE admins[a].resolution = "removed"
    BY <1>6, <2>1 DEF Report!ResolveContent
  <2>2. CASE admins[a].resolution # "removed"
    BY <1>6, <2>2 DEF Report!ResolveContent
  <2>3. QED
    BY <2>1, <2>2
<1>7. ASSUME NEW a \in Admins, Report!ResolveMark(a)
      PROVE  ReportInv'
  <2>1. /\ admins[a].resolution \in Report!Resolutions
        /\ admins[a].resolution = "removed" => taken
    BY <1>7 DEF Report!ResolveMark
  <2>2. Report!NoDecision \in [pc : {"idle", "check", "content", "mark"}, listed : BOOLEAN,
                        removable : BOOLEAN, resolution : Report!Resolutions \cup {"none"}]
        /\ Report!NoDecision.pc = "idle"
    BY DEF Report!NoDecision
  <2>3. QED
    BY <1>7, <2>1, <2>2 DEF Report!ResolveMark, Report!Resolutions
<1>8. CASE Report!AuthorChanges
  BY <1>8 DEF Report!AuthorChanges
<1>9. CASE UNCHANGED Report!vars
  BY <1>9 DEF Report!vars
<1>10. QED
  BY <1>1, <1>2, <1>3, <1>4, <1>5, <1>6, <1>7, <1>8, <1>9 DEF Report!Next

\* No decision changes what another has decided about a report.  (admin.js: the UPDATE
\* asks for reports that are still pending)
THEOREM DecisionsAreFinal == Report!Spec => Report!DecisionsStand
<1>1. ASSUME ReportInv, [Report!Next]_(Report!vars), NEW r \in Reporters,
             reports[r] \in Report!Resolutions
      PROVE  reports'[r] = reports[r]
  <2>1. ASSUME NEW s \in Reporters, Report!Insert(s)
        PROVE  reports'[r] = reports[r]
    BY <1>1, <2>1 DEF Report!Insert, ReportInv, Report!TypeOK, Report!Resolutions
  <2>2. ASSUME NEW a \in Admins, Report!ResolveMark(a)
        PROVE  reports'[r] = reports[r]
    BY <1>1, <2>2 DEF Report!ResolveMark, Report!Resolutions
  <2>3. QED
    BY <1>1, <2>1, <2>2 DEF Report!Next, Report!vars, Report!Report, Report!InsertFails,
       Report!Classified, Report!NotClassified, Report!List, Report!ResolveCheck,
       Report!ResolveContent, Report!ResolveFails, Report!Decide, Report!AuthorChanges
<1>2. ReportInv /\ [Report!Next]_(Report!vars) =>
        \A r \in Reporters : reports[r] \in Report!Resolutions => reports'[r] = reports[r]
  BY <1>1
<1>3. ReportInv /\ [Report!Next]_(Report!vars) => ReportInv'
  BY ReportInductive
<1>4. QED
  BY ReportInitially, <1>2, <1>3, PTL DEF Report!Spec, Report!DecisionsStand

-----------------------------------------------------------------------------
(* The end of the server *)

\* After the requests have ended nothing is handled, and the rounds stop either with
\* nothing in flight or because they are used up.
EndInv ==
  /\ round \in Nat
  /\ emVoo \in [Tasks -> Nat]
  /\ request \in [Tasks -> {"none", "handled", "answered"}]
  /\ server \in {"draining", "ending"} => \A t \in Tasks : request[t] # "handled"
  /\ server = "ending" => End!InFlight = {} \/ round >= Rounds
  /\ End!LeavesNothingBehind

\* The invariant of shutdown holds to begin with.
LEMMA EndInitially == End!Init => EndInv
  BY DEF End!Init, EndInv, End!LeavesNothingBehind

\* Every step keeps the invariant of shutdown.
LEMMA EndInductive ==
  ASSUME EndInv, [End!Next]_(End!vars)
  PROVE  EndInv'
<1> USE DEF EndInv, End!LeavesNothingBehind
<1>1. ASSUME NEW t \in Tasks, End!Arrives(t)
      PROVE  EndInv'
  BY <1>1 DEF End!Arrives
<1>2. ASSUME NEW t \in Tasks, End!Answered(t)
      PROVE  EndInv'
  BY <1>2, MaxChainAssumption DEF End!Answered
<1>3. ASSUME NEW t \in Tasks, End!Settles(t)
      PROVE  EndInv'
  BY <1>3 DEF End!Settles
<1>4. CASE End!Signal
  BY <1>4 DEF End!Signal
<1>5. CASE End!Closed
  BY <1>5 DEF End!Closed
<1>6. CASE End!RoundEnds
  <2>1. round' = round + 1 /\ UNCHANGED <<request, emVoo, lost>> /\ server = "draining"
    BY <1>6 DEF End!RoundEnds
  <2>2. server' \in {"draining", "ending"}
    BY <1>6 DEF End!RoundEnds
  <2>3. server' = "ending" => End!InFlight' = {} \/ round' >= Rounds
    BY <1>6, <2>1 DEF End!RoundEnds, End!InFlight
  <2>4. QED
    BY <2>1, <2>2, <2>3
<1>7. CASE End!Ends
  <2>1. server = "ending" /\ UNCHANGED <<request, emVoo, round>>
    BY <1>7 DEF End!Ends
  <2>2. server' = "left" => End!InFlight = {}
    BY <1>7, <2>1 DEF End!Ends
  <2>3. server' = "left" => ~lost'
    BY <1>7, <2>1, <2>2 DEF End!Ends
  <2>4. server' \in {"left", "gave up"}
    BY <1>7 DEF End!Ends
  <2>5. QED
    BY <2>1, <2>3, <2>4
<1>8. CASE End!Forced
  BY <1>8 DEF End!Forced
<1>9. CASE UNCHANGED End!vars
  BY <1>9 DEF End!vars, End!InFlight
<1>10. QED
  BY <1>1, <1>2, <1>3, <1>4, <1>5, <1>6, <1>7, <1>8, <1>9 DEF End!Next

\* One fewer of at most so many is at most so many.
LEMMA OneFewer ==
  ASSUME NEW m \in Nat, NEW n \in 0 .. m, n > 0
  PROVE  n - 1 \in 0 .. m
OBVIOUS

\* What a round waits for is in flight, and there are rounds left while it waits.
EndTypes ==
  /\ End!TypeOK
  /\ server \in {"open", "closing"} => waited = {}
  /\ server \in {"open", "closing", "draining"} => round < Rounds

\* The types of shutdown hold to begin with.
LEMMA EndTypesInitially == End!Init => EndTypes
  BY RoundsAssumption, MaxChainAssumption DEF End!Init, EndTypes, End!TypeOK, End!InFlight

\* Every step keeps the types of shutdown.
LEMMA EndTypesInductive ==
  ASSUME EndTypes, [End!Next]_(End!vars)
  PROVE  EndTypes'
<1> USE DEF EndTypes, End!TypeOK, End!InFlight
<1>1. ASSUME NEW t \in Tasks, End!Arrives(t)
      PROVE  EndTypes'
  BY <1>1 DEF End!Arrives
<1>2. ASSUME NEW t \in Tasks, End!Answered(t)
      PROVE  EndTypes'
  BY <1>2 DEF End!Answered
<1>3. ASSUME NEW t \in Tasks, End!Settles(t)
      PROVE  EndTypes'
  <2>1. emVoo' \in [Tasks -> 0 .. MaxChain]
    <3>1. emVoo[t] \in 0 .. MaxChain /\ emVoo[t] > 0
      BY <1>3 DEF End!Settles
    <3>2. emVoo[t] - 1 \in 0 .. MaxChain
      BY <3>1, MaxChainAssumption, OneFewer
    <3>3. emVoo' = [emVoo EXCEPT ![t] = emVoo[t] - 1]
      BY <1>3 DEF End!Settles
    <3>4. QED
      BY <3>2, <3>3
  <2>2. \A s \in Tasks \ {t} : emVoo'[s] = emVoo[s]
    BY <1>3 DEF End!Settles
  <2>3. waited' \subseteq End!InFlight'
    BY <1>3, <2>2 DEF End!Settles
  <2>4. QED
    BY <1>3, <2>1, <2>3 DEF End!Settles
<1>4. CASE End!Signal
  BY <1>4 DEF End!Signal
<1>5. CASE End!Closed
  BY <1>5 DEF End!Closed
<1>6. CASE End!RoundEnds
  <2>1. server = "draining" /\ round < Rounds /\ round \in Nat /\ round' = round + 1
    BY <1>6, RoundsAssumption DEF End!RoundEnds
  <2>2. round' \in 0 .. Rounds
    BY <2>1, RoundsAssumption
  <2>3. server' = "ending" \/ (server' = "draining" /\ round + 1 # Rounds)
    BY <1>6, <2>1 DEF End!RoundEnds
  <2>4. server' \in {"open", "closing", "draining"} => round' < Rounds
    BY <2>1, <2>3, RoundsAssumption
  <2>5. waited' \subseteq End!InFlight'
    BY <1>6 DEF End!RoundEnds
  <2>6. request' = request /\ emVoo' = emVoo
    BY <1>6 DEF End!RoundEnds
  <2>7. QED
    BY <2>2, <2>3, <2>4, <2>5, <2>6
<1>7. CASE End!Ends
  BY <1>7 DEF End!Ends
<1>8. CASE End!Forced
  BY <1>8 DEF End!Forced
<1>9. CASE UNCHANGED End!vars
  BY <1>9 DEF End!vars
<1>10. QED
  BY <1>1, <1>2, <1>3, <1>4, <1>5, <1>6, <1>7, <1>8, <1>9 DEF End!Next

-----------------------------------------------------------------------------
(* The planning room *)

PlanningPage == [known : SUBSET edits, loaded : BOOLEAN, state : {"none", "asked", "read"},
                 reply : SUBSET edits]

RoomPageTypes ==
  /\ edits \subseteq 1 .. MaxEdits /\ inbox \in Nat
  /\ roomPage \in PlanningPage
  /\ ~mounted => roomPage = Room!NoPage

RoomNetTypes ==
  /\ roomWire \in Seq({"join", "leave"}) /\ buffer \in Seq({"join", "leave"})
  /\ joining \in Nat
  /\ IF up THEN buffer = <<>> ELSE roomWire = <<>>

\* The last thing that was emitted is what the page wishes.
LastIsWish ==
  /\ buffer # <<>> => (buffer[Len(buffer)] = "join" <=> mounted)
  /\ roomWire # <<>> => (roomWire[Len(roomWire)] = "join" <=> mounted)

\* When the server has it all, the connection is in the room or will be, if it may.
InRoom ==
  up /\ roomSlips = {} =>
    /\ room => allowed
    /\ roomWire = <<>> => (room \/ (joining > 0 /\ allowed) <=> mounted /\ allowed)

\* What the page misses is on its way, or nobody told it.
Fetched ==
  inbox = 0 =>
    /\ roomPage.state = "none" /\ roomPage.loaded => edits \ roomPage.known \subseteq unheard
    /\ roomPage.state = "read" =>
         edits \ roomPage.reply \subseteq unheard \cup (roomPage.known \ roomPage.reply)

RoomInv == RoomPageTypes /\ RoomNetTypes /\ LastIsWish /\ InRoom /\ Fetched

\* The last of a list to which something is appended.
LEMMA LastOfAppend ==
  ASSUME NEW S, NEW list \in Seq(S), NEW e \in S
  PROVE  /\ Append(list, e) \in Seq(S) /\ Append(list, e) # <<>>
         /\ Append(list, e)[Len(Append(list, e))] = e
OBVIOUS

\* The last of a list of which the head is taken.
LEMMA LastOfTail ==
  ASSUME NEW S, NEW list \in Seq(S), list # <<>>
  PROVE  /\ Tail(list) \in Seq(S)
         /\ Tail(list) # <<>> => Tail(list)[Len(Tail(list))] = list[Len(list)]
         /\ Tail(list) = <<>> => list[Len(list)] = Head(list)
OBVIOUS

\* The invariant of the planning room holds to begin with.
LEMMA RoomInitially == Room!Init => RoomInv
<1> SUFFICES ASSUME Room!Init  PROVE RoomInv
  OBVIOUS
<1>1. RoomPageTypes
  BY DEF Room!Init, Room!NoPage, RoomPageTypes, PlanningPage
<1>2. RoomNetTypes
  BY DEF Room!Init, Room!NoPage, RoomNetTypes, PlanningPage
<1>3. LastIsWish
  BY DEF Room!Init, Room!NoPage, LastIsWish, PlanningPage
<1>4. InRoom
  BY DEF Room!Init, Room!NoPage, InRoom, PlanningPage
<1>5. Fetched
  BY DEF Room!Init, Room!NoPage, Fetched, PlanningPage
<1>6. QED
  BY <1>1, <1>2, <1>3, <1>4, <1>5 DEF RoomInv

\* Every step keeps the invariant of the planning room.
LEMMA RoomInductive ==
  ASSUME RoomInv, [Room!Next]_(Room!vars)
  PROVE  RoomInv'
<1>0. RoomPageTypes /\ RoomNetTypes /\ LastIsWish /\ InRoom /\ Fetched
  BY DEF RoomInv
<1>1. CASE Room!Mount
  <2>1. RoomPageTypes'
    BY <1>0, <1>1
    DEF Room!Mount, Room!Emit, Room!history, PlanningPage, Room!NoPage, RoomPageTypes
  <2>2. RoomNetTypes'
    BY <1>0, <1>1, LastOfAppend
    DEF Room!Mount, Room!Emit, Room!history, RoomNetTypes
  <2>3. LastIsWish'
    BY <1>0, <1>1, LastOfAppend
    DEF Room!Mount, Room!Emit, Room!history, RoomNetTypes, LastIsWish
  <2>4. InRoom'
    BY <1>0, <1>1, LastOfAppend
    DEF Room!Mount, Room!Emit, Room!history, RoomNetTypes, LastIsWish, InRoom
  <2>5. Fetched'
    BY <1>0, <1>1
    DEF Room!Mount, Room!Emit, Room!history, RoomPageTypes, PlanningPage, Room!NoPage, Fetched
  <2>6. QED
    BY <2>1, <2>2, <2>3, <2>4, <2>5 DEF RoomInv
<1>2. CASE Room!Unmount
  <2>1. RoomPageTypes'
    BY <1>0, <1>2
    DEF Room!Unmount, Room!Emit, Room!history, PlanningPage, Room!NoPage, RoomPageTypes
  <2>2. RoomNetTypes'
    BY <1>0, <1>2, LastOfAppend
    DEF Room!Unmount, Room!Emit, Room!history, RoomNetTypes
  <2>3. LastIsWish'
    BY <1>0, <1>2, LastOfAppend
    DEF Room!Unmount, Room!Emit, Room!history, RoomNetTypes, LastIsWish
  <2>4. InRoom'
    BY <1>0, <1>2, LastOfAppend
    DEF Room!Unmount, Room!Emit, Room!history, RoomNetTypes, LastIsWish, InRoom
  <2>5. Fetched'
    BY <1>0, <1>2
    DEF Room!Unmount, Room!Emit, Room!history, RoomPageTypes, PlanningPage, Room!NoPage, Fetched
  <2>6. QED
    BY <2>1, <2>2, <2>3, <2>4, <2>5 DEF RoomInv
<1>3. CASE Room!QueryRead
  <2>1. RoomPageTypes'
    <3>1. roomPage' = [roomPage EXCEPT !.state = "read", !.reply = edits]
      BY <1>3 DEF Room!QueryRead
    <3>2. ASSUME NEW q \in PlanningPage
          PROVE  [q EXCEPT !.state = "read", !.reply = edits] \in PlanningPage
      BY DEF PlanningPage
    <3>3. mounted
      BY <1>0, <1>3 DEF Room!QueryRead, Room!NoPage, RoomPageTypes
    <3>4. edits' = edits /\ inbox' = inbox /\ mounted' = mounted /\ PlanningPage' = PlanningPage
      BY <1>3 DEF Room!QueryRead, PlanningPage
    <3>5. QED
      BY <1>0, <3>1, <3>2, <3>3, <3>4 DEF RoomPageTypes
  <2>2. RoomNetTypes'
    BY <1>0, <1>3
    DEF Room!QueryRead, Room!net, Room!history, RoomNetTypes
  <2>3. LastIsWish'
    BY <1>0, <1>3
    DEF Room!QueryRead, Room!net, Room!history, RoomNetTypes, LastIsWish
  <2>4. InRoom'
    BY <1>0, <1>3
    DEF Room!QueryRead, Room!net, Room!history, RoomNetTypes, LastIsWish, InRoom
  <2>5. Fetched'
    BY <1>0, <1>3
    DEF Room!QueryRead, Room!net, Room!history, RoomPageTypes, PlanningPage, Fetched
  <2>6. QED
    BY <2>1, <2>2, <2>3, <2>4, <2>5 DEF RoomInv
<1>4. CASE Room!QueryArrives
  <2>1. RoomPageTypes'
    BY <1>0, <1>4
    DEF Room!QueryArrives, Room!net, PlanningPage, Room!NoPage, RoomPageTypes
  <2>2. RoomNetTypes'
    BY <1>0, <1>4
    DEF Room!QueryArrives, Room!net, RoomNetTypes
  <2>3. LastIsWish'
    BY <1>0, <1>4
    DEF Room!QueryArrives, Room!net, RoomNetTypes, LastIsWish
  <2>4. InRoom'
    BY <1>0, <1>4
    DEF Room!QueryArrives, Room!net, RoomNetTypes, LastIsWish, InRoom
  <2>5. Fetched'
    BY <1>0, <1>4
    DEF Room!QueryArrives, Room!net, RoomPageTypes, PlanningPage, Fetched
  <2>6. QED
    BY <2>1, <2>2, <2>3, <2>4, <2>5 DEF RoomInv
<1>5. CASE Room!QueryFails
  <2>1. RoomPageTypes'
    BY <1>0, <1>5
    DEF Room!QueryFails, Room!net, PlanningPage, Room!NoPage, RoomPageTypes
  <2>2. RoomNetTypes'
    BY <1>0, <1>5
    DEF Room!QueryFails, Room!net, RoomNetTypes
  <2>3. LastIsWish'
    BY <1>0, <1>5
    DEF Room!QueryFails, Room!net, RoomNetTypes, LastIsWish
  <2>4. InRoom'
    BY <1>0, <1>5
    DEF Room!QueryFails, Room!net, RoomNetTypes, LastIsWish, InRoom
  <2>5. Fetched'
    BY <1>0, <1>5
    DEF Room!QueryFails, Room!net, RoomPageTypes, PlanningPage, Fetched
  <2>6. QED
    BY <2>1, <2>2, <2>3, <2>4, <2>5 DEF RoomInv
<1>6. CASE Room!Hear
  <2>1. RoomPageTypes'
    <3>1. \/ roomPage' = roomPage
          \/ mounted /\ roomPage' = [roomPage EXCEPT !.state = "asked", !.reply = {}]
      BY <1>6 DEF Room!Hear
    <3>2. ASSUME NEW q \in PlanningPage
          PROVE  [q EXCEPT !.state = "asked", !.reply = {}] \in PlanningPage
      BY DEF PlanningPage
    <3>3. /\ edits' = edits /\ mounted' = mounted /\ inbox > 0 /\ inbox' = inbox - 1
          /\ PlanningPage' = PlanningPage
      BY <1>6 DEF Room!Hear, PlanningPage
    <3>4. inbox' \in Nat
      BY <1>0, <3>3 DEF RoomPageTypes
    <3>5. QED
      BY <1>0, <3>1, <3>2, <3>3, <3>4 DEF RoomPageTypes
  <2>2. RoomNetTypes'
    BY <1>0, <1>6
    DEF Room!Hear, Room!net, RoomNetTypes
  <2>3. LastIsWish'
    BY <1>0, <1>6
    DEF Room!Hear, Room!net, RoomNetTypes, LastIsWish
  <2>4. InRoom'
    BY <1>0, <1>6
    DEF Room!Hear, Room!net, RoomNetTypes, LastIsWish, InRoom
  <2>5. Fetched'
    BY <1>0, <1>6
    DEF Room!Hear, Room!net, RoomPageTypes, PlanningPage, Room!NoPage, Fetched
  <2>6. QED
    BY <2>1, <2>2, <2>3, <2>4, <2>5 DEF RoomInv
<1>7. ASSUME NEW e \in 1 .. MaxEdits, Room!OwnEdit(e)
      PROVE  RoomInv'
  <2>1. RoomPageTypes'
    BY <1>0, <1>7
    DEF Room!OwnEdit, Room!net, Room!history, PlanningPage, RoomPageTypes
  <2>2. RoomNetTypes'
    BY <1>0, <1>7
    DEF Room!OwnEdit, Room!net, Room!history, RoomNetTypes
  <2>3. LastIsWish'
    BY <1>0, <1>7
    DEF Room!OwnEdit, Room!net, Room!history, RoomNetTypes, LastIsWish
  <2>4. InRoom'
    BY <1>0, <1>7
    DEF Room!OwnEdit, Room!net, Room!history, RoomNetTypes, LastIsWish, InRoom
  <2>5. Fetched'
    BY <1>0, <1>7
    DEF Room!OwnEdit, Room!net, Room!history, RoomPageTypes, PlanningPage, Fetched
  <2>6. QED
    BY <2>1, <2>2, <2>3, <2>4, <2>5 DEF RoomInv
<1>8. ASSUME NEW e \in 1 .. MaxEdits, Room!OthersEdit(e)
      PROVE  RoomInv'
  <2>1. RoomPageTypes'
    BY <1>0, <1>8
    DEF Room!OthersEdit, Room!net, PlanningPage, RoomPageTypes
  <2>2. RoomNetTypes'
    BY <1>0, <1>8
    DEF Room!OthersEdit, Room!net, RoomNetTypes
  <2>3. LastIsWish'
    BY <1>0, <1>8
    DEF Room!OthersEdit, Room!net, RoomNetTypes, LastIsWish
  <2>4. InRoom'
    BY <1>0, <1>8
    DEF Room!OthersEdit, Room!net, RoomNetTypes, LastIsWish, InRoom
  <2>5. Fetched'
    BY <1>0, <1>8
    DEF Room!OthersEdit, Room!net, RoomPageTypes, PlanningPage, Fetched
  <2>6. QED
    BY <2>1, <2>2, <2>3, <2>4, <2>5 DEF RoomInv
<1>9. CASE Room!Connect
  <2>1. RoomPageTypes'
    BY <1>0, <1>9
    DEF Room!Connect, PlanningPage, RoomPageTypes
  <2>2. RoomNetTypes'
    BY <1>0, <1>9, LastOfAppend
    DEF Room!Connect, RoomNetTypes
  <2>3. LastIsWish'
    BY <1>0, <1>9, LastOfAppend
    DEF Room!Connect, RoomNetTypes, LastIsWish
  <2>4. InRoom'
    BY <1>0, <1>9, LastOfAppend
    DEF Room!Connect, RoomNetTypes, LastIsWish, InRoom
  <2>5. Fetched'
    BY <1>0, <1>9
    DEF Room!Connect, RoomPageTypes, PlanningPage, Fetched
  <2>6. QED
    BY <2>1, <2>2, <2>3, <2>4, <2>5 DEF RoomInv
<1>10. CASE Room!Disconnect
  <2>1. RoomPageTypes'
    BY <1>0, <1>10
    DEF Room!Disconnect, PlanningPage, RoomPageTypes
  <2>2. RoomNetTypes'
    BY <1>0, <1>10
    DEF Room!Disconnect, RoomNetTypes
  <2>3. LastIsWish'
    BY <1>0, <1>10
    DEF Room!Disconnect, RoomNetTypes, LastIsWish
  <2>4. InRoom'
    BY <1>0, <1>10
    DEF Room!Disconnect, RoomNetTypes, LastIsWish, InRoom
  <2>5. Fetched'
    BY <1>0, <1>10
    DEF Room!Disconnect, RoomPageTypes, PlanningPage, Fetched
  <2>6. QED
    BY <2>1, <2>2, <2>3, <2>4, <2>5 DEF RoomInv
<1>11. CASE Room!Throttled
  <2>1. RoomPageTypes'
    BY <1>0, <1>11
    DEF Room!Throttled, PlanningPage, RoomPageTypes
  <2>2. RoomNetTypes'
    BY <1>0, <1>11, LastOfTail
    DEF Room!Throttled, RoomNetTypes
  <2>3. LastIsWish'
    BY <1>0, <1>11, LastOfTail
    DEF Room!Throttled, RoomNetTypes, LastIsWish
  <2>4. InRoom'
    BY <1>0, <1>11, LastOfTail
    DEF Room!Throttled, RoomNetTypes, LastIsWish, InRoom
  <2>5. Fetched'
    BY <1>0, <1>11
    DEF Room!Throttled, RoomPageTypes, PlanningPage, Fetched
  <2>6. QED
    BY <2>1, <2>2, <2>3, <2>4, <2>5 DEF RoomInv
<1>12. CASE Room!NewWindow
  <2>1. RoomPageTypes'
    BY <1>0, <1>12
    DEF Room!NewWindow, Room!history, PlanningPage, RoomPageTypes
  <2>2. RoomNetTypes'
    BY <1>0, <1>12
    DEF Room!NewWindow, Room!history, RoomNetTypes
  <2>3. LastIsWish'
    BY <1>0, <1>12
    DEF Room!NewWindow, Room!history, RoomNetTypes, LastIsWish
  <2>4. InRoom'
    BY <1>0, <1>12
    DEF Room!NewWindow, Room!history, RoomNetTypes, LastIsWish, InRoom
  <2>5. Fetched'
    BY <1>0, <1>12
    DEF Room!NewWindow, Room!history, RoomPageTypes, PlanningPage, Fetched
  <2>6. QED
    BY <2>1, <2>2, <2>3, <2>4, <2>5 DEF RoomInv
<1>13. CASE Room!ReceiveJoin
  <2>1. RoomPageTypes'
    BY <1>0, <1>13
    DEF Room!ReceiveJoin, Room!history, PlanningPage, RoomPageTypes
  <2>2. RoomNetTypes'
    BY <1>0, <1>13, LastOfTail
    DEF Room!ReceiveJoin, Room!history, RoomNetTypes
  <2>3. LastIsWish'
    BY <1>0, <1>13, LastOfTail
    DEF Room!ReceiveJoin, Room!history, RoomNetTypes, LastIsWish
  <2>4. InRoom'
    BY <1>0, <1>13, LastOfTail
    DEF Room!ReceiveJoin, Room!history, RoomNetTypes, LastIsWish, InRoom
  <2>5. Fetched'
    BY <1>0, <1>13
    DEF Room!ReceiveJoin, Room!history, RoomPageTypes, PlanningPage, Fetched
  <2>6. QED
    BY <2>1, <2>2, <2>3, <2>4, <2>5 DEF RoomInv
<1>14. CASE Room!ReceiveLeave
  <2>1. RoomPageTypes'
    BY <1>0, <1>14
    DEF Room!ReceiveLeave, PlanningPage, RoomPageTypes
  <2>2. RoomNetTypes'
    BY <1>0, <1>14, LastOfTail
    DEF Room!ReceiveLeave, RoomNetTypes
  <2>3. LastIsWish'
    BY <1>0, <1>14, LastOfTail
    DEF Room!ReceiveLeave, RoomNetTypes, LastIsWish
  <2>4. InRoom'
    BY <1>0, <1>14, LastOfTail
    DEF Room!ReceiveLeave, RoomNetTypes, LastIsWish, InRoom
  <2>5. Fetched'
    BY <1>0, <1>14
    DEF Room!ReceiveLeave, RoomPageTypes, PlanningPage, Fetched
  <2>6. QED
    BY <2>1, <2>2, <2>3, <2>4, <2>5 DEF RoomInv
<1>15. CASE Room!Join
  <2>1. RoomPageTypes'
    BY <1>0, <1>15
    DEF Room!Join, Room!history, PlanningPage, RoomPageTypes
  <2>2. RoomNetTypes'
    BY <1>0, <1>15
    DEF Room!Join, Room!history, RoomNetTypes
  <2>3. LastIsWish'
    BY <1>0, <1>15
    DEF Room!Join, Room!history, RoomNetTypes, LastIsWish
  <2>4. InRoom'
    BY <1>0, <1>15
    DEF Room!Join, Room!history, RoomNetTypes, LastIsWish, InRoom
  <2>5. Fetched'
    BY <1>0, <1>15
    DEF Room!Join, Room!history, RoomPageTypes, PlanningPage, Fetched
  <2>6. QED
    BY <2>1, <2>2, <2>3, <2>4, <2>5 DEF RoomInv
<1>16. CASE Room!JoinFails
  <2>1. RoomPageTypes'
    BY <1>0, <1>16
    DEF Room!JoinFails, PlanningPage, RoomPageTypes
  <2>2. RoomNetTypes'
    BY <1>0, <1>16
    DEF Room!JoinFails, RoomNetTypes
  <2>3. LastIsWish'
    BY <1>0, <1>16
    DEF Room!JoinFails, RoomNetTypes, LastIsWish
  <2>4. InRoom'
    BY <1>0, <1>16
    DEF Room!JoinFails, RoomNetTypes, LastIsWish, InRoom
  <2>5. Fetched'
    BY <1>0, <1>16
    DEF Room!JoinFails, RoomPageTypes, PlanningPage, Fetched
  <2>6. QED
    BY <2>1, <2>2, <2>3, <2>4, <2>5 DEF RoomInv
<1>17. CASE Room!Collaborators
  <2>1. RoomPageTypes'
    BY <1>0, <1>17
    DEF Room!Collaborators, Room!net, PlanningPage, RoomPageTypes
  <2>2. RoomNetTypes'
    BY <1>0, <1>17
    DEF Room!Collaborators, Room!net, RoomNetTypes
  <2>3. LastIsWish'
    BY <1>0, <1>17
    DEF Room!Collaborators, Room!net, RoomNetTypes, LastIsWish
  <2>4. InRoom'
    BY <1>0, <1>17
    DEF Room!Collaborators, Room!net, RoomNetTypes, LastIsWish, InRoom
  <2>5. Fetched'
    BY <1>0, <1>17
    DEF Room!Collaborators, Room!net, RoomPageTypes, PlanningPage, Fetched
  <2>6. QED
    BY <2>1, <2>2, <2>3, <2>4, <2>5 DEF RoomInv
<1>18. CASE UNCHANGED Room!vars
  BY <1>0, <1>18
  DEF Room!vars, Room!net, Room!history, RoomInv, RoomPageTypes, RoomNetTypes, LastIsWish,
      InRoom, Fetched, PlanningPage
<1>19. QED
  BY <1>1, <1>2, <1>3, <1>4, <1>5, <1>6, <1>7, <1>8, <1>9, <1>10, <1>11, <1>12, <1>13, <1>14,
     <1>15, <1>16, <1>17, <1>18
     DEF Room!Next

\* The properties of the room follow from its invariant.
LEMMA RoomTells ==
  ASSUME RoomInv
  PROVE  Room!RoomAsWished /\ Room!FollowsEdits
<1>1. Room!RoomAsWished
  BY DEF RoomInv, InRoom, Room!RoomAsWished
<1>2. Room!FollowsEdits
  BY DEF RoomInv, Fetched, Room!FollowsEdits
<1>3. QED
  BY <1>1, <1>2

\* What is switched, and what only the connection counts.
RoomFlags ==
  allowed \in BOOLEAN /\ mounted \in BOOLEAN /\ up \in BOOLEAN /\ room \in BOOLEAN

RoomCounts ==
  /\ used \in Nat /\ used <= Budget
  /\ roomSlips \subseteq {"dropped", "overtaken", "changed"}
  /\ unheard \subseteq edits

\* The flags hold to begin with.
LEMMA FlagsInitially == Room!Init => RoomFlags
  BY Zenon DEF Room!Init, RoomFlags

\* Every step keeps the flags.
LEMMA FlagsInductive == RoomFlags /\ [Room!Next]_(Room!vars) => RoomFlags'
<1> SUFFICES ASSUME RoomFlags, [Room!Next]_(Room!vars) PROVE RoomFlags'
  OBVIOUS
<1>1. allowed' \in BOOLEAN
  BY Zenon DEF RoomFlags, Room!Next, Room!vars, Room!net, Room!history, Room!Mount, Room!Unmount,
    Room!QueryRead, Room!QueryArrives, Room!QueryFails, Room!Hear, Room!OwnEdit, Room!OthersEdit,
    Room!Connect, Room!Disconnect, Room!Throttled, Room!NewWindow, Room!ReceiveJoin,
    Room!ReceiveLeave, Room!Join, Room!JoinFails, Room!Collaborators
<1>2. mounted' \in BOOLEAN
  BY Zenon DEF RoomFlags, Room!Next, Room!vars, Room!net, Room!history, Room!Mount, Room!Unmount,
    Room!QueryRead, Room!QueryArrives, Room!QueryFails, Room!Hear, Room!OwnEdit, Room!OthersEdit,
    Room!Connect, Room!Disconnect, Room!Throttled, Room!NewWindow, Room!ReceiveJoin,
    Room!ReceiveLeave, Room!Join, Room!JoinFails, Room!Collaborators
<1>3. up' \in BOOLEAN
  BY Zenon DEF RoomFlags, Room!Next, Room!vars, Room!net, Room!history, Room!Mount, Room!Unmount,
    Room!QueryRead, Room!QueryArrives, Room!QueryFails, Room!Hear, Room!OwnEdit, Room!OthersEdit,
    Room!Connect, Room!Disconnect, Room!Throttled, Room!NewWindow, Room!ReceiveJoin,
    Room!ReceiveLeave, Room!Join, Room!JoinFails, Room!Collaborators
<1>4. room' \in BOOLEAN
  BY Zenon DEF RoomFlags, Room!Next, Room!vars, Room!net, Room!history, Room!Mount, Room!Unmount,
    Room!QueryRead, Room!QueryArrives, Room!QueryFails, Room!Hear, Room!OwnEdit, Room!OthersEdit,
    Room!Connect, Room!Disconnect, Room!Throttled, Room!NewWindow, Room!ReceiveJoin,
    Room!ReceiveLeave, Room!Join, Room!JoinFails, Room!Collaborators
<1>5. QED
  BY <1>1, <1>2, <1>3, <1>4 DEF RoomFlags

\* The counts hold to begin with.
LEMMA CountsInitially == Room!Init => RoomCounts
  BY BudgetAssumption DEF Room!Init, RoomCounts

\* Every step keeps the counts.
LEMMA CountsInductive ==
  ASSUME RoomInv, RoomCounts, [Room!Next]_(Room!vars)
  PROVE  RoomCounts'
<1>0. RoomPageTypes /\ RoomNetTypes
  BY DEF RoomInv
<1> USE <1>0, BudgetAssumption DEF RoomCounts, RoomPageTypes, PlanningPage, Room!net, Room!history
<1>1. CASE Room!Mount \/ Room!Unmount
  BY <1>1 DEF Room!Mount, Room!Unmount
<1>2. CASE Room!QueryRead \/ Room!QueryArrives \/ Room!QueryFails
  BY <1>2 DEF Room!QueryRead, Room!QueryArrives, Room!QueryFails
<1>3. CASE Room!Hear
  BY <1>3 DEF Room!Hear
<1>4. ASSUME NEW e \in 1 .. MaxEdits, Room!OwnEdit(e) \/ Room!OthersEdit(e)
      PROVE  RoomCounts'
  BY <1>4 DEF Room!OwnEdit, Room!OthersEdit
<1>5. CASE Room!Connect
  BY <1>5 DEF Room!Connect
<1>6. CASE Room!Disconnect
  BY <1>6 DEF Room!Disconnect
<1>7. CASE Room!Throttled
  BY <1>7 DEF Room!Throttled
<1>8. CASE Room!NewWindow
  BY <1>8 DEF Room!NewWindow
<1>9. CASE Room!ReceiveJoin
  BY <1>9 DEF Room!ReceiveJoin
<1>10. CASE Room!ReceiveLeave
  BY <1>10 DEF Room!ReceiveLeave
<1>11. CASE Room!Join \/ Room!JoinFails
  BY <1>11 DEF Room!Join, Room!JoinFails
<1>12. CASE Room!Collaborators
  BY <1>12 DEF Room!Collaborators
<1>13. CASE UNCHANGED Room!vars
  BY <1>13 DEF Room!vars
<1>14. QED
  BY <1>1, <1>2, <1>3, <1>4, <1>5, <1>6, <1>7, <1>8, <1>9, <1>10, <1>11, <1>12, <1>13
  DEF Room!Next

\* The planning room has the types that a run checks.
LEMMA RoomHasTypes == RoomInv /\ RoomFlags /\ RoomCounts => Room!TypeOK
<1> SUFFICES ASSUME RoomInv, RoomFlags, RoomCounts PROVE Room!TypeOK
  OBVIOUS
<1>1. RoomPageTypes /\ RoomNetTypes
  BY DEF RoomInv
<1>2. used \in 0 .. Budget
  BY BudgetAssumption DEF RoomCounts
<1>3. QED
  BY <1>1, <1>2 DEF RoomFlags, RoomCounts, RoomPageTypes, RoomNetTypes, PlanningPage, Room!TypeOK

-----------------------------------------------------------------------------
(* Pins and opening hours *)

LugarRow ==
  [estado : {"absent", "ok", "longe", "sem_resposta"},
   where : {"nowhere", "near", "aside", "far"}, right : BOOLEAN, confirmado : BOOLEAN]

FillState ==
  [pc : {"read", "pace", "sleep", "wake", "asked", "write", "pass", "done"},
   act : 0 .. Len(Day) + 1, try : Nat, alone : BOOLEAN,
   got : Pins!Answers, kept : Pins!Answers, centre : BOOLEAN]

ActState ==
  [pin : {"nowhere", "near", "aside", "far"}, right : BOOLEAN, hours : BOOLEAN, site : BOOLEAN]

PinsTypes ==
  /\ knows \in Worlds
  /\ lugares \in [Terms -> LugarRow]
  /\ fill \in [Fills -> FillState]
  /\ pinsActs \in [Fills -> [DOMAIN Day -> ActState]]
  /\ pinsSlips \subseteq {"address", "no centre"}

\* A fill is at a try of an activity until it has passed over all of them.
TryingOne ==
  \A f \in Fills : fill[f].pc \notin {"pass", "done"} =>
    /\ fill[f].act <= Len(Day)
    /\ fill[f].try \in 1 .. Len(Pins!Tries(fill[f].act))

\* What is in the table has the flaws its history admits.
RowsAsTold ==
  \A t \in Terms :
    /\ lugares[t].where = "far" => "no centre" \in pinsSlips
    /\ lugares[t].estado = "ok" => lugares[t].where # "nowhere"
    /\ lugares[t].confirmado => lugares[t].right \/ "address" \in pinsSlips

PinsAsTold ==
  \A f \in Fills : \A i \in DOMAIN Day :
    /\ pinsActs[f][i].pin = "far" => "no centre" \in pinsSlips
    /\ pinsActs[f][i].hours => /\ pinsActs[f][i].pin # "nowhere"
                               /\ pinsActs[f][i].right \/ "address" \in pinsSlips

PinsInv == PinsTypes /\ TryingOne /\ RowsAsTold /\ PinsAsTold

\* The searches for an activity are a list, of one at least.
LEMMA TriesOf ==
  ASSUME NEW i \in 0 .. Len(Day)
  PROVE  /\ Pins!Tries(i) \in Seq([term : Terms, name : BOOLEAN])
         /\ Len(Pins!Tries(i)) \in Nat /\ Len(Pins!Tries(i)) >= 1
         /\ Len(Day) \in Nat
<1>1. Len(Day) \in Nat
  BY WorldsAssumption
<1>2. CASE i = 0
  <2>1. Pins!Tries(i) = <<[term |-> Town, name |-> TRUE]>>
    BY <1>2 DEF Pins!Tries
  <2>2. [term |-> Town, name |-> TRUE] \in [term : Terms, name : BOOLEAN]
    BY WorldsAssumption
  <2>3. QED
    BY <1>1, <2>1, <2>2
<1>3. CASE i # 0
  <2>1. Pins!Tries(i) = Day[i] /\ i \in 1 .. Len(Day)
    BY <1>1, <1>3 DEF Pins!Tries
  <2>2. Day[i] \in Seq([term : Terms, name : BOOLEAN]) \ {<<>>}
    BY <2>1, WorldsAssumption, ElementOfSeq
  <2>3. QED
    BY <1>1, <2>1, <2>2
<1>4. QED
  BY <1>2, <1>3

FillFine(s) ==
  s.pc \notin {"pass", "done"} =>
    s.act <= Len(Day) /\ s.try \in 1 .. Len(Pins!Tries(s.act))

\* What a fill is trying.
LEMMA TryOf ==
  ASSUME PinsInv, NEW f \in Fills, fill[f].pc \notin {"pass", "done"}
  PROVE  /\ fill[f] \in FillState /\ fill[f].act \in 0 .. Len(Day)
         /\ fill[f].try \in 1 .. Len(Pins!Tries(fill[f].act))
         /\ Pins!Try(f) \in [term : Terms, name : BOOLEAN]
         /\ lugares[Pins!Try(f).term] \in LugarRow
<1>1. /\ fill[f] \in FillState /\ fill[f].act <= Len(Day)
      /\ fill[f].try \in 1 .. Len(Pins!Tries(fill[f].act))
      /\ lugares \in [Terms -> LugarRow]
  BY DEF PinsInv, PinsTypes, TryingOne
<1>2. fill[f].act \in 0 .. Len(Day) + 1 /\ Len(Day) \in Nat
  BY <1>1, WorldsAssumption DEF FillState
<1>3. fill[f].act \in 0 .. Len(Day)
  BY <1>1, <1>2
<1>4. Pins!Tries(fill[f].act) \in Seq([term : Terms, name : BOOLEAN])
  BY <1>3, TriesOf
<1>5. Pins!Try(f) \in [term : Terms, name : BOOLEAN]
  BY <1>1, <1>4, ElementOfSeq DEF Pins!Try
<1>6. QED
  BY <1>1, <1>3, <1>5

\* The next activity, and the next try, are ones there are.
LEMMA NextActFine ==
  ASSUME PinsInv, NEW f \in Fills, fill[f].pc \notin {"pass", "done"}, NEW centre \in BOOLEAN
  PROVE  Pins!NextAct(f, centre) \in FillState /\ FillFine(Pins!NextAct(f, centre))
<1> DEFINE s == Pins!NextAct(f, centre)
<1>1. /\ fill[f] \in FillState /\ fill[f].act \in 0 .. Len(Day) /\ Len(Day) \in Nat
  BY TryOf, WorldsAssumption
<1>2. /\ s.pc = IF fill[f].act = Len(Day) THEN "pass" ELSE "read"
      /\ s.act = fill[f].act + 1 /\ s.try = 1
  BY <1>1 DEF FillState, Pins!NextAct
<1>3. fill[f].act + 1 \in 0 .. Len(Day) + 1 /\ 1 \in Nat
  BY <1>1
<1>4. Pins!Nothing \in Pins!Answers
  BY DEF Pins!Nothing, Pins!Answers
<1>5. s \in FillState
  BY <1>1, <1>3, <1>4 DEF FillState, Pins!NextAct
<1>6. FillFine(s)
  <2>1. SUFFICES ASSUME s.pc \notin {"pass", "done"}
                 PROVE  s.act <= Len(Day) /\ s.try \in 1 .. Len(Pins!Tries(s.act))
    BY DEF FillFine
  <2>2. fill[f].act + 1 \in 0 .. Len(Day)
    BY <1>1, <1>2, <2>1
  <2>3. Len(Pins!Tries(fill[f].act + 1)) >= 1 /\ Len(Pins!Tries(fill[f].act + 1)) \in Nat
    BY <2>2, TriesOf
  <2>4. QED
    BY <1>2, <2>2, <2>3
<1>7. QED
  BY <1>5, <1>6

\* A filling that goes on to its next search is a fine one.
LEMMA NextTryFine ==
  ASSUME PinsInv, NEW f \in Fills, fill[f].pc \notin {"pass", "done"}
  PROVE  Pins!NextTry(f) \in FillState /\ FillFine(Pins!NextTry(f))
<1>1. /\ fill[f] \in FillState /\ fill[f].act \in 0 .. Len(Day)
      /\ fill[f].try \in 1 .. Len(Pins!Tries(fill[f].act))
      /\ Len(Pins!Tries(fill[f].act)) \in Nat /\ Len(Day) \in Nat
  BY TryOf, TriesOf
<1>2. CASE fill[f].try = Len(Pins!Tries(fill[f].act))
  <2>1. fill[f].centre \in BOOLEAN
    BY <1>1 DEF FillState
  <2>2. QED
    BY <1>2, <2>1, NextActFine DEF Pins!NextTry
<1>3. CASE fill[f].try # Len(Pins!Tries(fill[f].act))
  <2>1. Pins!Nothing \in Pins!Answers /\ fill[f].try + 1 \in Nat
    BY <1>1 DEF Pins!Nothing, Pins!Answers
  <2>2. /\ Pins!NextTry(f) \in FillState
        /\ Pins!NextTry(f).act = fill[f].act /\ Pins!NextTry(f).try = fill[f].try + 1
    BY <1>1, <1>3, <2>1 DEF FillState, Pins!NextTry
  <2>3. QED
    BY <1>1, <1>3, <2>2 DEF FillFine
<1>4. QED
  BY <1>2, <1>3

\* A step of one filling leaves the others fine.
LEMMA FillStep ==
  ASSUME PinsInv, NEW f \in Fills, NEW s \in FillState, FillFine(s),
         fill' = [fill EXCEPT ![f] = s]
  PROVE  fill' \in [Fills -> FillState] /\ TryingOne'
<1>1. fill \in [Fills -> FillState]
  BY DEF PinsInv, PinsTypes
<1>2. fill' \in [Fills -> FillState] /\ \A g \in Fills : fill'[g] = IF g = f THEN s ELSE fill[g]
  BY <1>1
<1>3. QED
  BY <1>2 DEF PinsInv, TryingOne, FillFine

\* The invariant of pins and hours holds to begin with.
LEMMA PinsInitially == Pins!Init => PinsInv
<1> SUFFICES ASSUME Pins!Init  PROVE PinsInv
  OBVIOUS
<1>1. Pins!Nothing \in Pins!Answers /\ Len(Day) \in Nat
  BY WorldsAssumption DEF Pins!Nothing, Pins!Answers
<1>2. /\ knows \in Worlds
      /\ lugares = [t \in Terms |-> Pins!Absent]
      /\ fill = [f \in Fills |-> [pc |-> "read", act |-> 0, try |-> 1, alone |-> FALSE,
                                  got |-> Pins!Nothing, kept |-> Pins!Nothing,
                                  centre |-> FALSE]]
      /\ pinsActs = [f \in Fills |-> [i \in DOMAIN Day |-> Pins!Blank]]
      /\ pinsSlips = {}
  BY DEF Pins!Init
<1>3. Pins!Absent \in LugarRow /\ Pins!Blank \in ActState
  BY DEF LugarRow, ActState, Pins!Absent, Pins!Blank
<1>4. fill \in [Fills -> FillState]
  BY <1>1, <1>2 DEF FillState
<1>5. PinsTypes
  BY <1>2, <1>3, <1>4 DEF PinsTypes
<1>6. TryingOne
  <2>1. Len(Pins!Tries(0)) >= 1 /\ Len(Pins!Tries(0)) \in Nat
    BY <1>1, TriesOf
  <2>2. QED
    BY <1>1, <1>2, <2>1 DEF TryingOne
<1>7. RowsAsTold /\ PinsAsTold
  BY <1>2 DEF RowsAsTold, PinsAsTold, Pins!Absent, Pins!Blank
<1>8. QED
  BY <1>5, <1>6, <1>7 DEF PinsInv

\* A row that is used as it was told.
RowFine(row) ==
  /\ row.where = "far" => "no centre" \in pinsSlips'
  /\ row.estado = "ok" => row.where # "nowhere"
  /\ row.confirmado => row.right \/ "address" \in pinsSlips'

\* Something was found, in the table or at Nominatim.
LEMMA FoundFine ==
  ASSUME PinsInv, NEW f \in Fills, fill[f].pc \notin {"pass", "done"},
         NEW row \in LugarRow, row.estado = "ok", Pins!Found(f, row), RowFine(row),
         pinsSlips \subseteq pinsSlips'
  PROVE  /\ fill' \in [Fills -> FillState] /\ TryingOne'
         /\ pinsActs' \in [Fills -> [DOMAIN Day -> ActState]] /\ PinsAsTold'
<1>1. /\ fill[f] \in FillState /\ fill[f].act \in 0 .. Len(Day)
      /\ pinsActs \in [Fills -> [DOMAIN Day -> ActState]] /\ PinsAsTold
  BY TryOf DEF PinsInv, PinsTypes
<1>2. fill' \in [Fills -> FillState] /\ TryingOne'
  <2>1. (fill[f].centre \/ fill[f].act = 0) \in BOOLEAN
    OBVIOUS
  <2>2. fill' = [fill EXCEPT ![f] = Pins!NextAct(f, fill[f].centre \/ fill[f].act = 0)]
    BY DEF Pins!Found
  <2>3. QED
    BY <2>1, <2>2, NextActFine, FillStep
<1>3. CASE fill[f].act = 0
  <2>1. pinsActs' = pinsActs
    BY <1>3 DEF Pins!Found
  <2>2. QED
    BY <1>1, <1>2, <2>1 DEF PinsAsTold
<1>4. CASE fill[f].act # 0
  <2>1. /\ pinsActs' = [pinsActs EXCEPT ![f][fill[f].act] = Pins!Filled(row)]
        /\ fill[f].act \in DOMAIN Day
    BY <1>1, <1>4, WorldsAssumption DEF Pins!Found
  <2>2. /\ Pins!Filled(row) \in ActState
        /\ Pins!Filled(row).pin = row.where /\ Pins!Filled(row).right = row.right
        /\ Pins!Filled(row).hours = row.confirmado
    BY DEF Pins!Filled, ActState, LugarRow
  <2>3. /\ Pins!Filled(row).pin = "far" => "no centre" \in pinsSlips'
        /\ Pins!Filled(row).hours =>
             /\ Pins!Filled(row).pin # "nowhere"
             /\ Pins!Filled(row).right \/ "address" \in pinsSlips'
    BY <2>2 DEF RowFine
  <2>4. /\ pinsActs' \in [Fills -> [DOMAIN Day -> ActState]]
        /\ pinsActs'[f][fill[f].act] = Pins!Filled(row)
        /\ \A g \in Fills : \A i \in DOMAIN Day :
             g # f \/ i # fill[f].act => pinsActs'[g][i] = pinsActs[g][i]
    BY <1>1, <2>1, <2>2
  <2>5. PinsAsTold'
    <3>1. SUFFICES ASSUME NEW g \in Fills, NEW i \in DOMAIN Day
                   PROVE  /\ pinsActs'[g][i].pin = "far" => "no centre" \in pinsSlips'
                          /\ pinsActs'[g][i].hours =>
                               /\ pinsActs'[g][i].pin # "nowhere"
                               /\ pinsActs'[g][i].right \/ "address" \in pinsSlips'
      BY DEF PinsAsTold
    <3>2. CASE g = f /\ i = fill[f].act
      BY <2>3, <2>4, <3>2
    <3>3. CASE g # f \/ i # fill[f].act
      <4>1. pinsActs'[g][i] = pinsActs[g][i]
        BY <2>4, <3>3
      <4>2. QED
        BY <1>1, <4>1 DEF PinsAsTold
    <3>4. QED
      BY <3>2, <3>3
  <2>6. QED
    BY <1>2, <2>4, <2>5
<1>5. QED
  BY <1>3, <1>4

\* The table is read: a row that was found goes to the activity.
LEMMA ReadFine ==
  ASSUME PinsInv, NEW f \in Fills, Pins!ReadLugar(f)
  PROVE  PinsInv'
<1> DEFINE row == lugares[Pins!Try(f).term]
<1>1. /\ fill[f].pc = "read" /\ fill[f] \in FillState /\ row \in LugarRow
      /\ PinsTypes /\ RowsAsTold /\ PinsAsTold
      /\ Pins!Try(f).term \in Terms
      /\ fill[f].act <= Len(Day) /\ fill[f].try \in 1 .. Len(Pins!Tries(fill[f].act))
  BY TryOf DEF Pins!ReadLugar, PinsInv, TryingOne
<1>2. /\ pinsSlips \subseteq pinsSlips' /\ pinsSlips' \subseteq {"address", "no centre"}
      /\ UNCHANGED <<knows, lugares>>
  BY <1>1 DEF Pins!ReadLugar, PinsTypes
<1>3. RowsAsTold'
  BY <1>1, <1>2 DEF RowsAsTold
<1>4. RowFine(row)
  BY <1>1, <1>2 DEF RowsAsTold, RowFine
<1>5. CASE row.estado = "ok"
  <2>1. Pins!Found(f, row)
    BY <1>5 DEF Pins!ReadLugar
  <2>2. QED
    BY <1>1, <1>2, <1>3, <1>4, <1>5, <2>1, FoundFine DEF PinsInv, PinsTypes
<1>6. CASE row.estado # "ok"
  <2>1. pinsActs' = pinsActs
    BY <1>6 DEF Pins!ReadLugar
  <2>2. \/ fill' = [fill EXCEPT ![f] = [fill[f] EXCEPT !.pc = "pace"]]
        \/ fill' = [fill EXCEPT ![f] = Pins!NextTry(f)]
    BY <1>6 DEF Pins!ReadLugar
  <2>3. /\ [fill[f] EXCEPT !.pc = "pace"] \in FillState
        /\ FillFine([fill[f] EXCEPT !.pc = "pace"])
    BY <1>1 DEF FillState, FillFine
  <2>4. fill' \in [Fills -> FillState] /\ TryingOne'
    BY <1>1, <2>2, <2>3, NextTryFine, FillStep
  <2>5. PinsAsTold'
    BY <1>1, <1>2, <2>1 DEF PinsAsTold
  <2>6. QED
    BY <1>1, <1>2, <1>3, <2>1, <2>4, <2>5 DEF PinsInv, PinsTypes
<1>7. QED
  BY <1>5, <1>6

\* What came back is kept as it is, or the name alone is tried.
LEMMA AnsweredFine ==
  ASSUME PinsInv, NEW f \in Fills, fill[f].pc = "asked", NEW answer \in Pins!Answers,
         Pins!Answered(f, answer), UNCHANGED <<knows, lugares, pinsActs, pinsSlips>>
  PROVE  PinsInv'
<1>1. /\ fill[f] \in FillState /\ PinsTypes /\ RowsAsTold /\ PinsAsTold
      /\ fill[f].act <= Len(Day) /\ fill[f].try \in 1 .. Len(Pins!Tries(fill[f].act))
  BY DEF PinsInv, TryingOne, PinsTypes
<1>2. PICK s : /\ fill' = [fill EXCEPT ![f] = s]
               /\ \/ s = [fill[f] EXCEPT !.pc = "write", !.got = answer]
                  \/ s = [fill[f] EXCEPT !.pc = "pace", !.alone = TRUE, !.kept = answer]
                  \/ s = [fill[f] EXCEPT !.pc = "write", !.got = fill[f].kept]
  BY DEF Pins!Answered
<1>3. s \in FillState /\ s.act = fill[f].act /\ s.try = fill[f].try
  BY <1>1, <1>2 DEF FillState
<1>4. fill' \in [Fills -> FillState] /\ TryingOne'
  BY <1>1, <1>2, <1>3, FillStep DEF FillFine
<1>5. RowsAsTold' /\ PinsAsTold'
  BY <1>1 DEF RowsAsTold, PinsAsTold
<1>6. QED
  BY <1>1, <1>4, <1>5 DEF PinsInv, PinsTypes

\* The row is written with what is told of it.
LEMMA WriteFine ==
  ASSUME PinsInv, NEW f \in Fills, Pins!WriteLugar(f)
  PROVE  PinsInv'
<1> DEFINE got == fill[f].got
           term == Pins!Try(f).term
           row == IF got = Pins!Nothing THEN Pins!Silence
                  ELSE IF fill[f].centre /\ got.where = "far" THEN Pins!Distant
                  ELSE Pins!Row(got, Pins!Confirms(f, got))
<1>1. /\ fill[f].pc = "write" /\ fill[f] \in FillState
      /\ PinsTypes /\ RowsAsTold /\ PinsAsTold
      /\ term \in Terms /\ got \in Pins!Answers
  BY TryOf DEF Pins!WriteLugar, PinsInv, FillState
<1>2. /\ lugares' = [lugares EXCEPT ![term] = row]
      /\ row.estado = "ok" => Pins!Found(f, row)
      /\ row.estado # "ok" => /\ fill' = [fill EXCEPT ![f] = Pins!NextTry(f)]
                              /\ pinsActs' = pinsActs
      /\ pinsSlips \subseteq pinsSlips' /\ pinsSlips' \subseteq {"address", "no centre"}
      /\ row.where = "far" => "no centre" \in pinsSlips'
      /\ row.confirmado /\ ~row.right => "address" \in pinsSlips'
      /\ knows' = knows
  BY <1>1 DEF Pins!WriteLugar, PinsTypes
<1>3. row \in LugarRow /\ (row.estado = "ok" => row.where # "nowhere")
  <2>1. CASE got = Pins!Nothing
    BY <2>1 DEF Pins!Silence, Pins!Absent, LugarRow
  <2>2. CASE got # Pins!Nothing /\ fill[f].centre /\ got.where = "far"
    BY <2>2 DEF Pins!Distant, Pins!Absent, LugarRow
  <2>3. CASE got # Pins!Nothing /\ ~(fill[f].centre /\ got.where = "far")
    <3>1. got \in [where : {"near", "aside", "far"}, right : BOOLEAN]
      BY <1>1, <2>3 DEF Pins!Answers
    <3>2. Pins!Confirms(f, got) \in BOOLEAN
      BY DEF Pins!Confirms
    <3>3. row = Pins!Row(got, Pins!Confirms(f, got))
      BY <2>3
    <3>4. QED
      BY <3>1, <3>2, <3>3 DEF Pins!Row, LugarRow
  <2>4. QED
    BY <2>1, <2>2, <2>3
<1> HIDE DEF row
<1>4. RowFine(row)
  BY <1>2, <1>3 DEF RowFine
<1>5. RowsAsTold' /\ lugares' \in [Terms -> LugarRow]
  <2>1. /\ lugares' \in [Terms -> LugarRow] /\ lugares'[term] = row
        /\ \A t \in Terms \ {term} : lugares'[t] = lugares[t]
    BY <1>1, <1>2, <1>3 DEF PinsTypes
  <2>2. ASSUME NEW t \in Terms
        PROVE  /\ lugares'[t].where = "far" => "no centre" \in pinsSlips'
               /\ lugares'[t].estado = "ok" => lugares'[t].where # "nowhere"
               /\ lugares'[t].confirmado => lugares'[t].right \/ "address" \in pinsSlips'
    <3>1. CASE t = term
      BY <1>4, <2>1, <3>1 DEF RowFine
    <3>2. CASE t # term
      BY <1>1, <1>2, <2>1, <3>2 DEF RowsAsTold
    <3>3. QED
      BY <3>1, <3>2
  <2>3. QED
    BY <2>1, <2>2 DEF RowsAsTold
<1>6. CASE row.estado = "ok"
  BY <1>1, <1>2, <1>3, <1>4, <1>5, <1>6, FoundFine DEF PinsInv, PinsTypes
<1>7. CASE row.estado # "ok"
  <2>1. fill' \in [Fills -> FillState] /\ TryingOne' /\ pinsActs' = pinsActs
    BY <1>1, <1>2, <1>7, NextTryFine, FillStep
  <2>2. PinsAsTold'
    BY <1>1, <1>2, <2>1 DEF PinsAsTold
  <2>3. QED
    BY <1>1, <1>2, <1>5, <2>1, <2>2 DEF PinsInv, PinsTypes
<1>8. QED
  BY <1>6, <1>7

\* The last pass only takes pins away, and their hours with them.
LEMMA DropFine ==
  ASSUME PinsInv, NEW f \in Fills, Pins!DescartarPinos(f)
  PROVE  PinsInv'
<1>1. /\ fill[f] \in FillState /\ PinsTypes /\ RowsAsTold /\ PinsAsTold
      /\ pinsActs' = [pinsActs EXCEPT ![f] = Pins!Dropped(pinsActs[f])]
      /\ fill' = [fill EXCEPT ![f] = [fill[f] EXCEPT !.pc = "done"]]
      /\ UNCHANGED <<knows, lugares, pinsSlips>>
      /\ pinsActs[f] \in [DOMAIN Day -> ActState]
  BY DEF PinsInv, PinsTypes, Pins!DescartarPinos
<1>2. /\ [fill[f] EXCEPT !.pc = "done"] \in FillState
      /\ FillFine([fill[f] EXCEPT !.pc = "done"])
  BY <1>1 DEF FillState, FillFine
<1>3. fill' \in [Fills -> FillState] /\ TryingOne'
  BY <1>1, <1>2, FillStep
<1>4. ASSUME NEW i \in DOMAIN Day
      PROVE  /\ Pins!Dropped(pinsActs[f])[i] \in ActState
             /\ \/ Pins!Dropped(pinsActs[f])[i] = pinsActs[f][i]
                \/ /\ Pins!Dropped(pinsActs[f])[i].pin = "nowhere"
                   /\ Pins!Dropped(pinsActs[f])[i].hours = FALSE
  <2>1. /\ i \in DOMAIN pinsActs[f] /\ pinsActs[f][i] \in ActState
        /\ \/ Pins!Dropped(pinsActs[f])[i] = pinsActs[f][i]
           \/ Pins!Dropped(pinsActs[f])[i] =
                [pinsActs[f][i] EXCEPT !.pin = "nowhere", !.hours = FALSE]
    BY <1>1 DEF Pins!Dropped
  <2>2. QED
    BY <2>1 DEF ActState
<1>5. Pins!Dropped(pinsActs[f]) \in [DOMAIN Day -> ActState]
  <2>1. Pins!Dropped(pinsActs[f]) = [i \in DOMAIN Day |-> Pins!Dropped(pinsActs[f])[i]]
    BY <1>1 DEF Pins!Dropped
  <2>2. QED
    BY <1>4, <2>1
<1>6. /\ pinsActs' \in [Fills -> [DOMAIN Day -> ActState]]
      /\ pinsActs'[f] = Pins!Dropped(pinsActs[f])
      /\ \A g \in Fills \ {f} : pinsActs'[g] = pinsActs[g]
  BY <1>1, <1>5 DEF PinsTypes
<1>7. PinsAsTold'
  <2>1. ASSUME NEW g \in Fills, NEW i \in DOMAIN Day
        PROVE  /\ pinsActs'[g][i].pin = "far" => "no centre" \in pinsSlips
               /\ pinsActs'[g][i].hours =>
                    /\ pinsActs'[g][i].pin # "nowhere"
                    /\ pinsActs'[g][i].right \/ "address" \in pinsSlips
    <3>1. CASE pinsActs'[g][i] = pinsActs[g][i]
      BY <1>1, <3>1 DEF PinsAsTold
    <3>2. CASE pinsActs'[g][i].pin = "nowhere" /\ pinsActs'[g][i].hours = FALSE
      BY <3>2
    <3>3. QED
      BY <1>4, <1>6, <3>1, <3>2
  <2>2. QED
    BY <1>1, <2>1 DEF PinsAsTold
<1>8. QED
  BY <1>1, <1>3, <1>6, <1>7 DEF PinsInv, PinsTypes, RowsAsTold

\* Every step keeps the invariant of pins and hours.
LEMMA PinsInductive ==
  ASSUME PinsInv, [Pins!Next]_(Pins!vars)
  PROVE  PinsInv'
<1>1. PinsTypes /\ TryingOne /\ RowsAsTold /\ PinsAsTold
  BY DEF PinsInv
<1>2. ASSUME NEW f \in Fills, NEW pc \in {"asked", "sleep"},
             fill[f].pc \notin {"pass", "done"},
             fill' = [fill EXCEPT ![f].pc = pc],
             UNCHANGED <<knows, lugares, pinsActs, pinsSlips>>
      PROVE  PinsInv'
  <2>1. /\ fill[f] \in FillState
        /\ fill' = [fill EXCEPT ![f] = [fill[f] EXCEPT !.pc = pc]]
    BY <1>1, <1>2 DEF PinsTypes
  <2>2. [fill[f] EXCEPT !.pc = pc] \in FillState /\ FillFine([fill[f] EXCEPT !.pc = pc])
    BY <1>1, <1>2, <2>1 DEF FillState, FillFine, TryingOne
  <2>3. fill' \in [Fills -> FillState] /\ TryingOne'
    BY <2>1, <2>2, FillStep
  <2>4. RowsAsTold' /\ PinsAsTold'
    BY <1>1, <1>2 DEF RowsAsTold, PinsAsTold
  <2>5. QED
    BY <1>1, <1>2, <2>3, <2>4 DEF PinsInv, PinsTypes
<1>3. ASSUME NEW f \in Fills, Pins!Pace(f) \/ Pins!Wake(f)
      PROVE  PinsInv'
  <2>1. CASE Pins!Pace(f)
    BY <1>2, <2>1 DEF Pins!Pace
  <2>2. CASE Pins!Wake(f)
    BY <1>2, <2>2 DEF Pins!Wake
  <2>3. QED
    BY <1>3, <2>1, <2>2
<1>4. ASSUME NEW f \in Fills, Pins!Answer(f) \/ Pins!AnswerFails(f)
      PROVE  PinsInv'
  <2>1. fill[f].pc = "asked" /\ UNCHANGED <<knows, lugares, pinsActs, pinsSlips>>
    BY <1>4 DEF Pins!Answer, Pins!AnswerFails
  <2>2. Pins!Nothing \in Pins!Answers
    BY DEF Pins!Answers
  <2>3. /\ knows[Pins!Try(f).term].alone \in Pins!Answers
        /\ knows[Pins!Try(f).term].town \in Pins!Answers
    <3>1. Pins!Try(f).term \in Terms
      BY <2>1, TryOf
    <3>2. knows \in [Terms -> [town : Pins!Answers, alone : Pins!Answers]]
      BY <1>1, WorldsAssumption DEF PinsTypes
    <3>3. QED
      BY <3>1, <3>2
  <2>4. \E answer \in Pins!Answers : Pins!Answered(f, answer)
    BY <1>4, <2>2, <2>3 DEF Pins!Answer, Pins!AnswerFails
  <2>5. QED
    BY <2>1, <2>4, AnsweredFine
<1>5. CASE Pins!IntervalEnds
  <2>1. /\ fill' = [f \in Fills |-> IF fill[f].pc = "sleep" THEN [fill[f] EXCEPT !.pc = "wake"]
                                                            ELSE fill[f]]
        /\ UNCHANGED <<knows, lugares, pinsActs, pinsSlips>>
    BY <1>5 DEF Pins!IntervalEnds
  <2>2. ASSUME NEW f \in Fills
        PROVE  /\ fill'[f] \in FillState /\ fill'[f].act = fill[f].act
               /\ fill'[f].try = fill[f].try
               /\ fill'[f].pc \in {"pass", "done"} <=> fill[f].pc \in {"pass", "done"}
    <3>1. fill[f] \in FillState
      BY <1>1 DEF PinsTypes
    <3>2. CASE fill[f].pc = "sleep"
      BY <2>1, <3>1, <3>2 DEF FillState
    <3>3. CASE fill[f].pc # "sleep"
      BY <2>1, <3>1, <3>3
    <3>4. QED
      BY <3>2, <3>3
  <2>3. fill' \in [Fills -> FillState]
    BY <2>1, <2>2
  <2>4. TryingOne' /\ RowsAsTold' /\ PinsAsTold'
    BY <1>1, <2>1, <2>2 DEF TryingOne, RowsAsTold, PinsAsTold
  <2>5. QED
    BY <1>1, <2>1, <2>3, <2>4 DEF PinsInv, PinsTypes
<1>6. CASE UNCHANGED Pins!vars
  BY <1>1, <1>6 DEF Pins!vars, PinsInv, PinsTypes, TryingOne, RowsAsTold, PinsAsTold
<1>7. QED
  BY <1>3, <1>4, <1>5, <1>6, ReadFine, WriteFine, DropFine DEF Pins!Next

\* The properties of the pins follow from their invariant.
LEMMA PinsTell ==
  ASSUME PinsInv
  PROVE  Pins!NoPinFarAway /\ Pins!HoursOfThePlace
BY DEF PinsInv, PinsAsTold, Pins!NoPinFarAway, Pins!HoursOfThePlace

\* Pins and hours have the types that a run checks.
LEMMA PinsHasTypes == PinsTypes => Pins!TypeOK
<1> SUFFICES ASSUME PinsTypes PROVE Pins!TypeOK
  OBVIOUS
<1>1. ASSUME NEW f \in Fills
      PROVE  /\ fill[f].pc \in {"read", "pace", "sleep", "wake", "asked", "write", "pass", "done"}
             /\ fill[f].act \in 0 .. Len(Day) + 1
             /\ pinsActs[f] \in [DOMAIN Day ->
                  [pin : {"nowhere", "near", "aside", "far"}, right : BOOLEAN, hours : BOOLEAN,
                   site : BOOLEAN]]
  <2>1. fill[f] \in FillState /\ pinsActs[f] \in [DOMAIN Day -> ActState]
    BY DEF PinsTypes
  <2>2. QED
    BY <2>1 DEF FillState, ActState
<1>2. \A t \in Terms : lugares[t].estado \in {"absent", "ok", "longe", "sem_resposta"}
  BY DEF PinsTypes, LugarRow
<1>3. QED
  BY <1>1, <1>2 DEF PinsTypes, Pins!TypeOK

-----------------------------------------------------------------------------
(* The hours that a place has, and the visit *)

\* Every set of numbers that is not empty has a least one.
LEMMA Least ==
  ASSUME NEW S \in SUBSET Nat, S # {}
  PROVE  \E m \in S : \A n \in S : m <= n
<1>1. \A i, j \in Nat : i < j => <<i, j>> \in OpToRel(<, Nat)
  BY DEF OpToRel
<1>2. PICK R : IsWellFoundedOn(R, Nat) /\ \A i, j \in Nat : i < j => <<i, j>> \in R
  BY <1>1, NatLessThanWellFounded, Zenon
<1>3. \E m \in S : \A n \in S : <<n, m>> \notin R
  <2>1. S \subseteq Nat /\ IsWellFoundedOn(R, Nat)
    BY <1>2
  <2>2. QED
    BY <2>1, WFMin, Zenon
<1>4. PICK m \in S : \A n \in S : <<n, m>> \notin R
  BY <1>3
<1>5. \A n \in S : m <= n
  <2> TAKE n \in S
  <2>1. n \in Nat /\ m \in Nat /\ <<n, m>> \notin R
    BY <1>4
  <2>2. ~ (n < m)
    BY <1>2, <2>1
  <2>3. QED
    BY <2>1, <2>2
<1>6. QED
  BY <1>5

\* Every set of places that is not empty has a last one.
LEMMA Greatest ==
  ASSUME NEW n \in Nat, NEW S \in SUBSET (1 .. n), S # {}
  PROVE  \E m \in S : \A i \in S : i <= m
<1> DEFINE B == {b \in Nat : \A i \in S : i <= b}
<1>1. n \in B
  OBVIOUS
<1>2. PICK m \in B : \A b \in B : m <= b
  <2> B \in SUBSET Nat /\ B # {}
    BY <1>1
  <2> HIDE DEF B
  <2> QED
    BY Least
<1>3. m \in S
  <2> SUFFICES ASSUME m \notin S PROVE FALSE
    OBVIOUS
  <2>1. PICK i \in S : TRUE
    OBVIOUS
  <2>2. i \in 1 .. n /\ i <= m /\ m \in Nat
    OBVIOUS
  <2>3. \A j \in S : j <= m - 1
    <3> TAKE j \in S
    <3>1. j \in 1 .. n /\ j <= m /\ j # m
      OBVIOUS
    <3>2. QED
      BY <2>2, <3>1
  <2>4. m - 1 \in B
    BY <2>2, <2>3
  <2>5. m <= m - 1
    BY <1>2, <2>4
  <2>6. QED
    BY <2>2, <2>5
<1>4. QED
  BY <1>3

\* What is said rule after rule: by the rule at hand if it applies, or else as before.
Told(f, A, o, k) == IF k = 0 THEN FALSE ELSE IF k \in A THEN o[k] ELSE f[k - 1]

TellsRules(f, n, A, o) == f = [k \in 0 .. n |-> Told(f, A, o, k)]

\* That it can be told is shown by the function that asks for the last rule up to every
\* place.
LEMMA RulesCanBeTold ==
  ASSUME NEW n \in Nat, NEW A \in SUBSET (1 .. n), NEW o
  PROVE  \E f : TellsRules(f, n, A, o)
<1> DEFINE Upto(k) == {i \in A : i <= k}
           Last(S) == CHOOSE i \in S : \A j \in S : j <= i
           Says(k) == IF Upto(k) = {} THEN FALSE ELSE o[Last(Upto(k))]
           g == [k \in 0 .. n |-> Says(k)]
<1>1. ASSUME NEW k \in 0 .. n
      PROVE  Says(k) = Told(g, A, o, k)
  <2> \A i \in A : i \in Nat /\ i >= 1
    OBVIOUS
  <2>1. CASE k = 0
    <3>1. \A i \in A : ~ (i <= k)
      BY <2>1
    <3>2. Upto(k) = {}
      BY <3>1, Zenon
    <3>3. QED
      BY <2>1, <3>2 DEF Told
  <2>2. CASE k # 0 /\ k \in A
    <3>1. k \in Upto(k) /\ \A j \in Upto(k) : j <= k
      BY <2>2
    <3>2. \A i \in Upto(k) : i \in Nat /\ (k <= i => i = k)
      OBVIOUS
    <3>3. Last(Upto(k)) = k
      <4> HIDE DEF Upto
      <4> QED
        BY <3>1, <3>2
    <3>4. QED
      BY <2>2, <3>1, <3>3 DEF Told
  <2>3. CASE k # 0 /\ k \notin A
    <3>1. Upto(k) = Upto(k - 1)
      <4>1. \A i \in A : i <= k <=> i <= k - 1
        <5> TAKE i \in A
        <5>1. i \in Nat /\ i # k /\ k \in Nat
          BY <2>3
        <5>2. QED
          BY <5>1
      <4>2. QED
        BY <4>1, Zenon
    <3>2. k - 1 \in 0 .. n
      BY <2>3
    <3>3. Says(k) = Says(k - 1)
      <4> HIDE DEF Upto, Last
      <4> QED
        BY <3>1, Zenon
    <3>4. QED
      <4> HIDE DEF Says
      <4> QED
        BY <2>3, <3>2, <3>3 DEF Told
  <2>4. QED
    BY <2>1, <2>2, <2>3
<1>2. TellsRules(g, n, A, o)
  <2> HIDE DEF Says
  <2> QED
    BY <1>1, Zenon DEF TellsRules
<1>3. QED
  BY <1>2, Zenon

SaysTheLast(f, n, A, o) ==
  /\ A = {} => f[n] = FALSE
  /\ \A i \in A : (\A j \in A : i >= j) => f[n] = o[i]

\* What is told in the end is what the last rule that applies says, or nothing.
LEMMA LastRuleSays ==
  ASSUME NEW n \in Nat, NEW A \in SUBSET (1 .. n), NEW o, NEW f, TellsRules(f, n, A, o)
  PROVE  SaysTheLast(f, n, A, o)
<1>1. \A k \in 0 .. n : f[k] = Told(f, A, o, k)
  BY Zenon DEF TellsRules
<1>2. ASSUME NEW m \in 0 .. n, \A i \in A : i <= m
      PROVE  f[n] = f[m]
  <2> DEFINE D == {k \in Nat : m <= k /\ k <= n /\ f[k] # f[m]}
  <2>1. CASE D = {}
    <3>1. n \notin D /\ m <= n /\ n <= n
      BY <2>1
    <3>2. QED
      BY <3>1
  <2>2. CASE D # {}
    <3>1. PICK k \in D : \A j \in D : k <= j
      <4> D \in SUBSET Nat
        OBVIOUS
      <4> HIDE DEF D
      <4> QED
        BY <2>2, Least
    <3>2. k \in 0 .. n /\ k - 1 \in Nat /\ k # 0 /\ k \notin A /\ m <= k - 1 /\ k - 1 <= n
      <4>1. k # m /\ k \in Nat /\ m <= k /\ k <= n
        OBVIOUS
      <4>2. QED
        BY <1>2, <4>1
    <3>3. f[k] = f[k - 1]
      BY <1>1, <3>2 DEF Told
    <3>4. k - 1 \in D
      BY <3>2, <3>3
    <3>5. k <= k - 1
      BY <3>1, <3>4
    <3>6. QED
      BY <3>2, <3>5
  <2>3. QED
    BY <2>1, <2>2
<1>3. A = {} => f[n] = FALSE
  <2> SUFFICES ASSUME A = {} PROVE f[n] = FALSE
    OBVIOUS
  <2>1. f[n] = f[0]
    BY <1>2
  <2>2. 0 \in 0 .. n /\ Told(f, A, o, 0) = FALSE
    BY DEF Told
  <2>3. QED
    BY <1>1, <2>1, <2>2, Zenon
<1>4. ASSUME NEW i \in A, \A j \in A : i >= j
      PROVE  f[n] = o[i]
  <2>1. i \in 0 .. n /\ i # 0 /\ \A j \in A : j <= i
    BY <1>4
  <2>2. f[n] = f[i]
    BY <1>2, <2>1
  <2>3. f[i] = o[i]
    BY <1>1, <2>1 DEF Told
  <2>4. QED
    BY <2>2, <2>3
<1>5. QED
  BY <1>3, <1>4 DEF SaysTheLast

-----------------------------------------------------------------------------
\* The rules that speak of a day, of a label that is one.
LEMMA LabelHasRules ==
  ASSUME label \in Hours!Labels
  PROVE  /\ Len(label) \in Nat /\ DOMAIN label = 1 .. Len(label)
         /\ \A i \in DOMAIN label : label[i] \in Hours!Rules \cup {Hours!Unreadable}
         /\ \A v : Hours!Applicable(v) \in SUBSET (1 .. Len(label))
<1>1. PICK n \in 1 .. MaxRules : label \in [1 .. n -> Hours!Rules \cup {Hours!Unreadable}]
  BY DEF Hours!Labels
<1>2. n \in Nat /\ Len(label) = n /\ DOMAIN label = 1 .. n
  BY <1>1, HoursAssumption
<1>3. QED
  BY <1>1, <1>2 DEF Hours!Applicable

\* A slot is open if the last rule that speaks of the day has it among its hours.
LEMMA OpenSlotIs ==
  ASSUME label \in Hours!Labels, visit \in Hours!Visits, NEW s
  PROVE  LET A == Hours!Applicable(visit)
             open == Hours!OpenSlot(label, visit, s)
         IN /\ A = {} => ~ open
            /\ \A i \in A : (\A j \in A : i >= j) => (open <=> Hours!Serves(label[i], s))
<1> DEFINE n == Len(label)
           A == Hours!Applicable(visit)
           o == [i \in 1 .. n |-> Hours!Serves(label[i], s)]
           Asked(f, k) == IF k = 0 THEN FALSE
                          ELSE IF Hours!AppliesTo(label[k], visit)
                                 THEN Hours!Serves(label[k], s) ELSE f[k - 1]
           Is(f) == f = [k \in 0 .. n |-> Asked(f, k)]
           says == CHOOSE f : Is(f)
<1>1. n \in Nat /\ DOMAIN label = 1 .. n /\ A \in SUBSET (1 .. n)
  BY LabelHasRules
<1>2. \A f : \A k \in 0 .. n : Asked(f, k) = Told(f, A, o, k)
  <2> TAKE f
  <2> TAKE k \in 0 .. n
  <2>1. k # 0 => (k \in A <=> Hours!AppliesTo(label[k], visit))
    BY <1>1 DEF Hours!Applicable
  <2>2. k # 0 => k \in 1 .. n
    BY <1>1
  <2>3. k # 0 => o[k] = Hours!Serves(label[k], s)
    BY <2>2, Zenon
  <2> HIDE DEF A, o, n
  <2>4. QED
    BY <2>1, <2>3, Zenon DEF Told
<1>3. \A f : Is(f) <=> TellsRules(f, n, A, o)
  <2> HIDE DEF n, A, o, Asked
  <2> QED
    BY <1>2, Zenon DEF TellsRules
<1>4. TellsRules(says, n, A, o)
  <2> HIDE DEF n, A, o, Is
  <2>1. \E f : Is(f)
    BY <1>1, <1>3, RulesCanBeTold
  <2>2. Is(says)
    BY <2>1, Zenon
  <2>3. QED
    BY <1>3, <2>2
<1>5. /\ A = {} => says[n] = FALSE
      /\ \A i \in A : (\A j \in A : i >= j) => says[n] = o[i]
  <2> HIDE DEF n, A, o, says
  <2>1. n \in Nat /\ A \in SUBSET (1 .. n)
    BY <1>1
  <2>2. SaysTheLast(says, n, A, o)
    BY <1>4, <2>1, LastRuleSays
  <2>3. QED
    BY <2>2, Zenon DEF SaysTheLast
<1>6. Hours!OpenSlot(label, visit, s) <=> says[n]
  BY Zenon DEF Hours!OpenSlot
<1>7. \A i \in A : o[i] = Hours!Serves(label[i], s)
  <2> HIDE DEF A
  <2> QED
    BY <1>1
<1>8. QED
  <2> HIDE DEF n, o, says
  <2> QED
    BY <1>5, <1>6, <1>7, Zenon

\* Hours are numbers that end with the day, and a rule with one pair of them has no other.
LEMMA HoursOfRules ==
  ASSUME NEW rule \in Hours!Rules \cup {Hours!Unreadable}
  PROVE  /\ \A k \in DOMAIN rule.horas :
              /\ rule.horas[k][1] \in Nat /\ rule.horas[k][2] \in Nat
              /\ rule.horas[k][2] <= SlotsOfDay
         /\ Len(rule.horas) > 1 \/ \A k, l \in DOMAIN rule.horas : k = l
<1>1. rule.horas \in {<<>>, << <<1, 3>> >>, << <<1, 2>>, <<2, 4>> >>, << <<3, 1>> >>}
  <2>1. CASE rule \in Hours!Rules
    BY <2>1, Zenon DEF Hours!Rules
  <2>2. CASE rule = Hours!Unreadable
    BY <2>2 DEF Hours!Unreadable
  <2>3. QED
    BY <2>1, <2>2
<1>2. CASE rule.horas = <<>>
  BY <1>2
<1>3. CASE rule.horas = << <<1, 3>> >>
  BY <1>3, HoursAssumption
<1>4. CASE rule.horas = << <<1, 2>>, <<2, 4>> >>
  BY <1>4, HoursAssumption
<1>5. CASE rule.horas = << <<3, 1>> >>
  BY <1>5, HoursAssumption
<1>6. QED
  BY <1>1, <1>2, <1>3, <1>4, <1>5

\* A visit that fits in the hours of a rule has each slot in them; one that fits in none
\* has a slot outside, unless it is none or the rule has more than one pair.
LEMMA JudgeIsTrue ==
  ASSUME visit \in Hours!Visits, NEW rule \in Hours!Rules \cup {Hours!Unreadable}
  PROVE  LET slots == visit.start .. visit.start + visit.duration - 1
         IN /\ Hours!Judge(rule, visit) = "aberto" =>
                 \A s \in slots : s < SlotsOfDay /\ Hours!Serves(rule, s)
            /\ Hours!Judge(rule, visit) = "fechado" =>
                 \/ \E s \in slots : ~ (s < SlotsOfDay /\ Hours!Serves(rule, s))
                 \/ visit.duration = 0 \/ Len(rule.horas) > 1
<1> DEFINE slots == visit.start .. visit.start + visit.duration - 1
<1>1. visit.start \in Nat /\ visit.duration \in Nat /\ SlotsOfDay \in Nat
  BY HoursAssumption DEF Hours!Visits
<1>2. Hours!Judge(rule, visit) = "aberto" <=>
        \E k \in DOMAIN rule.horas : Hours!Contains(rule.horas[k], visit)
  BY DEF Hours!Judge
<1>3. Hours!Judge(rule, visit) = "fechado" <=>
        ~ \E k \in DOMAIN rule.horas : Hours!Contains(rule.horas[k], visit)
  BY DEF Hours!Judge
<1>4. ASSUME NEW k \in DOMAIN rule.horas, Hours!Contains(rule.horas[k], visit),
             NEW s \in slots
      PROVE  s < SlotsOfDay /\ Hours!Serves(rule, s)
  <2> DEFINE h == rule.horas[k]
  <2>1. h[1] \in Nat /\ h[2] \in Nat /\ h[2] <= SlotsOfDay
    BY HoursOfRules
  <2>2. s \in Nat /\ visit.start <= s /\ s < visit.start + visit.duration
    BY <1>1
  <2>3. /\ visit.start >= h[1]
        /\ visit.start + visit.duration <= (IF h[2] <= h[1] THEN SlotsOfDay ELSE h[2])
    BY <1>4 DEF Hours!Contains, Hours!Interval
  <2>4. s < SlotsOfDay /\ s >= h[1] /\ (s < h[2] \/ h[2] <= h[1])
    <3> HIDE DEF h
    <3> QED
      BY <1>1, <2>1, <2>2, <2>3
  <2>5. QED
    BY <2>4, Zenon DEF Hours!Serves
<1>5. ASSUME ~ \E k \in DOMAIN rule.horas : Hours!Contains(rule.horas[k], visit),
             visit.duration # 0, ~ (Len(rule.horas) > 1),
             \A s \in slots : s < SlotsOfDay /\ Hours!Serves(rule, s)
      PROVE  FALSE
  <2>1. visit.start \in slots /\ visit.start + visit.duration - 1 \in slots
    BY <1>1, <1>5
  <2>2. PICK k \in DOMAIN rule.horas : visit.start >= rule.horas[k][1]
    BY <1>5, <2>1, Zenon DEF Hours!Serves
  <2>3. \A l \in DOMAIN rule.horas : l = k
    BY <1>5, HoursOfRules
  <2> DEFINE h == rule.horas[k]
             s == visit.start + visit.duration - 1
  <2>4. s < SlotsOfDay /\ (s < h[2] \/ h[2] <= h[1])
    <3>1. s < SlotsOfDay /\ Hours!Serves(rule, s)
      BY <1>5, <2>1, Zenon
    <3>2. QED
      BY <2>3, <3>1, Zenon DEF Hours!Serves
  <2>5. h[1] \in Nat /\ h[2] \in Nat /\ h[2] <= SlotsOfDay
    BY HoursOfRules
  <2>6. Hours!Contains(h, visit)
    <3>1. /\ visit.start >= h[1]
          /\ visit.start + visit.duration <= (IF h[2] <= h[1] THEN SlotsOfDay ELSE h[2])
      <4> HIDE DEF h
      <4> QED
        BY <1>1, <2>2, <2>4, <2>5 DEF h
    <3>2. QED
      BY <3>1, Zenon DEF Hours!Contains, Hours!Interval
  <2>7. QED
    BY <1>5, <2>6
<1>6. QED
  <2> HIDE DEF slots
  <2>1. /\ Hours!Judge(rule, visit) = "aberto" =>
             \A s \in slots : s < SlotsOfDay /\ Hours!Serves(rule, s)
        /\ Hours!Judge(rule, visit) = "fechado" =>
             \/ \E s \in slots : ~ (s < SlotsOfDay /\ Hours!Serves(rule, s))
             \/ visit.duration = 0 \/ Len(rule.horas) > 1
    BY <1>2, <1>3, <1>4, <1>5, Zenon
  <2> USE DEF slots
  <2>2. QED
    BY <2>1, Zenon

\* The verdict as it stands is true of the label and the visit, which nothing changes.
HoursInv ==
  label \in Hours!Labels /\ visit \in Hours!Visits /\ Hours!TypeOK /\ Hours!VerdictIsTrue

LEMMA HoursInitially == Hours!Init => HoursInv
  BY DEF Hours!Init, HoursInv, Hours!TypeOK, Hours!VerdictIsTrue

LEMMA HoursInductive == HoursInv /\ [Hours!Next]_(Hours!vars) => HoursInv'
<1> SUFFICES ASSUME HoursInv, [Hours!Next]_(Hours!vars) PROVE HoursInv'
  OBVIOUS
<1>1. CASE Hours!AvaliarHorario
  <2> DEFINE A == Hours!Applicable(visit)
             slots == visit.start .. visit.start + visit.duration - 1
             opens == {s \in slots : s < SlotsOfDay
                                       /\ Hours!OpenSlot(label, visit, s)}
             unread == \E i \in DOMAIN label : label[i] = Hours!Unreadable
             last == CHOOSE i \in A : \A j \in A : i >= j
  <2>1. label' = label /\ visit' = visit
    BY <1>1 DEF Hours!AvaliarHorario
  <2>2. label \in Hours!Labels /\ visit \in Hours!Visits
    BY DEF HoursInv
  <2>3. verdict' = IF unread THEN "desconhecido"
                   ELSE IF A = {} THEN "fechado" ELSE Hours!Judge(label[last], visit)
    BY <1>1, Zenon DEF Hours!AvaliarHorario
  <2>4. A # {} => last \in A /\ \A j \in A : last >= j
    <3> HIDE DEF A
    <3>1. A \in SUBSET (1 .. Len(label)) /\ Len(label) \in Nat
      BY <2>2, LabelHasRules DEF A
    <3>2. A # {} => \E i \in A : \A j \in A : i >= j
      <4>1. ASSUME A # {} PROVE \E i \in A : \A j \in A : i >= j
        <5>1. PICK i \in A : \A j \in A : j <= i
          BY <3>1, <4>1, Greatest
        <5>2. \A j \in A : i >= j
          BY <3>1, <5>1
        <5>3. QED
          BY <5>2
      <4>2. QED
        BY <4>1
    <3>3. QED
      BY <3>2, Zenon
  <2>5. A # {} => /\ last \in DOMAIN label
                  /\ label[last] \in Hours!Rules \cup {Hours!Unreadable}
    BY <2>2, <2>4, LabelHasRules
  <2>6. Hours!Judge(label[last], visit) \in {"aberto", "fechado"}
    BY DEF Hours!Judge
  <2>7. \A s \in slots : s \in opens <=>
          s < SlotsOfDay /\ Hours!OpenSlot(label, visit, s)
    BY Zenon
  <2>8. A = {} => \A s \in slots : s \notin opens
    BY <2>2, <2>7, OpenSlotIs, Zenon
  <2>9. A # {} => \A s \in slots : s \in opens <=> s < SlotsOfDay /\ Hours!Serves(label[last], s)
    BY <2>2, <2>4, <2>7, OpenSlotIs, Zenon
  <2>10. opens \subseteq slots
    OBVIOUS
  <2>11. visit.duration # 0 => visit.start \in slots
    BY <2>2, HoursAssumption DEF Hours!Visits
  <2>12. verdict' = "aberto" => opens = slots
    <3>1. verdict' = "aberto" => A # {} /\ Hours!Judge(label[last], visit) = "aberto"
      BY <2>3
    <3>2. verdict' = "aberto" => \A s \in slots : s < SlotsOfDay /\ Hours!Serves(label[last], s)
      BY <2>2, <2>5, <3>1, JudgeIsTrue, Zenon
    <3> HIDE DEF opens, slots, A, last
    <3>3. QED
      BY <2>9, <2>10, <3>1, <3>2
  <2>13. verdict' = "fechado" =>
           \/ opens # slots \/ visit.duration = 0
           \/ \E i \in DOMAIN label : Len(label[i].horas) > 1
    <3>1. CASE A = {}
      <4> HIDE DEF opens, slots, A, last
      <4> QED
        BY <2>8, <2>11, <3>1
    <3>2. CASE A # {}
      <4>1. verdict' = "fechado" => Hours!Judge(label[last], visit) = "fechado"
        BY <2>3, <3>2
      <4>2. verdict' = "fechado" =>
              \/ \E s \in slots : ~ (s < SlotsOfDay /\ Hours!Serves(label[last], s))
              \/ visit.duration = 0 \/ Len(label[last].horas) > 1
        BY <2>2, <2>5, <3>2, <4>1, JudgeIsTrue, Zenon
      <4> HIDE DEF opens, slots, A, last
      <4>3. QED
        BY <2>5, <2>9, <3>2, <4>2
    <3>3. QED
      BY <3>1, <3>2
  <2>14. (\E i \in DOMAIN label : ~ label[i].lida) => verdict' \in {"none", "desconhecido"}
    <3>1. \A i \in DOMAIN label : ~ label[i].lida => label[i] = Hours!Unreadable
      <4> TAKE i \in DOMAIN label
      <4>1. label[i] \in Hours!Rules \cup {Hours!Unreadable}
        BY <2>2, LabelHasRules
      <4>2. \A r \in Hours!Rules : r.lida = TRUE
        BY Zenon DEF Hours!Rules
      <4>3. QED
        BY <4>1, <4>2
    <3>2. QED
      BY <2>3, <3>1, Zenon
  <2>15. Hours!VerdictIsTrue'
    <3> HIDE DEF opens, slots
    <3>1. /\ verdict' = "aberto" => opens = slots
          /\ verdict' = "fechado" =>
               \/ opens # slots \/ visit.duration = 0
               \/ \E i \in DOMAIN label : Len(label[i].horas) > 1
          /\ (\E i \in DOMAIN label : ~ label[i].lida) => verdict' \in {"none", "desconhecido"}
      BY <2>12, <2>13, <2>14
    <3> USE DEF opens, slots
    <3>2. QED
      BY <2>1, <3>1 DEF Hours!VerdictIsTrue
  <2>16. Hours!TypeOK'
    BY <2>3, <2>6 DEF Hours!TypeOK
  <2>17. QED
    BY <2>1, <2>2, <2>15, <2>16 DEF HoursInv, Hours!Labels, Hours!Rules, Hours!Visits,
      Hours!Unreadable
<1>2. CASE UNCHANGED Hours!vars
  <2>1. label' = label /\ visit' = visit /\ verdict' = verdict
    BY <1>2 DEF Hours!vars
  <2>2. QED
    BY <2>1 DEF HoursInv, Hours!Labels, Hours!Rules, Hours!Unreadable, Hours!Visits,
      Hours!TypeOK, Hours!VerdictIsTrue
<1>3. QED
  BY <1>1, <1>2 DEF Hours!Next

-----------------------------------------------------------------------------
(* The days of an agenda *)

\* An activity that was repaired, and one that has an hour.
Mended == [at : (0 .. Slots - 1) \cup {Plan!Odd}, lasts : 0 .. Longest]
Measured == [at : 0 .. Slots - 1, lasts : 0 .. Longest]

\* How many there are is asked of one and the same operator.
LEMMA PlanCards == ASSUME NEW S PROVE Plan!Cardinality(S) = Cardinality(S)
BY DEF Plan!Cardinality, Cardinality

\* In a finite chain of sets, each with a member of its own, there is one of every size.
LEMMA ChainIsTaken ==
  ASSUME NEW S, IsFiniteSet(S), NEW U \in [S -> SUBSET S],
         \A i \in S : i \in U[i],
         \A i, j \in S : i # j => \/ U[i] \subseteq U[j] /\ j \notin U[i]
                                  \/ U[j] \subseteq U[i] /\ i \notin U[j]
  PROVE  /\ Cardinality(S) \in Nat
         /\ \A p \in 1 .. Cardinality(S) : \E i \in S : Cardinality(U[i]) = p
<1> DEFINE n == Cardinality(S)
           f == [i \in S |-> Cardinality(U[i])]
<1>1. n \in Nat
  BY FS_CardinalityType
<1>2. ASSUME NEW i \in S
      PROVE  IsFiniteSet(U[i]) /\ Cardinality(U[i]) \in 1 .. n
  <2>1. U[i] \in SUBSET S /\ i \in U[i]
    OBVIOUS
  <2>2. IsFiniteSet(U[i]) /\ Cardinality(U[i]) <= n
    BY <2>1, FS_Subset
  <2>3. Cardinality(U[i]) \in Nat /\ Cardinality(U[i]) # 0
    BY <2>1, <2>2, FS_EmptySet, FS_CardinalityType
  <2>4. QED
    BY <1>1, <2>2, <2>3
<1>3. ASSUME NEW i \in S, NEW j \in S, U[i] \subseteq U[j], j \notin U[i]
      PROVE  Cardinality(U[i]) # Cardinality(U[j])
  <2>1. U[i] # U[j] /\ U[i] \in SUBSET U[j]
    BY <1>3
  <2>2. QED
    BY <1>2, <2>1, FS_Subset
<1>4. f \in Injection(S, 1 .. n)
  <2>1. f \in [S -> 1 .. n]
    BY <1>2
  <2>2. \A i, j \in S : f[i] = f[j] => i = j
    BY <1>3
  <2> HIDE DEF f, n
  <2>3. QED
    BY <2>1, <2>2 DEF Injection, IsInjective
<1>5. IsFiniteSet(1 .. n) /\ Cardinality(1 .. n) = n
  BY <1>1, FS_Interval
<1>6. f \in Surjection(S, 1 .. n)
  <2> HIDE DEF f
  <2> QED
    BY <1>4, <1>5, FS_Injection
<1>7. \A p \in 1 .. n : \E i \in S : f[i] = p
  <2> HIDE DEF f
  <2> QED
    BY <1>6 DEF Surjection
<1>8. QED
  BY <1>1, <1>7

\* What is not after k in the order of times, and of numbers where the times are the same.
NotLater(S, t, k) == {j \in S : t[j] < t[k] \/ (t[j] = t[k] /\ j <= k)}

\* Of things that have times there is one at every rank.
LEMMA EveryRank ==
  ASSUME NEW S, IsFiniteSet(S), \A i \in S : i \in Nat, NEW t \in [S -> Nat]
  PROVE  /\ Cardinality(S) \in Nat
         /\ \A p \in 1 .. Cardinality(S) : \E k \in S : Cardinality(NotLater(S, t, k)) = p
<1> DEFINE U == [k \in S |-> {j \in S : t[j] < t[k] \/ (t[j] = t[k] /\ j <= k)}]
<1>1. U \in [S -> SUBSET S] /\ \A i \in S : i \in U[i]
  OBVIOUS
<1>2. ASSUME NEW i \in S, NEW j \in S, t[i] < t[j] \/ (t[i] = t[j] /\ i < j)
      PROVE  U[i] \subseteq U[j] /\ j \notin U[i]
  <2>1. \A m \in S : /\ m \in U[i] <=> t[m] < t[i] \/ (t[m] = t[i] /\ m <= i)
                     /\ m \in U[j] <=> t[m] < t[j] \/ (t[m] = t[j] /\ m <= j)
    OBVIOUS
  <2> HIDE DEF U
  <2>2. \A m \in S : m \in U[i] => m \in U[j]
    BY <1>2, <2>1
  <2>3. QED
    BY <1>1, <1>2, <2>1, <2>2
<1>3. \A i, j \in S : i # j => \/ U[i] \subseteq U[j] /\ j \notin U[i]
                               \/ U[j] \subseteq U[i] /\ i \notin U[j]
  <2>1. \A i, j \in S : i # j => \/ t[i] < t[j] \/ (t[i] = t[j] /\ i < j)
                                 \/ t[j] < t[i] \/ (t[j] = t[i] /\ j < i)
    OBVIOUS
  <2> HIDE DEF U
  <2>2. QED
    BY <1>2, <2>1
<1>4. /\ Cardinality(S) \in Nat
      /\ \A p \in 1 .. Cardinality(S) : \E k \in S : Cardinality(U[k]) = p
  <2> HIDE DEF U
  <2> QED
    BY <1>1, <1>3, ChainIsTaken
<1>5. \A k \in S : NotLater(S, t, k) = U[k]
  BY DEF NotLater
<1>6. QED
  <2> HIDE DEF U
  <2> QED
    BY <1>4, <1>5

\* What is kept of a list is a list.
LEMMA KeptIsList ==
  ASSUME NEW X, NEW list \in Seq(X), NEW P \in SUBSET (DOMAIN list)
  PROVE  Plan!Kept(list, P) \in Seq(X)
<1> DEFINE U == [i \in P |-> {j \in P : j <= i}]
           n == Cardinality(P)
           e(k) == list[Plan!Ascending(P)[k]]
<1>1. /\ DOMAIN list = 1 .. Len(list) /\ Len(list) \in Nat
      /\ \A i \in 1 .. Len(list) : list[i] \in X
  BY LenProperties, ElementOfSeq
<1>2. IsFiniteSet(P)
  <2>1. IsFiniteSet(1 .. Len(list)) /\ P \in SUBSET (1 .. Len(list))
    BY <1>1, FS_Interval
  <2>2. QED
    BY <2>1, FS_Subset
<1>3. \A i \in P : i \in Nat
  BY <1>1
<1>4. /\ n \in Nat
      /\ \A p \in 1 .. n : \E i \in P : Cardinality(U[i]) = p
  <2>1. U \in [P -> SUBSET P] /\ \A i \in P : i \in U[i]
    BY <1>3
  <2>2. \A i, j \in P : i # j => \/ U[i] \subseteq U[j] /\ j \notin U[i]
                                 \/ U[j] \subseteq U[i] /\ i \notin U[j]
    <3>1. ASSUME NEW i \in P, NEW j \in P, i < j
          PROVE  U[i] \subseteq U[j] /\ j \notin U[i]
      BY <1>3, <3>1
    <3>2. \A i, j \in P : i # j => i < j \/ j < i
      BY <1>3
    <3> HIDE DEF U
    <3>3. QED
      BY <3>1, <3>2
  <2> HIDE DEF U
  <2>3. QED
    BY <1>2, <2>1, <2>2, ChainIsTaken
<1>5. \A p \in 1 .. n : \E i \in P : Plan!Place(P, i) = p
  <2> HIDE DEF n
  <2> QED
    BY <1>4, PlanCards DEF Plan!Place
<1>6. \A k \in 1 .. n : Plan!Ascending(P)[k] \in P
  <2>1. Plan!Ascending(P) = [k \in 1 .. n |-> CHOOSE i \in P : Plan!Place(P, i) = k]
    BY PlanCards, Zenon DEF Plan!Ascending
  <2> HIDE DEF n
  <2>2. QED
    BY <1>5, <2>1
<1>7. \A k \in 1 .. n : e(k) \in X
  BY <1>1, <1>6
<1>8. [k \in 1 .. n |-> e(k)] \in Seq(X)
  <2> HIDE DEF e, n
  <2> QED
    BY <1>4, <1>7, IsASeq
<1>9. QED
  BY <1>8, PlanCards, Zenon DEF Plan!Kept

\* The activities that have an hour, in the order of their times, are a list of them.
LEMMA ByTimeIsList ==
  ASSUME NEW acts \in Seq(Mended)
  PROVE  Plan!ByTime(acts) \in Seq(Measured)
<1> DEFINE S == Plan!Timed(acts)
           U == [k \in S |-> {j \in S : \/ acts[j].at < acts[k].at
                                        \/ acts[j].at = acts[k].at /\ j <= k}]
           n == Cardinality(S)
           sorted == [p \in 1 .. n |-> acts[CHOOSE k \in S : Plan!Rank(acts, k) = p]]
<1>1. /\ DOMAIN acts = 1 .. Len(acts) /\ Len(acts) \in Nat
      /\ \A i \in 1 .. Len(acts) : acts[i] \in Mended
  BY LenProperties, ElementOfSeq
<1>2. S \in SUBSET (1 .. Len(acts)) /\ IsFiniteSet(S)
  <2>1. IsFiniteSet(1 .. Len(acts)) /\ S \in SUBSET (1 .. Len(acts))
    BY <1>1, FS_Interval DEF Plan!Timed
  <2> HIDE DEF S
  <2>2. QED
    BY <2>1, FS_Subset
<1>3. \A i \in S : i \in Nat /\ acts[i] \in Measured /\ acts[i].at \in Nat
  <2> TAKE i \in S
  <2>1. i \in 1 .. Len(acts) /\ acts[i].at # Plan!Odd
    BY <1>1 DEF Plan!Timed
  <2>2. QED
    BY <1>1, <2>1, AgendaAssumption DEF Mended, Measured
<1>4. /\ n \in Nat
      /\ \A p \in 1 .. n : \E k \in S : Cardinality(U[k]) = p
  <2> DEFINE t == [k \in S |-> acts[k].at]
  <2>1. t \in [S -> Nat] /\ \A i \in S : i \in Nat
    BY <1>3
  <2>2. \A k \in S : U[k] = NotLater(S, t, k)
    BY DEF NotLater
  <2>3. n \in Nat /\ \A p \in 1 .. n : \E k \in S : Cardinality(NotLater(S, t, k)) = p
    <3> HIDE DEF S, t
    <3> QED
      BY <1>2, <2>1, EveryRank
  <2> HIDE DEF S, U, t
  <2>4. QED
    BY <2>2, <2>3
<1>5. \A p \in 1 .. n : \E k \in S : Plan!Rank(acts, k) = p
  <2>1. \A k \in S : Plan!Rank(acts, k) = Cardinality(U[k])
    BY PlanCards DEF Plan!Rank
  <2> HIDE DEF S, U
  <2>2. QED
    BY <1>4, <2>1
<1>6. \A p \in 1 .. n : sorted[p] \in Measured
  <2> HIDE DEF S
  <2> QED
    BY <1>3, <1>5
<1>7. SubSeq(sorted, 1, n) \in Seq(Measured)
  <2> HIDE DEF sorted, n
  <2> QED
    BY <1>4, <1>6, SubSeqProperties
<1>8. QED
  BY <1>7, PlanCards, Zenon DEF Plan!ByTime

\* Measured activities are numbers at places.
LEMMA ActsAre ==
  ASSUME NEW acts \in Seq(Measured)
  PROVE  /\ Len(acts) \in Nat /\ DOMAIN acts = 1 .. Len(acts)
         /\ \A i \in 1 .. Len(acts) :
              /\ acts[i].at \in Nat /\ acts[i].lasts \in Nat
              /\ Plan!Ends(acts[i]) = acts[i].at + acts[i].lasts
              /\ Plan!Ends(acts[i]) \in Nat
<1>1. /\ Len(acts) \in Nat /\ DOMAIN acts = 1 .. Len(acts)
      /\ \A i \in 1 .. Len(acts) : acts[i] \in Measured
  BY LenProperties, ElementOfSeq
<1>2. QED
  BY <1>1, AgendaAssumption DEF Measured, Plan!Ends

\* A day without problems: every activity lies in the window, and before the next ones.
FitsInto(acts) ==
  /\ \A k \in DOMAIN acts :
       acts[k].lasts > 0 /\ acts[k].at >= From /\ Plan!Ends(acts[k]) <= To
  /\ \A k, l \in DOMAIN acts : k < l => Plan!Ends(acts[k]) <= acts[l].at

\* When each activity ends before the next one it ends before all that follow.
LEMMA NextIsEnough ==
  ASSUME NEW acts \in Seq(Measured),
         \A k \in DOMAIN acts : k < Len(acts) => Plan!Ends(acts[k]) <= acts[k + 1].at
  PROVE  \A k, l \in DOMAIN acts : k < l => Plan!Ends(acts[k]) <= acts[l].at
<1> DEFINE n == Len(acts)
<1>1. /\ n \in Nat /\ DOMAIN acts = 1 .. n
      /\ \A i \in 1 .. n : acts[i].at \in Nat /\ acts[i].lasts \in Nat
                           /\ Plan!Ends(acts[i]) = acts[i].at + acts[i].lasts
                           /\ Plan!Ends(acts[i]) \in Nat
  BY ActsAre
<1> SUFFICES ASSUME NEW k \in 1 .. n,
                    \E l \in 1 .. n : k < l /\ ~ (Plan!Ends(acts[k]) <= acts[l].at)
             PROVE  FALSE
  BY <1>1
<1> DEFINE B == {l \in 1 .. n : k < l /\ ~ (Plan!Ends(acts[k]) <= acts[l].at)}
<1> HIDE DEF n
<1>2. PICK l \in B : \A m \in B : l <= m
  <2>1. B # {}
    OBVIOUS
  <2>2. B \subseteq 1 .. n /\ 1 .. n \subseteq Nat
    BY <1>1
  <2>3. B \in SUBSET Nat
    <3> HIDE DEF B
    <3> QED
      BY <2>2
  <2> HIDE DEF B
  <2> QED
    BY <2>1, <2>3, Least
<1>3. l \in 1 .. n /\ k < l /\ ~ (Plan!Ends(acts[k]) <= acts[l].at)
  OBVIOUS
<1>4. l - 1 \in 1 .. n /\ l - 1 < n /\ Plan!Ends(acts[l - 1]) <= acts[l].at
  <2>1. l - 1 \in 1 .. n /\ l - 1 < n /\ (l - 1) + 1 = l
    BY <1>1, <1>3
  <2>2. Plan!Ends(acts[l - 1]) <= acts[(l - 1) + 1].at
    BY <1>1, <2>1 DEF n
  <2>3. QED
    BY <2>1, <2>2
<1>5. k # l - 1
  BY <1>3, <1>4
<1>6. l - 1 \notin B
  <2>1. ~ (l <= l - 1)
    BY <1>1, <1>3
  <2> HIDE DEF B
  <2>2. QED
    BY <1>2, <2>1
<1>7. Plan!Ends(acts[k]) <= acts[l - 1].at
  BY <1>1, <1>3, <1>4, <1>5, <1>6
<1>8. Plan!Ends(acts[k]) <= acts[l].at
  <2> DEFINE e == Plan!Ends(acts[k])
             a == acts[l - 1].at
             p == acts[l - 1].lasts
             b == acts[l].at
  <2> HIDE DEF B
  <2>1. e \in Nat /\ a \in Nat /\ p \in Nat /\ b \in Nat
    BY <1>1, <1>3, <1>4
  <2>2. Plan!Ends(acts[l - 1]) = a + p
    BY <1>1, <1>4
  <2>3. e <= a /\ a + p <= b
    BY <1>4, <1>7, <2>2
  <2> HIDE DEF e, a, b, p
  <2>4. e <= b
    BY <2>1, <2>3
  <2>5. QED
    BY <2>4 DEF e, b
<1>9. QED
  BY <1>3, <1>8

\* The slots that an activity takes, with the way to the next one.
Stay(acts, i) == acts[i].at .. acts[i].at + Plan!Takes(acts, i) - 1

\* On a day without problems an activity and the way from it lie in the window, and before
\* the activities that follow.
LEMMA StaysLie ==
  ASSUME NEW acts \in Seq(Measured), FitsInto(acts), NEW i \in 1 .. Len(acts)
  PROVE  /\ Plan!Takes(acts, i) \in Nat
         /\ acts[i].at >= From /\ acts[i].at + Plan!Takes(acts, i) <= To
         /\ \A j \in 1 .. Len(acts) : i < j => acts[i].at + Plan!Takes(acts, i) <= acts[j].at
         /\ Stay(acts, i) =
              (acts[i].at .. Plan!Ends(acts[i]) - 1) \cup
              (IF i = Len(acts) THEN {}
               ELSE {t \in Plan!Ends(acts[i]) .. Plan!Ends(acts[i]) + Plan!Walk - 1 :
                       t < acts[i + 1].at})
<1> DEFINE n == Len(acts)
           takes == Plan!Takes(acts, i)
<1>1. /\ n \in Nat /\ DOMAIN acts = 1 .. n
      /\ \A j \in 1 .. n : acts[j].at \in Nat /\ acts[j].lasts \in Nat
                           /\ Plan!Ends(acts[j]) = acts[j].at + acts[j].lasts
  BY ActsAre
<1>2. /\ \A j \in 1 .. n : acts[j].at >= From /\ Plan!Ends(acts[j]) <= To
      /\ \A j, l \in 1 .. n : j < l => Plan!Ends(acts[j]) <= acts[l].at
  BY <1>1 DEF FitsInto
<1>3. CASE i = n
  <2>1. takes = acts[i].lasts
    BY <1>1, <1>3 DEF Plan!Takes
  <2>2. Stay(acts, i) = acts[i].at .. Plan!Ends(acts[i]) - 1
    BY <1>1, <2>1 DEF Stay
  <2> HIDE DEF takes
  <2>3. QED
    BY <1>1, <1>2, <1>3, <2>1, <2>2 DEF takes
<1>4. CASE i # n
  <2>1. i \in Nat /\ i + 1 \in 1 .. n /\ acts[i].at \in Nat /\ acts[i].lasts \in Nat
        /\ acts[i + 1].at \in Nat
    BY <1>1, <1>4
  <2> DEFINE gap == acts[i + 1].at - Plan!Ends(acts[i])
             way == IF gap < Plan!Walk THEN gap ELSE Plan!Walk
  <2>2. gap \in Nat /\ Plan!Ends(acts[i]) = acts[i].at + acts[i].lasts
    BY <1>1, <1>2, <2>1
  <2>3. takes = acts[i].lasts + way
    BY <1>4, <2>1, <2>2 DEF Plan!Takes, Plan!Gap
  <2>4. way \in Nat /\ way <= gap /\ Plan!Walk = 1
    BY <2>2 DEF Plan!Walk
  <2>5. acts[i].at + takes <= acts[i + 1].at /\ takes \in Nat /\ takes >= acts[i].lasts
    <3> HIDE DEF takes, way
    <3> QED
      BY <2>1, <2>2, <2>3, <2>4
  <2>6. Stay(acts, i) =
          (acts[i].at .. Plan!Ends(acts[i]) - 1) \cup
          {t \in Plan!Ends(acts[i]) .. Plan!Ends(acts[i]) + Plan!Walk - 1 : t < acts[i + 1].at}
    <3>1. Stay(acts, i) = acts[i].at .. Plan!Ends(acts[i]) + way - 1
      <4> HIDE DEF takes, way
      <4> DEFINE a == acts[i].at
                 b == acts[i].lasts
                 e == Plan!Ends(acts[i])
      <4>1. /\ a \in Nat /\ b \in Nat /\ takes \in Nat /\ way \in Nat
            /\ e = a + b /\ takes = b + way
        BY <2>1, <2>2, <2>3, <2>4, <2>5
      <4> HIDE DEF a, b, e
      <4>2. a + takes - 1 = e + way - 1
        BY <4>1
      <4>3. acts[i].at + takes - 1 = Plan!Ends(acts[i]) + way - 1
        BY <4>2 DEF a, e
      <4>4. QED
        BY <4>3, Zenon DEF Stay, takes
    <3>2. {t \in Plan!Ends(acts[i]) .. Plan!Ends(acts[i]) + Plan!Walk - 1 : t < acts[i + 1].at}
            = Plan!Ends(acts[i]) .. Plan!Ends(acts[i]) + way - 1
      BY <2>1, <2>2, <2>4
    <3> HIDE DEF way
    <3>3. QED
      BY <2>1, <2>2, <2>4, <3>1, <3>2
  <2>7. ASSUME NEW j \in 1 .. n, i < j PROVE acts[i].at + takes <= acts[j].at
    <3>1. CASE j = i + 1
      BY <2>5, <3>1
    <3>2. CASE j # i + 1
      <4>1. i + 1 < j
        BY <2>1, <2>7, <3>2
      <4>2. Plan!Ends(acts[i + 1]) <= acts[j].at
        BY <1>2, <2>1, <4>1
      <4> HIDE DEF takes
      <4>3. QED
        BY <1>1, <2>1, <2>5, <4>2
    <3>3. QED
      BY <3>1, <3>2
  <2>8. acts[i].at + takes <= To
    <3> HIDE DEF takes
    <3> QED
      BY <1>1, <1>2, <2>1, <2>5, AgendaAssumption
  <2> HIDE DEF takes
  <2>9. QED
    BY <1>2, <1>4, <2>5, <2>6, <2>7, <2>8 DEF takes
<1>5. QED
  BY <1>3, <1>4

\* The slots that the first activities take.
Until(acts, k) == {t \in From .. To - 1 : \E i \in 1 .. k : t \in Stay(acts, i)}

\* No slot is taken twice on a day without problems.
LEMMA EachAddsItsOwn ==
  ASSUME NEW acts \in Seq(Measured), FitsInto(acts)
  PROVE  /\ Cardinality(Until(acts, 0)) = 0
         /\ \A k \in 1 .. Len(acts) :
              Cardinality(Until(acts, k)) = Cardinality(Until(acts, k - 1)) + Plan!Takes(acts, k)
         /\ \A k \in 0 .. Len(acts) :
              Cardinality(Until(acts, k)) \in Nat /\ Cardinality(Until(acts, k)) <= To - From
<1> DEFINE n == Len(acts)
<1>1. /\ n \in Nat
      /\ \A i \in 1 .. n : acts[i].at \in Nat /\ acts[i].at >= From
                           /\ Plan!Takes(acts, i) \in Nat
                           /\ acts[i].at + Plan!Takes(acts, i) <= To
                           /\ \A j \in 1 .. n : i < j => acts[i].at + Plan!Takes(acts, i) <= acts[j].at
  BY ActsAre, StaysLie
<1> HIDE DEF n
<1>2. /\ IsFiniteSet(From .. To - 1) /\ Cardinality(From .. To - 1) = To - From
  <2>1. From \in Int /\ To - 1 \in Int /\ ~ (From > To - 1) /\ To - 1 - From + 1 = To - From
    BY AgendaAssumption
  <2>2. QED
    BY <2>1, FS_Interval
<1>3. ASSUME NEW k PROVE /\ IsFiniteSet(Until(acts, k)) /\ Cardinality(Until(acts, k)) \in Nat
                         /\ Cardinality(Until(acts, k)) <= To - From
  <2>1. Until(acts, k) \in SUBSET (From .. To - 1)
    BY Zenon DEF Until
  <2>2. IsFiniteSet(Until(acts, k)) /\ Cardinality(Until(acts, k)) <= Cardinality(From .. To - 1)
    BY <1>2, <2>1, FS_Subset
  <2>3. QED
    BY <1>2, <2>2, FS_CardinalityType
<1>4. Cardinality(Until(acts, 0)) = 0
  <2>1. Until(acts, 0) = {}
    BY DEF Until
  <2>2. QED
    BY <2>1, FS_EmptySet
<1>5. ASSUME NEW k \in 1 .. n
      PROVE  Cardinality(Until(acts, k)) = Cardinality(Until(acts, k - 1)) + Plan!Takes(acts, k)
  <2>1. k \in Nat /\ \A i : i \in 1 .. k <=> i \in 1 .. k - 1 \/ i = k
    BY <1>1
  <2>2. \A t : t \in Stay(acts, k) => t \in From .. To - 1
    <3>1. /\ acts[k].at \in Nat /\ acts[k].at >= From /\ Plan!Takes(acts, k) \in Nat
          /\ acts[k].at + Plan!Takes(acts, k) <= To
      BY <1>1
    <3>2. QED
      BY <3>1, AgendaAssumption DEF Stay
  <2>3. Until(acts, k) = Until(acts, k - 1) \cup Stay(acts, k)
    BY <2>1, <2>2, Zenon DEF Until
  <2>4. Until(acts, k - 1) \cap Stay(acts, k) = {}
    <3> SUFFICES ASSUME NEW i \in 1 .. k - 1, NEW t, t \in Stay(acts, i), t \in Stay(acts, k)
                 PROVE  FALSE
      BY Zenon DEF Until
    <3>1. i \in 1 .. n /\ i < k
      BY <1>1, <2>1
    <3>2. /\ acts[i].at \in Nat /\ Plan!Takes(acts, i) \in Nat
          /\ acts[k].at \in Nat /\ Plan!Takes(acts, k) \in Nat
          /\ acts[i].at + Plan!Takes(acts, i) <= acts[k].at
      BY <1>1, <3>1
    <3>3. QED
      BY <3>2 DEF Stay
  <2>5. IsFiniteSet(Stay(acts, k)) /\ Cardinality(Stay(acts, k)) = Plan!Takes(acts, k)
    <3> DEFINE a == acts[k].at
               b == Plan!Takes(acts, k)
    <3>1. a \in Nat /\ b \in Nat
      BY <1>1
    <3> HIDE DEF a, b
    <3> DEFINE e == a + b - 1
    <3>2. a \in Int /\ e \in Int /\ (IF a > e THEN 0 ELSE e - a + 1) = b
      BY <3>1
    <3> HIDE DEF e
    <3>3. IsFiniteSet(a .. e) /\ Cardinality(a .. e) = b
      BY <3>2, FS_Interval
    <3>4. QED
      BY <3>3 DEF Stay, a, b, e
  <2>6. Cardinality(Until(acts, k - 1) \cup Stay(acts, k))
          = Cardinality(Until(acts, k - 1)) + Cardinality(Stay(acts, k)) - Cardinality({})
    BY <1>3, <2>4, <2>5, FS_Union
  <2>7. Cardinality(Until(acts, k - 1)) \in Nat /\ Plan!Takes(acts, k) \in Nat
    BY <1>1, <1>3
  <2>8. QED
    BY <2>3, <2>5, <2>6, <2>7, FS_EmptySet
<1>6. QED
  BY <1>3, <1>4, <1>5 DEF n

\* On a day without problems what is counted activity after activity is how many slots are
\* taken.
LEMMA OcupadoIs ==
  ASSUME NEW acts \in Seq(Measured), FitsInto(acts)
  PROVE  Plan!Ocupado(acts) = Cardinality(Until(acts, Len(acts)))
<1> DEFINE n == Len(acts)
           c(k) == Cardinality(Until(acts, k))
           Is(f) == f = [m \in 0 .. n |-> IF m = 0 THEN 0 ELSE f[m - 1] + Plan!Takes(acts, m)]
           g == [m \in 0 .. n |-> c(m)]
           upTo == CHOOSE f : Is(f)
<1>1. n \in Nat
  BY ActsAre
<1>2. c(0) = 0 /\ \A k \in 1 .. n : c(k) = c(k - 1) + Plan!Takes(acts, k)
  <2> HIDE DEF n
  <2> QED
    BY EachAddsItsOwn DEF n
<1>3. Is(g)
  <2> HIDE DEF n, c
  <2>1. ASSUME NEW m \in 0 .. n
        PROVE  c(m) = IF m = 0 THEN 0 ELSE g[m - 1] + Plan!Takes(acts, m)
    <3>1. CASE m = 0
      BY <1>2, <3>1
    <3>2. CASE m # 0
      <4>1. m \in 1 .. n /\ m - 1 \in 0 .. n
        BY <1>1, <3>2
      <4>2. g[m - 1] = c(m - 1)
        BY <4>1
      <4>3. QED
        BY <1>2, <3>2, <4>1, <4>2
    <3>3. QED
      BY <3>1, <3>2
  <2>2. g = [m \in 0 .. n |-> IF m = 0 THEN 0 ELSE g[m - 1] + Plan!Takes(acts, m)]
    BY <2>1, Zenon
  <2>3. QED
    BY <2>2
<1>4. Is(upTo)
  <2> HIDE DEF Is, g
  <2> QED
    BY <1>3, Zenon
<1>5. upTo[0] = 0 /\ \A m \in 1 .. n : upTo[m] = upTo[m - 1] + Plan!Takes(acts, m)
  <2> HIDE DEF upTo, n
  <2>1. \A m \in 0 .. n : upTo[m] = IF m = 0 THEN 0 ELSE upTo[m - 1] + Plan!Takes(acts, m)
    BY <1>4, Zenon
  <2>2. 0 \in 0 .. n /\ \A m \in 1 .. n : m \in 0 .. n /\ m # 0
    BY <1>1
  <2>3. QED
    BY <2>1, <2>2, Zenon
<1>6. \A m \in 0 .. n : upTo[m] = c(m)
  <2> HIDE DEF upTo, c, n, Is, g
  <2> SUFFICES ASSUME \E m \in 0 .. n : upTo[m] # c(m) PROVE FALSE
    OBVIOUS
  <2> DEFINE B == {m \in 0 .. n : upTo[m] # c(m)}
  <2>1. B # {}
    OBVIOUS
  <2>2. B \in SUBSET Nat
    BY <1>1
  <2>3. PICK m \in B : \A k \in B : m <= k
    <3> HIDE DEF B
    <3> QED
      BY <2>1, <2>2, Least
  <2>4. m \in 0 .. n /\ upTo[m] # c(m)
    OBVIOUS
  <2>5. m \in 1 .. n /\ m - 1 \in 0 .. n
    BY <1>1, <1>2, <1>5, <2>4
  <2>6. m - 1 \notin B
    <3>1. ~ (m <= m - 1)
      BY <2>5
    <3> HIDE DEF B
    <3>2. QED
      BY <2>3, <3>1
  <2>7. upTo[m - 1] = c(m - 1)
    BY <2>5, <2>6
  <2>8. QED
    BY <1>2, <1>5, <2>4, <2>5, <2>7
<1>7. upTo[n] = c(n)
  <2> HIDE DEF upTo, c
  <2> QED
    BY <1>1, <1>6
<1>8. Plan!Ocupado(acts) = upTo[n]
  BY Zenon DEF Plan!Ocupado
<1>9. QED
  BY <1>7, <1>8

\* What is spent is what is taken.
LEMMA SpentIsTaken ==
  ASSUME NEW acts \in Seq(Measured), FitsInto(acts)
  PROVE  Plan!Spent(acts) = Until(acts, Len(acts))
<1> DEFINE n == Len(acts)
           stop(i) == acts[i].at .. Plan!Ends(acts[i]) - 1
           way(i) == {t \in Plan!Ends(acts[i]) .. Plan!Ends(acts[i]) + Plan!Walk - 1 :
                        t < acts[i + 1].at}
<1>1. n \in Nat /\ DOMAIN acts = 1 .. n
  BY ActsAre
<1>2. \A i \in 1 .. n : Stay(acts, i) = stop(i) \cup (IF i = n THEN {} ELSE way(i))
  BY StaysLie
<1>3. \A i \in 1 .. n : Stay(acts, i) \subseteq From .. To - 1
  <2> TAKE i \in 1 .. n
  <2>1. /\ acts[i].at \in Nat /\ acts[i].at >= From /\ Plan!Takes(acts, i) \in Nat
        /\ acts[i].at + Plan!Takes(acts, i) <= To
    BY ActsAre, StaysLie
  <2>2. QED
    BY <2>1, AgendaAssumption DEF Stay
<1>4. \A i \in 1 .. n : i < n <=> i # n
  <2> HIDE DEF n
  <2> QED
    BY <1>1
<1>5. Plan!Spent(acts) = (UNION {stop(i) : i \in 1 .. n}) \cup
                         (UNION {way(i) : i \in {k \in 1 .. n : k < n}})
  BY <1>1, Zenon DEF Plan!Spent
<1>6. \A t : t \in Plan!Spent(acts) <=> \E i \in 1 .. n : t \in Stay(acts, i)
  <2> HIDE DEF n, stop, way
  <2> QED
    BY <1>2, <1>4, <1>5, Zenon
<1>7. \A t : t \in Until(acts, n) <=> \E i \in 1 .. n : t \in Stay(acts, i)
  <2> HIDE DEF n, stop, way
  <2> QED
    BY <1>3, Zenon DEF Until
<1>8. QED
  BY <1>6, <1>7, Zenon

\* The measure of a day is true.
LEMMA MeasureOfDay ==
  ASSUME NEW d, d.activities \in Seq(Mended)
  PROVE  LET acts == Plan!ByTime(d.activities)
             m    == Plan!MedirDia(d)
         IN  /\ FitsInto(acts) <=> m.problemas = {}
             /\ FitsInto(acts) => m.cobertura = Cardinality(Plan!Spent(acts))
<1> DEFINE acts == Plan!ByTime(d.activities)
           m == Plan!MedirDia(d)
           n == Len(acts)
           busy == Plan!Ocupado(acts)
           window == To - From
<1>1. acts \in Seq(Measured)
  BY ByTimeIsList
<1>2. m.problemas = Plan!Problemas(acts) /\ m.cobertura = IF busy > window THEN window ELSE busy
  BY DEF Plan!MedirDia
<1> HIDE DEF acts, m
<1>3. /\ n \in Nat /\ DOMAIN acts = 1 .. n
      /\ \A i \in 1 .. n : acts[i].at \in Nat /\ acts[i].lasts \in Nat
                           /\ Plan!Ends(acts[i]) = acts[i].at + acts[i].lasts
  BY <1>1, ActsAre
<1>4. FitsInto(acts) => /\ busy = Cardinality(Plan!Spent(acts))
                        /\ busy \in Nat /\ busy <= window
  <2>1. n \in 0 .. n
    BY <1>3
  <2>2. QED
    BY <1>1, <2>1, OcupadoIs, SpentIsTaken, EachAddsItsOwn
<1>5. ASSUME Plan!Problemas(acts) = {} PROVE FitsInto(acts)
  <2>1. /\ \A i : ~ (i \in DOMAIN acts /\ acts[i].lasts = 0)
        /\ \A i : ~ (i \in DOMAIN acts /\ acts[i].at < From)
        /\ \A i : ~ (i \in DOMAIN acts /\ Plan!Ends(acts[i]) > To)
        /\ \A i : ~ (i \in DOMAIN acts /\ i < Len(acts) /\ Plan!Gap(acts, i) < 0)
    BY <1>5, Zenon DEF Plan!Problemas
  <2>2. \A k \in DOMAIN acts : k < Len(acts) => Plan!Ends(acts[k]) <= acts[k + 1].at
    <3> TAKE k \in DOMAIN acts
    <3> HAVE k < Len(acts)
    <3>1. ~ (Plan!Gap(acts, k) < 0)
      BY <2>1, Zenon
    <3>2. k \in 1 .. n /\ k + 1 \in 1 .. n
      BY <1>3
    <3> DEFINE a == acts[k].at
               b == acts[k].lasts
               e == Plan!Ends(acts[k])
               next == acts[k + 1].at
    <3>3. a \in Nat /\ b \in Nat /\ e = a + b /\ next \in Nat /\ ~ (next - e < 0)
      BY <1>3, <3>1, <3>2 DEF Plan!Gap
    <3> HIDE DEF a, b, e, next
    <3>4. e <= next
      BY <3>3
    <3>5. QED
      BY <3>4 DEF e, next
  <2>3. \A k, l \in DOMAIN acts : k < l => Plan!Ends(acts[k]) <= acts[l].at
    BY <1>1, <2>2, NextIsEnough
  <2>4. \A k \in DOMAIN acts : acts[k].lasts > 0 /\ acts[k].at >= From /\ Plan!Ends(acts[k]) <= To
    <3> TAKE k \in DOMAIN acts
    <3>1. acts[k].lasts # 0 /\ ~ (acts[k].at < From) /\ ~ (Plan!Ends(acts[k]) > To)
      BY <2>1, Zenon
    <3>2. acts[k].at \in Nat /\ acts[k].lasts \in Nat /\ Plan!Ends(acts[k]) = acts[k].at + acts[k].lasts
      BY <1>3
    <3>3. QED
      BY <3>1, <3>2, AgendaAssumption
  <2>5. QED
    BY <2>3, <2>4 DEF FitsInto
<1>6. ASSUME FitsInto(acts) PROVE Plan!Problemas(acts) = {}
  <2>1. \A i \in DOMAIN acts :
          /\ acts[i].lasts # 0 /\ ~ (acts[i].at < From) /\ ~ (Plan!Ends(acts[i]) > To)
    <3> TAKE i \in DOMAIN acts
    <3>1. acts[i].at \in Nat /\ acts[i].lasts \in Nat /\ Plan!Ends(acts[i]) = acts[i].at + acts[i].lasts
      BY <1>3
    <3>2. acts[i].lasts > 0 /\ acts[i].at >= From /\ Plan!Ends(acts[i]) <= To
      BY <1>6, Zenon DEF FitsInto
    <3>3. QED
      BY <3>1, <3>2, AgendaAssumption
  <2>2. \A i \in DOMAIN acts : i < Len(acts) => ~ (Plan!Gap(acts, i) < 0)
    <3> TAKE i \in DOMAIN acts
    <3> HAVE i < Len(acts)
    <3>1. i \in 1 .. n /\ i + 1 \in 1 .. n /\ i < i + 1
      BY <1>3
    <3>2. Plan!Ends(acts[i]) <= acts[i + 1].at
      BY <1>3, <1>6, <3>1 DEF FitsInto
    <3> DEFINE a == acts[i].at
               b == acts[i].lasts
               e == Plan!Ends(acts[i])
               next == acts[i + 1].at
    <3>3. a \in Nat /\ b \in Nat /\ e = a + b /\ next \in Nat /\ e <= next
      BY <1>3, <3>1, <3>2
    <3> HIDE DEF a, b, e, next
    <3>4. ~ (next - e < 0)
      BY <3>3
    <3>5. QED
      BY <3>4 DEF e, next, Plan!Gap
  <2>3. ~ (busy > window)
    <3> HIDE DEF busy, window
    <3>1. window \in Int
      BY AgendaAssumption DEF window
    <3>2. QED
      BY <1>4, <1>6, <3>1
  <2>4. {k \in DOMAIN acts : acts[k].lasts = 0} = {} /\ {k \in DOMAIN acts : acts[k].at < From} = {}
        /\ {k \in DOMAIN acts : Plan!Ends(acts[k]) > To} = {}
        /\ {k \in DOMAIN acts : k < Len(acts) /\ Plan!Gap(acts, k) < 0} = {}
    BY <2>1, <2>2, Zenon
  <2>5. QED
    BY <2>3, <2>4, Zenon DEF Plan!Problemas
<1>7. FitsInto(acts) => m.cobertura = busy
  <2> HIDE DEF busy, window
  <2>1. window \in Int
    BY AgendaAssumption DEF window
  <2>2. QED
    BY <1>2, <1>4, <2>1
<1>8. QED
  BY <1>2, <1>4, <1>5, <1>6, <1>7 DEF acts, m

PlanDays == [day : Nat, activities : Seq(Mended)]

\* An activity that can be repaired has an hour, or the form of one, and lasts as long as one
\* may.
LEMMA ActivityIsMended ==
  ASSUME NEW a \in Plan!Raw
  PROVE  Plan!RepararActividade(a) \in Mended
<1>1. a.at \in 0 .. Slots + 1 /\ a.lasts \in 0 .. Longest + 1
  BY DEF Plan!Raw, Plan!Odd
<1>2. (IF a.at = Slots THEN From ELSE a.at) \in (0 .. Slots - 1) \cup {Slots + 1}
  BY <1>1, AgendaAssumption
<1>3. (IF a.lasts > Longest THEN 0 ELSE a.lasts) \in 0 .. Longest
  BY <1>1, AgendaAssumption
<1>4. QED
  BY <1>2, <1>3 DEF Plan!RepararActividade, Plan!Default, Plan!Odd, Mended

\* What a model may send: days at places, with or without a number.
IsAnswer(answer) ==
  \A i \in DOMAIN answer :
    i \in Nat /\ answer[i].day \in Nat /\ answer[i].activities \in Seq(Plan!Raw)

\* The repair of an answer has days that can be measured.
LEMMA DaysAreMended ==
  ASSUME NEW answer, IsAnswer(answer)
  PROVE  /\ DOMAIN Plan!RepararDias(answer) = DOMAIN answer
         /\ \A i \in DOMAIN answer : Plan!RepararDias(answer)[i] \in PlanDays
<1>1. ASSUME NEW i \in DOMAIN answer
      PROVE  Plan!RepararDias(answer)[i] \in PlanDays
  <2> DEFINE sent == answer[i].activities
             named == Plan!Named(sent)
             n == Len(named)
             e(k) == Plan!RepararActividade(named[k])
             day == IF answer[i].day = 0 THEN i ELSE answer[i].day
  <2>1. i \in Nat /\ answer[i].day \in Nat /\ sent \in Seq(Plan!Raw)
    BY DEF IsAnswer
  <2>2. named \in Seq(Plan!Raw)
    <3> HIDE DEF sent
    <3>1. {k \in DOMAIN sent : sent[k].named} \in SUBSET (DOMAIN sent)
      OBVIOUS
    <3>2. QED
      BY <2>1, <3>1, KeptIsList DEF Plan!Named
  <2> HIDE DEF named
  <2>3. n \in Nat /\ DOMAIN named = 1 .. n /\ \A k \in 1 .. n : named[k] \in Plan!Raw
    BY <2>2, LenProperties, ElementOfSeq
  <2>4. \A k \in 1 .. n : e(k) \in Mended
    BY <2>3, ActivityIsMended
  <2>5. [k \in 1 .. n |-> e(k)] \in Seq(Mended)
    <3> HIDE DEF e, n
    <3> QED
      BY <2>3, <2>4, IsASeq
  <2>6. Plan!RepararDias(answer)[i] = [day |-> day, activities |-> [k \in DOMAIN named |-> e(k)]]
    BY Zenon DEF Plan!RepararDias, named
  <2>7. day \in Nat
    BY <2>1
  <2>8. QED
    <3> HIDE DEF e, n, day
    <3> QED
      BY <2>3, <2>5, <2>6, <2>7 DEF PlanDays
<1>2. DOMAIN Plan!RepararDias(answer) = DOMAIN answer
  BY Zenon DEF Plan!RepararDias
<1>3. QED
  BY <1>1, <1>2

\* What is put in the place of a day bears its number.
LEMMA CompletedKeeps ==
  ASSUME NEW old, NEW sent, IsAnswer(<<sent>>), \A i \in DOMAIN old : old[i] \in PlanDays
  PROVE  LET mended == Plan!Completed(old, Plan!RepararDias(<<sent>>))
         IN  /\ DOMAIN mended = DOMAIN old
             /\ \A i \in DOMAIN old : mended[i] \in PlanDays /\ mended[i].day = old[i].day
<1> DEFINE new == Plan!RepararDias(<<sent>>)
           same(i) == {k \in DOMAIN new : new[k].day = old[i].day}
<1>1. DOMAIN new = {1} /\ new[1] \in PlanDays
  <2>1. DOMAIN <<sent>> = {1}
    OBVIOUS
  <2>2. QED
    BY <2>1, DaysAreMended
<1> HIDE DEF new
<1>2. ASSUME NEW i \in DOMAIN old, same(i) # {}
      PROVE  Plan!Max(same(i)) = 1 /\ new[1].day = old[i].day
  <2>1. same(i) = {1} /\ new[1].day = old[i].day
    BY <1>1, <1>2
  <2>2. Plan!Max({1}) = 1
    BY DEF Plan!Max
  <2>3. QED
    BY <2>1, <2>2
<1>3. DOMAIN Plan!Completed(old, new) = DOMAIN old
  BY Zenon DEF Plan!Completed
<1>4. ASSUME NEW i \in DOMAIN old
      PROVE  \/ Plan!Completed(old, new)[i] = old[i]
             \/ same(i) # {} /\ Plan!Completed(old, new)[i] = new[Plan!Max(same(i))]
  BY Zenon DEF Plan!Completed
<1>5. QED
  BY <1>1, <1>2, <1>3, <1>4, Zenon DEF new

\* Whatever is kept can be measured, and bears the numbers of the first answer.
PlanInv ==
  /\ stage \in {"asked", "measured", "kept"}
  /\ DOMAIN first = DOMAIN agendaDays
  /\ weak \subseteq DOMAIN agendaDays
  /\ \A i \in DOMAIN agendaDays :
       agendaDays[i] \in PlanDays /\ agendaDays[i].day = first[i].day

LEMMA PlanInitially == Plan!Init => PlanInv
<1> SUFFICES ASSUME Plan!Init PROVE PlanInv
  OBVIOUS
<1>1. stage = "asked" /\ weak = {}
  BY DEF Plan!Init
<1>2. agendaDays = <<>> /\ first = <<>>
  BY Zenon DEF Plan!Init
<1>3. DOMAIN agendaDays = {} /\ DOMAIN first = {}
  BY <1>2
<1>4. QED
  BY <1>1, <1>3 DEF PlanInv

LEMMA PlanInductive == PlanInv /\ [Plan!Next]_(Plan!vars) => PlanInv'
<1> SUFFICES ASSUME PlanInv, [Plan!Next]_(Plan!vars) PROVE PlanInv'
  OBVIOUS
<1>1. CASE Plan!FirstPass
  <2>1. PICK a \in Plan!Answers, good \in BOOLEAN, n \in {1, 2} :
          agendaDays' = Plan!RepararDias(<<a, [day |-> n, activities |->
            <<[named |-> TRUE, at |-> From, lasts |-> IF good THEN Longest ELSE 1]>>]>>)
    BY <1>1, Zenon DEF Plan!FirstPass
  <2> DEFINE only == [named |-> TRUE, at |-> From, lasts |-> IF good THEN Longest ELSE 1]
             second == [day |-> n, activities |-> <<only>>]
             answer == <<a, second>>
  <2>2. a.day \in Nat /\ a.activities \in Seq(Plan!Raw)
    <3>1. PICK m \in {0, 2}, s \in Plan!BoundedSeq(Plan!Raw, MaxActivities) :
            a = [day |-> m, activities |-> s]
      BY DEF Plan!Answers
    <3>2. s \in Seq(Plan!Raw)
      <4>1. PICK k \in 0 .. MaxActivities : s \in [1 .. k -> Plan!Raw]
        BY <3>1, Zenon DEF Plan!BoundedSeq, Plan!SeqOf
      <4>2. k \in Nat
        BY AgendaAssumption
      <4>3. QED
        BY <4>1, <4>2
    <3>3. QED
      BY <3>1, <3>2
  <2>3. second.day \in Nat /\ second.activities \in Seq(Plan!Raw)
    <3>1. (IF good THEN Longest ELSE 1) \in 0 .. Longest + 1 /\ From \in 0 .. Slots + 1
      BY AgendaAssumption
    <3>2. only \in Plan!Raw
      <4> DEFINE lasts == IF good THEN Longest ELSE 1
      <4> HIDE DEF lasts
      <4>1. [named |-> TRUE, at |-> From, lasts |-> lasts] \in Plan!Raw
        BY <3>1 DEF Plan!Raw, Plan!Odd, lasts
      <4>2. QED
        BY <4>1 DEF lasts
    <3> HIDE DEF only
    <3>3. QED
      BY <3>2
  <2> HIDE DEF second
  <2>4. DOMAIN answer = {1, 2} /\ answer[1] = a /\ answer[2] = second
    OBVIOUS
  <2> HIDE DEF answer
  <2>5. IsAnswer(answer)
    BY <2>2, <2>3, <2>4 DEF IsAnswer
  <2>6. agendaDays' = Plan!RepararDias(answer)
    BY <2>1, Zenon DEF answer, second
  <2>7. \A i \in DOMAIN agendaDays' : agendaDays'[i] \in PlanDays
    BY <2>5, <2>6, DaysAreMended
  <2>8. first' = agendaDays' /\ stage' = "measured" /\ weak' \subseteq DOMAIN agendaDays'
    BY <1>1 DEF Plan!FirstPass, Plan!DiasPorPreencher
  <2>9. QED
    BY <2>7, <2>8 DEF PlanInv
<1>2. CASE Plan!Keep \/ Plan!SecondPassFails
  BY <1>2 DEF Plan!Keep, Plan!SecondPassFails, PlanInv
<1>3. CASE Plan!SecondPass
  <2> DEFINE listed(old) ==
               [k \in DOMAIN old |-> [named |-> TRUE, at |-> old[k].at, lasts |-> old[k].lasts]]
  <2>1. PICK i \in weak, n \in 0 .. 2, more \in BOOLEAN, a \in Plan!Plain :
          agendaDays' = Plan!Completed(agendaDays, Plan!RepararDias(
            <<[day |-> n, activities |-> IF more THEN Append(listed(agendaDays[i].activities), a)
                                         ELSE <<a>>]>>))
    BY <1>3, Zenon DEF Plan!SecondPass
  <2> DEFINE old == agendaDays[i].activities
             m == Len(old)
             e(k) == [named |-> TRUE, at |-> old[k].at, lasts |-> old[k].lasts]
             acts == IF more THEN Append(listed(old), a) ELSE <<a>>
             sent == [day |-> n, activities |-> acts]
  <2>2. old \in Seq(Mended)
    BY DEF PlanInv, PlanDays
  <2>3. a \in Plan!Raw
    <3>1. /\ {TRUE} \subseteq BOOLEAN /\ From .. To \subseteq 0 .. Slots + 1
          /\ 1 .. Longest \subseteq 0 .. Longest + 1
      BY AgendaAssumption
    <3>2. a \in [named : {TRUE}, at : From .. To, lasts : 1 .. Longest]
      BY DEF Plan!Plain
    <3>3. a \in [named : BOOLEAN, at : 0 .. Slots + 1, lasts : 0 .. Longest + 1]
      BY <3>1, <3>2, Zenon
    <3>4. QED
      BY <3>3, Zenon DEF Plan!Raw, Plan!Odd
  <2>4. listed(old) \in Seq(Plan!Raw)
    <3> HIDE DEF old
    <3>1. m \in Nat /\ DOMAIN old = 1 .. m /\ \A k \in 1 .. m : old[k] \in Mended
      BY <2>2, LenProperties, ElementOfSeq
    <3>2. \A k \in 1 .. m : e(k) \in Plan!Raw
      BY <3>1, AgendaAssumption DEF Mended, Plan!Raw, Plan!Odd
    <3>3. [k \in 1 .. m |-> e(k)] \in Seq(Plan!Raw)
      <4> HIDE DEF e, m
      <4> QED
        BY <3>1, <3>2, IsASeq
    <3>4. QED
      BY <3>1, <3>3, Zenon
  <2>5. acts \in Seq(Plan!Raw)
    <3> HIDE DEF listed, old
    <3>1. Append(listed(old), a) \in Seq(Plan!Raw) /\ <<a>> \in Seq(Plan!Raw)
      BY <2>3, <2>4
    <3>2. QED
      BY <3>1
  <2>6. IsAnswer(<<sent>>)
    <3> HIDE DEF acts
    <3>1. sent.day \in Nat /\ sent.activities \in Seq(Plan!Raw)
      BY <2>5
    <3> HIDE DEF sent
    <3>2. DOMAIN <<sent>> = {1} /\ <<sent>>[1] = sent
      OBVIOUS
    <3>3. QED
      BY <3>1, <3>2 DEF IsAnswer
  <2>7. agendaDays' = Plan!Completed(agendaDays, Plan!RepararDias(<<sent>>))
    BY <2>1, Zenon
  <2>8. \A j \in DOMAIN agendaDays : agendaDays[j] \in PlanDays
    BY DEF PlanInv
  <2>9. /\ DOMAIN agendaDays' = DOMAIN agendaDays
        /\ \A j \in DOMAIN agendaDays :
             agendaDays'[j] \in PlanDays /\ agendaDays'[j].day = agendaDays[j].day
    <3> HIDE DEF sent
    <3> QED
      BY <2>6, <2>7, <2>8, CompletedKeeps
  <2>10. stage' = "kept" /\ UNCHANGED <<weak, first>>
    BY <1>3 DEF Plan!SecondPass
  <2> HIDE DEF sent, acts, old, e, m
  <2>11. QED
    BY <2>9, <2>10 DEF PlanInv
<1>4. CASE UNCHANGED Plan!vars
  BY <1>4 DEF Plan!vars, PlanInv
<1>5. QED
  BY <1>1, <1>2, <1>3, <1>4 DEF Plan!Next

\* What follows from it: the measure is true, and days stay apart.
LEMMA PlanTells == PlanInv => Plan!MeasureIsTrue /\ Plan!DaysStayApart
<1> SUFFICES ASSUME PlanInv PROVE Plan!MeasureIsTrue /\ Plan!DaysStayApart
  OBVIOUS
<1>1. Plan!DaysStayApart
  BY DEF PlanInv, Plan!DaysStayApart
<1>2. ASSUME NEW i \in DOMAIN agendaDays
      PROVE  LET acts == Plan!ByTime(agendaDays[i].activities)
                 m    == Plan!MedirDia(agendaDays[i])
             IN  /\ FitsInto(acts) <=> m.problemas = {}
                 /\ FitsInto(acts) => m.cobertura = Cardinality(Plan!Spent(acts))
  <2>1. agendaDays[i].activities \in Seq(Mended)
    BY DEF PlanInv, PlanDays
  <2>2. QED
    BY <2>1, MeasureOfDay
<1>3. Plan!MeasureIsTrue
  BY <1>2, PlanCards, Zenon DEF Plan!MeasureIsTrue, FitsInto
<1>4. QED
  BY <1>1, <1>3

\* Planned days have the types that a run checks.
LEMMA PlanHasTypes == PlanInv => Plan!TypeOK
<1> SUFFICES ASSUME PlanInv PROVE Plan!TypeOK
  OBVIOUS
<1>1. ASSUME NEW i \in DOMAIN agendaDays, NEW k \in DOMAIN agendaDays[i].activities
      PROVE  agendaDays[i].activities[k] \in Mended
  <2>1. agendaDays[i].activities \in Seq(Mended)
    BY DEF PlanInv, PlanDays
  <2>2. QED
    BY <2>1, LenProperties, ElementOfSeq
<1>2. QED
  BY <1>1 DEF PlanInv, Plan!TypeOK, Plan!Odd, Mended

-----------------------------------------------------------------------------
(* The days of a trip and the page of its owner *)

\* A document is its days, and a request its fields.
IsTrip(doc) == doc = [d \in Trip!Days |-> doc[d]]

IsChange(r) ==
  /\ DOMAIN r = {"pc", "kind", "day", "at", "meant", "item", "list", "data"}
  /\ r.pc \in {"idle", "sent", "read", "done"}

\* The request that changes a day, or the timer that is about to; a refinement may change
\* all of them.
Changing(op, d) == tripReq[op].pc # "idle" /\ (tripReq[op].day = d \/ op = "refine")

Untouched(d) == tripTimer.day # d /\ \A op \in Trip!Ops : ~Changing(op, d)

TripTypes ==
  /\ IsTrip(saved) /\ IsTrip(tripCache) /\ (refined = Trip!NoMask \/ IsTrip(refined))
  /\ tripReq = [op \in Trip!Ops |-> tripReq[op]]
  /\ tripTimer = Trip!NoTimer \/ tripTimer.day \in Trip!Days
  /\ \A op \in Trip!Ops :
       /\ IsChange(tripReq[op])
       /\ tripReq[op].pc \in {"read", "done"} => IsTrip(tripReq[op].data)

\* What a request is for.
ChangesFor ==
  \A op \in Trip!Ops : tripReq[op].pc # "idle" =>
    /\ tripReq[op].kind \in {"edit", "add", "delete", "reorder", "refine", "adapt"}
    /\ tripReq[op].kind = "refine" <=> op = "refine"
    /\ tripReq[op].kind = "adapt" <=> op = "adapt"
    /\ tripReq[op].kind = "reorder" <=> op = "reorder"
    /\ tripReq[op].at # 0 => tripReq[op].kind \in {"edit", "delete"}
    /\ op # "refine" => tripReq[op].day \in Trip!Days

\* A day is changed by one request at a time, and by none once the page shows what was
\* refined.
OneChange ==
  /\ \A d \in Trip!Days : \A op, other \in Trip!Ops :
       Changing(op, d) /\ Changing(other, d) => op = other
  /\ \A op \in Trip!Ops : ~Changing(op, tripTimer.day) \/ tripTimer = Trip!NoTimer
  /\ refined # Trip!NoMask =>
       tripTimer = Trip!NoTimer /\ \A op \in Trip!Ops \ {"refine"} : tripReq[op].pc = "idle"

\* A day nobody changes is shown as it is saved, one that is being dragged as it will be
\* sent.
ShownAsSaved ==
  /\ \A d \in Trip!Days : Untouched(d) => Trip!Shown[d] = saved[d]
  /\ tripTimer # Trip!NoTimer => tripCache[tripTimer.day] = tripTimer.list

\* A request that was not written yet is for what is saved and shown; one that was will
\* leave on the page what it left in the row.
Meets(op) ==
  LET r == tripReq[op] IN
  /\ r.pc \in {"sent", "read"} =>
       /\ op = "reorder" => tripCache[r.day] = r.list
       /\ op # "reorder" => saved[r.day] = tripCache[r.day]
       /\ r.kind \in {"edit", "delete"} => r.at \in DOMAIN tripCache[r.day]
       /\ r.at # 0 => tripCache[r.day][r.at] = r.meant
       /\ r.kind = "edit" =>
            r.list = Trip!NoList \/ r.list = [tripCache[r.day] EXCEPT ![r.at] = r.item]
  /\ r.pc = "done" =>
       /\ op # "adapt" => saved[r.day] = Trip!CachedDay(r)
       /\ op = "adapt" => saved[r.day] = tripCache[r.day]

ChangesMeet ==
  /\ \A op \in Trip!Ops \ {"refine"} : Meets(op)
  /\ tripReq["refine"].pc \in {"sent", "read"} => \A d \in Trip!Days : Trip!Shown[d] = saved[d]
  /\ tripReq["refine"].pc = "done" => tripReq["refine"].data = saved

TripFine ==
  TripTypes /\ ChangesFor /\ OneChange /\ ShownAsSaved /\ ChangesMeet /\ ~tripMissed

TripInv == tripSlips = {} => TripFine

\* What a slip has left behind stays.
LEMMA TripSlipsStay ==
  ASSUME [Trip!Next]_(Trip!vars), tripSlips' = {}
  PROVE  tripSlips = {}
<1>1. ASSUME NEW op, NEW what, NEW d, NEW k, NEW j, NEW list, Trip!Press(op, what, d, k, j, list)
      PROVE  tripSlips = {}
  BY <1>1 DEF Trip!Press, Trip!Act
<1>2. ASSUME \/ Trip!Refine
             \/ \E d \in Trip!Days : \E k, l \in DOMAIN Trip!Shown[d] : Trip!Drag(d, k, l)
      PROVE  tripSlips = {}
  BY <1>2 DEF Trip!Refine, Trip!Drag, Trip!Act
<1>3. ASSUME NEW op \in Trip!Ops,
             Trip!Write(op) \/ Trip!Answered(op) \/ Trip!Fails(op) \/ Trip!Read(op)
      PROVE  tripSlips = {}
  BY <1>3 DEF Trip!Write, Trip!Answered, Trip!Fails, Trip!Read
<1>4. ASSUME Trip!TimerFires \/ Trip!Refetch \/ Trip!QueryRead \/ Trip!QueryArrives
      PROVE  tripSlips = {}
  BY <1>4 DEF Trip!TimerFires, Trip!Refetch, Trip!QueryRead, Trip!QueryArrives
<1>5. CASE UNCHANGED Trip!vars
  BY <1>5 DEF Trip!vars
<1>6. QED
  BY <1>1, <1>2, <1>3, <1>4, <1>5
     DEF Trip!Next, Trip!AddOne, Trip!Edit, Trip!AcceptAi, Trip!DeleteOne, Trip!Adapt

\* The fields of a request that was not made.
LEMMA NothingAsked == IsChange(Trip!NoReq) /\ Trip!NoReq.pc = "idle"
BY DEF Trip!NoReq, IsChange

\* A document is not what stands for none; two that have the same days are the same.
LEMMA TripsAreTrips ==
  /\ \A doc : IsTrip(doc) => doc # Trip!NoMask
  /\ \A doc, other : IsTrip(doc) /\ IsTrip(other) /\ (\A d \in Trip!Days : doc[d] = other[d])
       => doc = other
<1>1. ASSUME NEW doc, IsTrip(doc) PROVE doc # Trip!NoMask
  <2>1. DOMAIN doc = {1, 2}
    BY <1>1 DEF IsTrip, Trip!Days
  <2>2. DOMAIN Trip!NoMask = {}
    BY DEF Trip!NoMask
  <2>3. QED
    BY <2>1, <2>2
<1>2. ASSUME NEW doc, NEW other, IsTrip(doc), IsTrip(other), \A d \in Trip!Days : doc[d] = other[d]
      PROVE  doc = other
  BY <1>2 DEF IsTrip
<1>3. QED
  BY <1>1, <1>2

\* A request meets its day as long as nothing happens to either.
LEMMA MeetsStays ==
  ASSUME NEW op, Meets(op), tripReq'[op] = tripReq[op],
         saved'[tripReq[op].day] = saved[tripReq[op].day],
         tripCache'[tripReq[op].day] = tripCache[tripReq[op].day]
  PROVE  Meets(op)'
<1>1. Trip!CachedDay(tripReq[op])' = Trip!CachedDay(tripReq[op])
  BY DEF Trip!CachedDay
<1>2. QED
  BY <1>1 DEF Meets

\* Something is pressed on a day nobody changes.
LEMMA PressStays ==
  ASSUME TripFine, tripSlips' = {}, NEW op \in Trip!Ops \ {"reorder", "refine"},
         NEW what \in {"edit", "add", "delete", "adapt"}, what = "adapt" <=> op = "adapt",
         NEW d \in Trip!Days, NEW k, NEW j, NEW list,
         k # 0 => what \in {"edit", "delete"},
         what \in {"edit", "delete"} => k \in DOMAIN Trip!Shown[d],
         what = "edit" => list \in {Trip!NoList, [Trip!Shown[d] EXCEPT ![k] = j]},
         Trip!Press(op, what, d, k, j, list)
  PROVE  TripFine'
<1>1. /\ tripReq[op].pc = "idle" /\ saved' = saved /\ tripCache' = tripCache
      /\ refined' = refined /\ tripTimer' = tripTimer /\ tripMissed' = tripMissed
      /\ Trip!Pressed(d) = {}
  BY DEF Trip!Press, Trip!Busy
<1>2. /\ refined = Trip!NoMask /\ tripTimer.day # d
      /\ \A other \in Trip!Ops : ~Changing(other, d)
  BY <1>1 DEF Trip!Pressed, Trip!Busy, Changing
<1>3. Trip!Shown = tripCache /\ Trip!Shown' = tripCache /\ tripCache[d] = saved[d]
  BY <1>1, <1>2 DEF Trip!Shown, TripFine, ShownAsSaved, Untouched
<1>4. /\ IsChange(tripReq'[op]) /\ tripReq'[op].pc = "sent" /\ tripReq'[op].kind = what
      /\ tripReq'[op].day = d /\ tripReq'[op].at = k /\ tripReq'[op].item = j
      /\ tripReq'[op].list = list /\ (k # 0 => tripReq'[op].meant = tripCache[d][k])
      /\ \A other \in Trip!Ops \ {op} : tripReq'[other] = tripReq[other]
      /\ tripReq' = [other \in Trip!Ops |-> tripReq'[other]]
  <2> DEFINE m == IF k = 0 THEN 0 ELSE Trip!Shown[d][k]
             r == [Trip!NoReq EXCEPT !.pc = "sent", !.kind = what, !.day = d, !.at = k,
                                     !.meant = m, !.item = j, !.list = list]
  <2>1. tripReq' = [tripReq EXCEPT ![op] = r]
    BY DEF Trip!Press
  <2> HIDE DEF m
  <2>2. /\ IsChange(r) /\ r.pc = "sent" /\ r.kind = what /\ r.day = d /\ r.at = k
        /\ r.meant = m /\ r.item = j /\ r.list = list
    BY DEF IsChange, Trip!NoReq
  <2> HIDE DEF r
  <2>3. tripReq = [other \in Trip!Ops |-> tripReq[other]]
    BY DEF TripFine, TripTypes
  <2>4. k # 0 => m = tripCache[d][k]
    BY <1>3 DEF m
  <2>5. QED
    BY <2>1, <2>2, <2>3, <2>4
<1>5. TripTypes'
  BY <1>1, <1>4 DEF TripFine, TripTypes
<1>6. ChangesFor'
  BY <1>4 DEF TripFine, ChangesFor
<1>7. \A other \in Trip!Ops \ {op}, e \in Trip!Days : Changing(other, e)' <=> Changing(other, e)
  BY <1>4 DEF Changing
<1>8. \A e \in Trip!Days : Changing(op, e)' <=> e = d
  BY <1>4 DEF Changing
<1>9. OneChange'
  <2>1. tripTimer' = Trip!NoTimer \/ tripTimer'.day \in Trip!Days \ {d}
    BY <1>1, <1>2 DEF TripFine, TripTypes
  <2>2. QED
    BY <1>1, <1>2, <1>7, <1>8, <2>1 DEF TripFine, OneChange
<1>10. ShownAsSaved'
  <2>1. \A e \in Trip!Days : Untouched(e)' => Untouched(e)
    BY <1>1, <1>7 DEF Untouched, Changing
  <2>2. tripTimer # Trip!NoTimer => tripCache[tripTimer.day] = tripTimer.list
    BY DEF TripFine, ShownAsSaved
  <2>3. \A e \in Trip!Days : Untouched(e) => tripCache[e] = saved[e]
    BY <1>3 DEF TripFine, ShownAsSaved
  <2>4. QED
    BY <1>1, <1>3, <2>1, <2>2, <2>3 DEF ShownAsSaved
<1>11. ChangesMeet'
  <2>1. \A other \in Trip!Ops \ {op, "refine"} : Meets(other)'
    BY <1>1, <1>4, MeetsStays DEF TripFine, ChangesMeet
  <2>2. Meets(op)'
    BY <1>1, <1>3, <1>4 DEF Meets
  <2>3. tripReq'["refine"].pc = "idle"
    BY <1>2, <1>4 DEF Changing, TripFine, TripTypes, Trip!Ops
  <2>4. QED
    BY <2>1, <2>2, <2>3 DEF ChangesMeet
<1>12. QED
  BY <1>1, <1>5, <1>6, <1>9, <1>10, <1>11 DEF TripFine

\* The requests after one of them has changed.
LEMMA OneOfThem ==
  ASSUME TripFine, NEW op \in Trip!Ops, NEW r, tripReq' = [tripReq EXCEPT ![op] = r]
  PROVE  /\ tripReq'[op] = r
         /\ \A other \in Trip!Ops \ {op} : tripReq'[other] = tripReq[other]
         /\ tripReq' = [other \in Trip!Ops |-> tripReq'[other]]
<1>1. tripReq = [other \in Trip!Ops |-> tripReq[other]]
  BY DEF TripFine, TripTypes
<1>2. QED
  BY <1>1

\* When nothing changes any day, the page shows what is saved.
LEMMA NobodyChanges ==
  ASSUME TripFine, tripTimer = Trip!NoTimer, \A op \in Trip!Ops : tripReq[op].pc = "idle"
  PROVE  \A d \in Trip!Days : Trip!Shown[d] = saved[d]
<1>1. \A d \in Trip!Days : tripTimer.day # d
  BY DEF Trip!NoTimer, Trip!Days
<1>2. QED
  BY <1>1 DEF TripFine, ShownAsSaved, Untouched, Changing

\* A refinement is asked for when nothing else is under way.
LEMMA RefineStays ==
  ASSUME TripFine, tripSlips' = {}, Trip!Refine
  PROVE  TripFine'
<1> DEFINE r == [Trip!NoReq EXCEPT !.pc = "sent", !.kind = "refine"]
<1>1. /\ saved' = saved /\ tripCache' = tripCache /\ refined' = refined
      /\ tripTimer' = tripTimer /\ tripMissed' = tripMissed /\ Trip!Shown' = Trip!Shown
      /\ tripTimer = Trip!NoTimer /\ \A op \in Trip!Ops : tripReq[op].pc = "idle"
      /\ tripReq' = [tripReq EXCEPT !["refine"] = r]
  <2>1. /\ saved' = saved /\ tripCache' = tripCache /\ refined' = refined
        /\ tripTimer' = tripTimer /\ tripMissed' = tripMissed
        /\ tripReq' = [tripReq EXCEPT !["refine"] = r]
    BY DEF Trip!Refine
  <2>2. tripTimer = Trip!NoTimer /\ \A op \in Trip!Ops : tripReq[op].pc = "idle"
    BY DEF Trip!Refine, Trip!Busy
  <2>3. QED
    BY <2>1, <2>2 DEF Trip!Shown
<1>2. IsChange(r) /\ r.pc = "sent" /\ r.kind = "refine" /\ r.at = 0
  BY DEF IsChange, Trip!NoReq
<1> HIDE DEF r
<1>3. "refine" \in Trip!Ops
  BY DEF Trip!Ops
<1>4. /\ tripReq'["refine"] = r
      /\ \A op \in Trip!Ops \ {"refine"} : tripReq'[op].pc = "idle" /\ tripReq'[op] = tripReq[op]
      /\ tripReq' = [op \in Trip!Ops |-> tripReq'[op]]
  BY <1>1, <1>3, OneOfThem
<1>5. \A d \in Trip!Days : Trip!Shown[d] = saved[d]
  BY <1>1, NobodyChanges
<1>6. TripTypes'
  BY <1>1, <1>2, <1>4 DEF TripFine, TripTypes
<1>7. ChangesFor'
  BY <1>2, <1>4 DEF TripFine, ChangesFor
<1>8. OneChange'
  BY <1>1, <1>4 DEF OneChange, Changing
<1>9. ShownAsSaved'
  BY <1>1, <1>5 DEF ShownAsSaved
<1>10. ChangesMeet'
  <2>1. \A op \in Trip!Ops \ {"refine"} : Meets(op)'
    BY <1>4 DEF Meets
  <2>2. QED
    BY <1>1, <1>2, <1>4, <1>5, <2>1 DEF ChangesMeet
<1>11. QED
  BY <1>1, <1>6, <1>7, <1>8, <1>9, <1>10 DEF TripFine

\* A day nobody changes is dragged.
LEMMA DragStays ==
  ASSUME TripFine, tripSlips' = {}, NEW d \in Trip!Days, NEW k, NEW l, Trip!Drag(d, k, l)
  PROVE  TripFine'
<1>0. PICK moved : /\ tripCache' = [tripCache EXCEPT ![d] = moved]
                   /\ tripTimer' = [day |-> d, list |-> moved]
  BY DEF Trip!Drag
<1>1. /\ saved' = saved /\ tripCache' = [tripCache EXCEPT ![d] = moved] /\ refined' = refined
      /\ tripTimer' = [day |-> d, list |-> moved] /\ tripMissed' = tripMissed
      /\ tripReq' = tripReq /\ tripTimer.day \in {0, d} /\ refined = Trip!NoMask
      /\ \A op \in Trip!Ops : ~Changing(op, d)
  <2>1. /\ saved' = saved /\ tripCache' = [tripCache EXCEPT ![d] = moved] /\ refined' = refined
        /\ tripTimer' = [day |-> d, list |-> moved] /\ tripMissed' = tripMissed
        /\ tripReq' = tripReq /\ tripTimer.day \in {0, d}
    BY <1>0 DEF Trip!Drag
  <2>2. refined = Trip!NoMask /\ \A op \in Trip!Ops : ~Changing(op, d)
    <3>1. CASE /\ tripTimer.day = d
               /\ ~\E op \in Trip!Ops : Trip!Busy(op) /\ (tripReq[op].day = d \/ op = "refine")
      <4>1. tripSlips \cup (IF refined # Trip!NoMask THEN {"masked"} ELSE {}) = {}
        BY <3>1 DEF Trip!Drag
      <4>2. QED
        BY <3>1, <4>1 DEF Trip!Busy, Changing
    <3>2. CASE \/ tripTimer.day # d
               \/ \E op \in Trip!Ops : Trip!Busy(op) /\ (tripReq[op].day = d \/ op = "refine")
      <4>1. Trip!Pressed(d) = {}
        BY <3>2 DEF Trip!Drag
      <4>2. QED
        BY <4>1 DEF Trip!Pressed, Trip!Busy, Changing
    <3>3. QED
      BY <3>1, <3>2
  <2>3. QED
    BY <2>1, <2>2
<1>2. /\ IsTrip(tripCache') /\ tripCache'[d] = moved
      /\ \A e \in Trip!Days \ {d} : tripCache'[e] = tripCache[e]
  <2>1. IsTrip(tripCache)
    BY DEF TripFine, TripTypes
  <2>2. tripCache' = [tripCache EXCEPT ![d] = moved]
    BY <1>1
  <2>3. QED
    BY ONLY <2>1, <2>2 DEF IsTrip
<1>3. tripTimer'.day = d /\ tripTimer'.list = moved
  BY <1>1
<1>4. TripTypes'
  BY <1>1, <1>2, <1>3 DEF TripFine, TripTypes
<1>5. ChangesFor'
  BY <1>1 DEF TripFine, ChangesFor
<1>6. \A op \in Trip!Ops, e \in Trip!Days : Changing(op, e)' <=> Changing(op, e)
  BY <1>1 DEF Changing
<1>7. OneChange'
  BY <1>1, <1>3, <1>6 DEF TripFine, OneChange
<1>8. ShownAsSaved'
  <2>1. \A e \in Trip!Days : Untouched(e)' => e # d /\ Untouched(e)
    <3>1. d # 0 /\ \A e \in Trip!Days : e # 0
      BY DEF Trip!Days
    <3>2. QED
      BY <1>1, <1>3, <1>6, <3>1 DEF Untouched
  <2>2. \A e \in Trip!Days : Untouched(e) => tripCache[e] = saved[e]
    BY <1>1 DEF TripFine, ShownAsSaved, Trip!Shown
  <2>3. Trip!Shown' = tripCache'
    BY <1>1 DEF Trip!Shown
  <2>4. QED
    BY <1>1, <1>2, <1>3, <2>1, <2>2, <2>3 DEF ShownAsSaved
<1>9. ChangesMeet'
  <2>1. \A op \in Trip!Ops \ {"refine"} : Meets(op)'
    <3>1. SUFFICES ASSUME NEW op \in Trip!Ops \ {"refine"} PROVE Meets(op)'
      OBVIOUS
    <3>2. CASE tripReq[op].pc = "idle"
      BY <1>1, <3>2 DEF Meets
    <3>3. CASE tripReq[op].pc # "idle"
      <4>1. tripReq[op].day \in Trip!Days \ {d}
        BY <1>1, <3>3 DEF TripFine, ChangesFor, Changing
      <4>2. QED
        BY <1>1, <1>2, <4>1, MeetsStays DEF TripFine, ChangesMeet
    <3>4. QED
      BY <3>2, <3>3
  <2>2. tripReq["refine"].pc = "idle"
    BY <1>1 DEF Changing, Trip!Ops
  <2>3. QED
    BY <1>1, <2>1, <2>2 DEF ChangesMeet
<1>10. QED
  BY <1>1, <1>4, <1>5, <1>7, <1>8, <1>9 DEF TripFine

\* A refinement has every day to itself, and so has a change the day it is for.
LEMMA ChangesKeepApart ==
  ASSUME TripFine, NEW op \in Trip!Ops, tripReq[op].pc # "idle"
  PROVE  /\ op # "refine" =>
              /\ refined = Trip!NoMask /\ tripReq["refine"].pc = "idle"
              /\ tripReq[op].day \in Trip!Days
              /\ tripTimer = Trip!NoTimer \/ tripTimer.day # tripReq[op].day
              /\ \A other \in Trip!Ops \ {op} :
                   tripReq[other].pc # "idle" => tripReq[other].day # tripReq[op].day
         /\ op = "refine" =>
              /\ tripTimer = Trip!NoTimer
              /\ \A other \in Trip!Ops \ {op} : tripReq[other].pc = "idle"
<1>1. "refine" \in Trip!Ops /\ 1 \in Trip!Days
  BY DEF Trip!Ops, Trip!Days
<1>2. \A other \in Trip!Ops :
        tripReq[other].pc # "idle" /\ other # "refine" => tripReq[other].day \in Trip!Days
  BY DEF TripFine, ChangesFor
<1>3. \A d \in Trip!Days : \A one, other \in Trip!Ops :
        Changing(one, d) /\ Changing(other, d) => one = other
  BY DEF TripFine, OneChange
<1>4. /\ refined # Trip!NoMask => \A other \in Trip!Ops \ {"refine"} : tripReq[other].pc = "idle"
      /\ \A other \in Trip!Ops : ~Changing(other, tripTimer.day) \/ tripTimer = Trip!NoTimer
  BY DEF TripFine, OneChange
<1>5. QED
  BY <1>1, <1>2, <1>3, <1>4 DEF Changing

\* Half a second after a drag its order is sent.
LEMMA TimerStays ==
  ASSUME TripFine, Trip!TimerFires
  PROVE  TripFine'
<1> DEFINE r == [Trip!NoReq EXCEPT !.pc = "sent", !.kind = "reorder", !.day = tripTimer.day,
                                   !.list = tripTimer.list]
<1>1. /\ saved' = saved /\ tripCache' = tripCache /\ refined' = refined
      /\ tripTimer' = Trip!NoTimer /\ tripMissed' = tripMissed /\ tripTimer # Trip!NoTimer
      /\ tripReq["reorder"].pc = "idle" /\ tripReq' = [tripReq EXCEPT !["reorder"] = r]
  BY DEF Trip!TimerFires, Trip!Busy
<1>2. /\ IsChange(r) /\ r.pc = "sent" /\ r.kind = "reorder" /\ r.at = 0 /\ r.day = tripTimer.day
      /\ r.list = tripTimer.list
  BY DEF IsChange, Trip!NoReq
<1> HIDE DEF r
<1>3. "reorder" \in Trip!Ops \ {"refine"} /\ "refine" \in Trip!Ops
  BY DEF Trip!Ops
<1>4. /\ tripReq'["reorder"] = r
      /\ \A op \in Trip!Ops \ {"reorder"} : tripReq'[op] = tripReq[op]
      /\ tripReq' = [op \in Trip!Ops |-> tripReq'[op]]
  BY <1>1, <1>3, OneOfThem
<1>5. /\ tripTimer.day \in Trip!Days /\ refined = Trip!NoMask
      /\ \A op \in Trip!Ops : ~Changing(op, tripTimer.day)
      /\ tripCache[tripTimer.day] = tripTimer.list
  BY <1>1 DEF TripFine, TripTypes, OneChange, ShownAsSaved
<1>6. TripTypes'
  BY <1>1, <1>2, <1>4 DEF TripFine, TripTypes
<1>7. ChangesFor'
  BY <1>2, <1>4, <1>5 DEF TripFine, ChangesFor
<1>8. /\ \A op \in Trip!Ops \ {"reorder"}, e \in Trip!Days : Changing(op, e)' <=> Changing(op, e)
      /\ \A e \in Trip!Days : Changing("reorder", e)' <=> e = tripTimer.day
  BY <1>2, <1>4 DEF Changing
<1>9. OneChange'
  BY <1>1, <1>5, <1>8 DEF TripFine, OneChange
<1>10. ShownAsSaved'
  <2>1. \A e \in Trip!Days : Untouched(e)' => Untouched(e)
    BY <1>1, <1>3, <1>8 DEF Untouched, Changing
  <2>2. Trip!Shown' = Trip!Shown
    BY <1>1 DEF Trip!Shown
  <2>3. QED
    BY <1>1, <2>1, <2>2 DEF TripFine, ShownAsSaved
<1>11. ChangesMeet'
  <2>1. \A op \in Trip!Ops \ {"reorder", "refine"} : Meets(op)'
    BY <1>1, <1>4, MeetsStays DEF TripFine, ChangesMeet
  <2>2. Meets("reorder")'
    BY <1>1, <1>2, <1>4, <1>5 DEF Meets
  <2>3. tripReq'["refine"].pc = "idle"
    BY <1>3, <1>4, <1>5 DEF Changing
  <2>4. QED
    BY <2>1, <2>2, <2>3 DEF ChangesMeet
<1>12. QED
  BY <1>1, <1>6, <1>7, <1>9, <1>10, <1>11 DEF TripFine

\* The handler reads the document.
LEMMA ReadStays ==
  ASSUME TripFine, NEW op \in Trip!Ops, Trip!Read(op)
  PROVE  TripFine'
<1> DEFINE r == [tripReq[op] EXCEPT !.pc = "read", !.data = saved]
<1>1. /\ saved' = saved /\ tripCache' = tripCache /\ refined' = refined
      /\ tripTimer' = tripTimer /\ tripMissed' = tripMissed /\ Trip!Shown' = Trip!Shown
      /\ tripReq[op].pc = "sent" /\ tripReq' = [tripReq EXCEPT ![op] = r]
  BY DEF Trip!Read, Trip!Shown
<1>2. /\ IsChange(r) /\ r.pc = "read" /\ r.data = saved /\ r.kind = tripReq[op].kind
      /\ r.day = tripReq[op].day /\ r.at = tripReq[op].at /\ r.meant = tripReq[op].meant
      /\ r.item = tripReq[op].item /\ r.list = tripReq[op].list
  <2>1. IsChange(tripReq[op])
    BY DEF TripFine, TripTypes
  <2>2. QED
    BY <2>1 DEF IsChange
<1> HIDE DEF r
<1>3. /\ tripReq'[op] = r
      /\ \A other \in Trip!Ops \ {op} : tripReq'[other] = tripReq[other]
      /\ tripReq' = [other \in Trip!Ops |-> tripReq'[other]]
  BY <1>1, OneOfThem
<1>4. TripTypes'
  BY <1>1, <1>2, <1>3 DEF TripFine, TripTypes
<1>5. ChangesFor'
  BY <1>1, <1>2, <1>3 DEF TripFine, ChangesFor
<1>6. \A e : \A other \in Trip!Ops : Changing(other, e)' <=> Changing(other, e)
  BY <1>1, <1>2, <1>3 DEF Changing
<1>7. OneChange'
  BY <1>1, <1>3, <1>6 DEF TripFine, OneChange, Changing
<1>8. ShownAsSaved'
  BY <1>1, <1>6 DEF TripFine, ShownAsSaved, Untouched
<1>9. ChangesMeet'
  <2>1. \A other \in Trip!Ops \ {op, "refine"} : Meets(other)'
    BY <1>1, <1>3, MeetsStays DEF TripFine, ChangesMeet
  <2>2. op # "refine" => Meets(op)'
    BY <1>1, <1>2, <1>3 DEF TripFine, ChangesMeet, Meets
  <2>3. tripReq'["refine"].pc \in {"sent", "read"} => tripReq["refine"].pc \in {"sent", "read"}
    BY <1>1, <1>2, <1>3 DEF Trip!Ops
  <2>4. tripReq'["refine"].pc = "done" => tripReq'["refine"] = tripReq["refine"]
    BY <1>1, <1>2, <1>3 DEF Trip!Ops
  <2>5. QED
    BY <1>1, <2>1, <2>2, <2>3, <2>4 DEF TripFine, ChangesMeet
<1>10. QED
  BY <1>1, <1>4, <1>5, <1>7, <1>8, <1>9 DEF TripFine

\* The handler writes the document it has read.
LEMMA WriteStays ==
  ASSUME TripFine, tripSlips' = {}, NEW op \in Trip!Ops, Trip!Write(op)
  PROVE  TripFine'
<1>1. PICK days \in Trip!Changes(tripReq[op]) :
           /\ saved' = (IF op = "adapt" THEN saved ELSE days)
           /\ tripReq' = [tripReq EXCEPT ![op].pc = "done", ![op].data = days]
  BY DEF Trip!Write
<1>0. PICK r : r = [tripReq[op] EXCEPT !.pc = "done", !.data = days]
  OBVIOUS
<1>2. /\ tripCache' = tripCache /\ refined' = refined /\ tripTimer' = tripTimer
      /\ Trip!Shown' = Trip!Shown /\ tripReq[op].pc = "read"
      /\ op # "adapt" => tripReq[op].data = saved
      /\ tripMissed' = (tripMissed \/ (tripReq[op].at # 0 /\
           tripReq[op].data[tripReq[op].day][tripReq[op].at] # tripReq[op].meant))
      /\ tripReq' = [tripReq EXCEPT ![op] = r]
  BY <1>0, <1>1 DEF Trip!Write, Trip!Shown
<1>3. /\ IsChange(r) /\ r.pc = "done" /\ r.data = days /\ r.kind = tripReq[op].kind
      /\ r.day = tripReq[op].day /\ r.at = tripReq[op].at /\ r.meant = tripReq[op].meant
      /\ r.item = tripReq[op].item /\ r.list = tripReq[op].list
  <2>1. IsChange(tripReq[op])
    BY DEF TripFine, TripTypes
  <2>2. QED
    BY <1>0, <2>1 DEF IsChange
<1>4. /\ tripReq'[op] = r
      /\ \A other \in Trip!Ops \ {op} : tripReq'[other] = tripReq[other]
      /\ tripReq' = [other \in Trip!Ops |-> tripReq'[other]]
  BY <1>2, OneOfThem
<1>5. /\ IsTrip(tripReq[op].data)
      /\ tripReq[op].kind \in {"edit", "add", "delete", "reorder", "refine", "adapt"}
      /\ tripReq[op].kind = "refine" <=> op = "refine"
      /\ tripReq[op].kind = "adapt" <=> op = "adapt"
      /\ tripReq[op].kind = "reorder" <=> op = "reorder"
      /\ tripReq[op].at # 0 => tripReq[op].kind \in {"edit", "delete"}
      /\ op # "refine" => tripReq[op].day \in Trip!Days
  BY <1>2 DEF TripFine, TripTypes, ChangesFor
<1>6. /\ IsTrip(days)
      /\ \A e \in Trip!Days :
           op # "refine" /\ e # tripReq[op].day => days[e] = tripReq[op].data[e]
  <2>1. \E d \in Trip!Days : /\ op # "refine" => d = tripReq[op].day
                            /\ \E s : days = [tripReq[op].data EXCEPT ![d] = s]
    BY <1>5 DEF Trip!Changes
  <2>2. QED
    BY <1>5, <2>1 DEF IsTrip
<1>7. op \notin {"refine", "adapt"} => /\ Meets(op) /\ tripReq[op].data = saved /\ saved' = days
  BY <1>1, <1>2 DEF TripFine, ChangesMeet
<1>8. TripTypes'
  <2>1. IsTrip(saved')
    BY <1>1, <1>6 DEF TripFine, TripTypes
  <2>2. QED
    BY <1>2, <1>3, <1>4, <1>6, <2>1 DEF TripFine, TripTypes
<1>9. ChangesFor'
  BY <1>2, <1>3, <1>4 DEF TripFine, ChangesFor
<1>10. \A e : \A other \in Trip!Ops : Changing(other, e)' <=> Changing(other, e)
  BY <1>2, <1>3, <1>4 DEF Changing
<1>11. OneChange'
  BY <1>2, <1>4, <1>10 DEF TripFine, OneChange, Changing
<1>12. \A e \in Trip!Days : ~Changing(op, e) => saved'[e] = saved[e]
  BY <1>1, <1>2, <1>6 DEF Changing
<1>13. ShownAsSaved'
  BY <1>2, <1>10, <1>12 DEF TripFine, ShownAsSaved, Untouched
<1>14. ChangesMeet'
  <2>1. \A other \in Trip!Ops \ {op, "refine"} : Meets(other)'
    <3>1. SUFFICES ASSUME NEW other \in Trip!Ops \ {op, "refine"} PROVE Meets(other)'
      OBVIOUS
    <3>2. CASE tripReq[other].pc = "idle"
      BY <1>4, <3>2 DEF Meets
    <3>3. CASE tripReq[other].pc # "idle"
      <4>1. tripReq[other].day \in Trip!Days /\ ~Changing(op, tripReq[other].day)
        BY <3>3, ChangesKeepApart DEF Changing
      <4>2. QED
        BY <1>2, <1>4, <1>12, <4>1, MeetsStays DEF TripFine, ChangesMeet
    <3>4. QED
      BY <3>2, <3>3
  <2>2. op = "adapt" => Meets(op)'
    <3>1. SUFFICES ASSUME op = "adapt" PROVE saved'[r.day] = tripCache'[r.day]
      BY <1>3, <1>4 DEF Meets
    <3>2. Meets(op)
      BY <3>1 DEF TripFine, ChangesMeet
    <3>3. saved[tripReq[op].day] = tripCache[tripReq[op].day]
      BY <1>2, <3>1, <3>2 DEF Meets
    <3>4. QED
      BY <1>1, <1>2, <1>3, <3>1, <3>3
  <2>3. op \notin {"refine", "adapt"} => Meets(op)'
    <3>1. SUFFICES ASSUME op \notin {"refine", "adapt"} PROVE saved'[r.day] = Trip!CachedDay(r)'
      BY <1>3, <1>4 DEF Meets
    <3>2. days \in Trip!Changes(tripReq[op]) /\ tripReq[op].data[r.day] = saved[r.day] /\ saved' = days
      BY <1>1, <1>7, <3>1
    <3>3. CASE r.kind = "add"
      BY <1>2, <1>3, <3>2, <3>3 DEF Trip!CachedDay
    <3>4. CASE r.kind = "reorder"
      <4>1. days[r.day] = r.list
        BY <1>3, <1>5, <3>2, <3>4 DEF Trip!Changes, IsTrip
      <4>2. tripCache[r.day] = r.list
        BY <1>2, <1>3, <1>5, <1>7, <3>1, <3>4 DEF Meets
      <4>3. QED
        BY <1>2, <3>2, <3>4, <4>1, <4>2 DEF Trip!CachedDay
    <3>5. CASE r.kind = "delete"
      <4>1. days[r.day] = Trip!RemoveAt(saved[r.day], r.at)
        BY <1>3, <1>5, <3>1, <3>2, <3>5 DEF Trip!Changes, IsTrip
      <4>2. tripCache[r.day] = saved[r.day] /\ r.at \in DOMAIN tripCache[r.day]
        BY <1>2, <1>3, <1>5, <1>7, <3>1, <3>5 DEF Meets
      <4>3. QED
        BY <1>2, <3>2, <3>5, <4>1, <4>2 DEF Trip!CachedDay
    <3>6. CASE r.kind = "edit"
      <4>1. days[r.day] = Trip!ReplaceAt(saved[r.day], r.at, r.item)
        BY <1>3, <1>5, <3>1, <3>2, <3>6 DEF Trip!Changes, IsTrip
      <4>2. /\ tripCache[r.day] = saved[r.day] /\ r.at \in DOMAIN tripCache[r.day]
            /\ r.list = Trip!NoList \/ r.list = [tripCache[r.day] EXCEPT ![r.at] = r.item]
        BY <1>2, <1>3, <1>5, <1>7, <3>1, <3>6 DEF Meets
      <4>3. Trip!ReplaceAt(saved[r.day], r.at, r.item) = [saved[r.day] EXCEPT ![r.at] = r.item]
        BY DEF Trip!ReplaceAt
      <4>4. QED
        BY <1>2, <3>2, <3>6, <4>1, <4>2, <4>3 DEF Trip!CachedDay
    <3>7. QED
      BY <1>3, <1>5, <3>1, <3>3, <3>4, <3>5, <3>6
  <2>4. op = "refine" => r.data = saved'
    BY <1>1, <1>3
  <2>5. op # "refine" => tripReq'["refine"].pc = "idle"
    BY <1>2, <1>4, ChangesKeepApart DEF Trip!Ops
  <2>6. QED
    BY <1>3, <1>4, <2>1, <2>2, <2>3, <2>4, <2>5 DEF ChangesMeet
<1>15. tripMissed' = FALSE
  <2>1. tripReq[op].at # 0 => tripReq[op].data[tripReq[op].day][tripReq[op].at] = tripReq[op].meant
    BY <1>2, <1>5, <1>7 DEF Meets
  <2>2. QED
    BY <1>2, <2>1 DEF TripFine
<1>16. QED
  BY <1>8, <1>9, <1>11, <1>13, <1>14, <1>15 DEF TripFine

\* The page takes the answer.
LEMMA AnswerStays ==
  ASSUME TripFine, tripSlips' = {}, NEW op \in Trip!Ops, Trip!Answered(op)
  PROVE  TripFine'
<1>1. /\ saved' = saved /\ tripTimer' = tripTimer /\ tripMissed' = tripMissed
      /\ tripReq[op].pc = "done" /\ op # "adapt" /\ tripReq' = [tripReq EXCEPT ![op] = Trip!NoReq]
      /\ op = "refine" => tripCache' = tripCache /\ refined' = tripReq[op].data
      /\ op # "refine" => /\ refined' = refined /\ refined = Trip!NoMask
                          /\ tripCache' = [tripCache EXCEPT ![tripReq[op].day] = Trip!CachedDay(tripReq[op])]
  BY DEF Trip!Answered
<1>2. /\ tripReq'[op] = Trip!NoReq
      /\ \A other \in Trip!Ops \ {op} : tripReq'[other] = tripReq[other]
      /\ tripReq' = [other \in Trip!Ops |-> tripReq'[other]]
  BY <1>1, OneOfThem
<1>3. /\ IsTrip(saved) /\ IsTrip(tripCache) /\ IsTrip(tripReq[op].data)
      /\ op # "refine" => /\ tripReq[op].day \in Trip!Days
                          /\ saved[tripReq[op].day] = Trip!CachedDay(tripReq[op])
      /\ op = "refine" => tripReq[op].data = saved
  <2>1. op # "refine" => Meets(op)
    BY DEF TripFine, ChangesMeet
  <2>2. QED
    BY <1>1, <2>1 DEF TripFine, TripTypes, ChangesFor, ChangesMeet, Meets
<1>4. /\ IsTrip(tripCache')
      /\ op # "refine" => /\ tripCache'[tripReq[op].day] = saved[tripReq[op].day]
                          /\ \A e \in Trip!Days \ {tripReq[op].day} : tripCache'[e] = tripCache[e]
  <2>1. CASE op = "refine"
    BY <1>1, <1>3, <2>1
  <2>2. CASE op # "refine"
    <3>1. PICK list : list = Trip!CachedDay(tripReq[op])
      OBVIOUS
    <3>2. tripCache' = [tripCache EXCEPT ![tripReq[op].day] = list] /\ list = saved[tripReq[op].day]
      BY <1>1, <1>3, <2>2, <3>1
    <3>3. IsTrip(tripCache) /\ tripReq[op].day \in Trip!Days
      BY <1>3, <2>2
    <3>4. QED
      BY <3>2, <3>3, <2>2 DEF IsTrip
  <2>3. QED
    BY <2>1, <2>2
<1>5. IsChange(Trip!NoReq) /\ Trip!NoReq.pc = "idle"
  BY NothingAsked
<1>6. TripTypes'
  BY <1>1, <1>2, <1>3, <1>4, <1>5 DEF TripFine, TripTypes
<1>7. ChangesFor'
  BY <1>2, <1>5 DEF TripFine, ChangesFor
<1>8. \A e : \A other \in Trip!Ops : Changing(other, e)' <=> other # op /\ Changing(other, e)
  BY <1>2, <1>5 DEF Changing
<1>9. CASE op = "refine"
  <2>1. tripTimer = Trip!NoTimer /\ \A other \in Trip!Ops : tripReq'[other].pc = "idle"
    BY <1>1, <1>2, <1>5, <1>9, ChangesKeepApart
  <2>2. OneChange'
    BY <1>1, <1>8, <2>1 DEF OneChange, Changing
  <2>3. Trip!Shown' = saved
    <3>1. refined' = saved /\ saved # Trip!NoMask
      BY <1>1, <1>3, <1>9, TripsAreTrips
    <3>2. QED
      BY <3>1 DEF Trip!Shown
  <2>4. ShownAsSaved'
    BY <1>1, <2>1, <2>3 DEF ShownAsSaved
  <2>5. ChangesMeet'
    <3>1. \A other \in Trip!Ops \ {"refine"} : Meets(other)'
      BY <2>1 DEF Meets
    <3>2. QED
      BY <1>9, <2>1, <3>1 DEF ChangesMeet
  <2>6. QED
    BY <1>1, <1>6, <1>7, <2>2, <2>4, <2>5 DEF TripFine
<1>10. CASE op # "refine"
  <2>1. /\ tripReq["refine"].pc = "idle"
        /\ \A other \in Trip!Ops \ {op} :
             tripReq[other].pc # "idle" => tripReq[other].day # tripReq[op].day
    BY <1>1, <1>10, ChangesKeepApart
  <2>2. OneChange'
    BY <1>1, <1>2, <1>8, <1>10 DEF TripFine, OneChange
  <2>3. Trip!Shown = tripCache /\ Trip!Shown' = tripCache'
    BY <1>1, <1>10 DEF Trip!Shown
  <2>4. ShownAsSaved'
    <3>1. \A e \in Trip!Days \ {tripReq[op].day} : Untouched(e)' => Untouched(e)
      BY <1>1, <1>8, <1>10 DEF Untouched, Changing
    <3>2. tripTimer # Trip!NoTimer => tripTimer.day \in Trip!Days \ {tripReq[op].day}
      BY <1>1, <1>10, ChangesKeepApart DEF TripFine, TripTypes
    <3>3. QED
      BY <1>1, <1>4, <1>10, <2>3, <3>1, <3>2 DEF TripFine, ShownAsSaved
  <2>5. ChangesMeet'
    <3>1. \A other \in Trip!Ops \ {op, "refine"} : Meets(other)'
      <4>1. SUFFICES ASSUME NEW other \in Trip!Ops \ {op, "refine"} PROVE Meets(other)'
        OBVIOUS
      <4>2. CASE tripReq[other].pc = "idle"
        BY <1>2, <4>2 DEF Meets
      <4>3. CASE tripReq[other].pc # "idle"
        <5>1. tripReq[other].day \in Trip!Days \ {tripReq[op].day}
          BY <2>1, <4>3, ChangesKeepApart
        <5>2. QED
          BY <1>1, <1>2, <1>4, <1>10, <5>1, MeetsStays DEF TripFine, ChangesMeet
      <4>4. QED
        BY <4>2, <4>3
    <3>2. Meets(op)'
      BY <1>2, <1>5 DEF Meets
    <3>3. tripReq'["refine"].pc = "idle"
      BY <1>2, <1>10, <2>1 DEF Trip!Ops
    <3>4. QED
      BY <3>1, <3>2, <3>3 DEF ChangesMeet
  <2>6. QED
    BY <1>1, <1>6, <1>7, <2>2, <2>4, <2>5 DEF TripFine
<1>11. QED
  BY <1>9, <1>10

\* A request fails before the row was written.
LEMMA FailureStays ==
  ASSUME TripFine, tripSlips' = {}, NEW op \in Trip!Ops, Trip!Fails(op)
  PROVE  TripFine'
<1>1. /\ saved' = saved /\ tripCache' = tripCache /\ refined' = refined
      /\ tripTimer' = tripTimer /\ tripMissed' = tripMissed /\ Trip!Shown' = Trip!Shown
      /\ tripReq[op].pc \notin {"idle", "done"} /\ op # "reorder"
      /\ tripReq' = [tripReq EXCEPT ![op] = Trip!NoReq]
  BY DEF Trip!Fails, Trip!Busy, Trip!Shown
<1>2. /\ tripReq'[op] = Trip!NoReq
      /\ \A other \in Trip!Ops \ {op} : tripReq'[other] = tripReq[other]
      /\ tripReq' = [other \in Trip!Ops |-> tripReq'[other]]
  BY <1>1, OneOfThem
<1>3. IsChange(Trip!NoReq) /\ Trip!NoReq.pc = "idle"
  BY NothingAsked
<1>4. TripTypes'
  BY <1>1, <1>2, <1>3 DEF TripFine, TripTypes
<1>5. ChangesFor'
  BY <1>2, <1>3 DEF TripFine, ChangesFor
<1>6. \A e : \A other \in Trip!Ops : Changing(other, e)' <=> other # op /\ Changing(other, e)
  BY <1>2, <1>3 DEF Changing
<1>7. OneChange'
  BY <1>1, <1>2, <1>3, <1>6 DEF TripFine, OneChange
<1>8. tripReq[op].pc \in {"sent", "read"}
  BY <1>1 DEF TripFine, TripTypes, IsChange
<1>9. ShownAsSaved'
  <2>1. \A e \in Trip!Days : Changing(op, e) => Trip!Shown[e] = saved[e]
    <3>1. CASE op = "refine"
      BY <1>8, <3>1 DEF TripFine, ChangesMeet
    <3>2. CASE op # "refine"
      <4>1. refined = Trip!NoMask
        BY <1>1, <3>2, ChangesKeepApart
      <4>2. Meets(op)
        BY <3>2 DEF TripFine, ChangesMeet
      <4>3. saved[tripReq[op].day] = tripCache[tripReq[op].day]
        BY <1>1, <1>8, <4>2 DEF Meets
      <4>4. QED
        BY <3>2, <4>1, <4>3 DEF Changing, Trip!Shown
    <3>3. QED
      BY <3>1, <3>2
  <2>2. \A e \in Trip!Days : Untouched(e)' => Untouched(e) \/ Changing(op, e)
    BY <1>1, <1>6 DEF Untouched
  <2>3. QED
    BY <1>1, <2>1, <2>2 DEF TripFine, ShownAsSaved
<1>10. ChangesMeet'
  <2>1. \A other \in Trip!Ops \ {op, "refine"} : Meets(other)'
    BY <1>1, <1>2, MeetsStays DEF TripFine, ChangesMeet
  <2>2. Meets(op)'
    BY <1>2, <1>3 DEF Meets
  <2>3. tripReq'["refine"].pc # "idle" => tripReq'["refine"] = tripReq["refine"]
    BY <1>2, <1>3 DEF Trip!Ops
  <2>4. QED
    BY <1>1, <2>1, <2>2, <2>3 DEF TripFine, ChangesMeet
<1>11. QED
  BY <1>1, <1>4, <1>5, <1>7, <1>9, <1>10 DEF TripFine

\* The query has read the row, and nothing is under way when it arrives.
LEMMA ArrivalStays ==
  ASSUME TripFine, tripSlips' = {}, Trip!QueryArrives
  PROVE  TripFine'
<1>1. /\ saved' = saved /\ refined' = refined /\ tripTimer' = tripTimer
      /\ tripReq' = tripReq /\ tripMissed' = tripMissed /\ tripCache' = saved
      /\ tripTimer = Trip!NoTimer /\ \A op \in Trip!Ops : tripReq[op].pc = "idle"
  BY DEF Trip!QueryArrives, Trip!Busy
<1>2. TripTypes'
  BY <1>1 DEF TripFine, TripTypes
<1>3. ChangesFor' /\ OneChange'
  BY <1>1 DEF ChangesFor, OneChange, Changing
<1>4. ShownAsSaved'
  <2>1. \A d \in Trip!Days : Trip!Shown[d] = saved[d]
    BY <1>1, NobodyChanges
  <2>2. \A d \in Trip!Days : Trip!Shown'[d] = saved[d]
    BY <1>1, <2>1 DEF Trip!Shown
  <2>3. QED
    BY <1>1, <2>2 DEF ShownAsSaved
<1>5. ChangesMeet'
  <2>1. "refine" \in Trip!Ops
    BY DEF Trip!Ops
  <2>2. \A op \in Trip!Ops : Meets(op)'
    BY <1>1 DEF Meets
  <2>3. QED
    BY <1>1, <2>1, <2>2 DEF ChangesMeet
<1>6. QED
  BY <1>1, <1>2, <1>3, <1>4, <1>5 DEF TripFine

LEMMA TripInductive == TripInv /\ [Trip!Next]_(Trip!vars) => TripInv'
<1>1. SUFFICES ASSUME TripInv, [Trip!Next]_(Trip!vars), tripSlips' = {}
               PROVE  TripFine'
  BY DEF TripInv
<1>2. [Trip!Next]_(Trip!vars)
  BY <1>1
<1>3. TripFine
  BY <1>1, <1>2, TripSlipsStay DEF TripInv
<1>4. /\ "form" \in Trip!Ops \ {"reorder", "refine"} /\ "ai" \in Trip!Ops \ {"reorder", "refine"}
      /\ "delete" \in Trip!Ops \ {"reorder", "refine"} /\ "adapt" \in Trip!Ops \ {"reorder", "refine"}
  BY DEF Trip!Ops
<1>5. ASSUME NEW d \in Trip!Days, NEW k \in DOMAIN Trip!Shown[d], NEW j, Trip!Edit(d, k, j)
      PROVE  TripFine'
  BY <1>1, <1>3, <1>4, <1>5, PressStays DEF Trip!Edit
<1>6. ASSUME NEW d \in Trip!Days, NEW j, Trip!AddOne(d, j)
      PROVE  TripFine'
  BY <1>1, <1>3, <1>4, <1>6, PressStays DEF Trip!AddOne
<1>7. ASSUME NEW d \in Trip!Days, NEW k \in DOMAIN Trip!Shown[d], NEW j, Trip!AcceptAi(d, k, j)
      PROVE  TripFine'
  BY <1>1, <1>3, <1>4, <1>7, PressStays DEF Trip!AcceptAi
<1>8. ASSUME NEW d \in Trip!Days, NEW k \in DOMAIN Trip!Shown[d], Trip!DeleteOne(d, k)
      PROVE  TripFine'
  BY <1>1, <1>3, <1>4, <1>8, PressStays DEF Trip!DeleteOne
<1>9. ASSUME NEW d \in Trip!Days, Trip!Adapt(d)
      PROVE  TripFine'
  BY <1>1, <1>3, <1>4, <1>9, PressStays DEF Trip!Adapt
<1>10. ASSUME NEW d \in Trip!Days, NEW k, NEW l, Trip!Drag(d, k, l)
       PROVE  TripFine'
  BY <1>1, <1>3, <1>10, DragStays
<1>11. CASE Trip!Refine
  BY <1>1, <1>3, <1>11, RefineStays
<1>12. CASE Trip!TimerFires
  BY <1>3, <1>12, TimerStays
<1>13. ASSUME NEW op \in Trip!Ops,
              Trip!Read(op) \/ Trip!Write(op) \/ Trip!Answered(op) \/ Trip!Fails(op)
       PROVE  TripFine'
  BY <1>1, <1>3, <1>13, ReadStays, WriteStays, AnswerStays, FailureStays
<1>14. CASE Trip!QueryArrives
  BY <1>1, <1>3, <1>14, ArrivalStays
<1>15. CASE Trip!Refetch \/ Trip!QueryRead \/ UNCHANGED Trip!vars
  <2>1. /\ saved' = saved /\ tripCache' = tripCache /\ refined' = refined
        /\ tripTimer' = tripTimer /\ tripReq' = tripReq /\ tripMissed' = tripMissed
    BY <1>15 DEF Trip!Refetch, Trip!QueryRead, Trip!vars
  <2>2. Trip!Shown' = Trip!Shown
    BY <2>1 DEF Trip!Shown
  <2>3. TripTypes' /\ ChangesFor' /\ OneChange'
    BY <1>3, <2>1 DEF TripFine, TripTypes, ChangesFor, OneChange, Changing
  <2>4. ShownAsSaved'
    BY <1>3, <2>1, <2>2 DEF TripFine, ShownAsSaved, Untouched, Changing
  <2>5. ChangesMeet'
    BY <1>3, <2>1, <2>2, MeetsStays DEF TripFine, ChangesMeet
  <2>6. QED
    BY <1>3, <2>1, <2>3, <2>4, <2>5 DEF TripFine
<1>16. QED
  BY <1>2, <1>5, <1>6, <1>7, <1>8, <1>9, <1>10, <1>11, <1>12, <1>13, <1>14, <1>15 DEF Trip!Next

LEMMA TripInitially == Trip!Init => TripInv
<1>1. SUFFICES ASSUME Trip!Init PROVE TripFine
  BY DEF TripInv
<1>2. /\ saved = [d \in Trip!Days |-> saved[d]] /\ tripCache = saved /\ refined = Trip!NoMask
      /\ tripTimer = Trip!NoTimer /\ tripReq = [op \in Trip!Ops |-> Trip!NoReq]
      /\ tripMissed = FALSE
  BY <1>1 DEF Trip!Init
<1>3. \A op \in Trip!Ops : tripReq[op] = Trip!NoReq /\ tripReq[op].pc = "idle" /\ IsChange(tripReq[op])
  BY <1>2, NothingAsked
<1>4. TripTypes
  BY <1>2, <1>3 DEF TripTypes, IsTrip
<1>5. ChangesFor /\ OneChange
  BY <1>2, <1>3 DEF ChangesFor, OneChange, Changing
<1>6. ShownAsSaved
  BY <1>2 DEF ShownAsSaved, Trip!Shown
<1>7. ChangesMeet
  <2>1. "refine" \in Trip!Ops
    BY DEF Trip!Ops
  <2>2. \A op \in Trip!Ops : Meets(op)
    BY <1>3 DEF Meets
  <2>3. QED
    BY <1>3, <2>1, <2>2 DEF ChangesMeet
<1>8. QED
  BY <1>2, <1>4, <1>5, <1>6, <1>7 DEF TripFine

\* The property of the page follows from its invariant.
LEMMA TripTells ==
  ASSUME TripInv
  PROVE  Trip!PageShowsTrip
<1>1. ASSUME tripSlips = {} PROVE ~tripMissed
  BY <1>1 DEF TripInv, TripFine
<1>2. ASSUME tripSlips = {}, Trip!AtRest PROVE Trip!Shown = saved
  <2>1. TripFine /\ \A d \in Trip!Days : Trip!Shown[d] = saved[d]
    <3>1. TripFine
      BY <1>2 DEF TripInv
    <3>2. tripTimer = Trip!NoTimer /\ \A op \in Trip!Ops : tripReq[op].pc = "idle"
      BY <1>2 DEF Trip!AtRest, Trip!Busy
    <3>3. QED
      BY <3>1, <3>2, NobodyChanges
  <2>2. IsTrip(saved) /\ IsTrip(Trip!Shown)
    BY <2>1 DEF TripFine, TripTypes, Trip!Shown
  <2>3. QED
    BY <2>1, <2>2, TripsAreTrips
<1>3. QED
  BY <1>1, <1>2 DEF Trip!PageShowsTrip

\* How many there are is asked of one and the same operator.
LEMMA TripCards == ASSUME NEW S PROVE Trip!Cardinality(S) = Cardinality(S)
BY DEF Trip!Cardinality, Cardinality

TripDay == Seq(Trip!Activities)
TripDoc == [Trip!Days -> TripDay]

\* What the operations of the page and of the handlers make of a day is a day.
LEMMA DayInTime ==
  ASSUME NEW s \in TripDay
  PROVE  Trip!InTime(s) \in TripDay
<1> DEFINE n == Len(s)
           D == DOMAIN s
           e(p) == CHOOSE k \in D : Cardinality(NotLater(D, s, k)) = p
<1>1. /\ n \in Nat /\ D = 1 .. n
      /\ \A i \in D : s[i] \in Trip!Activities
  BY LenProperties, ElementOfSeq DEF TripDay
<1>2. IsFiniteSet(D) /\ Cardinality(D) = n /\ \A i \in D : i \in Nat
  <2>1. IsFiniteSet(1 .. n) /\ Cardinality(1 .. n) = n
    <3>1. n \in Nat
      BY <1>1
    <3> HIDE DEF n
    <3>2. QED
      BY <3>1, FS_Interval
  <2> HIDE DEF n
  <2>2. QED
    BY <1>1, <2>1
<1>3. s \in [D -> Nat]
  <2>1. s = [i \in D |-> s[i]]
    BY DEF TripDay
  <2>2. Trip!Activities \subseteq Nat
    BY DEF Trip!Activities
  <2> HIDE DEF D
  <2>3. QED
    BY <1>1, <2>1, <2>2
<1>4. \A p \in D : \E k \in D : Cardinality(NotLater(D, s, k)) = p
  <2> HIDE DEF D, n
  <2> QED
    BY <1>1, <1>2, <1>3, EveryRank
<1>5. \A p \in D : e(p) \in D
  <2> HIDE DEF D
  <2> QED
    BY <1>4
<1>6. Trip!InTime(s) = [p \in 1 .. n |-> s[e(p)]]
  <2>1. \A k \in D : {i \in D : s[i] < s[k] \/ (s[i] = s[k] /\ i <= k)} = NotLater(D, s, k)
    BY DEF NotLater
  <2> DEFINE c(p) == CHOOSE k \in D : Trip!Cardinality(
                         {i \in D : s[i] < s[k] \/ (s[i] = s[k] /\ i <= k)}) = p
  <2>2. \A p \in D : c(p) = e(p)
    <3> HIDE DEF D
    <3> QED
      BY <2>1, TripCards
  <2>3. Trip!InTime(s) = [p \in D |-> s[c(p)]]
    BY Zenon DEF Trip!InTime
  <2>4. QED
    <3> HIDE DEF c, e, n, D
    <3> QED
      BY <1>1, <2>2, <2>3
<1>7. \A p \in 1 .. n : s[e(p)] \in Trip!Activities
  <2> HIDE DEF e, n
  <2> QED
    BY <1>1, <1>5
<1>8. [p \in 1 .. n |-> s[e(p)]] \in TripDay
  <2> HIDE DEF e, n
  <2> QED
    BY <1>1, <1>7, IsASeq DEF TripDay
<1>9. QED
  BY <1>6, <1>8

\* The day whose activities are put in the places that were asked for.
LEMMA DaysByPlace ==
  ASSUME NEW s \in TripDay, NEW k \in DOMAIN s, NEW j \in Trip!Activities
  PROVE  /\ Trip!RemoveAt(s, k) \in TripDay
         /\ Trip!ReplaceAt(s, k, j) \in TripDay
         /\ [s EXCEPT ![k] = j] \in TripDay
         /\ \A l \in DOMAIN s : Trip!InsertAt(Trip!RemoveAt(s, k), l, s[k]) \in TripDay
<1>1. /\ Len(s) \in Nat /\ DOMAIN s = 1 .. Len(s)
      /\ \A i \in 1 .. Len(s) : s[i] \in Trip!Activities
  BY LenProperties, ElementOfSeq DEF TripDay
<1>2. Trip!RemoveAt(s, k) \in TripDay /\ Len(Trip!RemoveAt(s, k)) = Len(s) - 1
  BY <1>1 DEF TripDay, Trip!RemoveAt
<1>3. [s EXCEPT ![k] = j] \in TripDay
  BY <1>1 DEF TripDay
<1>4. ASSUME NEW r \in TripDay, NEW l \in 1 .. Len(r) + 1, NEW e \in Trip!Activities
      PROVE  Trip!InsertAt(r, l, e) \in TripDay
  BY <1>4 DEF TripDay, Trip!InsertAt
<1>5. \A l \in DOMAIN s : Trip!InsertAt(Trip!RemoveAt(s, k), l, s[k]) \in TripDay
  BY <1>1, <1>2, <1>4
<1>6. QED
  BY <1>2, <1>3, <1>5 DEF Trip!ReplaceAt

\* Activities in another order, and the day with one more.
LEMMA DayRearranged ==
  ASSUME NEW s \in TripDay
  PROVE  Trip!Rearranged(s) \subseteq TripDay
<1>1. /\ Len(s) \in Nat /\ DOMAIN s = 1 .. Len(s)
      /\ \A i \in 1 .. Len(s) : s[i] \in Trip!Activities
  BY LenProperties, ElementOfSeq DEF TripDay
<1>2. Trip!Reverse(s) \in TripDay
  <2>1. \A i \in 1 .. Len(s) : s[(Len(s) - i) + 1] \in Trip!Activities
    BY <1>1
  <2>2. QED
    BY <1>1, <2>1, IsASeq DEF TripDay, Trip!Reverse
<1>3. ASSUME s # <<>> PROVE Trip!Front(s) \in TripDay
  BY <1>1, <1>3 DEF TripDay, Trip!Front
<1>4. QED
  BY <1>2, <1>3 DEF Trip!Rearranged

\* A day to which an activity is added.
LEMMA DayAppended ==
  ASSUME NEW s \in TripDay, NEW j \in Trip!Activities
  PROVE  Append(s, j) \in TripDay
  BY DEF TripDay

TripKinds == {"", "edit", "add", "delete", "reorder", "refine", "adapt"}

\* A request with fields of its types.
IsAsked(r) ==
  /\ IsChange(r)
  /\ r.kind \in TripKinds /\ r.day \in {0} \cup Trip!Days /\ r.at \in Nat
  /\ r.item \in {0} \cup Trip!Activities /\ r.list \in TripDay
  /\ r.data \in TripDoc \cup {Trip!NoMask}

\* A request that is made has what its handler needs.
Sensible(op, r) ==
  r.pc # "idle" =>
    /\ r.kind = "refine" <=> op = "refine"
    /\ op # "refine" => r.day \in Trip!Days
    /\ r.kind \in {"edit", "add"} => r.item \in Trip!Activities
    /\ r.kind \in {"edit", "delete"} => r.at > 0
    /\ r.pc \in {"read", "done"} => r.data \in TripDoc
    /\ r.pc = "read" /\ r.at > 0 => r.at \in DOMAIN r.data[r.day]

\* Whatever slipped, what is saved, shown, sent and answered are days.
TripPages ==
  /\ saved \in TripDoc /\ tripCache \in TripDoc /\ refined \in TripDoc \cup {Trip!NoMask}
  /\ tripTimer.day \in {0} \cup Trip!Days
  /\ tripTimer # Trip!NoTimer => tripTimer.day \in Trip!Days /\ tripTimer.list \in TripDay
  /\ tripQuery.pc = "read" => tripQuery.reply \in TripDoc
  /\ tripSlips \subseteq {"overlap", "masked", "dropped", "crossed", "lost", "not saved",
                          "adapted", "stale"}

TripAsks ==
  /\ tripReq = [op \in Trip!Ops |-> tripReq[op]]
  /\ \A op \in Trip!Ops : IsAsked(tripReq[op]) /\ Sensible(op, tripReq[op])

TripTyped == TripPages /\ TripAsks

\* What the page shows is what an itinerary has.
LEMMA ShownIsDoc == TripPages => Trip!Shown \in TripDoc
  BY DEF TripPages, Trip!Shown

\* Nothing on its way is a request, too.
LEMMA NoReqTyped == IsAsked(Trip!NoReq) /\ \A op : Sensible(op, Trip!NoReq)
<1>1. Trip!NoList \in TripDay
  BY DEF Trip!NoList, TripDay
<1>2. QED
  BY <1>1 DEF Trip!NoReq, IsAsked, IsChange, TripKinds, Sensible

\* The types of a trip hold to begin with.
LEMMA TripTypedInitially == Trip!Init => TripTyped
<1> SUFFICES ASSUME Trip!Init PROVE TripTyped
  OBVIOUS
<1>1. <<2, 3>> \in TripDay /\ <<4, 5>> \in TripDay
  BY DEF TripDay, Trip!Activities
<1>2. saved \in TripDoc
  BY <1>1 DEF Trip!Init, TripDoc
<1>3. TripPages
  BY <1>2 DEF Trip!Init, TripPages, Trip!NoTimer, Trip!NoQuery
<1>4. TripAsks
  BY NoReqTyped DEF Trip!Init, TripAsks
<1>5. QED
  BY <1>3, <1>4 DEF TripTyped

\* One request of all is another: they are requests still.
LEMMA AsksWith ==
  ASSUME TripAsks, NEW op \in Trip!Ops, NEW r, IsAsked(r), Sensible(op, r),
         tripReq' = [tripReq EXCEPT ![op] = r]
  PROVE  TripAsks'
<1>1. tripReq' = [other \in Trip!Ops |-> tripReq'[other]]
  BY DEF TripAsks
<1>2. ASSUME NEW other \in Trip!Ops
      PROVE  IsAsked(tripReq'[other]) /\ Sensible(other, tripReq'[other])
  BY DEF TripAsks
<1>3. QED
  BY <1>1, <1>2 DEF TripAsks

\* What is pressed is asked for with what its handler needs.
LEMMA PressTyped ==
  ASSUME TripTyped, NEW op \in Trip!Ops \ {"refine"}, NEW what \in {"edit", "add", "delete", "adapt"},
         NEW d \in Trip!Days, NEW k, k = 0 \/ k \in DOMAIN Trip!Shown[d],
         what \in {"edit", "delete"} => k \in DOMAIN Trip!Shown[d],
         NEW j \in {0} \cup Trip!Activities, what \in {"edit", "add"} => j # 0,
         NEW list \in TripDay, Trip!Press(op, what, d, k, j, list)
  PROVE  TripTyped'
<1> DEFINE m == IF k = 0 THEN 0 ELSE Trip!Shown[d][k]
           r == [Trip!NoReq EXCEPT !.pc = "sent", !.kind = what, !.day = d, !.at = k,
                                   !.meant = m, !.item = j, !.list = list]
<1>1. TripPages /\ TripAsks
  BY DEF TripTyped
<1>2. Trip!Shown[d] \in TripDay
  BY <1>1, ShownIsDoc DEF TripDoc
<1>3. /\ DOMAIN Trip!Shown[d] = 1 .. Len(Trip!Shown[d])
      /\ \A i \in DOMAIN Trip!Shown[d] : i \in Nat \ {0} /\ Trip!Shown[d][i] \in Trip!Activities
  BY <1>2, LenProperties, ElementOfSeq DEF TripDay
<1>4. k \in Nat /\ m \in {0} \cup Trip!Activities /\ (k \in DOMAIN Trip!Shown[d] => k > 0)
  BY <1>3
<1>5. /\ IsChange(r) /\ r.pc = "sent" /\ r.kind = what /\ r.day = d /\ r.at = k
      /\ r.item = j /\ r.list = list /\ r.data = Trip!NoMask
  <2> HIDE DEF m
  <2> QED
    BY DEF Trip!NoReq, IsChange
<1>6. IsAsked(r) /\ Sensible(op, r)
  <2> HIDE DEF m, r
  <2>1. IsAsked(r)
    BY <1>4, <1>5 DEF IsAsked, TripKinds
  <2>2. Sensible(op, r)
    BY <1>4, <1>5 DEF Sensible
  <2>3. QED
    BY <2>1, <2>2
<1>7. /\ tripReq' = [tripReq EXCEPT ![op] = r]
      /\ UNCHANGED <<saved, tripCache, refined, tripTimer, tripQuery>>
      /\ tripSlips' = Trip!Pressed(d)
  BY DEF Trip!Press
<1>8. TripAsks'
  <2> HIDE DEF r
  <2> QED
    BY <1>1, <1>6, <1>7, AsksWith
<1>9. TripPages'
  BY <1>1, <1>7 DEF TripPages, Trip!Pressed
<1>10. QED
  BY <1>8, <1>9 DEF TripTyped

\* A question to the model is a request.
LEMMA RefineTyped == TripTyped /\ Trip!Refine => TripTyped'
<1> SUFFICES ASSUME TripTyped, Trip!Refine PROVE TripTyped'
  OBVIOUS
<1> DEFINE r == [Trip!NoReq EXCEPT !.pc = "sent", !.kind = "refine"]
<1>1. IsAsked(r) /\ Sensible("refine", r)
  BY NoReqTyped DEF Trip!NoReq, IsAsked, IsChange, TripKinds, Sensible
<1>2. tripReq' = [tripReq EXCEPT !["refine"] = r]
  BY DEF Trip!Refine
<1>3. TripAsks'
  <2> HIDE DEF r
  <2> QED
    BY <1>1, <1>2, AsksWith DEF TripTyped, Trip!Ops
<1>4. TripPages'
  BY DEF Trip!Refine, TripTyped, TripPages
<1>5. QED
  BY <1>3, <1>4 DEF TripTyped

\* A day that was dragged is a day.
LEMMA DragTyped ==
  ASSUME TripTyped, NEW d \in Trip!Days, NEW k \in DOMAIN Trip!Shown[d],
         NEW l \in DOMAIN Trip!Shown[d], Trip!Drag(d, k, l)
  PROVE  TripTyped'
<1> DEFINE moved == Trip!InsertAt(Trip!RemoveAt(Trip!Shown[d], k), l, Trip!Shown[d][k])
<1>1. TripPages /\ TripAsks
  BY DEF TripTyped
<1>2. Trip!Shown[d] \in TripDay
  BY <1>1, ShownIsDoc DEF TripDoc
<1>3. moved \in TripDay
  <2>1. Trip!Shown[d][k] \in Trip!Activities
    BY <1>2, LenProperties, ElementOfSeq DEF TripDay
  <2>2. QED
    BY <1>2, <2>1, DaysByPlace
<1>4. /\ tripCache' = [tripCache EXCEPT ![d] = moved]
      /\ tripTimer' = [day |-> d, list |-> moved]
      /\ UNCHANGED <<saved, refined, tripReq, tripQuery>>
  BY DEF Trip!Drag
<1>5. tripSlips' \subseteq {"overlap", "masked", "dropped", "crossed", "lost", "not saved",
                            "adapted", "stale"}
  BY <1>1 DEF Trip!Drag, Trip!Pressed, TripPages
<1>6. TripPages'
  <2> HIDE DEF moved
  <2> QED
    BY <1>1, <1>3, <1>4, <1>5 DEF TripPages, TripDoc
<1>7. TripAsks'
  BY <1>1, <1>4 DEF TripAsks
<1>8. QED
  BY <1>6, <1>7 DEF TripTyped

\* What the timer sends is what the page shows.
LEMMA TimerTyped == TripTyped /\ Trip!TimerFires => TripTyped'
<1> SUFFICES ASSUME TripTyped, Trip!TimerFires PROVE TripTyped'
  OBVIOUS
<1> DEFINE r == [Trip!NoReq EXCEPT !.pc = "sent", !.kind = "reorder", !.day = tripTimer.day,
                                   !.list = tripTimer.list]
<1>1. TripPages /\ tripTimer.day \in Trip!Days /\ tripTimer.list \in TripDay
  BY DEF TripTyped, TripPages, Trip!TimerFires
<1>2. /\ IsChange(r) /\ r.pc = "sent" /\ r.kind = "reorder" /\ r.day = tripTimer.day
      /\ r.at = 0 /\ r.item = 0 /\ r.list = tripTimer.list /\ r.data = Trip!NoMask
  BY DEF Trip!NoReq, IsChange
<1>3. /\ tripReq' = [tripReq EXCEPT !["reorder"] = r]
      /\ tripTimer' = Trip!NoTimer
      /\ UNCHANGED <<saved, tripCache, refined, tripQuery, tripSlips>>
  BY DEF Trip!TimerFires
<1> HIDE DEF r
<1>4. IsAsked(r) /\ Sensible("reorder", r)
  BY <1>1, <1>2 DEF IsAsked, TripKinds, Sensible
<1>5. TripAsks'
  BY <1>3, <1>4, AsksWith DEF TripTyped, Trip!Ops
<1>6. TripPages'
  BY <1>1, <1>3 DEF TripPages, Trip!NoTimer
<1>7. QED
  BY <1>5, <1>6 DEF TripTyped

\* What is read is what is saved.
LEMMA ReadTyped ==
  ASSUME TripTyped, NEW op \in Trip!Ops, Trip!Read(op)
  PROVE  TripTyped'
<1> DEFINE q == tripReq[op]
           r == [q EXCEPT !.pc = "read", !.data = saved]
<1>1. TripPages /\ TripAsks /\ IsAsked(q) /\ Sensible(op, q)
  BY DEF TripTyped, TripAsks
<1>2. /\ q.pc = "sent" /\ (q.at > 0 => q.at \in DOMAIN saved[q.day])
      /\ UNCHANGED <<saved, tripCache, refined, tripTimer, tripQuery, tripSlips>>
  BY DEF Trip!Read
<1>3. tripReq' = [tripReq EXCEPT ![op] = r]
  <2>1. tripReq = [other \in Trip!Ops |-> tripReq[other]]
    BY <1>1 DEF TripAsks
  <2>2. tripReq' = [tripReq EXCEPT ![op].pc = "read", ![op].data = saved]
    BY DEF Trip!Read
  <2>3. QED
    BY <2>1, <2>2
<1> HIDE DEF q
<1>4. /\ IsChange(r) /\ r.pc = "read" /\ r.data = saved
      /\ r.kind = q.kind /\ r.day = q.day /\ r.at = q.at /\ r.item = q.item /\ r.list = q.list
  BY <1>1 DEF IsAsked, IsChange
<1> HIDE DEF r
<1>5. IsAsked(r) /\ Sensible(op, r)
  <2>1. saved \in TripDoc
    BY <1>1 DEF TripPages
  <2>2. QED
    BY <1>1, <1>2, <1>4, <2>1 DEF IsAsked, Sensible
<1>6. TripAsks'
  BY <1>1, <1>3, <1>5, AsksWith
<1>7. TripPages'
  BY <1>1, <1>2 DEF TripPages
<1>8. QED
  BY <1>6, <1>7 DEF TripTyped

\* What a handler makes of the document that it read is a document.
LEMMA ChangesAreDocs ==
  ASSUME NEW op, NEW r, IsAsked(r), Sensible(op, r), r.pc = "read",
         op = "refine" \/ r.day \in Trip!Days
  PROVE  Trip!Changes(r) \subseteq TripDoc
<1>1. r.data \in TripDoc /\ (op # "refine" => r.day \in Trip!Days /\ r.data[r.day] \in TripDay)
  BY DEF Sensible, TripDoc
<1>2. \A d \in Trip!Days, s \in TripDay : [r.data EXCEPT ![d] = s] \in TripDoc
  BY <1>1 DEF TripDoc
<1>3. CASE r.kind = "edit"
  <2>1. /\ Trip!Changes(r) = {[r.data EXCEPT ![r.day] = Trip!ReplaceAt(r.data[r.day], r.at, r.item)]}
        /\ op # "refine"
    BY <1>3 DEF Trip!Changes, Sensible
  <2>2. r.at \in DOMAIN r.data[r.day] /\ r.item \in Trip!Activities
    BY <1>3 DEF Sensible
  <2>3. Trip!ReplaceAt(r.data[r.day], r.at, r.item) \in TripDay
    BY <1>1, <2>1, <2>2, DaysByPlace
  <2>4. QED
    BY <1>1, <1>2, <2>1, <2>3
<1>4. CASE r.kind = "add"
  <2>1. /\ Trip!Changes(r) = {[r.data EXCEPT ![r.day] = Trip!InTime(Append(r.data[r.day], r.item))]}
        /\ op # "refine" /\ r.item \in Trip!Activities
    BY <1>4 DEF Trip!Changes, Sensible
  <2>2. Trip!InTime(Append(r.data[r.day], r.item)) \in TripDay
    BY <1>1, <2>1, DayAppended, DayInTime
  <2>3. QED
    BY <1>1, <1>2, <2>1, <2>2
<1>5. CASE r.kind = "delete"
  <2>1. /\ Trip!Changes(r) = {[r.data EXCEPT ![r.day] = Trip!RemoveAt(r.data[r.day], r.at)]}
        /\ op # "refine" /\ r.at \in DOMAIN r.data[r.day]
    BY <1>5 DEF Trip!Changes, Sensible
  <2>2. Trip!RemoveAt(r.data[r.day], r.at) \in TripDay
    <3>1. 1 \in Trip!Activities
      BY DEF Trip!Activities
    <3>2. QED
      BY <1>1, <2>1, <3>1, DaysByPlace
  <2>3. QED
    BY <1>1, <1>2, <2>1, <2>2
<1>6. CASE r.kind = "reorder"
  <2>1. Trip!Changes(r) = {[r.data EXCEPT ![r.day] = r.list]} /\ op # "refine" /\ r.list \in TripDay
    BY <1>6 DEF Trip!Changes, Sensible, IsAsked
  <2>2. QED
    BY <1>1, <1>2, <2>1
<1>7. CASE r.kind = "refine"
  <2>1. Trip!Changes(r)
        = UNION {{[r.data EXCEPT ![d] = s] : s \in Trip!Rearranged(r.data[d])} : d \in Trip!Days}
    BY <1>7 DEF Trip!Changes
  <2>2. \A d \in Trip!Days : r.data[d] \in TripDay
    BY <1>1 DEF TripDoc
  <2>3. \A d \in Trip!Days : \A s \in Trip!Rearranged(r.data[d]) : [r.data EXCEPT ![d] = s] \in TripDoc
    BY <1>2, <2>2, DayRearranged
  <2>4. QED
    BY <2>1, <2>3
<1>8. CASE r.kind \notin {"edit", "add", "delete", "reorder", "refine"}
  <2>1. /\ Trip!Changes(r) = {[r.data EXCEPT ![r.day] = s] : s \in Trip!Rearranged(r.data[r.day])}
        /\ op # "refine"
    BY <1>8 DEF Trip!Changes, Sensible
  <2>2. Trip!Rearranged(r.data[r.day]) \subseteq TripDay
    BY <1>1, <2>1, DayRearranged
  <2>3. QED
    BY <1>1, <1>2, <2>1, <2>2
<1>9. QED
  BY <1>3, <1>4, <1>5, <1>6, <1>7, <1>8

\* What is written is what an itinerary has.
LEMMA WriteTyped ==
  ASSUME TripTyped, NEW op \in Trip!Ops, Trip!Write(op)
  PROVE  TripTyped'
<1> DEFINE q == tripReq[op]
<1>1. TripPages /\ TripAsks /\ IsAsked(q) /\ Sensible(op, q) /\ q.pc = "read"
  BY DEF TripTyped, TripAsks, Trip!Write
<1>2. PICK days \in Trip!Changes(q) :
        /\ saved' = IF op = "adapt" THEN saved ELSE days
        /\ tripReq' = [tripReq EXCEPT ![op].pc = "done", ![op].data = days]
  BY DEF Trip!Write
<1>3. days \in TripDoc
  <2>1. op = "refine" \/ q.day \in Trip!Days
    BY <1>1 DEF Sensible
  <2>2. QED
    BY <1>1, <1>2, <2>1, ChangesAreDocs
<1> DEFINE r == [q EXCEPT !.pc = "done", !.data = days]
<1>4. tripReq' = [tripReq EXCEPT ![op] = r]
  <2>1. tripReq = [other \in Trip!Ops |-> tripReq[other]]
    BY <1>1 DEF TripAsks
  <2>2. QED
    BY <1>2, <2>1
<1>5. UNCHANGED <<tripCache, refined, tripTimer, tripQuery>>
  BY DEF Trip!Write
<1>6. tripSlips' \subseteq {"overlap", "masked", "dropped", "crossed", "lost", "not saved",
                            "adapted", "stale"}
  BY <1>1 DEF Trip!Write, TripPages
<1> HIDE DEF q
<1>7. /\ IsChange(r) /\ r.pc = "done" /\ r.data = days
      /\ r.kind = q.kind /\ r.day = q.day /\ r.at = q.at /\ r.item = q.item /\ r.list = q.list
  BY <1>1 DEF IsAsked, IsChange
<1> HIDE DEF r
<1>8. IsAsked(r) /\ Sensible(op, r)
  BY <1>1, <1>3, <1>7 DEF IsAsked, Sensible
<1>9. TripAsks'
  BY <1>1, <1>4, <1>8, AsksWith
<1>10. TripPages'
  BY <1>1, <1>2, <1>3, <1>5, <1>6 DEF TripPages
<1>11. QED
  BY <1>9, <1>10 DEF TripTyped

\* What an answer makes of the day in the cache is a day.
LEMMA CachedDayTyped ==
  ASSUME TripPages, NEW op \in Trip!Ops \ {"refine"}, NEW r, IsAsked(r), Sensible(op, r), r.pc = "done"
  PROVE  Trip!CachedDay(r) \in TripDay
<1> DEFINE day == tripCache[r.day]
<1>1. r.day \in Trip!Days /\ day \in TripDay /\ r.data[r.day] \in TripDay
  BY DEF TripPages, Sensible, TripDoc
<1>2. \A k \in DOMAIN day : /\ Trip!RemoveAt(day, k) \in TripDay
                            /\ \A j \in Trip!Activities : Trip!ReplaceAt(day, k, j) \in TripDay
  <2>1. 1 \in Trip!Activities
    BY DEF Trip!Activities
  <2> HIDE DEF day
  <2>2. QED
    BY <1>1, <2>1, DaysByPlace
<1>3. r.list \in TripDay /\ (r.kind = "edit" => r.item \in Trip!Activities)
  BY DEF IsAsked, Sensible
<1>4. CASE r.kind = "add"
  BY <1>1, <1>4 DEF Trip!CachedDay
<1>5. CASE r.kind = "delete"
  <2>1. Trip!CachedDay(r) = IF r.at \in DOMAIN day THEN Trip!RemoveAt(day, r.at) ELSE day
    BY <1>5 DEF Trip!CachedDay
  <2> HIDE DEF day
  <2>2. QED
    BY <1>1, <1>2, <2>1
<1>6. CASE r.kind = "edit"
  <2>1. Trip!CachedDay(r) = IF r.list # Trip!NoList THEN r.list
                            ELSE IF r.at \in DOMAIN day THEN Trip!ReplaceAt(day, r.at, r.item) ELSE day
    <3>1. CASE r.list # Trip!NoList
      BY <1>6, <3>1 DEF Trip!CachedDay
    <3>2. CASE r.list = Trip!NoList
      BY <1>6, <3>2 DEF Trip!CachedDay
    <3>3. QED
      BY <3>1, <3>2
  <2> HIDE DEF day
  <2>2. QED
    BY <1>1, <1>2, <1>3, <1>6, <2>1
<1>7. CASE r.kind \notin {"add", "delete", "edit"}
  BY <1>1, <1>7 DEF Trip!CachedDay
<1>8. QED
  BY <1>4, <1>5, <1>6, <1>7

\* What an answer brings is put where days are.
LEMMA AnsweredTyped ==
  ASSUME TripTyped, NEW op \in Trip!Ops, Trip!Answered(op)
  PROVE  TripTyped'
<1> DEFINE q == tripReq[op]
<1>1. /\ TripPages /\ TripAsks /\ IsAsked(q) /\ Sensible(op, q) /\ q.pc = "done"
      /\ q.data \in TripDoc
  BY DEF TripTyped, TripAsks, Trip!Answered, Sensible
<1>2. tripReq' = [tripReq EXCEPT ![op] = Trip!NoReq] /\ UNCHANGED <<saved, tripTimer, tripQuery>>
  BY DEF Trip!Answered
<1>3. TripAsks'
  BY <1>1, <1>2, NoReqTyped, AsksWith
<1>4. tripCache' \in TripDoc
  <2>1. op # "refine" => Trip!CachedDay(q) \in TripDay
    <3> HIDE DEF q
    <3> QED
      BY <1>1, CachedDayTyped
  <2>2. tripCache' = IF op \in {"refine", "adapt"} THEN tripCache
                     ELSE [tripCache EXCEPT ![q.day] = Trip!CachedDay(q)]
    BY DEF Trip!Answered
  <2> HIDE DEF q
  <2>3. QED
    BY <1>1, <2>1, <2>2 DEF TripPages, TripDoc
<1>5. refined' \in TripDoc \cup {Trip!NoMask}
  <2>1. CASE op = "refine"
    BY <1>1, <2>1 DEF Trip!Answered
  <2>2. CASE op = "adapt"
    <3>1. refined' = [Trip!Shown EXCEPT ![q.day] = q.data[q.day]]
      BY <2>2 DEF Trip!Answered
    <3>2. q.data[q.day] \in TripDay
      BY <1>1, <2>2 DEF Sensible, TripDoc
    <3>3. Trip!Shown \in TripDoc
      BY <1>1, ShownIsDoc
    <3> HIDE DEF q
    <3>4. QED
      BY <3>1, <3>2, <3>3 DEF TripDoc
  <2>3. CASE op \notin {"refine", "adapt"}
    BY <1>1, <2>3 DEF Trip!Answered, TripPages
  <2>4. QED
    BY <2>1, <2>2, <2>3
<1>6. tripSlips' \subseteq {"overlap", "masked", "dropped", "crossed", "lost", "not saved",
                            "adapted", "stale"}
  BY <1>1 DEF Trip!Answered, TripPages
<1>7. TripPages'
  BY <1>1, <1>2, <1>4, <1>5, <1>6 DEF TripPages
<1>8. QED
  BY <1>3, <1>7 DEF TripTyped

\* What fails is put back.
LEMMA FailsTyped ==
  ASSUME TripTyped, NEW op \in Trip!Ops, Trip!Fails(op)
  PROVE  TripTyped'
<1>1. TripAsks'
  BY NoReqTyped, AsksWith DEF Trip!Fails, TripTyped
<1>2. TripPages'
  BY DEF Trip!Fails, TripTyped, TripPages
<1>3. QED
  BY <1>1, <1>2 DEF TripTyped

\* Every step keeps the types of the trip.
LEMMA TripTypedInductive ==
  ASSUME TripTyped, [Trip!Next]_(Trip!vars)
  PROVE  TripTyped'
<1>1. ASSUME NEW d \in Trip!Days, NEW j \in Trip!Fresh,
             Trip!AddOne(d, j) \/ \E k \in DOMAIN Trip!Shown[d] : Trip!Edit(d, k, j) \/ Trip!AcceptAi(d, k, j)
      PROVE  TripTyped'
  <2>1. j \in Trip!Activities /\ j # 0
    BY <1>1 DEF Trip!Fresh, Trip!Activities
  <2>2. Trip!NoList \in TripDay
    BY DEF Trip!NoList, TripDay
  <2>3. Trip!Shown[d] \in TripDay
    BY ShownIsDoc DEF TripTyped, TripDoc
  <2>4. \A k \in DOMAIN Trip!Shown[d] : [Trip!Shown[d] EXCEPT ![k] = j] \in TripDay
    BY <2>1, <2>3, DaysByPlace
  <2>5. CASE Trip!AddOne(d, j)
    BY <2>1, <2>2, <2>5, PressTyped DEF Trip!AddOne, Trip!Ops
  <2>6. ASSUME NEW k \in DOMAIN Trip!Shown[d], Trip!Edit(d, k, j)
        PROVE  TripTyped'
    BY <2>1, <2>4, <2>6, PressTyped DEF Trip!Edit, Trip!Ops
  <2>7. ASSUME NEW k \in DOMAIN Trip!Shown[d], Trip!AcceptAi(d, k, j)
        PROVE  TripTyped'
    BY <2>1, <2>2, <2>7, PressTyped DEF Trip!AcceptAi, Trip!Ops
  <2>8. QED
    BY <1>1, <2>5, <2>6, <2>7
<1>2. ASSUME NEW d \in Trip!Days, NEW k \in DOMAIN Trip!Shown[d], NEW l \in DOMAIN Trip!Shown[d],
             Trip!Drag(d, k, l)
      PROVE  TripTyped'
  BY <1>2, DragTyped
<1>3. ASSUME NEW d \in Trip!Days,
             Trip!Adapt(d) \/ \E k \in DOMAIN Trip!Shown[d] : Trip!DeleteOne(d, k)
      PROVE  TripTyped'
  <2>1. Trip!NoList \in TripDay
    BY DEF Trip!NoList, TripDay
  <2>2. CASE Trip!Adapt(d)
    BY <2>1, <2>2, PressTyped DEF Trip!Adapt, Trip!Ops
  <2>3. ASSUME NEW k \in DOMAIN Trip!Shown[d], Trip!DeleteOne(d, k)
        PROVE  TripTyped'
    BY <2>1, <2>3, PressTyped DEF Trip!DeleteOne, Trip!Ops
  <2>4. QED
    BY <1>3, <2>2, <2>3
<1>4. CASE Trip!Refine
  BY <1>4, RefineTyped
<1>5. CASE Trip!TimerFires
  BY <1>5, TimerTyped
<1>6. ASSUME NEW op \in Trip!Ops,
             Trip!Read(op) \/ Trip!Write(op) \/ Trip!Answered(op) \/ Trip!Fails(op)
      PROVE  TripTyped'
  BY <1>6, ReadTyped, WriteTyped, AnsweredTyped, FailsTyped
<1>7. CASE Trip!Refetch
  BY <1>7 DEF Trip!Refetch, Trip!NoQuery, TripTyped, TripPages, TripAsks
<1>8. CASE Trip!QueryRead
  BY <1>8 DEF Trip!QueryRead, TripTyped, TripPages, TripAsks
<1>9. CASE Trip!QueryArrives
  BY <1>9 DEF Trip!QueryArrives, Trip!NoQuery, TripTyped, TripPages, TripAsks
<1>10. CASE UNCHANGED Trip!vars
  BY <1>10 DEF Trip!vars, TripTyped, TripPages, TripAsks
<1>11. QED
  BY <1>1, <1>2, <1>3, <1>4, <1>5, <1>6, <1>7, <1>8, <1>9, <1>10 DEF Trip!Next

\* A trip has the types that a run checks.
LEMMA TripHasTypes == TripTyped => Trip!TypeOK
  BY DEF TripTyped, TripPages, TripDoc, TripDay, Trip!TypeOK

=============================================================================
