--------------------------- MODULE ItineraryProofs ---------------------------
(***************************************************************************)
(* Theorems about Itinerary, for every set of edits, tabs and requests and *)
(* all bounds: it is type correct, an edit saved in quiet is never undone, *)
(* and a private confirmed itinerary stays private.                        *)
(***************************************************************************)
EXTENDS Itinerary, TLAPS

-----------------------------------------------------------------------------
(* Type correctness *)

\* An idle slot is a well-formed one.
LEMMA IdleIsRequest ==
  Idle \in Request /\ Idle.pc = "idle" /\ Idle.tab = None
  BY DEF Idle, Request, PC

\* No two holders are confused.
LEMMA HoldersApart ==
  /\ Fill \in Holders
  /\ \A r \in Requests : r \in Holders /\ r # Fill
  /\ \A t \in Tabs : /\ View(t) \in Holders /\ View(t) # Fill
                     /\ Drag(t) \in Holders /\ Drag(t) # Fill
  /\ \A t \in Tabs, r \in Requests : View(t) # r /\ Drag(t) # r
  /\ \A t, u \in Tabs : /\ View(t) # Drag(u)
                        /\ t # u => View(t) # View(u) /\ Drag(t) # Drag(u)
  BY HoldersAssumption DEF Holders, View, Drag

\* A copy is something.
LEMMA CopyFacts ==
  /\ None \notin Copy
  /\ data \subseteq Effects => data \in Copy
  BY ConstantsAssumption DEF Copy

\* Only edits are still to be shown.
LEMMA UnseenIsEdit ==
  ASSUME TypeOK, NEW r \in Requests
  PROVE  Unseen(r) \subseteq Edits
  BY DEF TypeOK, Unseen, Equipped, At

\* Every step preserves the types.
LEMMA TypeStep == TypeOK /\ [Next]_vars => TypeOK'
<1> SUFFICES ASSUME TypeOK, [Next]_vars PROVE TypeOK'
  OBVIOUS
<1> USE IdleIsRequest, CopyFacts, HoldersApart DEF TypeOK, table, history, At, Held, Equipped
<1> USE ConstantsAssumption
<1>1. CASE CreateManual
  BY <1>1 DEF CreateManual
<1>2. CASE Generate
  BY <1>2 DEF Generate
<1>3. ASSUME NEW t \in Tabs, GenerateStream(t) PROVE TypeOK'
  BY <1>3 DEF GenerateStream
<1>4. CASE FillWrite
  <2>1. copy[Fill] \subseteq Effects /\ Fill \in Effects
    BY <1>4 DEF FillWrite, Effects, Copy
  <2>2. QED
    BY <1>4, <2>1 DEF FillWrite
<1>5. CASE FillFails
  BY <1>5 DEF FillFails, Mishap
<1>6. ASSUME NEW r \in Requests, NEW t \in Tabs, Fetch(r, t) PROVE TypeOK'
  <2>1. [Idle EXCEPT !.pc = "show", !.tab = t] \in Request
    BY DEF Idle, Request, PC
  <2>2. QED
    BY <1>6, <2>1 DEF Fetch, Start, Idle
<1>7. ASSUME NEW r \in Requests, Show(r) PROVE TypeOK'
  BY <1>7 DEF Show, End
<1>8. ASSUME NEW r \in Requests, NEW t \in Tabs, NEW e \in Edits, EditStart(r, t, e) PROVE TypeOK'
  <2>1. [Idle EXCEPT !.pc = "write", !.tab = t, !.edit = e] \in Request
    BY DEF Idle, Request, PC
  <2>2. QED
    BY <1>8, <2>1 DEF EditStart, Start, Idle
<1>9. ASSUME NEW t \in Tabs, NEW e \in Edits, Drop(t, e) PROVE TypeOK'
  <2>1. copy[View(t)] \cup {e} \in Copy
    BY <1>9 DEF Drop, Effects, Copy
  <2>2. exposed' \subseteq Edits
    BY <1>9, UnseenIsEdit DEF Drop
  <2>3. QED
    BY <1>9, <2>1, <2>2 DEF Drop
<1>10. ASSUME NEW r \in Requests, NEW t \in Tabs, SendOrder(r, t) PROVE TypeOK'
  <2>1. [Idle EXCEPT !.pc = "write", !.tab = t, !.edit = pending[t]] \in Request
    BY DEF Idle, Request, PC
  <2>2. CASE row = "here"
    <3>1. /\ Drag(t) \in Holders /\ copy[Drag(t)] \in Copy /\ Held(View(t))
          /\ req' = [req EXCEPT ![r] = [Idle EXCEPT !.pc = "write", !.tab = t,
                                                    !.edit = pending[t]]]
          /\ copy' = [copy EXCEPT ![r] = copy[Drag(t)], ![Drag(t)] = None]
      BY <1>10, <2>2 DEF SendOrder, Start
    <3>2. QED
      BY <1>10, <2>1, <3>1 DEF SendOrder, Idle
  <2>3. CASE row # "here"
    BY <1>10, <2>3 DEF SendOrder
  <2>4. QED
    BY <2>2, <2>3
<1>11. ASSUME NEW r \in Requests, Write(r) PROVE TypeOK'
  <2> DEFINE e == req[r].edit
  <2>1. /\ e \in Edits /\ copy[r] \in Copy
        /\ req[r].tab \in Tabs /\ Held(View(req[r].tab))
    BY <1>11 DEF Write
  <2>2. copy[r] \cup {e} \in Copy
    BY <2>1 DEF Copy, Effects
  <2>3. /\ copy' \in [Holders -> Copy \cup {None}]
        /\ \A h \in Holders : copy'[h] # None <=> Held(h)
    BY <1>11, <2>1, <2>2 DEF Write
  <2>4. data' \subseteq Effects /\ written' \subseteq Edits /\ exposed' \subseteq Edits
    BY <1>11, <2>1, <2>2 DEF Write, Copy
  <2>5. /\ req' \in [Requests -> Request]
        /\ \A s \in Requests : Equipped(s)'
    <3>1. req' = [req EXCEPT ![r].pc = "answer"]
      BY <1>11 DEF Write
    <3>2. req' \in [Requests -> Request]
      BY <3>1 DEF Request, PC
    <3>3. Equipped(r)'
      BY <1>11, <2>1, <2>3, <3>1 DEF Write, Request
    <3>4. ASSUME NEW s \in Requests, s # r PROVE Equipped(s)'
      BY <2>3, <3>1, <3>4
    <3>5. QED
      BY <3>2, <3>3, <3>4
  <2>6. QED
    BY <1>11, <2>3, <2>4, <2>5 DEF Write
<1>12. ASSUME NEW r \in Requests, Answer(r) PROVE TypeOK'
  <2> DEFINE v == View(req[r].tab)
  <2>1. /\ req[r].tab \in Tabs /\ v \in Holders /\ v # r
        /\ copy[r] \in Copy /\ Held(v) /\ copy[v] \in Copy
        /\ req[r].edit \in Edits
    BY <1>12 DEF Answer
  <2>2. PICK c \in Copy : copy' = [copy EXCEPT ![r] = None, ![v] = c]
    <3>1. copy[v] \cup {req[r].edit} \in Copy
      BY <1>12, <2>1 DEF Answer, Copy, Effects
    <3>2. copy' \in {[copy EXCEPT ![r] = None, ![v] = copy[r]],
                    [copy EXCEPT ![r] = None, ![v] = copy[v] \cup {req[r].edit}]}
      BY <1>12, <2>1 DEF Answer
    <3>3. QED
      BY <2>1, <3>1, <3>2
  <2>3. req' = [req EXCEPT ![r] = Idle]
    BY <1>12 DEF Answer, End
  <2>4. /\ copy' \in [Holders -> Copy \cup {None}]
        /\ \A h \in Holders \ {r} : copy'[h] # None <=> Held(h) \/ h = v
        /\ copy'[r] = None
    BY <2>1, <2>2
  <2>5. QED
    BY <1>12, <2>1, <2>3, <2>4 DEF Answer
<1>13. ASSUME NEW r \in Requests, NEW public \in BOOLEAN, ConfirmStart(r, public) PROVE TypeOK'
  BY <1>13 DEF ConfirmStart, Start, Idle, Request, PC
<1>14. ASSUME NEW r \in Requests, Confirm(r) PROVE TypeOK'
  BY <1>14 DEF Confirm, End, Request
<1>15. ASSUME NEW r \in Requests, NEW public \in BOOLEAN, PatchStart(r, public) PROVE TypeOK'
  BY <1>15 DEF PatchStart, Start, Idle, Request, PC
<1>16. ASSUME NEW r \in Requests, Patch(r) PROVE TypeOK'
  BY <1>16 DEF Patch, End, Request
<1>17. CASE Moderate
  BY <1>17 DEF Moderate
<1>18. ASSUME NEW r \in Requests, DeleteStart(r) PROVE TypeOK'
  BY <1>18 DEF DeleteStart, Start, Idle, Request, PC
<1>19. ASSUME NEW r \in Requests, Delete(r) PROVE TypeOK'
  BY <1>19 DEF Delete, End
<1>20. ASSUME NEW r \in Requests, RequestFails(r) PROVE TypeOK'
  BY <1>20, UnseenIsEdit DEF RequestFails, End, Forget, Mishap
<1>21. ASSUME NEW t \in Tabs, CloseTab(t) PROVE TypeOK'
  BY <1>21 DEF CloseTab, Mishap
<1>22. CASE Crash
  BY <1>22, UnseenIsEdit DEF Crash, Mishap
<1>23. CASE UNCHANGED vars
  BY <1>23 DEF vars
<1>24. QED
  BY <1>1, <1>2, <1>3, <1>4, <1>5, <1>6, <1>7, <1>8, <1>9, <1>10, <1>11, <1>12, <1>13,
     <1>14, <1>15, <1>16, <1>17, <1>18, <1>19, <1>20, <1>21, <1>22, <1>23
     DEF Next, Serve, Arrive

\* The initial state has them, and nobody holds a copy in it.
LEMMA InitTypes == Init => TypeOK /\ (\A h \in Holders : ~Held(h))
<1> SUFFICES ASSUME Init PROVE TypeOK /\ (\A h \in Holders : ~Held(h))
  OBVIOUS
<1>1. \A h \in Holders : ~Held(h)
  BY DEF Init, Held
<1>2. \A t \in Tabs : ~Held(View(t)) /\ ~Held(Drag(t)) /\ pending[t] = None
  BY <1>1, HoldersApart DEF Init
<1>3. req \in [Requests -> Request] /\ \A r \in Requests : Equipped(r)
  BY <1>1, IdleIsRequest, HoldersApart DEF Init, Equipped
<1>4. mishaps \in 0..MaxMishaps
  BY ConstantsAssumption DEF Init
<1>5. QED
  BY <1>1, <1>2, <1>3, <1>4 DEF Init, TypeOK

\* The variables always have their types.
THEOREM TypeCorrect == Spec => []TypeOK
<1>1. Init => TypeOK
  BY InitTypes
<1>2. QED
  BY <1>1, TypeStep, PTL DEF Spec

-----------------------------------------------------------------------------
(* Lost edits *)

\* The tab of edit e has been answered about it by nobody yet.
Awaits(h, e) ==
  \E r \in Requests : At(r, "answer") /\ req[r].edit = e /\ h = View(req[r].tab)

\* A saved edit that was not exposed is in the row and in every copy, but for what
\* its own tab shows until it is answered.
Kept(e) ==
  /\ e \in data
  /\ \A h \in Holders : Held(h) => e \in copy[h] \/ Awaits(h, e)

IInv == TypeOK /\ \A e \in written \ exposed : Kept(e)

\* A copy with which somebody may write has every such edit.
LEMMA WritersKnow ==
  ASSUME TypeOK, NEW e, Kept(e), NEW h \in Holders, Held(h), \A t \in Tabs : h # View(t)
  PROVE  e \in copy[h]
  BY DEF TypeOK, Kept, Awaits, At, Equipped

\* Every copy is as it was and still waited for, has the edit, or its tab waits.
LEMMA StaysKept ==
  ASSUME NEW e, Kept(e), e \in data',
         \A h \in Holders : copy'[h] # None =>
           \/ copy'[h] = copy[h] /\ (Awaits(h, e) => Awaits(h, e)')
           \/ e \in copy'[h]
           \/ Awaits(h, e)'
  PROVE  Kept(e)'
  BY DEF Kept, Held

\* A step that moves only a request that is at no answer ends no wait.
LEMMA StillAwaited ==
  ASSUME NEW r \in Requests, ~At(r, "answer"), \A q \in Requests \ {r} : req'[q] = req[q],
         NEW h, NEW e, Awaits(h, e)
  PROVE  Awaits(h, e)'
  BY DEF Awaits, At

LEMMA KeptStep ==
  ASSUME TypeOK, TypeOK', [Next]_vars, NEW e \in written \ exposed, e \notin exposed', Kept(e)
  PROVE  Kept(e)'
<1> USE HoldersApart DEF Held, At
<1>0. /\ req \in [Requests -> Request] /\ copy \in [Holders -> Copy \cup {None}]
      /\ e \in data /\ e \in Edits
  BY DEF TypeOK, Kept
<1>1. ASSUME e \in data', UNCHANGED req,
             \A h \in Holders : copy'[h] # None => copy'[h] = copy[h] \/ e \in copy'[h]
      PROVE  Kept(e)'
  BY <1>1, StaysKept DEF Awaits
<1>2. CASE CreateManual \/ Generate \/ Moderate \/ UNCHANGED vars
  BY <1>0, <1>1, <1>2 DEF CreateManual, Generate, Moderate, vars, table
<1>3. ASSUME NEW t \in Tabs, GenerateStream(t) PROVE Kept(e)'
  BY <1>0, <1>1, <1>3 DEF GenerateStream
<1>4. CASE FillWrite
  <2>1. e \in copy[Fill]
    BY <1>4, WritersKnow DEF FillWrite
  <2>2. QED
    BY <1>0, <1>1, <1>4, <2>1 DEF FillWrite
<1>5. CASE FillFails \/ \E t \in Tabs : CloseTab(t)
  BY <1>0, <1>1, <1>5 DEF FillFails, CloseTab, table
<1>6. ASSUME NEW t \in Tabs, NEW d \in Edits, Drop(t, d) PROVE Kept(e)'
  <2>1. e \in copy[View(t)]
    <3>1. CASE Awaits(View(t), e)
      <4>1. PICK r \in Requests : req[r].pc = "answer" /\ req[r].edit = e /\ req[r].tab = t
        BY <3>1 DEF Awaits, TypeOK, Equipped
      <4>2. Unseen(r) \subseteq exposed'
        BY <1>6, <4>1 DEF Drop
      <4>3. QED
        BY <4>1, <4>2 DEF Unseen
    <3>2. QED
      BY <1>6, <3>1 DEF Drop, Kept
  <2>2. QED
    BY <1>0, <1>1, <1>6, <2>1 DEF Drop, table
<1>7. ASSUME NEW r \in Requests, ~At(r, "answer"), e \in data',
             \A q \in Requests \ {r} : req'[q] = req[q],
             \A h \in Holders : copy'[h] # None => copy'[h] = copy[h] \/ e \in copy'[h]
      PROVE  Kept(e)'
  BY <1>7, StillAwaited, StaysKept
<1>8. ASSUME NEW r \in Requests,
             \/ \E public \in BOOLEAN : ConfirmStart(r, public) \/ PatchStart(r, public)
             \/ DeleteStart(r)
      PROVE  Kept(e)'
  BY <1>0, <1>7, <1>8 DEF ConfirmStart, PatchStart, DeleteStart, Start, table, Idle
<1>9. ASSUME NEW r \in Requests, Confirm(r) \/ Patch(r) \/ Delete(r) PROVE Kept(e)'
  BY <1>0, <1>7, <1>9 DEF Confirm, Patch, Delete, End, table
<1>10. ASSUME NEW r \in Requests, NEW t \in Tabs, Fetch(r, t) \/ \E d \in Edits : EditStart(r, t, d)
       PROVE  Kept(e)'
  BY <1>0, <1>7, <1>10 DEF Fetch, EditStart, Start, table, Idle
<1>11. ASSUME NEW r \in Requests, NEW t \in Tabs, SendOrder(r, t) PROVE Kept(e)'
  <2>1. Held(Drag(t)) /\ e \in copy[Drag(t)]
    BY <1>11, WritersKnow DEF SendOrder, TypeOK
  <2>2. CASE row = "here"
    <3>1. At(r, "idle") /\ \A q \in Requests \ {r} : req'[q] = req[q]
      BY <1>0, <1>11, <2>2 DEF SendOrder, Start
    <3>2. copy' = [copy EXCEPT ![r] = copy[Drag(t)], ![Drag(t)] = None] /\ data' = data
      BY <1>11, <2>2 DEF SendOrder, table
    <3>3. QED
      BY <1>0, <1>7, <2>1, <3>1, <3>2
  <2>3. CASE row # "here"
    BY <1>0, <1>1, <1>11, <2>3 DEF SendOrder, table
  <2>4. QED
    BY <2>2, <2>3
<1>12. ASSUME NEW r \in Requests, Write(r) PROVE Kept(e)'
  <2>1. Held(r) /\ e \in copy[r]
    BY <1>12, WritersKnow DEF Write, TypeOK, Equipped
  <2>2. e \in data' /\ \A h \in Holders : copy'[h] # None => copy'[h] = copy[h] \/ e \in copy'[h]
    BY <1>0, <1>12, <2>1 DEF Write
  <2>3. ~At(r, "answer") /\ \A q \in Requests \ {r} : req'[q] = req[q]
    BY <1>0, <1>12 DEF Write
  <2>4. QED
    BY <1>7, <2>2, <2>3
<1>13. ASSUME NEW r \in Requests, Show(r) PROVE Kept(e)'
  <2>1. Held(r) /\ e \in copy[r]
    BY <1>13, WritersKnow DEF Show, TypeOK, Equipped
  <2>2. ~At(r, "answer") /\ \A q \in Requests \ {r} : req'[q] = req[q]
    BY <1>0, <1>13 DEF Show, End
  <2>3. QED
    BY <1>0, <1>7, <1>13, <2>1, <2>2 DEF Show, table
<1>14. ASSUME NEW r \in Requests, Answer(r) PROVE Kept(e)'
  <2> DEFINE v == View(req[r].tab)
  <2>1. /\ Held(r) /\ e \in copy[r] /\ req[r].tab \in Tabs /\ v \in Holders /\ v # r
    BY <1>14, WritersKnow DEF Answer, TypeOK, Equipped
  <2>2. \A q \in Requests \ {r} : req'[q] = req[q]
    BY <1>0, <1>14 DEF Answer, End
  <2>3. ASSUME NEW h \in Holders, copy'[h] # None
        PROVE  \/ copy'[h] = copy[h] /\ (Awaits(h, e) => Awaits(h, e)')
               \/ e \in copy'[h]
               \/ Awaits(h, e)'
    <3>1. CASE h = r
      BY <1>0, <1>14, <2>1, <2>3, <3>1 DEF Answer
    <3>2. CASE h # r /\ h # v
      <4>1. copy'[h] = copy[h]
        BY <1>0, <1>14, <2>1, <3>2 DEF Answer
      <4>2. Awaits(h, e) => Awaits(h, e)'
        BY <2>2, <3>2 DEF Awaits
      <4>3. QED
        BY <4>1, <4>2
    <3>3. CASE h = v
      <4>1. CASE copy'[v] = copy[r]
        BY <2>1, <3>3, <4>1
      <4>2. CASE copy'[v] = copy[v] \cup {req[r].edit}
        <5>1. CASE e \in copy[v] \/ e = req[r].edit
          BY <3>3, <4>2, <5>1
        <5>2. CASE e \notin copy[v] /\ e # req[r].edit
          <6>1. PICK q \in Requests : At(q, "answer") /\ req[q].edit = e /\ v = View(req[q].tab)
            BY <2>1, <1>14, <5>2 DEF Kept, Awaits, Answer, TypeOK, Equipped
          <6>2. q # r
            BY <5>2, <6>1
          <6>3. req'[q] = req[q] /\ Awaits(h, e)'
            BY <2>2, <3>3, <6>1, <6>2 DEF Awaits
          <6>4. QED
            BY <6>3
        <5>3. QED
          BY <5>1, <5>2
      <4>3. QED
        BY <1>0, <1>14, <2>1, <4>1, <4>2 DEF Answer
    <3>4. QED
      BY <3>1, <3>2, <3>3
  <2>4. e \in data'
    BY <1>0, <1>14 DEF Answer, table
  <2>5. QED
    BY <2>3, <2>4, StaysKept
<1>15. CASE Crash \/ \E r \in Requests : RequestFails(r)
  <2>1. ASSUME NEW h \in Holders, copy'[h] # None
        PROVE  copy'[h] = copy[h] /\ (Awaits(h, e) => Awaits(h, e)' \/ e \in copy[h])
    <3>1. copy'[h] = copy[h]
      BY <1>0, <1>15, <2>1 DEF Crash, RequestFails, Forget
    <3>2. ASSUME NEW q \in Requests, At(q, "answer"), req[q].edit = e, h = View(req[q].tab),
                 e \notin copy[h]
          PROVE  req'[q] = req[q]
      <4>1. Unseen(q) = {e}
        BY <3>2 DEF Unseen
      <4>2. QED
        BY <1>0, <1>15, <4>1 DEF Crash, RequestFails, End
    <3>3. QED
      BY <3>1, <3>2 DEF Awaits
  <2>2. e \in data'
    BY <1>0, <1>15 DEF Crash, RequestFails, table
  <2>3. QED
    BY <2>1, <2>2, StaysKept
<1>16. QED
  BY <1>2, <1>3, <1>4, <1>5, <1>6, <1>8, <1>9, <1>10, <1>11, <1>12, <1>13, <1>14, <1>15
     DEF Next, Serve, Arrive

\* An edit that is written while nobody else had the days without it is kept.
LEMMA WrittenIsKept ==
  ASSUME TypeOK, [Next]_vars, NEW e \in written', e \notin written, e \notin exposed'
  PROVE  Kept(e)'
<1> USE HoldersApart DEF Held, At
<1>1. PICK r \in Requests : Write(r)
  BY DEF Next, Serve, Arrive, CreateManual, Generate, GenerateStream, FillWrite, FillFails,
         Fetch, Show, EditStart, Drop, SendOrder, Answer, ConfirmStart, Confirm, PatchStart,
         Patch, Moderate, DeleteStart, Delete, RequestFails, CloseTab, Crash, vars, table,
         history
<1>2. /\ row = "here" /\ e = req[r].edit /\ e \in data'
      /\ copy' = [copy EXCEPT ![r] = copy[r] \cup {e}]
      /\ Lacking(e) \subseteq {r, View(req[r].tab)}
  BY <1>1 DEF Write
<1>3. req'[r].pc = "answer" /\ req'[r].edit = e /\ req'[r].tab = req[r].tab
  BY <1>1, <1>2 DEF Write, TypeOK, Request
<1>4. copy \in [Holders -> Copy \cup {None}]
  BY DEF TypeOK
<1>5. ASSUME NEW h \in Holders, Held(h)' PROVE e \in copy'[h] \/ Awaits(h, e)'
  BY <1>2, <1>3, <1>4, <1>5 DEF Lacking, Awaits
<1>6. QED
  BY <1>2, <1>5 DEF Kept

LEMMA InductiveStep == IInv /\ [Next]_vars => IInv'
<1> SUFFICES ASSUME IInv, [Next]_vars, NEW e \in written', e \notin exposed' PROVE Kept(e)'
  BY TypeStep DEF IInv
<1>1. TypeOK /\ TypeOK'
  BY TypeStep DEF IInv
<1>2. exposed \subseteq exposed'
  BY DEF Next, Serve, Arrive, CreateManual, Generate, GenerateStream, FillWrite, FillFails,
         Fetch, Show, EditStart, Drop, SendOrder, Write, Answer, ConfirmStart, Confirm,
         PatchStart, Patch, Moderate, DeleteStart, Delete, RequestFails, CloseTab, Crash,
         vars, table, history
<1>3. CASE e \in written
  BY <1>1, <1>2, <1>3, KeptStep DEF IInv
<1>4. CASE e \notin written
  BY <1>1, <1>4, WrittenIsKept
<1>5. QED
  BY <1>3, <1>4

\* An edit saved while nobody else had the days open without it, and answered before
\* its tab dragged, is never undone, however many tabs, requests, timers and failures
\* come after it.
THEOREM QuietEditsAreKept == Spec => []QuietEditsStay
<1>1. Init => IInv
  BY InitTypes DEF Init, IInv
<1>2. IInv => QuietEditsStay
  BY DEF IInv, QuietEditsStay, Kept
<1>3. QED
  BY <1>1, <1>2, InductiveStep, PTL DEF Spec

-----------------------------------------------------------------------------
(* Privacy *)

\* Only a row that was created is confirmed.
ConfirmedIsBorn == confirmado => row # "unborn"

LEMMA ConfirmedStep == ConfirmedIsBorn /\ [Next]_vars => ConfirmedIsBorn'
<1> USE DEF ConfirmedIsBorn, table
<1> SUFFICES ASSUME ConfirmedIsBorn, [Next]_vars PROVE ConfirmedIsBorn'
  OBVIOUS
<1>1. ASSUME UNCHANGED <<row, confirmado>> PROVE ConfirmedIsBorn'
  BY <1>1
<1>2. CASE CreateManual \/ Generate
  BY <1>2 DEF CreateManual, Generate
<1>3. ASSUME NEW t \in Tabs, GenerateStream(t) PROVE ConfirmedIsBorn'
  BY <1>3 DEF GenerateStream
<1>4. ASSUME NEW r \in Requests, Confirm(r) PROVE ConfirmedIsBorn'
  BY <1>4 DEF Confirm
<1>5. ASSUME NEW r \in Requests, Delete(r) PROVE ConfirmedIsBorn'
  BY <1>5 DEF Delete
<1>6. CASE FillWrite \/ FillFails \/ Moderate \/ Crash \/ UNCHANGED vars
  BY <1>1, <1>6 DEF FillWrite, FillFails, Moderate, Crash, vars
<1>7. ASSUME NEW t \in Tabs, CloseTab(t) \/ \E e \in Edits : Drop(t, e) PROVE ConfirmedIsBorn'
  BY <1>1, <1>7 DEF CloseTab, Drop
<1>8. ASSUME NEW r \in Requests, Show(r) \/ Write(r) \/ Answer(r) \/ Patch(r) \/ RequestFails(r)
      PROVE  ConfirmedIsBorn'
  BY <1>1, <1>8 DEF Show, Write, Answer, Patch, RequestFails
<1>9. ASSUME NEW r \in Requests, Arrive(r) PROVE ConfirmedIsBorn'
  BY <1>1, <1>9
     DEF Arrive, Fetch, SendOrder, EditStart, ConfirmStart, PatchStart, DeleteStart
<1>10. QED
  BY <1>2, <1>3, <1>4, <1>5, <1>6, <1>7, <1>8, <1>9 DEF Next, Serve

\* What a step may do to a confirmed private itinerary no confirmation is waiting on.
Guarded ==
  confirmado /\ ~is_public /\ ~StaleConfirm =>
    /\ ~StaleConfirm'
    /\ confirmado'
    /\ is_public' => Publishing

\* A step that leaves the columns alone starts no confirmation unless it is one.
LEMMA GuardedStep == TypeOK /\ ConfirmedIsBorn /\ [Next]_vars => Guarded
<1> SUFFICES ASSUME TypeOK, ConfirmedIsBorn, [Next]_vars, confirmado, ~is_public, ~StaleConfirm
             PROVE  ~StaleConfirm' /\ confirmado' /\ (is_public' => Publishing)
  BY DEF Guarded
<1> USE DEF table, At, StaleConfirm
<1>0. req \in [Requests -> Request] /\ row # "unborn"
  BY DEF TypeOK, ConfirmedIsBorn
<1>1. ASSUME UNCHANGED <<confirmado, is_public>>,
             \A s \in Requests : req'[s].pc = "confirm" => req[s].pc = "confirm"
      PROVE  ~StaleConfirm' /\ confirmado' /\ ~is_public'
  BY <1>1
<1>2. \A r \in Requests : End(r) =>
        \A s \in Requests : req'[s].pc = "confirm" => req[s].pc = "confirm"
  BY <1>0, IdleIsRequest DEF End
<1>3. \A r \in Requests, request \in Request : Start(r, request) /\ request.pc # "confirm" =>
        \A s \in Requests : req'[s].pc = "confirm" => req[s].pc = "confirm"
  BY <1>0 DEF Start
<1>4. CASE CreateManual \/ Generate \/ \E t \in Tabs : GenerateStream(t)
  BY <1>0, <1>4 DEF CreateManual, Generate, GenerateStream
<1>5. CASE FillWrite \/ FillFails \/ UNCHANGED vars
  BY <1>1, <1>5 DEF FillWrite, FillFails, vars
<1>6. CASE Moderate
  BY <1>6 DEF Moderate
<1>7. CASE Crash
  BY <1>1, <1>7, IdleIsRequest DEF Crash
<1>8. ASSUME NEW t \in Tabs, CloseTab(t) \/ \E e \in Edits : Drop(t, e)
      PROVE  ~StaleConfirm' /\ confirmado' /\ ~is_public'
  BY <1>1, <1>8 DEF CloseTab, Drop
<1>9. ASSUME NEW r \in Requests, Show(r) \/ Answer(r) \/ Delete(r) \/ RequestFails(r)
      PROVE  ~StaleConfirm' /\ confirmado' /\ ~is_public'
  BY <1>1, <1>2, <1>9 DEF Show, Answer, Delete, RequestFails
<1>10. ASSUME NEW r \in Requests, Write(r) PROVE ~StaleConfirm' /\ confirmado' /\ ~is_public'
  <2>1. req' = [req EXCEPT ![r].pc = "answer"] /\ UNCHANGED <<confirmado, is_public>>
    BY <1>10 DEF Write
  <2>2. \A s \in Requests : req'[s].pc = "confirm" => req[s].pc = "confirm"
    BY <1>0, <2>1 DEF Request
  <2>3. QED
    BY <1>1, <2>1, <2>2
<1>12. ASSUME NEW r \in Requests PROVE ~Confirm(r)
  BY DEF Confirm
<1>13. ASSUME NEW r \in Requests, Patch(r)
       PROVE  ~StaleConfirm' /\ confirmado' /\ (is_public' => Publishing)
  <2>1. UNCHANGED confirmado /\ End(r) /\ req[r].pc = "patch"
    BY <1>13 DEF Patch
  <2>2. is_public' => req[r].public
    BY <1>13 DEF Patch
  <2>3. QED
    BY <1>2, <2>1, <2>2 DEF Publishing
<1>14. ASSUME NEW r \in Requests, Arrive(r) PROVE ~StaleConfirm' /\ confirmado' /\ ~is_public'
  <2>1. UNCHANGED <<confirmado, is_public>>
    BY <1>14 DEF Arrive, Fetch, SendOrder, EditStart, ConfirmStart, PatchStart, DeleteStart
  <2>2. \A public \in BOOLEAN : ~ConfirmStart(r, public)
    BY DEF ConfirmStart
  <2>3. \A s \in Requests : req'[s].pc = "confirm" => req[s].pc = "confirm"
    <3> DEFINE NoneNew == \A s \in Requests : req'[s].pc = "confirm" => req[s].pc = "confirm"
    <3>1. ASSUME NEW t \in Tabs, Fetch(r, t) PROVE NoneNew
      <4> DEFINE asked == [Idle EXCEPT !.pc = "show", !.tab = t]
      <4>1. asked \in Request /\ asked.pc = "show"
        BY DEF Idle, Request, PC
      <4>2. Start(r, asked)
        BY <3>1 DEF Fetch
      <4> HIDE DEF asked
      <4>3. QED
        BY <1>3, <4>1, <4>2
    <3>2. ASSUME NEW t \in Tabs, NEW e \in Edits,
                 Start(r, [Idle EXCEPT !.pc = "write", !.tab = t, !.edit = e])
          PROVE  NoneNew
      <4> DEFINE asked == [Idle EXCEPT !.pc = "write", !.tab = t, !.edit = e]
      <4>1. asked \in Request /\ asked.pc = "write"
        BY DEF Idle, Request, PC
      <4> HIDE DEF asked
      <4>2. QED
        BY <1>3, <3>2, <4>1 DEF asked
    <3>3. ASSUME NEW t \in Tabs, SendOrder(r, t) PROVE NoneNew
      <4>1. pending[t] \in Edits
        BY <3>3 DEF SendOrder, TypeOK
      <4>2. CASE row = "here"
        BY <3>2, <3>3, <4>1, <4>2 DEF SendOrder
      <4>3. CASE row # "here"
        BY <3>3, <4>3 DEF SendOrder
      <4>4. QED
        BY <4>2, <4>3
    <3>4. ASSUME NEW t \in Tabs, NEW e \in Edits, EditStart(r, t, e) PROVE NoneNew
      BY <3>2, <3>4 DEF EditStart
    <3>5. ASSUME NEW public \in BOOLEAN, PatchStart(r, public) PROVE NoneNew
      <4> DEFINE asked == [Idle EXCEPT !.pc = "patch", !.public = public]
      <4>1. asked \in Request /\ asked.pc = "patch"
        BY DEF Idle, Request, PC
      <4>2. Start(r, asked)
        BY <3>5 DEF PatchStart
      <4> HIDE DEF asked
      <4>3. QED
        BY <1>3, <4>1, <4>2
    <3>6. CASE DeleteStart(r)
      <4> DEFINE asked == [Idle EXCEPT !.pc = "delete"]
      <4>1. asked \in Request /\ asked.pc = "delete"
        BY DEF Idle, Request, PC
      <4>2. Start(r, asked)
        BY <3>6 DEF DeleteStart
      <4> HIDE DEF asked
      <4>3. QED
        BY <1>3, <4>1, <4>2
    <3>7. QED
      BY <1>14, <2>2, <3>1, <3>3, <3>4, <3>5, <3>6 DEF Arrive
  <2>4. QED
    BY <1>1, <2>1, <2>3
<1>15. QED
  BY <1>4, <1>5, <1>6, <1>7, <1>8, <1>9, <1>10, <1>12, <1>13, <1>14 DEF Next, Serve

\* A confirmed private itinerary that no confirmation is waiting on becomes public
\* only through a PATCH, in every step of every behaviour.
THEOREM PrivacyHolds == Spec => PrivateStaysPrivate
<1>1. Init => ConfirmedIsBorn
  BY DEF Init, ConfirmedIsBorn
<1>2. TypeOK /\ ConfirmedIsBorn /\ [Next]_vars =>
        [confirmado /\ ~is_public /\ ~StaleConfirm =>
           ~StaleConfirm' /\ confirmado' /\ (is_public' => Publishing)]_vars
  BY GuardedStep DEF Guarded
<1>3. QED
  BY <1>1, <1>2, TypeCorrect, ConfirmedStep, PTL DEF Spec, PrivateStaysPrivate
=============================================================================
