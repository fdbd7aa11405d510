--------------------------- MODULE ScreensProofs ----------------------------
(***************************************************************************)
(* Inductive invariants of the screens that change before the server does, *)
(* or show what somebody else may change (a card, a profile, the panels of *)
(* an itinerary), and of those with which something is made (the window of *)
(* a new post, the editor of a trip, the field of the destination, the     *)
(* wizard that has a trip generated); and what follows from them.  That    *)
(* they hold throughout the behaviours is in FeaturesProofs.               *)
(***************************************************************************)
EXTENDS Screens, FiniteSetTheorems, SequenceTheorems, TLAPS

-----------------------------------------------------------------------------
(* The card of a post *)

\* A page to put back is one on which the card was.
CardPages ==
  \A t \in Timers : timers[t].pc # "idle" => timers[t].prev.shown

\* A post that was brought back is in no deletion's hands.
Undoable ==
  undone => cardRow.exists /\ \A t \in Timers : timers[t].pc = "idle"

\* The card is shown and the post gone, or the other way round, only while something is
\* under way that will put the card right or be the reason why it is wrong.
ShownForAReason ==
  /\ cardRow.exists /\ ~cardCache.shown =>
       \E t \in Timers : timers[t].pc # "idle"
  /\ ~cardRow.exists /\ cardCache.shown =>
       \/ \E t \in Timers : timers[t].pc = "done"
       \/ cardQuery.pc = "asked"
       \/ cardQuery.pc = "read" /\ ~cardQuery.reply.shown
       \/ \E m \in Mutations : cardLikes[m].pc = "sent"
  /\ \A t \in Timers : timers[t].pc = "done" => ~cardRow.exists
  /\ cardQuery.pc = "read" /\ cardRow.exists => cardQuery.reply.shown
  /\ cardQuery.pc = "read" /\ cardQuery.reply.shown /\ ~cardRow.exists =>
       \E t \in Timers : timers[t].pc = "done"

\* One press at a time, which has read the heart as the server has it; a reply that was
\* read between two presses has it, too.
HeartAccounts ==
  /\ \A m, n \in Card!Pending : m = n
  /\ cardQuery.pc = "read" => \A m \in Mutations : cardLikes[m].pc # "sent"
  /\ cardRow.exists =>
       /\ (\A m \in Mutations : cardLikes[m].pc # "sent") => cardCache.liked = cardRow.liked
       /\ \A m \in Mutations : cardLikes[m].pc = "sent" =>
            cardCache.liked = cardLikes[m].like /\ cardLikes[m].prev.liked = cardRow.liked
       /\ cardQuery.pc = "read" => cardQuery.reply.liked = cardRow.liked

CardInv ==
  /\ Card!TypeOK
  /\ CardPages
  /\ Undoable
  /\ cardSlips = {} => ShownForAReason /\ HeartAccounts

\* Each variable of the card stays of its type.
LEMMA CardTypes ==
  ASSUME Card!TypeOK, [Card!Next]_(Card!vars)
  PROVE  Card!TypeOK'
<1>1. ASSUME NEW m \in Mutations, Card!Toggle(m) PROVE Card!TypeOK'
  BY <1>1 DEF Card!Toggle, Card!Act, Card!Slip, Card!NoQuery, Card!Pending, Card!TypeOK, Card!Page
<1>2. ASSUME NEW m \in Mutations, Card!LikeHandled(m) PROVE Card!TypeOK'
  BY <1>2 DEF Card!LikeHandled, Card!TypeOK, Card!Page
<1>3. ASSUME NEW m \in Mutations, Card!LikeAnswered(m) PROVE Card!TypeOK'
  BY <1>3 DEF Card!LikeAnswered, Card!NoLike, Card!TypeOK, Card!Page
<1>4. ASSUME NEW m \in Mutations, Card!LikeFails(m) PROVE Card!TypeOK'
  BY <1>4 DEF Card!LikeFails, Card!Act, Card!NoLike, Card!TypeOK, Card!Page
<1>5. ASSUME NEW t \in Timers, Card!DeleteClick(t) PROVE Card!TypeOK'
  BY <1>5 DEF Card!DeleteClick, Card!Act, Card!TypeOK, Card!Page
<1>6. ASSUME NEW t \in Timers, Card!Undo(t) PROVE Card!TypeOK'
  BY <1>6 DEF Card!Undo, Card!Act, Card!NoTimer, Card!Slip, Card!Stale, Card!TypeOK, Card!Page
<1>7. ASSUME NEW t \in Timers, Card!UndoLate(t) PROVE Card!TypeOK'
  BY <1>7 DEF Card!UndoLate, Card!Act, Card!Slip, Card!Stale, Card!TypeOK, Card!Page
<1>8. ASSUME NEW t \in Timers, Card!TimerFires(t) PROVE Card!TypeOK'
  BY <1>8 DEF Card!TimerFires, Card!TypeOK, Card!Page
<1>9. ASSUME NEW t \in Timers, Card!DeleteHandled(t) PROVE Card!TypeOK'
  BY <1>9 DEF Card!DeleteHandled, Card!TypeOK, Card!Page
<1>10. ASSUME NEW t \in Timers, Card!DeleteAnswered(t) PROVE Card!TypeOK'
  BY <1>10 DEF Card!DeleteAnswered, Card!NoTimer, Card!NoQuery, Card!TypeOK, Card!Page
<1>11. ASSUME NEW t \in Timers, Card!DeleteFails(t) PROVE Card!TypeOK'
  BY <1>11 DEF Card!DeleteFails, Card!Act, Card!NoTimer, Card!Stale, Card!TypeOK, Card!Page
<1>12. ASSUME Card!Refetch PROVE Card!TypeOK'
  BY <1>12 DEF Card!Refetch, Card!Act, Card!NoQuery, Card!TypeOK, Card!Page
<1>13. ASSUME Card!QueryRead PROVE Card!TypeOK'
  BY <1>13 DEF Card!QueryRead, Card!Slip, Card!TypeOK, Card!Page
<1>14. ASSUME Card!QueryArrives PROVE Card!TypeOK'
  BY <1>14 DEF Card!QueryArrives, Card!NoQuery, Card!TypeOK, Card!Page
<1>15. ASSUME Card!QueryFails PROVE Card!TypeOK'
  BY <1>15 DEF Card!QueryFails, Card!Act, Card!NoQuery, Card!Slip, Card!TypeOK, Card!Page
<1>16. ASSUME Card!Reload PROVE Card!TypeOK'
  BY <1>16
     DEF Card!Reload, Card!Act, Card!NoTimer, Card!NoQuery, Card!Slip, Card!Pending, Card!TypeOK,
         Card!Page
<1>17. ASSUME UNCHANGED Card!vars PROVE Card!TypeOK'
  BY <1>17 DEF Card!vars, Card!Pending, Card!TypeOK, Card!Page
<1>q. QED
  BY <1>1, <1>2, <1>3, <1>4, <1>5, <1>6, <1>7, <1>8, <1>9, <1>10, <1>11, <1>12, <1>13, <1>14,
     <1>15, <1>16, <1>17
     DEF Card!Next

\* Every step keeps CardPages.
LEMMA CardPagesStay ==
  ASSUME Card!TypeOK, CardPages, [Card!Next]_(Card!vars)
  PROVE  CardPages'
<1>1. ASSUME NEW m \in Mutations, Card!Toggle(m) PROVE CardPages'
  BY <1>1
     DEF Card!Toggle, Card!Act, Card!Slip, Card!NoQuery, Card!Pending, CardPages, Card!TypeOK,
         Card!Page
<1>2. ASSUME NEW m \in Mutations, Card!LikeHandled(m) PROVE CardPages'
  BY <1>2 DEF Card!LikeHandled, CardPages, Card!TypeOK, Card!Page
<1>3. ASSUME NEW m \in Mutations, Card!LikeAnswered(m) PROVE CardPages'
  BY <1>3 DEF Card!LikeAnswered, Card!NoLike, CardPages, Card!TypeOK, Card!Page
<1>4. ASSUME NEW m \in Mutations, Card!LikeFails(m) PROVE CardPages'
  BY <1>4 DEF Card!LikeFails, Card!Act, Card!NoLike, CardPages, Card!TypeOK, Card!Page
<1>5. ASSUME NEW t \in Timers, Card!DeleteClick(t) PROVE CardPages'
  BY <1>5 DEF Card!DeleteClick, Card!Act, CardPages, Card!TypeOK, Card!Page
<1>6. ASSUME NEW t \in Timers, Card!Undo(t) PROVE CardPages'
  BY <1>6
     DEF Card!Undo, Card!Act, Card!NoTimer, Card!Slip, Card!Stale, CardPages, Card!TypeOK, Card!Page
<1>7. ASSUME NEW t \in Timers, Card!UndoLate(t) PROVE CardPages'
  BY <1>7 DEF Card!UndoLate, Card!Act, Card!Slip, Card!Stale, CardPages, Card!TypeOK, Card!Page
<1>8. ASSUME NEW t \in Timers, Card!TimerFires(t) PROVE CardPages'
  BY <1>8 DEF Card!TimerFires, CardPages, Card!TypeOK, Card!Page
<1>9. ASSUME NEW t \in Timers, Card!DeleteHandled(t) PROVE CardPages'
  BY <1>9 DEF Card!DeleteHandled, CardPages, Card!TypeOK, Card!Page
<1>10. ASSUME NEW t \in Timers, Card!DeleteAnswered(t) PROVE CardPages'
  BY <1>10 DEF Card!DeleteAnswered, Card!NoTimer, Card!NoQuery, CardPages, Card!TypeOK, Card!Page
<1>11. ASSUME NEW t \in Timers, Card!DeleteFails(t) PROVE CardPages'
  BY <1>11
     DEF Card!DeleteFails, Card!Act, Card!NoTimer, Card!Stale, CardPages, Card!TypeOK, Card!Page
<1>12. ASSUME Card!Refetch PROVE CardPages'
  BY <1>12 DEF Card!Refetch, Card!Act, Card!NoQuery, CardPages, Card!TypeOK, Card!Page
<1>13. ASSUME Card!QueryRead PROVE CardPages'
  BY <1>13 DEF Card!QueryRead, Card!Slip, CardPages, Card!TypeOK, Card!Page
<1>14. ASSUME Card!QueryArrives PROVE CardPages'
  BY <1>14 DEF Card!QueryArrives, Card!NoQuery, CardPages, Card!TypeOK, Card!Page
<1>15. ASSUME Card!QueryFails PROVE CardPages'
  BY <1>15 DEF Card!QueryFails, Card!Act, Card!NoQuery, Card!Slip, CardPages, Card!TypeOK, Card!Page
<1>16. ASSUME Card!Reload PROVE CardPages'
  BY <1>16
     DEF Card!Reload, Card!Act, Card!NoTimer, Card!NoQuery, Card!Slip, Card!Pending, CardPages,
         Card!TypeOK, Card!Page
<1>17. ASSUME UNCHANGED Card!vars PROVE CardPages'
  BY <1>17 DEF Card!vars, Card!Pending, CardPages, Card!TypeOK, Card!Page
<1>q. QED
  BY <1>1, <1>2, <1>3, <1>4, <1>5, <1>6, <1>7, <1>8, <1>9, <1>10, <1>11, <1>12, <1>13, <1>14,
     <1>15, <1>16, <1>17
     DEF Card!Next

\* Every step keeps Undoable.
LEMMA UndoableStays ==
  ASSUME Card!TypeOK, Undoable, [Card!Next]_(Card!vars)
  PROVE  Undoable'
<1>1. ASSUME NEW m \in Mutations, Card!Toggle(m) PROVE Undoable'
  BY <1>1
     DEF Card!Toggle, Card!Act, Card!Slip, Card!NoQuery, Card!Pending, Undoable, Card!TypeOK,
         Card!Page
<1>2. ASSUME NEW m \in Mutations, Card!LikeHandled(m) PROVE Undoable'
  BY <1>2 DEF Card!LikeHandled, Undoable, Card!TypeOK, Card!Page
<1>3. ASSUME NEW m \in Mutations, Card!LikeAnswered(m) PROVE Undoable'
  BY <1>3 DEF Card!LikeAnswered, Card!NoLike, Undoable, Card!TypeOK, Card!Page
<1>4. ASSUME NEW m \in Mutations, Card!LikeFails(m) PROVE Undoable'
  BY <1>4 DEF Card!LikeFails, Card!Act, Card!NoLike, Undoable, Card!TypeOK, Card!Page
<1>5. ASSUME NEW t \in Timers, Card!DeleteClick(t) PROVE Undoable'
  BY <1>5 DEF Card!DeleteClick, Card!Act, Undoable, Card!TypeOK, Card!Page
<1>6. ASSUME NEW t \in Timers, Card!Undo(t) PROVE Undoable'
  BY <1>6
     DEF Card!Undo, Card!Act, Card!NoTimer, Card!Slip, Card!Stale, Undoable, Card!TypeOK, Card!Page
<1>7. ASSUME NEW t \in Timers, Card!UndoLate(t) PROVE Undoable'
  BY <1>7 DEF Card!UndoLate, Card!Act, Card!Slip, Card!Stale, Undoable, Card!TypeOK, Card!Page
<1>8. ASSUME NEW t \in Timers, Card!TimerFires(t) PROVE Undoable'
  BY <1>8 DEF Card!TimerFires, Undoable, Card!TypeOK, Card!Page
<1>9. ASSUME NEW t \in Timers, Card!DeleteHandled(t) PROVE Undoable'
  BY <1>9 DEF Card!DeleteHandled, Undoable, Card!TypeOK, Card!Page
<1>10. ASSUME NEW t \in Timers, Card!DeleteAnswered(t) PROVE Undoable'
  BY <1>10 DEF Card!DeleteAnswered, Card!NoTimer, Card!NoQuery, Undoable, Card!TypeOK, Card!Page
<1>11. ASSUME NEW t \in Timers, Card!DeleteFails(t) PROVE Undoable'
  BY <1>11
     DEF Card!DeleteFails, Card!Act, Card!NoTimer, Card!Stale, Undoable, Card!TypeOK, Card!Page
<1>12. ASSUME Card!Refetch PROVE Undoable'
  BY <1>12 DEF Card!Refetch, Card!Act, Card!NoQuery, Undoable, Card!TypeOK, Card!Page
<1>13. ASSUME Card!QueryRead PROVE Undoable'
  BY <1>13 DEF Card!QueryRead, Card!Slip, Undoable, Card!TypeOK, Card!Page
<1>14. ASSUME Card!QueryArrives PROVE Undoable'
  BY <1>14 DEF Card!QueryArrives, Card!NoQuery, Undoable, Card!TypeOK, Card!Page
<1>15. ASSUME Card!QueryFails PROVE Undoable'
  BY <1>15 DEF Card!QueryFails, Card!Act, Card!NoQuery, Card!Slip, Undoable, Card!TypeOK, Card!Page
<1>16. ASSUME Card!Reload PROVE Undoable'
  BY <1>16
     DEF Card!Reload, Card!Act, Card!NoTimer, Card!NoQuery, Card!Slip, Card!Pending, Undoable,
         Card!TypeOK, Card!Page
<1>17. ASSUME UNCHANGED Card!vars PROVE Undoable'
  BY <1>17 DEF Card!vars, Card!Pending, Undoable, Card!TypeOK, Card!Page
<1>q. QED
  BY <1>1, <1>2, <1>3, <1>4, <1>5, <1>6, <1>7, <1>8, <1>9, <1>10, <1>11, <1>12, <1>13, <1>14,
     <1>15, <1>16, <1>17
     DEF Card!Next

\* Every step keeps ShownForAReason.
LEMMA ShownStays ==
  ASSUME Card!TypeOK, CardPages, cardSlips = {} => ShownForAReason, cardSlips' = {}, [Card!Next]_(Card!vars)
  PROVE  ShownForAReason'
<1>1. ASSUME NEW m \in Mutations, Card!Toggle(m) PROVE ShownForAReason'
  BY <1>1
     DEF Card!Toggle, Card!Act, Card!Slip, Card!NoQuery, Card!Pending, ShownForAReason, CardPages,
         Card!TypeOK, Card!Page
<1>2. ASSUME NEW m \in Mutations, Card!LikeHandled(m) PROVE ShownForAReason'
  BY <1>2 DEF Card!LikeHandled, ShownForAReason, CardPages, Card!TypeOK, Card!Page
<1>3. ASSUME NEW m \in Mutations, Card!LikeAnswered(m) PROVE ShownForAReason'
  BY <1>3 DEF Card!LikeAnswered, Card!NoLike, ShownForAReason, CardPages, Card!TypeOK, Card!Page
<1>4. ASSUME NEW m \in Mutations, Card!LikeFails(m) PROVE ShownForAReason'
  BY <1>4
     DEF Card!LikeFails, Card!Act, Card!NoLike, ShownForAReason, CardPages, Card!TypeOK, Card!Page
<1>5. ASSUME NEW t \in Timers, Card!DeleteClick(t) PROVE ShownForAReason'
  BY <1>5 DEF Card!DeleteClick, Card!Act, ShownForAReason, CardPages, Card!TypeOK, Card!Page
<1>6. ASSUME NEW t \in Timers, Card!Undo(t) PROVE ShownForAReason'
  BY <1>6
     DEF Card!Undo, Card!Act, Card!NoTimer, Card!Slip, Card!Stale, ShownForAReason, CardPages,
         Card!TypeOK, Card!Page
<1>7. ASSUME NEW t \in Timers, Card!UndoLate(t) PROVE ShownForAReason'
  BY <1>7
     DEF Card!UndoLate, Card!Act, Card!Slip, Card!Stale, ShownForAReason, CardPages, Card!TypeOK,
         Card!Page
<1>8. ASSUME NEW t \in Timers, Card!TimerFires(t) PROVE ShownForAReason'
  BY <1>8 DEF Card!TimerFires, ShownForAReason, CardPages, Card!TypeOK, Card!Page
<1>9. ASSUME NEW t \in Timers, Card!DeleteHandled(t) PROVE ShownForAReason'
  BY <1>9 DEF Card!DeleteHandled, ShownForAReason, CardPages, Card!TypeOK, Card!Page
<1>10. ASSUME NEW t \in Timers, Card!DeleteAnswered(t) PROVE ShownForAReason'
  BY <1>10
     DEF Card!DeleteAnswered, Card!NoTimer, Card!NoQuery, ShownForAReason, CardPages, Card!TypeOK,
         Card!Page
<1>11. ASSUME NEW t \in Timers, Card!DeleteFails(t) PROVE ShownForAReason'
  BY <1>11
     DEF Card!DeleteFails, Card!Act, Card!NoTimer, Card!Stale, ShownForAReason, CardPages,
         Card!TypeOK, Card!Page
<1>12. ASSUME Card!Refetch PROVE ShownForAReason'
  BY <1>12
     DEF Card!Refetch, Card!Act, Card!NoQuery, ShownForAReason, CardPages, Card!TypeOK, Card!Page
<1>13. ASSUME Card!QueryRead PROVE ShownForAReason'
  BY <1>13 DEF Card!QueryRead, Card!Slip, ShownForAReason, CardPages, Card!TypeOK, Card!Page
<1>14. ASSUME Card!QueryArrives PROVE ShownForAReason'
  BY <1>14 DEF Card!QueryArrives, Card!NoQuery, ShownForAReason, CardPages, Card!TypeOK, Card!Page
<1>15. ASSUME Card!QueryFails PROVE ShownForAReason'
  BY <1>15
     DEF Card!QueryFails, Card!Act, Card!NoQuery, Card!Slip, ShownForAReason, CardPages,
         Card!TypeOK, Card!Page
<1>16. ASSUME Card!Reload PROVE ShownForAReason'
  BY <1>16
     DEF Card!Reload, Card!Act, Card!NoTimer, Card!NoQuery, Card!Slip, Card!Pending,
         ShownForAReason, CardPages, Card!TypeOK, Card!Page
<1>17. ASSUME UNCHANGED Card!vars PROVE ShownForAReason'
  BY <1>17 DEF Card!vars, Card!Pending, ShownForAReason, CardPages, Card!TypeOK, Card!Page
<1>q. QED
  BY <1>1, <1>2, <1>3, <1>4, <1>5, <1>6, <1>7, <1>8, <1>9, <1>10, <1>11, <1>12, <1>13, <1>14,
     <1>15, <1>16, <1>17
     DEF Card!Next

\* Every step keeps what is known of the heart.
LEMMA HeartStays ==
  ASSUME Card!TypeOK, cardSlips = {} => HeartAccounts, cardSlips' = {}, [Card!Next]_(Card!vars)
  PROVE  HeartAccounts'
<1>1. ASSUME NEW m \in Mutations, Card!Toggle(m) PROVE HeartAccounts'
  BY <1>1
     DEF Card!Toggle, Card!Act, Card!Slip, Card!NoQuery, Card!Pending, HeartAccounts, Card!Pending,
         Card!TypeOK, Card!Page
<1>2. ASSUME NEW m \in Mutations, Card!LikeHandled(m) PROVE HeartAccounts'
  BY <1>2 DEF Card!LikeHandled, HeartAccounts, Card!Pending, Card!TypeOK, Card!Page
<1>3. ASSUME NEW m \in Mutations, Card!LikeAnswered(m) PROVE HeartAccounts'
  <2>1. /\ \A n \in Mutations : n # m => cardLikes'[n] = cardLikes[n]
        /\ cardLikes'[m].pc = "idle"
        /\ cardLikes[m].pc = "done"
        /\ UNCHANGED <<cardRow, cardCache, cardQuery>> /\ cardSlips = {}
    BY <1>3 DEF Card!LikeAnswered, Card!NoLike, Card!TypeOK
  <2>2. \A n \in Mutations : cardLikes[n].pc # "sent"
    BY <2>1 DEF HeartAccounts, Card!Pending
  <2>3. \A n \in Mutations : cardLikes'[n].pc # "sent"
    BY <2>1, <2>2
  <2>4. \A n \in Card!Pending' : n \in Card!Pending
    BY <2>1 DEF Card!Pending
  <2>5. QED
    BY <2>1, <2>2, <2>3, <2>4 DEF HeartAccounts
<1>4. ASSUME NEW m \in Mutations, Card!LikeFails(m) PROVE HeartAccounts'
  <2>1. /\ \A n \in Mutations : n # m => cardLikes'[n] = cardLikes[n]
        /\ cardLikes'[m].pc = "idle"
        /\ cardLikes[m].pc = "sent" /\ cardRow.exists
        /\ cardCache' = cardLikes[m].prev
        /\ UNCHANGED <<cardRow, cardQuery>> /\ cardSlips = {}
    BY <1>4 DEF Card!LikeFails, Card!NoLike, Card!TypeOK
  <2>2. \A n \in Mutations : n # m => cardLikes[n].pc = "idle"
    BY <2>1 DEF HeartAccounts, Card!Pending
  <2>3. \A n \in Mutations : cardLikes'[n].pc = "idle"
    BY <2>1, <2>2
  <2>4. \A n \in Card!Pending' : n \in Card!Pending
    BY <2>1 DEF Card!Pending
  <2>5. cardLikes[m].prev.liked = cardRow.liked
    BY <2>1 DEF HeartAccounts
  <2>6. QED
    BY <2>1, <2>3, <2>4, <2>5 DEF HeartAccounts
<1>5. ASSUME NEW t \in Timers, Card!DeleteClick(t) PROVE HeartAccounts'
  BY <1>5 DEF Card!DeleteClick, Card!Act, HeartAccounts, Card!Pending, Card!TypeOK, Card!Page
<1>6. ASSUME NEW t \in Timers, Card!Undo(t) PROVE HeartAccounts'
  BY <1>6
     DEF Card!Undo, Card!Act, Card!NoTimer, Card!Slip, Card!Stale, HeartAccounts, Card!Pending,
         Card!TypeOK, Card!Page
<1>7. ASSUME NEW t \in Timers, Card!UndoLate(t) PROVE HeartAccounts'
  BY <1>7
     DEF Card!UndoLate, Card!Act, Card!Slip, Card!Stale, HeartAccounts, Card!Pending, Card!TypeOK,
         Card!Page
<1>8. ASSUME NEW t \in Timers, Card!TimerFires(t) PROVE HeartAccounts'
  BY <1>8 DEF Card!TimerFires, HeartAccounts, Card!Pending, Card!TypeOK, Card!Page
<1>9. ASSUME NEW t \in Timers, Card!DeleteHandled(t) PROVE HeartAccounts'
  BY <1>9 DEF Card!DeleteHandled, HeartAccounts, Card!Pending, Card!TypeOK, Card!Page
<1>10. ASSUME NEW t \in Timers, Card!DeleteAnswered(t) PROVE HeartAccounts'
  BY <1>10
     DEF Card!DeleteAnswered, Card!NoTimer, Card!NoQuery, HeartAccounts, Card!Pending, Card!TypeOK,
         Card!Page
<1>11. ASSUME NEW t \in Timers, Card!DeleteFails(t) PROVE HeartAccounts'
  BY <1>11
     DEF Card!DeleteFails, Card!Act, Card!NoTimer, Card!Stale, HeartAccounts, Card!Pending,
         Card!TypeOK, Card!Page
<1>12. ASSUME Card!Refetch PROVE HeartAccounts'
  BY <1>12
     DEF Card!Refetch, Card!Act, Card!NoQuery, HeartAccounts, Card!Pending, Card!TypeOK, Card!Page
<1>13. ASSUME Card!QueryRead PROVE HeartAccounts'
  BY <1>13 DEF Card!QueryRead, Card!Slip, HeartAccounts, Card!Pending, Card!TypeOK, Card!Page
<1>14. ASSUME Card!QueryArrives PROVE HeartAccounts'
  BY <1>14 DEF Card!QueryArrives, Card!NoQuery, HeartAccounts, Card!Pending, Card!TypeOK, Card!Page
<1>15. ASSUME Card!QueryFails PROVE HeartAccounts'
  BY <1>15
     DEF Card!QueryFails, Card!Act, Card!NoQuery, Card!Slip, HeartAccounts, Card!Pending,
         Card!TypeOK, Card!Page
<1>16. ASSUME Card!Reload PROVE HeartAccounts'
  BY <1>16
     DEF Card!Reload, Card!Act, Card!NoTimer, Card!NoQuery, Card!Slip, Card!Pending, HeartAccounts,
         Card!Pending, Card!TypeOK, Card!Page
<1>17. ASSUME UNCHANGED Card!vars PROVE HeartAccounts'
  BY <1>17 DEF Card!vars, Card!Pending, HeartAccounts, Card!Pending, Card!TypeOK, Card!Page
<1>q. QED
  BY <1>1, <1>2, <1>3, <1>4, <1>5, <1>6, <1>7, <1>8, <1>9, <1>10, <1>11, <1>12, <1>13, <1>14,
     <1>15, <1>16, <1>17
     DEF Card!Next

\* Every step keeps the invariant of the card.
LEMMA CardInductive ==
  ASSUME CardInv, [Card!Next]_(Card!vars)
  PROVE  CardInv'
<1>1. cardSlips' = {} => cardSlips = {}
  BY DEF Card!Next, Card!vars, Card!Toggle, Card!LikeHandled, Card!LikeAnswered, Card!LikeFails,
     Card!DeleteClick, Card!Undo, Card!UndoLate, Card!TimerFires, Card!DeleteHandled,
     Card!DeleteAnswered, Card!DeleteFails, Card!Refetch, Card!QueryRead, Card!QueryArrives,
     Card!QueryFails, Card!Reload, Card!Slip
<1>2. Card!TypeOK' /\ CardPages' /\ Undoable'
  BY CardTypes, CardPagesStay, UndoableStays DEF CardInv
<1>3. cardSlips' = {} => ShownForAReason' /\ HeartAccounts'
  BY <1>1, ShownStays, HeartStays DEF CardInv
<1>4. QED
  BY <1>2, <1>3 DEF CardInv

\* The invariant of the card holds to begin with.
LEMMA CardInitially == Card!Init => CardInv
<1> SUFFICES ASSUME Card!Init PROVE CardInv
  OBVIOUS
<1>1. Card!TypeOK
  BY DEF Card!Init, Card!TypeOK, Card!Page, Card!NoLike, Card!NoTimer, Card!NoQuery
<1>2. /\ \A m \in Mutations : cardLikes[m].pc = "idle"
      /\ \A t \in Timers : timers[t].pc = "idle"
      /\ cardQuery.pc = "idle" /\ undone = FALSE
      /\ cardRow.exists /\ cardCache.shown /\ cardCache.liked = cardRow.liked
  BY DEF Card!Init, Card!NoLike, Card!NoTimer, Card!NoQuery
<1>3. QED
  BY <1>1, <1>2 DEF CardInv, CardPages, Undoable, ShownForAReason, HeartAccounts, Card!Pending

\* The properties of the card follow from its invariant.
LEMMA CardShowsIt == CardInv => Card!CardTellsTruth /\ Card!UndoneIsKept
<1> SUFFICES ASSUME CardInv PROVE Card!CardTellsTruth /\ Card!UndoneIsKept
  OBVIOUS
<1>1. Card!UndoneIsKept
  BY DEF CardInv, Undoable, Card!UndoneIsKept
<1>2. ASSUME Card!AtRest, cardSlips = {}
      PROVE  (cardCache.shown <=> cardRow.exists) /\ (cardRow.exists => cardCache.liked = cardRow.liked)
  BY <1>2 DEF CardInv, ShownForAReason, HeartAccounts, Card!AtRest, Card!Pending
<1>3. QED
  BY <1>1, <1>2 DEF Card!CardTellsTruth

-----------------------------------------------------------------------------
(* The page of a profile *)

\* TypeOK of ProfilePage and the form of what is on its way.
LooksTypes ==
  /\ Looks!TypeOK
  /\ press \in [pc : {"idle", "sent", "unfollowed", "done"}, sure : BOOLEAN,
                said : {"nothing", "following", "requested", "follow"}]
  /\ fetch \in [pc : {"idle", "asked", "allowed", "read"}, part : Looks!Parts,
                reply : SUBSET Trips, sure : BOOLEAN]
  /\ looksQuery.pc = "read" =>
       looksQuery.reply \in [private : BOOLEAN, follows : BOOLEAN, requested : BOOLEAN]

\* Unless something changed behind its back, the page that is not waiting for an answer
\* knows the tie, or a reply that does is on its way, or will be asked for.
TieIsKnown ==
  "tie" \notin stale /\ press.pc \in {"idle", "sent"} =>
    /\ looksQuery.pc = "idle" => looksPage = Looks!Profile
    /\ looksQuery.pc = "read" => looksQuery.reply = Looks!Profile

\* What was pressed or opened on the ground of a tie that was known, and has not changed.
AskedForAReason ==
  /\ press.pc = "sent" /\ press.said = "requested" /\ press.sure => ~tie.follows
  /\ fetch.pc = "asked" /\ fetch.sure => Looks!Visible
  /\ looksSlips = {}

\* A part that has not changed since it was read is, on its way or on the page, what the
\* server would answer; of dates, no more than that.
Fresh(p, trips) ==
  /\ p \in Looks!Lists => trips = Looks!Reply(p)
  /\ p \in Looks!Dates => \A t \in trips : Looks!DatesShown(t)

PartsAreFresh ==
  /\ fetch.pc = "read" /\ fetch.part \notin stale => Fresh(fetch.part, fetch.reply)
  /\ \A p \in DOMAIN seen : p \notin stale /\ ~(fetch.pc = "read" /\ fetch.part = p) =>
       Fresh(p, seen[p])

LooksInv == LooksTypes /\ TieIsKnown /\ AskedForAReason /\ PartsAreFresh

\* What a part tells of is trips.
LEMMA RepliesAreTrips ==
  ASSUME host.public \subseteq Trips, NEW p \in Looks!Parts
  PROVE  Looks!Reply(p) \in SUBSET Trips
BY DEF Looks!Parts, Looks!Lists, Looks!Dates, Looks!Reply, Looks!Itineraries, Looks!Mine,
  Looks!OnTheMap, Looks!Counted, Looks!Dated, Looks!CheckedIn

\* Each variable of the profile stays of its type.
LEMMA LooksTypesStay ==
  ASSUME LooksTypes, [Looks!Next]_(Looks!vars)
  PROVE  LooksTypes'
<1>1. ASSUME Looks!Press PROVE LooksTypes'
  BY <1>1
     DEF Looks!Press, Looks!Act, Looks!Sure, LooksTypes, Looks!TypeOK, Looks!Parts, Looks!Lists,
         Looks!Dates, Looks!Profile
<1>2. ASSUME Looks!Follow PROVE LooksTypes'
  BY <1>2
     DEF Looks!Follow, Looks!Unsure, LooksTypes, Looks!TypeOK, Looks!Parts, Looks!Lists,
         Looks!Dates, Looks!Profile
<1>3. ASSUME Looks!Unfollow PROVE LooksTypes'
  BY <1>3
     DEF Looks!Unfollow, Looks!Unsure, Looks!Dates, LooksTypes, Looks!TypeOK, Looks!Parts,
         Looks!Lists, Looks!Profile
<1>4. ASSUME Looks!Withdraw PROVE LooksTypes'
  <2>1. tie' \in [follows : BOOLEAN, requested : BOOLEAN]
    BY <1>4 DEF Looks!Withdraw, LooksTypes, Looks!TypeOK
  <2>2. press' \in [pc : {"idle", "sent", "unfollowed", "done"}, sure : BOOLEAN,
                 said : {"nothing", "following", "requested", "follow"}]
    BY <1>4 DEF Looks!Withdraw, LooksTypes
  <2>3. QED
    BY <1>4, <2>1, <2>2 DEF Looks!Withdraw, LooksTypes, Looks!TypeOK
<1>5. ASSUME Looks!Answered PROVE LooksTypes'
  BY <1>5
     DEF Looks!Answered, Looks!NoPress, Looks!Asked, Looks!NoQuery, LooksTypes, Looks!TypeOK,
         Looks!Parts, Looks!Lists, Looks!Dates, Looks!Profile
<1>6. ASSUME Looks!PressFails PROVE LooksTypes'
  BY <1>6
     DEF Looks!PressFails, Looks!Act, Looks!NoPress, LooksTypes, Looks!TypeOK, Looks!Parts,
         Looks!Lists, Looks!Dates, Looks!Profile
<1>7. ASSUME Looks!Revisit PROVE LooksTypes'
  BY <1>7
     DEF Looks!Revisit, Looks!Act, Looks!Asked, Looks!NoQuery, LooksTypes, Looks!TypeOK,
         Looks!Parts, Looks!Lists, Looks!Dates, Looks!Profile
<1>8. ASSUME Looks!QueryRead PROVE LooksTypes'
  BY <1>8
     DEF Looks!QueryRead, LooksTypes, Looks!TypeOK, Looks!Parts, Looks!Lists, Looks!Dates,
         Looks!Profile
<1>9. ASSUME Looks!QueryArrives PROVE LooksTypes'
  BY <1>9
     DEF Looks!QueryArrives, Looks!NoQuery, LooksTypes, Looks!TypeOK, Looks!Parts, Looks!Lists,
         Looks!Dates, Looks!Profile
<1>10. ASSUME Looks!QueryFails PROVE LooksTypes'
  BY <1>10
     DEF Looks!QueryFails, Looks!Act, Looks!NoQuery, LooksTypes, Looks!TypeOK, Looks!Parts,
         Looks!Lists, Looks!Dates, Looks!Profile
<1>11. ASSUME NEW p \in Looks!Parts, Looks!Open(p) PROVE LooksTypes'
  <2>1. fetch' \in [pc : {"idle", "asked", "allowed", "read"}, part : Looks!Parts,
                 reply : SUBSET Trips, sure : BOOLEAN]
    BY <1>11 DEF Looks!Open, Looks!NoFetch, Looks!Sure
  <2>2. QED
    BY <1>11, <2>1 DEF Looks!Open, LooksTypes, Looks!TypeOK
<1>12. ASSUME Looks!Refused PROVE LooksTypes'
  BY <1>12
     DEF Looks!Refused, Looks!NoFetch, LooksTypes, Looks!TypeOK, Looks!Parts, Looks!Lists,
         Looks!Dates, Looks!Profile
<1>13. ASSUME Looks!Allowed PROVE LooksTypes'
  BY <1>13
     DEF Looks!Allowed, LooksTypes, Looks!TypeOK, Looks!Parts, Looks!Lists, Looks!Dates,
         Looks!Profile
<1>14. ASSUME Looks!PartRead PROVE LooksTypes'
  <2>1. Looks!Reply(fetch.part) \in SUBSET Trips
    BY RepliesAreTrips DEF LooksTypes, Looks!TypeOK
  <2>2. fetch' \in [pc : {"idle", "asked", "allowed", "read"}, part : Looks!Parts,
                 reply : SUBSET Trips, sure : BOOLEAN]
    BY <1>14, <2>1 DEF Looks!PartRead, LooksTypes
  <2>3. stale' \subseteq Looks!Parts \cup {"tie"}
    BY <1>14 DEF Looks!PartRead, LooksTypes, Looks!TypeOK
  <2>4. QED
    BY <1>14, <2>2, <2>3 DEF Looks!PartRead, LooksTypes, Looks!TypeOK
<1>15. ASSUME Looks!PartArrives PROVE LooksTypes'
  BY <1>15
     DEF Looks!PartArrives, Looks!NoFetch, LooksTypes, Looks!TypeOK, Looks!Parts, Looks!Lists,
         Looks!Dates, Looks!Profile
<1>16. ASSUME Looks!PartFails PROVE LooksTypes'
  <2>1. fetch' \in [pc : {"idle", "asked", "allowed", "read"}, part : Looks!Parts,
                 reply : SUBSET Trips, sure : BOOLEAN]
    BY <1>16 DEF Looks!PartFails, Looks!NoFetch, Looks!Parts, Looks!Dates
  <2>2. stale' \subseteq Looks!Parts \cup {"tie"}
    BY <1>16 DEF Looks!PartFails, LooksTypes, Looks!TypeOK
  <2>3. QED
    BY <1>16, <2>1, <2>2 DEF Looks!PartFails, LooksTypes, Looks!TypeOK
<1>17. ASSUME Looks!Answer PROVE LooksTypes'
  <2>1. tie' \in [follows : BOOLEAN, requested : BOOLEAN]
    BY <1>17 DEF Looks!Answer, LooksTypes, Looks!TypeOK
  <2>2. fetch' \in [pc : {"idle", "asked", "allowed", "read"}, part : Looks!Parts,
                 reply : SUBSET Trips, sure : BOOLEAN]
    BY <1>17 DEF Looks!Answer, Looks!Unsure, LooksTypes
  <2>3. press' \in [pc : {"idle", "sent", "unfollowed", "done"}, sure : BOOLEAN,
                 said : {"nothing", "following", "requested", "follow"}]
    BY <1>17 DEF Looks!Answer, LooksTypes
  <2>4. stale' \subseteq Looks!Parts \cup {"tie"}
    BY <1>17 DEF Looks!Answer, LooksTypes, Looks!TypeOK
  <2>5. QED
    BY <1>17, <2>1, <2>2, <2>3, <2>4 DEF Looks!Answer, LooksTypes, Looks!TypeOK
<1>18. ASSUME Looks!Settings PROVE LooksTypes'
  <2>1. host' \in [private : BOOLEAN, shares : BOOLEAN, public : SUBSET Trips]
    BY <1>18 DEF Looks!Settings, LooksTypes, Looks!TypeOK
  <2>2. fetch' \in [pc : {"idle", "asked", "allowed", "read"}, part : Looks!Parts,
                 reply : SUBSET Trips, sure : BOOLEAN]
    BY <1>18 DEF Looks!Settings, Looks!Unsure, LooksTypes
  <2>3. stale' \subseteq Looks!Parts \cup {"tie"}
    BY <1>18 DEF Looks!Settings, LooksTypes, Looks!TypeOK, Looks!Parts
  <2>4. QED
    BY <1>18, <2>1, <2>2, <2>3 DEF Looks!Settings, LooksTypes, Looks!TypeOK
<1>19. ASSUME NEW t \in Trips, Looks!Publish(t) PROVE LooksTypes'
  BY <1>19
     DEF Looks!Publish, Looks!Act, Looks!Lists, LooksTypes, Looks!TypeOK, Looks!Parts, Looks!Dates,
         Looks!Profile
<1>20. ASSUME UNCHANGED Looks!vars PROVE LooksTypes'
  BY <1>20
     DEF Looks!vars, LooksTypes, Looks!TypeOK, Looks!Parts, Looks!Lists, Looks!Dates, Looks!Profile
<1>q. QED
  BY <1>1, <1>2, <1>3, <1>4, <1>5, <1>6, <1>7, <1>8, <1>9, <1>10, <1>11, <1>12, <1>13, <1>14,
     <1>15, <1>16, <1>17, <1>18, <1>19, <1>20
     DEF Looks!Next

\* Every step keeps what is known of the tie.
LEMMA TieStays ==
  ASSUME LooksTypes, TieIsKnown, [Looks!Next]_(Looks!vars)
  PROVE  TieIsKnown'
<1>1. ASSUME Looks!Press PROVE TieIsKnown'
  BY <1>1
     DEF Looks!Press, Looks!Act, Looks!Sure, TieIsKnown, Looks!Profile, LooksTypes, Looks!TypeOK,
         Looks!Lists, Looks!Dates
<1>2. ASSUME Looks!Follow PROVE TieIsKnown'
  BY <1>2
     DEF Looks!Follow, Looks!Unsure, TieIsKnown, Looks!Profile, LooksTypes, Looks!TypeOK,
         Looks!Lists, Looks!Dates
<1>3. ASSUME Looks!Unfollow PROVE TieIsKnown'
  BY <1>3
     DEF Looks!Unfollow, Looks!Unsure, Looks!Dates, TieIsKnown, Looks!Profile, LooksTypes,
         Looks!TypeOK, Looks!Lists
<1>4. ASSUME Looks!Withdraw PROVE TieIsKnown'
  BY <1>4
     DEF Looks!Withdraw, TieIsKnown, Looks!Profile, LooksTypes, Looks!TypeOK, Looks!Lists,
         Looks!Dates
<1>5. ASSUME Looks!Answered PROVE TieIsKnown'
  BY <1>5
     DEF Looks!Answered, Looks!NoPress, Looks!Asked, Looks!NoQuery, TieIsKnown, Looks!Profile,
         LooksTypes, Looks!TypeOK, Looks!Lists, Looks!Dates
<1>6. ASSUME Looks!PressFails PROVE TieIsKnown'
  BY <1>6
     DEF Looks!PressFails, Looks!Act, Looks!NoPress, TieIsKnown, Looks!Profile, LooksTypes,
         Looks!TypeOK, Looks!Lists, Looks!Dates
<1>7. ASSUME Looks!Revisit PROVE TieIsKnown'
  BY <1>7
     DEF Looks!Revisit, Looks!Act, Looks!Asked, Looks!NoQuery, TieIsKnown, Looks!Profile,
         LooksTypes, Looks!TypeOK, Looks!Lists, Looks!Dates
<1>8. ASSUME Looks!QueryRead PROVE TieIsKnown'
  BY <1>8
     DEF Looks!QueryRead, TieIsKnown, Looks!Profile, LooksTypes, Looks!TypeOK, Looks!Lists,
         Looks!Dates
<1>9. ASSUME Looks!QueryArrives PROVE TieIsKnown'
  BY <1>9
     DEF Looks!QueryArrives, Looks!NoQuery, TieIsKnown, Looks!Profile, LooksTypes, Looks!TypeOK,
         Looks!Lists, Looks!Dates
<1>10. ASSUME Looks!QueryFails PROVE TieIsKnown'
  BY <1>10
     DEF Looks!QueryFails, Looks!Act, Looks!NoQuery, TieIsKnown, Looks!Profile, LooksTypes,
         Looks!TypeOK, Looks!Lists, Looks!Dates
<1>11. ASSUME NEW p \in Looks!Parts, Looks!Open(p) PROVE TieIsKnown'
  BY <1>11
     DEF Looks!Open, Looks!Act, Looks!MaySee, Looks!NoFetch, Looks!Sure, TieIsKnown, Looks!Profile,
         LooksTypes, Looks!TypeOK, Looks!Lists, Looks!Dates
<1>12. ASSUME Looks!Refused PROVE TieIsKnown'
  BY <1>12
     DEF Looks!Refused, Looks!NoFetch, TieIsKnown, Looks!Profile, LooksTypes, Looks!TypeOK,
         Looks!Lists, Looks!Dates
<1>13. ASSUME Looks!Allowed PROVE TieIsKnown'
  BY <1>13
     DEF Looks!Allowed, TieIsKnown, Looks!Profile, LooksTypes, Looks!TypeOK, Looks!Lists,
         Looks!Dates
<1>14. ASSUME Looks!PartRead PROVE TieIsKnown'
  <2>1. fetch.part # "tie"
    BY DEF LooksTypes, Looks!Parts, Looks!Lists, Looks!Dates
  <2>2. QED
    BY <1>14, <2>1 DEF Looks!PartRead, TieIsKnown, Looks!Profile
<1>15. ASSUME Looks!PartArrives PROVE TieIsKnown'
  BY <1>15
     DEF Looks!PartArrives, Looks!NoFetch, TieIsKnown, Looks!Profile, LooksTypes, Looks!TypeOK,
         Looks!Lists, Looks!Dates
<1>16. ASSUME Looks!PartFails PROVE TieIsKnown'
  BY <1>16
     DEF Looks!PartFails, Looks!Act, Looks!NoFetch, TieIsKnown, Looks!Profile, LooksTypes,
         Looks!TypeOK, Looks!Lists, Looks!Dates
<1>17. ASSUME Looks!Answer PROVE TieIsKnown'
  BY <1>17
     DEF Looks!Answer, Looks!Act, Looks!Unsure, TieIsKnown, Looks!Profile, LooksTypes,
         Looks!TypeOK, Looks!Lists, Looks!Dates
<1>18. ASSUME Looks!Settings PROVE TieIsKnown'
  BY <1>18
     DEF Looks!Settings, Looks!Act, Looks!Unsure, Looks!Dates, TieIsKnown, Looks!Profile,
         LooksTypes, Looks!TypeOK, Looks!Lists
<1>19. ASSUME NEW t \in Trips, Looks!Publish(t) PROVE TieIsKnown'
  BY <1>19
     DEF Looks!Publish, Looks!Act, Looks!Lists, TieIsKnown, Looks!Profile, LooksTypes,
         Looks!TypeOK, Looks!Dates
<1>20. ASSUME UNCHANGED Looks!vars PROVE TieIsKnown'
  BY <1>20
     DEF Looks!vars, TieIsKnown, Looks!Profile, LooksTypes, Looks!TypeOK, Looks!Lists, Looks!Dates
<1>q. QED
  BY <1>1, <1>2, <1>3, <1>4, <1>5, <1>6, <1>7, <1>8, <1>9, <1>10, <1>11, <1>12, <1>13, <1>14,
     <1>15, <1>16, <1>17, <1>18, <1>19, <1>20
     DEF Looks!Next

\* Every step keeps what the page shows and why.
LEMMA ReasonStays ==
  ASSUME LooksTypes, TieIsKnown, AskedForAReason, [Looks!Next]_(Looks!vars)
  PROVE  AskedForAReason'
<1>1. ASSUME Looks!Press PROVE AskedForAReason'
  BY <1>1
     DEF Looks!Press, Looks!Act, Looks!Sure, TieIsKnown, Looks!Profile, AskedForAReason,
         Looks!Visible, LooksTypes, Looks!TypeOK
<1>2. ASSUME Looks!Follow PROVE AskedForAReason'
  BY <1>2 DEF Looks!Follow, Looks!Unsure, AskedForAReason, Looks!Visible, LooksTypes, Looks!TypeOK
<1>3. ASSUME Looks!Unfollow PROVE AskedForAReason'
  BY <1>3
     DEF Looks!Unfollow, Looks!Unsure, Looks!Dates, AskedForAReason, Looks!Visible, LooksTypes,
         Looks!TypeOK
<1>4. ASSUME Looks!Withdraw PROVE AskedForAReason'
  BY <1>4 DEF Looks!Withdraw, AskedForAReason, Looks!Visible, LooksTypes, Looks!TypeOK
<1>5. ASSUME Looks!Answered PROVE AskedForAReason'
  BY <1>5
     DEF Looks!Answered, Looks!NoPress, Looks!Asked, Looks!NoQuery, AskedForAReason, Looks!Visible,
         LooksTypes, Looks!TypeOK
<1>6. ASSUME Looks!PressFails PROVE AskedForAReason'
  BY <1>6
     DEF Looks!PressFails, Looks!Act, Looks!NoPress, AskedForAReason, Looks!Visible, LooksTypes,
         Looks!TypeOK
<1>7. ASSUME Looks!Revisit PROVE AskedForAReason'
  BY <1>7
     DEF Looks!Revisit, Looks!Act, Looks!Asked, Looks!NoQuery, AskedForAReason, Looks!Visible,
         LooksTypes, Looks!TypeOK
<1>8. ASSUME Looks!QueryRead PROVE AskedForAReason'
  BY <1>8 DEF Looks!QueryRead, AskedForAReason, Looks!Visible, LooksTypes, Looks!TypeOK
<1>9. ASSUME Looks!QueryArrives PROVE AskedForAReason'
  BY <1>9
     DEF Looks!QueryArrives, Looks!NoQuery, AskedForAReason, Looks!Visible, LooksTypes, Looks!TypeOK
<1>10. ASSUME Looks!QueryFails PROVE AskedForAReason'
  BY <1>10
     DEF Looks!QueryFails, Looks!Act, Looks!NoQuery, AskedForAReason, Looks!Visible, LooksTypes,
         Looks!TypeOK
<1>11. ASSUME NEW p \in Looks!Parts, Looks!Open(p) PROVE AskedForAReason'
  BY <1>11
     DEF Looks!Open, Looks!Act, Looks!MaySee, Looks!NoFetch, Looks!Sure, TieIsKnown, Looks!Profile,
         AskedForAReason, Looks!Visible, LooksTypes, Looks!TypeOK
<1>12. ASSUME Looks!Refused PROVE AskedForAReason'
  BY <1>12
     DEF Looks!Refused, Looks!NoFetch, AskedForAReason, Looks!Visible, LooksTypes, Looks!TypeOK
<1>13. ASSUME Looks!Allowed PROVE AskedForAReason'
  BY <1>13 DEF Looks!Allowed, AskedForAReason, Looks!Visible, LooksTypes, Looks!TypeOK
<1>14. ASSUME Looks!PartRead PROVE AskedForAReason'
  BY <1>14 DEF Looks!PartRead, AskedForAReason, Looks!Visible, LooksTypes, Looks!TypeOK
<1>15. ASSUME Looks!PartArrives PROVE AskedForAReason'
  BY <1>15
     DEF Looks!PartArrives, Looks!NoFetch, AskedForAReason, Looks!Visible, LooksTypes, Looks!TypeOK
<1>16. ASSUME Looks!PartFails PROVE AskedForAReason'
  BY <1>16
     DEF Looks!PartFails, Looks!Act, Looks!NoFetch, AskedForAReason, Looks!Visible, LooksTypes,
         Looks!TypeOK
<1>17. ASSUME Looks!Answer PROVE AskedForAReason'
  BY <1>17
     DEF Looks!Answer, Looks!Act, Looks!Unsure, AskedForAReason, Looks!Visible, LooksTypes,
         Looks!TypeOK
<1>18. ASSUME Looks!Settings PROVE AskedForAReason'
  BY <1>18
     DEF Looks!Settings, Looks!Act, Looks!Unsure, Looks!Dates, AskedForAReason, Looks!Visible,
         LooksTypes, Looks!TypeOK
<1>19. ASSUME NEW t \in Trips, Looks!Publish(t) PROVE AskedForAReason'
  BY <1>19
     DEF Looks!Publish, Looks!Act, Looks!Lists, AskedForAReason, Looks!Visible, LooksTypes,
         Looks!TypeOK
<1>20. ASSUME UNCHANGED Looks!vars PROVE AskedForAReason'
  BY <1>20 DEF Looks!vars, AskedForAReason, Looks!Visible, LooksTypes, Looks!TypeOK
<1>q. QED
  BY <1>1, <1>2, <1>3, <1>4, <1>5, <1>6, <1>7, <1>8, <1>9, <1>10, <1>11, <1>12, <1>13, <1>14,
     <1>15, <1>16, <1>17, <1>18, <1>19, <1>20
     DEF Looks!Next

\* Every step keeps what the parts of the page show.
LEMMA PartsStay ==
  ASSUME LooksTypes, PartsAreFresh, [Looks!Next]_(Looks!vars)
  PROVE  PartsAreFresh'
<1>1. ASSUME Looks!Press PROVE PartsAreFresh'
  BY <1>1
     DEF Looks!Press, Looks!Act, Looks!Sure, PartsAreFresh, Fresh, Looks!DatesShown, LooksTypes,
         Looks!TypeOK, Looks!Parts, Looks!Lists, Looks!Dates, Looks!Reply, Looks!Itineraries,
         Looks!Mine, Looks!OnTheMap, Looks!Counted, Looks!Dated, Looks!CheckedIn
<1>2. ASSUME Looks!Follow PROVE PartsAreFresh'
  BY <1>2
     DEF Looks!Follow, Looks!Unsure, PartsAreFresh, Fresh, Looks!DatesShown, LooksTypes,
         Looks!TypeOK, Looks!Parts, Looks!Lists, Looks!Dates, Looks!Reply, Looks!Itineraries,
         Looks!Mine, Looks!OnTheMap, Looks!Counted, Looks!Dated, Looks!CheckedIn
<1>3. ASSUME Looks!Unfollow PROVE PartsAreFresh'
  <2>1. ASSUME NEW p \in Looks!Parts, NEW trips, Fresh(p, trips), p \notin stale' PROVE Fresh(p, trips)'
    BY <1>3, <2>1
       DEF Looks!Unfollow, Looks!Dates, Looks!Lists, Fresh, Looks!Reply, Looks!Itineraries,
           Looks!Mine, Looks!OnTheMap, Looks!Counted
  <2>2. UNCHANGED seen /\ fetch'.pc = fetch.pc /\ fetch'.part = fetch.part /\ fetch'.reply = fetch.reply
    BY <1>3 DEF Looks!Unfollow, Looks!Unsure, LooksTypes
  <2>3. stale \subseteq stale'
    BY <1>3 DEF Looks!Unfollow
  <2>4. QED
    BY <2>1, <2>2, <2>3 DEF PartsAreFresh, LooksTypes, Looks!TypeOK
<1>4. ASSUME Looks!Withdraw PROVE PartsAreFresh'
  BY <1>4
     DEF Looks!Withdraw, PartsAreFresh, Fresh, Looks!DatesShown, LooksTypes, Looks!TypeOK,
         Looks!Parts, Looks!Lists, Looks!Dates, Looks!Reply, Looks!Itineraries, Looks!Mine,
         Looks!OnTheMap, Looks!Counted, Looks!Dated, Looks!CheckedIn
<1>5. ASSUME Looks!Answered PROVE PartsAreFresh'
  BY <1>5
     DEF Looks!Answered, Looks!NoPress, Looks!Asked, Looks!NoQuery, PartsAreFresh, Fresh,
         Looks!DatesShown, LooksTypes, Looks!TypeOK, Looks!Parts, Looks!Lists, Looks!Dates,
         Looks!Reply, Looks!Itineraries, Looks!Mine, Looks!OnTheMap, Looks!Counted, Looks!Dated,
         Looks!CheckedIn
<1>6. ASSUME Looks!PressFails PROVE PartsAreFresh'
  BY <1>6
     DEF Looks!PressFails, Looks!Act, Looks!NoPress, PartsAreFresh, Fresh, Looks!DatesShown,
         LooksTypes, Looks!TypeOK, Looks!Parts, Looks!Lists, Looks!Dates, Looks!Reply,
         Looks!Itineraries, Looks!Mine, Looks!OnTheMap, Looks!Counted, Looks!Dated, Looks!CheckedIn
<1>7. ASSUME Looks!Revisit PROVE PartsAreFresh'
  BY <1>7
     DEF Looks!Revisit, Looks!Act, Looks!Asked, Looks!NoQuery, PartsAreFresh, Fresh,
         Looks!DatesShown, LooksTypes, Looks!TypeOK, Looks!Parts, Looks!Lists, Looks!Dates,
         Looks!Reply, Looks!Itineraries, Looks!Mine, Looks!OnTheMap, Looks!Counted, Looks!Dated,
         Looks!CheckedIn
<1>8. ASSUME Looks!QueryRead PROVE PartsAreFresh'
  BY <1>8
     DEF Looks!QueryRead, PartsAreFresh, Fresh, Looks!DatesShown, LooksTypes, Looks!TypeOK,
         Looks!Parts, Looks!Lists, Looks!Dates, Looks!Reply, Looks!Itineraries, Looks!Mine,
         Looks!OnTheMap, Looks!Counted, Looks!Dated, Looks!CheckedIn
<1>9. ASSUME Looks!QueryArrives PROVE PartsAreFresh'
  BY <1>9
     DEF Looks!QueryArrives, Looks!NoQuery, PartsAreFresh, Fresh, Looks!DatesShown, LooksTypes,
         Looks!TypeOK, Looks!Parts, Looks!Lists, Looks!Dates, Looks!Reply, Looks!Itineraries,
         Looks!Mine, Looks!OnTheMap, Looks!Counted, Looks!Dated, Looks!CheckedIn
<1>10. ASSUME Looks!QueryFails PROVE PartsAreFresh'
  BY <1>10
     DEF Looks!QueryFails, Looks!Act, Looks!NoQuery, PartsAreFresh, Fresh, Looks!DatesShown,
         LooksTypes, Looks!TypeOK, Looks!Parts, Looks!Lists, Looks!Dates, Looks!Reply,
         Looks!Itineraries, Looks!Mine, Looks!OnTheMap, Looks!Counted, Looks!Dated, Looks!CheckedIn
<1>11. ASSUME NEW p \in Looks!Parts, Looks!Open(p) PROVE PartsAreFresh'
  BY <1>11
     DEF Looks!Open, Looks!Act, Looks!MaySee, Looks!NoFetch, Looks!Sure, PartsAreFresh, Fresh,
         Looks!DatesShown, LooksTypes, Looks!TypeOK, Looks!Parts, Looks!Lists, Looks!Dates,
         Looks!Reply, Looks!Itineraries, Looks!Mine, Looks!OnTheMap, Looks!Counted, Looks!Dated,
         Looks!CheckedIn
<1>12. ASSUME Looks!Refused PROVE PartsAreFresh'
  BY <1>12
     DEF Looks!Refused, Looks!NoFetch, PartsAreFresh, Fresh, Looks!DatesShown, LooksTypes,
         Looks!TypeOK, Looks!Parts, Looks!Lists, Looks!Dates, Looks!Reply, Looks!Itineraries,
         Looks!Mine, Looks!OnTheMap, Looks!Counted, Looks!Dated, Looks!CheckedIn
<1>13. ASSUME Looks!Allowed PROVE PartsAreFresh'
  BY <1>13
     DEF Looks!Allowed, PartsAreFresh, Fresh, Looks!DatesShown, LooksTypes, Looks!TypeOK,
         Looks!Parts, Looks!Lists, Looks!Dates, Looks!Reply, Looks!Itineraries, Looks!Mine,
         Looks!OnTheMap, Looks!Counted, Looks!Dated, Looks!CheckedIn
<1>14. ASSUME Looks!PartRead PROVE PartsAreFresh'
  BY <1>14
     DEF Looks!PartRead, PartsAreFresh, Fresh, Looks!DatesShown, LooksTypes, Looks!TypeOK,
         Looks!Parts, Looks!Lists, Looks!Dates, Looks!Reply, Looks!Itineraries, Looks!Mine,
         Looks!OnTheMap, Looks!Counted, Looks!Dated, Looks!CheckedIn
<1>15. ASSUME Looks!PartArrives PROVE PartsAreFresh'
  <2>1. ASSUME NEW p \in Looks!Parts, NEW trips, Fresh(p, trips) PROVE Fresh(p, trips)'
    BY <1>15, <2>1
       DEF Looks!PartArrives, Fresh, Looks!DatesShown, Looks!Lists, Looks!Reply, Looks!Itineraries,
           Looks!Mine, Looks!OnTheMap, Looks!Counted
  <2>2. DOMAIN seen' = DOMAIN seen \cup {fetch.part} /\ seen'[fetch.part] = fetch.reply
    BY <1>15 DEF Looks!PartArrives
  <2>3. \A p \in DOMAIN seen : p # fetch.part => seen'[p] = seen[p]
    BY <1>15 DEF Looks!PartArrives
  <2>4. fetch.pc = "read" /\ fetch'.pc = "idle" /\ UNCHANGED stale
    BY <1>15 DEF Looks!PartArrives, Looks!NoFetch
  <2>5. fetch.part \in Looks!Parts /\ DOMAIN seen \subseteq Looks!Parts
    BY DEF LooksTypes, Looks!TypeOK
  <2>6. QED
    BY <2>1, <2>2, <2>3, <2>4, <2>5 DEF PartsAreFresh
<1>16. ASSUME Looks!PartFails PROVE PartsAreFresh'
  BY <1>16
     DEF Looks!PartFails, Looks!Act, Looks!NoFetch, PartsAreFresh, Fresh, Looks!DatesShown,
         LooksTypes, Looks!TypeOK, Looks!Parts, Looks!Lists, Looks!Dates, Looks!Reply,
         Looks!Itineraries, Looks!Mine, Looks!OnTheMap, Looks!Counted, Looks!Dated, Looks!CheckedIn
<1>17. ASSUME Looks!Answer PROVE PartsAreFresh'
  BY <1>17
     DEF Looks!Answer, Looks!Act, Looks!Unsure, PartsAreFresh, Fresh, Looks!DatesShown, LooksTypes,
         Looks!TypeOK, Looks!Parts, Looks!Lists, Looks!Dates, Looks!Reply, Looks!Itineraries,
         Looks!Mine, Looks!OnTheMap, Looks!Counted, Looks!Dated, Looks!CheckedIn
<1>18. ASSUME Looks!Settings PROVE PartsAreFresh'
  <2>1. ASSUME NEW p \in Looks!Parts, NEW trips, Fresh(p, trips), p \notin stale' PROVE Fresh(p, trips)'
    BY <1>18, <2>1 DEF Looks!Settings, Looks!Dates, Looks!Lists, Fresh, LooksTypes, Looks!TypeOK,
       Looks!DatesShown, Looks!Reply, Looks!Itineraries, Looks!Mine, Looks!OnTheMap, Looks!Counted
  <2>2. UNCHANGED seen /\ fetch'.pc = fetch.pc /\ fetch'.part = fetch.part /\ fetch'.reply = fetch.reply
    BY <1>18 DEF Looks!Settings, Looks!Unsure, LooksTypes
  <2>3. stale \subseteq stale'
    BY <1>18 DEF Looks!Settings
  <2>4. QED
    BY <2>1, <2>2, <2>3 DEF PartsAreFresh, LooksTypes, Looks!TypeOK
<1>19. ASSUME NEW t \in Trips, Looks!Publish(t) PROVE PartsAreFresh'
  BY <1>19
     DEF Looks!Publish, Looks!Act, Looks!Lists, PartsAreFresh, Fresh, Looks!DatesShown, LooksTypes,
         Looks!TypeOK, Looks!Parts, Looks!Dates, Looks!Reply, Looks!Itineraries, Looks!Mine,
         Looks!OnTheMap, Looks!Counted, Looks!Dated, Looks!CheckedIn
<1>20. ASSUME UNCHANGED Looks!vars PROVE PartsAreFresh'
  BY <1>20
     DEF Looks!vars, PartsAreFresh, Fresh, Looks!DatesShown, LooksTypes, Looks!TypeOK, Looks!Parts,
         Looks!Lists, Looks!Dates, Looks!Reply, Looks!Itineraries, Looks!Mine, Looks!OnTheMap,
         Looks!Counted, Looks!Dated, Looks!CheckedIn
<1>q. QED
  BY <1>1, <1>2, <1>3, <1>4, <1>5, <1>6, <1>7, <1>8, <1>9, <1>10, <1>11, <1>12, <1>13, <1>14,
     <1>15, <1>16, <1>17, <1>18, <1>19, <1>20
     DEF Looks!Next

\* Every step keeps the invariant of the profile.
LEMMA LooksInductive ==
  ASSUME LooksInv, [Looks!Next]_(Looks!vars)
  PROVE  LooksInv'
BY LooksTypesStay, TieStays, ReasonStays, PartsStay DEF LooksInv

\* The invariant of the profile holds to begin with.
LEMMA LooksInitially ==
  ASSUME Looks!Init
  PROVE  LooksInv
<1>1. host.public = Over /\ fetch.pc = "idle" /\ press.pc = "idle" /\ looksQuery.pc = "idle"
      /\ looksPage = Looks!Profile /\ looksSlips = {} /\ DOMAIN seen = {}
  BY DEF Looks!Init, Looks!NoFetch, Looks!NoPress, Looks!NoQuery
<1>2. Looks!TypeOK
  <2>1. tie \in [follows : BOOLEAN, requested : BOOLEAN]
    <3>1. tie.follows \in BOOLEAN /\ tie.requested \in BOOLEAN
          /\ tie = [follows |-> tie.follows, requested |-> tie.requested]
      <4>1. CASE tie = [follows |-> FALSE, requested |-> FALSE]
        BY <4>1
      <4>2. CASE tie = [follows |-> TRUE, requested |-> FALSE]
        BY <4>2
      <4>3. CASE tie = [follows |-> FALSE, requested |-> TRUE]
        BY <4>3
      <4>4. QED
        BY <4>1, <4>2, <4>3 DEF Looks!Init
    <3>2. QED
      BY <3>1
  <2>2. own \in BOOLEAN /\ host \in [private : BOOLEAN, shares : BOOLEAN, public : SUBSET Trips]
    BY OverAssumption DEF Looks!Init
  <2>3. looksPage \in [private : BOOLEAN, follows : BOOLEAN, requested : BOOLEAN]
    BY <1>1, <2>1, <2>2 DEF Looks!Profile
  <2>4. press.said = "nothing" /\ stale = {}
    BY DEF Looks!Init, Looks!NoPress
  <2>5. QED
    BY <1>1, <2>1, <2>2, <2>3, <2>4 DEF Looks!TypeOK
<1>3. LooksTypes
  BY <1>1, <1>2 DEF Looks!Init, LooksTypes, Looks!NoFetch, Looks!NoPress, Looks!Parts, Looks!Dates
<1>4. QED
  BY <1>1, <1>3 DEF LooksInv, TieIsKnown, AskedForAReason, PartsAreFresh

\* List, map and statistics answer for the same trips.
LEMMA ListsAgree ==
  ASSUME host.public \subseteq Trips, NEW p \in Looks!Lists
  PROVE  Looks!Reply(p) = IF own THEN Trips ELSE host.public
BY DEF Looks!Lists, Looks!Reply, Looks!Itineraries, Looks!Mine, Looks!OnTheMap, Looks!Counted

\* The properties of the profile follow from its invariant.
LEMMA LooksTellsTruth ==
  ASSUME LooksInv
  PROVE  /\ Looks!PageKnowsTheTie /\ Looks!DoesAsItSays
         /\ Looks!NumbersAgree /\ Looks!DatesAreForFollowers
<1>1. Looks!PageKnowsTheTie
  BY DEF LooksInv, TieIsKnown, Looks!PageKnowsTheTie, Looks!Sure
<1>2. Looks!DoesAsItSays
  BY DEF LooksInv, AskedForAReason, Looks!DoesAsItSays
<1>3. ASSUME fetch.pc = "idle", NEW p \in (Looks!Lists \cap DOMAIN seen) \ stale
      PROVE  seen[p] = IF own THEN Trips ELSE host.public
  BY <1>3, ListsAgree DEF LooksInv, PartsAreFresh, Fresh, LooksTypes, Looks!TypeOK
<1>4. Looks!NumbersAgree
  <2>1. ASSUME fetch.pc = "idle", NEW p \in (Looks!Lists \cap DOMAIN seen) \ stale,
               NEW q \in (Looks!Lists \cap DOMAIN seen) \ stale
        PROVE  Looks!Cardinality(seen[p]) = Looks!Cardinality(seen[q])
    <3>1. seen[p] = seen[q]
      BY <1>3, <2>1
    <3>2. QED
      BY <3>1
  <2>2. QED
    BY <2>1 DEF Looks!NumbersAgree
<1>5. Looks!DatesAreForFollowers
  BY DEF LooksInv, PartsAreFresh, Fresh, Looks!DatesAreForFollowers
<1>6. QED
  BY <1>1, <1>2, <1>4, <1>5

-----------------------------------------------------------------------------
(* The panel of expenses *)

\* The fields of an expense; none is 0.
Entries == [Spent!Fields -> Values \cup {0}]

\* A list of expenses has ids that were given.
IsList(list) ==
  \A i \in DOMAIN list : i \in Nat /\ i > 0 /\ i <= given /\ list[i] \in Entries

\* What a form is, whether it is open or not.
IsForm(s) ==
  /\ DOMAIN s = {"open", "id", "has", "typed"}
  /\ s.id \in Nat /\ s.has \in Entries /\ s.typed \in SUBSET Spent!Fields

SpentTypes ==
  /\ given \in Nat /\ given > 0 /\ forms \in Nat
  /\ IsList(spentRows) /\ IsList(spentScreen)
  /\ spentQuery.pc = "read" => IsList(spentQuery.reply)
  /\ IsForm(form)
  /\ spentReq \in [pc : {"idle", "sent", "done"}, id : Nat, has : Entries,
                   typed : SUBSET Spent!Fields]
  /\ form.id <= given /\ spentReq.id <= given

\* The screen is behind the table only while an answer is due that fetches it anew.
ScreenIsFetched ==
  "lost" \notin spentSlips /\ spentReq.pc # "done" /\ spentRemoving.pc # "done" =>
    /\ spentQuery.pc = "idle" => spentScreen = spentRows
    /\ spentQuery.pc = "read" => spentQuery.reply = spentRows

\* What nobody touched is, in the form and in the request, what the table has; the form
\* that is open while its request is on its way is the same or has more typed in it.
UntouchedIsOld(entry) ==
  entry.id \in DOMAIN spentRows =>
    \A f \in Spent!Fields \ entry.typed : entry.has[f] = spentRows[entry.id][f]

MeantIsKept ==
  spentSlips \cap {"early", "lost"} = {} =>
    /\ spentRows = meant
    /\ form.open => UntouchedIsOld(form)
    /\ spentReq.pc = "sent" => UntouchedIsOld(spentReq)
    /\ spentReq.pc = "sent" /\ form.open /\ form.id # 0 =>
         /\ form.id = spentReq.id
         /\ spentReq.typed \subseteq form.typed
         /\ \A f \in Spent!Fields \ form.typed : form.has[f] = spentReq.has[f]

\* A form that may still add one has not been counted among those that did.
FormsAccount ==
  "lost" \notin spentSlips =>
    /\ given - 1 <= forms
    /\ spentReq.pc = "sent" /\ spentReq.id = 0 => given <= forms
    /\ form.open /\ form.id = 0 /\ spentReq.pc # "done" => given <= forms

SpentInv == SpentTypes /\ ScreenIsFetched /\ MeantIsKept /\ FormsAccount

\* A form is one when it is opened and after a field is typed.
LEMMA OpenedForm ==
  ASSUME NEW v \in Values
  PROVE  /\ IsForm([Spent!NoForm EXCEPT !.open = TRUE, !.has["category"] = v])
         /\ [Spent!NoForm EXCEPT !.open = TRUE, !.has["category"] = v].id = 0
<1> DEFINE r == [Spent!NoForm EXCEPT !.open = TRUE]
           e == [Spent!Blank EXCEPT !["category"] = v]
<1>1. e \in Entries
  BY DEF Spent!Fields, Spent!Blank, Entries
<1>2. /\ DOMAIN r = {"open", "id", "has", "typed"}
      /\ r.id = 0 /\ r.has = Spent!Blank /\ r.typed = {}
  BY DEF Spent!NoForm
<1>3. IsForm([r EXCEPT !.has = e]) /\ [r EXCEPT !.has = e].id = 0
  <2> HIDE DEF r, e
  <2>1. QED
    BY <1>1, <1>2 DEF IsForm
<1>4. QED
  BY <1>2, <1>3

\* A field of a form is typed.
LEMMA TypedForm ==
  ASSUME NEW s, IsForm(s), NEW f \in Spent!Fields, NEW v \in Values
  PROVE  /\ IsForm([s EXCEPT !.has[f] = v, !.typed = @ \cup {f}])
         /\ [s EXCEPT !.has[f] = v, !.typed = @ \cup {f}].id = s.id
<1> DEFINE e == [s.has EXCEPT ![f] = v]
           r == [s EXCEPT !.has = e]
           u == s.typed \cup {f}
<1>1. e \in Entries /\ u \in SUBSET Spent!Fields
  BY DEF IsForm, Entries
<1>2. IsForm(r) /\ r.id = s.id /\ r.typed = s.typed
  <2> HIDE DEF e
  <2>1. QED
    BY <1>1 DEF IsForm
<1>3. IsForm([r EXCEPT !.typed = u]) /\ [r EXCEPT !.typed = u].id = s.id
  <2> HIDE DEF r, u
  <2>1. QED
    BY <1>1, <1>2 DEF IsForm
<1>4. QED
  BY <1>2, <1>3

\* Each variable of the panel stays of its type.
LEMMA SpentTypesStay ==
  ASSUME SpentTypes, [Spent!Next]_(Spent!vars)
  PROVE  SpentTypes'
<1>1. ASSUME Spent!OpenAdd PROVE SpentTypes'
  <2>1. IsForm(form') /\ form'.id = 0
    BY <1>1, OpenedForm DEF Spent!OpenAdd
  <2>2. UNCHANGED <<spentRows, given, spentScreen, spentReq, spentQuery>> /\ forms' \in Nat
    BY <1>1 DEF Spent!OpenAdd, SpentTypes, IsForm
  <2>3. QED
    BY <2>1, <2>2 DEF SpentTypes, IsForm, IsList
<1>2. ASSUME Spent!Close PROVE SpentTypes'
  BY <1>2 DEF Spent!Close, Spent!NoForm, Spent!Blank, SpentTypes, IsForm, IsList, Entries
<1>3. ASSUME Spent!Submit PROVE SpentTypes'
  BY <1>3 DEF Spent!Submit, SpentTypes, IsForm, IsList, Entries
<1>4. ASSUME Spent!Insert PROVE SpentTypes'
  BY <1>4 DEF Spent!Insert, Spent!With, SpentTypes, IsForm, IsList, Entries
<1>5. ASSUME Spent!Update PROVE SpentTypes'
  BY <1>5 DEF Spent!Update, SpentTypes, IsForm, IsList, Entries
<1>6. ASSUME Spent!Answered PROVE SpentTypes'
  BY <1>6
     DEF Spent!Answered, Spent!NoReq, Spent!NoForm, Spent!Asked, Spent!NoQuery, Spent!Blank,
         SpentTypes, IsForm, IsList, Entries
<1>7. ASSUME Spent!Failed PROVE SpentTypes'
  BY <1>7 DEF Spent!Failed, Spent!NoReq, Spent!Blank, SpentTypes, IsForm, IsList, Entries
<1>8. ASSUME NEW i \in DOMAIN spentScreen, Spent!OpenEdit(i) PROVE SpentTypes'
  BY <1>8 DEF Spent!OpenEdit, Spent!Act, Spent!NoForm, SpentTypes, IsForm, IsList, Entries
<1>9. ASSUME NEW i \in DOMAIN spentScreen, Spent!Remove(i) PROVE SpentTypes'
  BY <1>9 DEF Spent!Remove, SpentTypes, IsForm, IsList, Entries
<1>10. ASSUME NEW f \in Spent!Fields, Spent!Type(f) PROVE SpentTypes'
  <2>1. IsForm(form') /\ form'.id = form.id
    <3>1. PICK v \in Values : form' = [form EXCEPT !.has[f] = v, !.typed = @ \cup {f}]
      BY <1>10 DEF Spent!Type
    <3>2. IsForm(form)
      BY DEF SpentTypes, IsForm
    <3>3. QED
      BY <3>1, <3>2, TypedForm
  <2>2. UNCHANGED <<spentRows, given, spentScreen, spentReq, spentQuery, forms>>
    BY <1>10 DEF Spent!Type
  <2>3. QED
    BY <2>1, <2>2 DEF SpentTypes, IsForm, IsList
<1>11. ASSUME Spent!RemoveHandled PROVE SpentTypes'
  BY <1>11 DEF Spent!RemoveHandled, SpentTypes, IsForm, IsList, Entries
<1>12. ASSUME Spent!RemoveAnswered PROVE SpentTypes'
  BY <1>12
     DEF Spent!RemoveAnswered, Spent!NoRemove, Spent!Asked, Spent!NoQuery, SpentTypes, IsForm,
         IsList, Entries
<1>13. ASSUME Spent!RemoveFails PROVE SpentTypes'
  BY <1>13 DEF Spent!RemoveFails, Spent!NoRemove, SpentTypes, IsForm, IsList, Entries
<1>14. ASSUME Spent!QueryRead PROVE SpentTypes'
  BY <1>14 DEF Spent!QueryRead, SpentTypes, IsForm, IsList, Entries
<1>15. ASSUME Spent!QueryArrives PROVE SpentTypes'
  BY <1>15 DEF Spent!QueryArrives, Spent!NoQuery, SpentTypes, IsForm, IsList, Entries
<1>16. ASSUME Spent!QueryFails PROVE SpentTypes'
  BY <1>16 DEF Spent!QueryFails, Spent!NoQuery, SpentTypes, IsForm, IsList, Entries
<1>17. ASSUME UNCHANGED Spent!vars PROVE SpentTypes'
  BY <1>17 DEF Spent!vars, SpentTypes, IsForm, IsList, Entries
<1>q. QED
  BY <1>1, <1>2, <1>3, <1>4, <1>5, <1>6, <1>7, <1>8, <1>9, <1>10, <1>11, <1>12, <1>13, <1>14,
     <1>15, <1>16, <1>17
     DEF Spent!Next

\* Every step keeps ScreenIsFetched.
LEMMA FetchStays ==
  ASSUME SpentTypes, ScreenIsFetched, [Spent!Next]_(Spent!vars)
  PROVE  ScreenIsFetched'
<1>1. ASSUME Spent!OpenAdd PROVE ScreenIsFetched'
  BY <1>1
     DEF Spent!OpenAdd, Spent!Act, Spent!NoForm, Spent!Blank, SpentTypes, IsForm, ScreenIsFetched
<1>2. ASSUME Spent!Close PROVE ScreenIsFetched'
  BY <1>2 DEF Spent!Close, Spent!NoForm, Spent!Blank, SpentTypes, IsForm, ScreenIsFetched
<1>3. ASSUME Spent!Submit PROVE ScreenIsFetched'
  BY <1>3 DEF Spent!Submit, SpentTypes, IsForm, ScreenIsFetched
<1>4. ASSUME Spent!Insert PROVE ScreenIsFetched'
  BY <1>4 DEF Spent!Insert, Spent!With, SpentTypes, IsForm, ScreenIsFetched
<1>5. ASSUME Spent!Update PROVE ScreenIsFetched'
  BY <1>5 DEF Spent!Update, SpentTypes, IsForm, ScreenIsFetched
<1>6. ASSUME Spent!Answered PROVE ScreenIsFetched'
  BY <1>6
     DEF Spent!Answered, Spent!NoReq, Spent!NoForm, Spent!Asked, Spent!NoQuery, Spent!Blank,
         SpentTypes, IsForm, ScreenIsFetched
<1>7. ASSUME Spent!Failed PROVE ScreenIsFetched'
  BY <1>7 DEF Spent!Failed, Spent!NoReq, Spent!Blank, SpentTypes, IsForm, ScreenIsFetched
<1>8. ASSUME NEW i \in DOMAIN spentScreen, Spent!OpenEdit(i) PROVE ScreenIsFetched'
  BY <1>8 DEF Spent!OpenEdit, Spent!Act, Spent!NoForm, SpentTypes, IsForm, ScreenIsFetched
<1>9. ASSUME NEW i \in DOMAIN spentScreen, Spent!Remove(i) PROVE ScreenIsFetched'
  BY <1>9 DEF Spent!Remove, SpentTypes, IsForm, ScreenIsFetched
<1>10. ASSUME NEW f \in Spent!Fields, Spent!Type(f) PROVE ScreenIsFetched'
  BY <1>10 DEF Spent!Type, SpentTypes, IsForm, ScreenIsFetched
<1>11. ASSUME Spent!RemoveHandled PROVE ScreenIsFetched'
  BY <1>11 DEF Spent!RemoveHandled, SpentTypes, IsForm, ScreenIsFetched
<1>12. ASSUME Spent!RemoveAnswered PROVE ScreenIsFetched'
  BY <1>12
     DEF Spent!RemoveAnswered, Spent!NoRemove, Spent!Asked, Spent!NoQuery, SpentTypes, IsForm,
         ScreenIsFetched
<1>13. ASSUME Spent!RemoveFails PROVE ScreenIsFetched'
  BY <1>13 DEF Spent!RemoveFails, Spent!NoRemove, SpentTypes, IsForm, ScreenIsFetched
<1>14. ASSUME Spent!QueryRead PROVE ScreenIsFetched'
  BY <1>14 DEF Spent!QueryRead, SpentTypes, IsForm, ScreenIsFetched
<1>15. ASSUME Spent!QueryArrives PROVE ScreenIsFetched'
  BY <1>15 DEF Spent!QueryArrives, Spent!NoQuery, SpentTypes, IsForm, ScreenIsFetched
<1>16. ASSUME Spent!QueryFails PROVE ScreenIsFetched'
  BY <1>16 DEF Spent!QueryFails, Spent!NoQuery, SpentTypes, IsForm, ScreenIsFetched
<1>17. ASSUME UNCHANGED Spent!vars PROVE ScreenIsFetched'
  BY <1>17 DEF Spent!vars, SpentTypes, IsForm, ScreenIsFetched
<1>q. QED
  BY <1>1, <1>2, <1>3, <1>4, <1>5, <1>6, <1>7, <1>8, <1>9, <1>10, <1>11, <1>12, <1>13, <1>14,
     <1>15, <1>16, <1>17
     DEF Spent!Next

\* Every step keeps MeantIsKept.
LEMMA MeantStays ==
  ASSUME SpentTypes, ScreenIsFetched, MeantIsKept, [Spent!Next]_(Spent!vars)
  PROVE  MeantIsKept'
<1>1. ASSUME Spent!OpenAdd PROVE MeantIsKept'
  <2>1. form'.id = 0
    BY <1>1, OpenedForm DEF Spent!OpenAdd
  <2>2. 0 \notin DOMAIN spentRows
    BY DEF SpentTypes, IsForm, IsList
  <2>3. UNCHANGED <<spentRows, spentReq, spentSlips, meant>>
    BY <1>1 DEF Spent!OpenAdd
  <2>4. QED
    BY <2>1, <2>2, <2>3 DEF MeantIsKept, UntouchedIsOld
<1>2. ASSUME Spent!Close PROVE MeantIsKept'
  BY <1>2
     DEF Spent!Close, Spent!NoForm, Spent!Blank, SpentTypes, IsForm, MeantIsKept, UntouchedIsOld,
         Entries
<1>3. ASSUME Spent!Submit PROVE MeantIsKept'
  BY <1>3 DEF Spent!Submit, SpentTypes, IsForm, MeantIsKept, UntouchedIsOld, Entries
<1>4. ASSUME Spent!Insert PROVE MeantIsKept'
  BY <1>4
     DEF Spent!Insert, Spent!With, IsList, SpentTypes, IsForm, MeantIsKept, UntouchedIsOld, Entries
<1>5. ASSUME Spent!Update PROVE MeantIsKept'
  <2> DEFINE i == spentReq.id
  <2> SUFFICES ASSUME spentSlips \cap {"early", "lost"} = {} PROVE MeantIsKept'
    BY <1>5 DEF Spent!Update, MeantIsKept
  <2>1. /\ spentReq.pc = "sent" /\ i \in DOMAIN spentRows /\ i # 0
        /\ spentReq'.pc = "done" /\ UNCHANGED <<form, spentSlips>>
        /\ spentRows' = [spentRows EXCEPT ![i] = spentReq.has]
    BY <1>5 DEF Spent!Update, SpentTypes, IsForm, IsList
  <2>2. spentRows = meant
    BY DEF MeantIsKept
  <2>3. [f \in Spent!Fields |-> IF f \in spentReq.typed THEN spentReq.has[f] ELSE meant[i][f]]
          = spentReq.has
    <3>1. spentReq.has = [f \in Spent!Fields |-> spentReq.has[f]]
      BY DEF SpentTypes, IsForm, Entries
    <3>2. \A f \in Spent!Fields \ spentReq.typed : spentReq.has[f] = meant[i][f]
      BY <2>1, <2>2 DEF MeantIsKept, UntouchedIsOld
    <3>3. QED
      BY <3>1, <3>2
  <2>4. meant' = [meant EXCEPT ![i] = spentReq.has]
    BY <1>5, <2>3 DEF Spent!Update
  <2>5. spentRows' = meant'
    BY <2>1, <2>2, <2>4
  <2>6. form.open => UntouchedIsOld(form)'
    <3>1. CASE form.id = 0
      BY <3>1, <2>1 DEF UntouchedIsOld, SpentTypes, IsForm, IsList
    <3>2. CASE form.id # 0
      BY <3>2, <2>1 DEF MeantIsKept, UntouchedIsOld
    <3>3. QED
      BY <3>1, <3>2
  <2>7. QED
    BY <2>1, <2>5, <2>6 DEF MeantIsKept
<1>6. ASSUME Spent!Answered PROVE MeantIsKept'
  BY <1>6
     DEF Spent!Answered, Spent!NoReq, Spent!NoForm, Spent!Asked, Spent!NoQuery, Spent!Blank,
         SpentTypes, IsForm, MeantIsKept, UntouchedIsOld, Entries
<1>7. ASSUME Spent!Failed PROVE MeantIsKept'
  BY <1>7
     DEF Spent!Failed, Spent!NoReq, Spent!Blank, SpentTypes, IsForm, MeantIsKept, UntouchedIsOld,
         Entries
<1>8. ASSUME NEW i \in DOMAIN spentScreen, Spent!OpenEdit(i) PROVE MeantIsKept'
  BY <1>8
     DEF Spent!OpenEdit, Spent!Act, Spent!NoForm, ScreenIsFetched, Spent!AtRest, IsList,
         SpentTypes, IsForm, MeantIsKept, UntouchedIsOld, Entries
<1>9. ASSUME NEW i \in DOMAIN spentScreen, Spent!Remove(i) PROVE MeantIsKept'
  BY <1>9 DEF Spent!Remove, SpentTypes, IsForm, MeantIsKept, UntouchedIsOld, Entries
<1>10. ASSUME NEW f \in Spent!Fields, Spent!Type(f) PROVE MeantIsKept'
  BY <1>10 DEF Spent!Type, SpentTypes, IsForm, MeantIsKept, UntouchedIsOld, Entries
<1>11. ASSUME Spent!RemoveHandled PROVE MeantIsKept'
  BY <1>11 DEF Spent!RemoveHandled, SpentTypes, IsForm, MeantIsKept, UntouchedIsOld, Entries
<1>12. ASSUME Spent!RemoveAnswered PROVE MeantIsKept'
  BY <1>12
     DEF Spent!RemoveAnswered, Spent!NoRemove, Spent!Asked, Spent!NoQuery, SpentTypes, IsForm,
         MeantIsKept, UntouchedIsOld, Entries
<1>13. ASSUME Spent!RemoveFails PROVE MeantIsKept'
  BY <1>13
     DEF Spent!RemoveFails, Spent!NoRemove, SpentTypes, IsForm, MeantIsKept, UntouchedIsOld, Entries
<1>14. ASSUME Spent!QueryRead PROVE MeantIsKept'
  BY <1>14 DEF Spent!QueryRead, SpentTypes, IsForm, MeantIsKept, UntouchedIsOld, Entries
<1>15. ASSUME Spent!QueryArrives PROVE MeantIsKept'
  BY <1>15
     DEF Spent!QueryArrives, Spent!NoQuery, SpentTypes, IsForm, MeantIsKept, UntouchedIsOld, Entries
<1>16. ASSUME Spent!QueryFails PROVE MeantIsKept'
  BY <1>16
     DEF Spent!QueryFails, Spent!NoQuery, SpentTypes, IsForm, MeantIsKept, UntouchedIsOld, Entries
<1>17. ASSUME UNCHANGED Spent!vars PROVE MeantIsKept'
  BY <1>17 DEF Spent!vars, SpentTypes, IsForm, MeantIsKept, UntouchedIsOld, Entries
<1>q. QED
  BY <1>1, <1>2, <1>3, <1>4, <1>5, <1>6, <1>7, <1>8, <1>9, <1>10, <1>11, <1>12, <1>13, <1>14,
     <1>15, <1>16, <1>17
     DEF Spent!Next

\* Every step keeps FormsAccount.
LEMMA FormsStay ==
  ASSUME SpentTypes, FormsAccount, [Spent!Next]_(Spent!vars)
  PROVE  FormsAccount'
<1>1. ASSUME Spent!OpenAdd PROVE FormsAccount'
  BY <1>1 DEF Spent!OpenAdd, Spent!Act, Spent!NoForm, Spent!Blank, SpentTypes, IsForm, FormsAccount
<1>2. ASSUME Spent!Close PROVE FormsAccount'
  BY <1>2 DEF Spent!Close, Spent!NoForm, Spent!Blank, SpentTypes, IsForm, FormsAccount
<1>3. ASSUME Spent!Submit PROVE FormsAccount'
  BY <1>3 DEF Spent!Submit, SpentTypes, IsForm, FormsAccount
<1>4. ASSUME Spent!Insert PROVE FormsAccount'
  BY <1>4 DEF Spent!Insert, Spent!With, SpentTypes, IsForm, FormsAccount
<1>5. ASSUME Spent!Update PROVE FormsAccount'
  BY <1>5 DEF Spent!Update, IsList, SpentTypes, IsForm, FormsAccount
<1>6. ASSUME Spent!Answered PROVE FormsAccount'
  BY <1>6
     DEF Spent!Answered, Spent!NoReq, Spent!NoForm, Spent!Asked, Spent!NoQuery, Spent!Blank,
         SpentTypes, IsForm, FormsAccount
<1>7. ASSUME Spent!Failed PROVE FormsAccount'
  BY <1>7 DEF Spent!Failed, Spent!NoReq, Spent!Blank, SpentTypes, IsForm, FormsAccount
<1>8. ASSUME NEW i \in DOMAIN spentScreen, Spent!OpenEdit(i) PROVE FormsAccount'
  BY <1>8 DEF Spent!OpenEdit, Spent!Act, Spent!NoForm, IsList, SpentTypes, IsForm, FormsAccount
<1>9. ASSUME NEW i \in DOMAIN spentScreen, Spent!Remove(i) PROVE FormsAccount'
  BY <1>9 DEF Spent!Remove, SpentTypes, IsForm, FormsAccount
<1>10. ASSUME NEW f \in Spent!Fields, Spent!Type(f) PROVE FormsAccount'
  BY <1>10 DEF Spent!Type, SpentTypes, IsForm, FormsAccount
<1>11. ASSUME Spent!RemoveHandled PROVE FormsAccount'
  BY <1>11 DEF Spent!RemoveHandled, SpentTypes, IsForm, FormsAccount
<1>12. ASSUME Spent!RemoveAnswered PROVE FormsAccount'
  BY <1>12
     DEF Spent!RemoveAnswered, Spent!NoRemove, Spent!Asked, Spent!NoQuery, SpentTypes, IsForm,
         FormsAccount
<1>13. ASSUME Spent!RemoveFails PROVE FormsAccount'
  BY <1>13 DEF Spent!RemoveFails, Spent!NoRemove, SpentTypes, IsForm, FormsAccount
<1>14. ASSUME Spent!QueryRead PROVE FormsAccount'
  BY <1>14 DEF Spent!QueryRead, SpentTypes, IsForm, FormsAccount
<1>15. ASSUME Spent!QueryArrives PROVE FormsAccount'
  BY <1>15 DEF Spent!QueryArrives, Spent!NoQuery, SpentTypes, IsForm, FormsAccount
<1>16. ASSUME Spent!QueryFails PROVE FormsAccount'
  BY <1>16 DEF Spent!QueryFails, Spent!NoQuery, SpentTypes, IsForm, FormsAccount
<1>17. ASSUME UNCHANGED Spent!vars PROVE FormsAccount'
  BY <1>17 DEF Spent!vars, SpentTypes, IsForm, FormsAccount
<1>q. QED
  BY <1>1, <1>2, <1>3, <1>4, <1>5, <1>6, <1>7, <1>8, <1>9, <1>10, <1>11, <1>12, <1>13, <1>14,
     <1>15, <1>16, <1>17
     DEF Spent!Next

\* Every step keeps the invariant of the panel of expenses.
LEMMA SpentInductive ==
  ASSUME SpentInv, [Spent!Next]_(Spent!vars)
  PROVE  SpentInv'
BY SpentTypesStay, FetchStays, MeantStays, FormsStay DEF SpentInv

\* The invariant of the panel of expenses holds to begin with.
LEMMA SpentInitially ==
  ASSUME Spent!Init
  PROVE  SpentInv
<1>1. /\ DOMAIN spentRows = {1} /\ spentRows[1] \in Entries
      /\ given = 1 /\ spentScreen = spentRows /\ forms = 0 /\ meant = spentRows
      /\ spentQuery.pc = "idle"
  BY DEF Spent!Init, Entries, Spent!NoQuery
<1>2. IsForm(form) /\ form.id = 0
  BY DEF Spent!Init, Spent!NoForm, Spent!Blank, IsForm, Entries
<1>3. /\ spentReq \in [pc : {"idle", "sent", "done"}, id : Nat, has : Entries,
                       typed : SUBSET Spent!Fields]
      /\ spentReq.pc = "idle" /\ spentReq.id = 0
  BY DEF Spent!Init, Spent!NoReq, Spent!Blank, Entries
<1>4. form.open = FALSE
  BY DEF Spent!Init, Spent!NoForm
<1>5. SpentTypes
  BY <1>1, <1>2, <1>3 DEF SpentTypes, IsList
<1>6. QED
  BY <1>1, <1>2, <1>3, <1>4, <1>5
     DEF SpentInv, ScreenIsFetched, MeantIsKept, FormsAccount

\* The properties of the panel of expenses follow from its invariant.
LEMMA SpentShows ==
  ASSUME SpentInv
  PROVE  Spent!PanelShowsExpenses /\ Spent!OnlyWhatWasTyped /\ Spent!OneAForm
<1>1. Spent!PanelShowsExpenses
  BY DEF SpentInv, ScreenIsFetched, Spent!PanelShowsExpenses, Spent!AtRest
<1>2. Spent!OnlyWhatWasTyped
  BY DEF SpentInv, MeantIsKept, Spent!OnlyWhatWasTyped
<1>3. Spent!OneAForm
  BY DEF SpentInv, FormsAccount, Spent!OneAForm
<1>4. QED
  BY <1>1, <1>2, <1>3

\* Rows are of ids that are given, and have every field; so have the form, once an amount
\* is given, and what is sent from it.
FullRows(list) ==
  \A i \in DOMAIN list : i \in ExpenseIds /\ list[i] \in [Spent!Fields -> Values]

RowsAreFull ==
  /\ FullRows(spentRows) /\ FullRows(spentScreen)
  /\ spentQuery.pc = "read" => FullRows(spentQuery.reply)
  /\ form.id \in {0} \cup ExpenseIds
  /\ form.open => form.has["category"] \in Values
  /\ spentReq.pc = "sent" => spentReq.has \in [Spent!Fields -> Values]
  /\ spentSlips \subseteq {"early", "lost"}

\* The form after it is opened for a new expense, for an old one, or a field is typed.
LEMMA FormsOpened ==
  ASSUME NEW v \in Values, NEW i, NEW row
  PROVE  /\ [Spent!NoForm EXCEPT !.open = TRUE, !.has["category"] = v].id = 0
         /\ [Spent!NoForm EXCEPT !.open = TRUE, !.has["category"] = v].has["category"] = v
         /\ [Spent!NoForm EXCEPT !.open = TRUE, !.id = i, !.has = row].id = i
         /\ [Spent!NoForm EXCEPT !.open = TRUE, !.id = i, !.has = row].has = row
         /\ Spent!NoForm.id = 0 /\ Spent!NoForm.open = FALSE
<1> DEFINE r == [Spent!NoForm EXCEPT !.open = TRUE]
           e == [Spent!Blank EXCEPT !["category"] = v]
<1>1. e["category"] = v
  BY DEF Spent!Fields, Spent!Blank
<1>2. /\ DOMAIN r = {"open", "id", "has", "typed"}
      /\ r.id = 0 /\ r.has = Spent!Blank
  BY DEF Spent!NoForm
<1>3. [r EXCEPT !.has = e].has = e /\ [r EXCEPT !.has = e].id = 0
  <2> HIDE DEF r, e
  <2>1. QED
    BY <1>2
<1>4. /\ [Spent!NoForm EXCEPT !.open = TRUE, !.has["category"] = v].id = 0
      /\ [Spent!NoForm EXCEPT !.open = TRUE, !.has["category"] = v].has["category"] = v
  BY <1>1, <1>2, <1>3
<1>5. /\ [Spent!NoForm EXCEPT !.open = TRUE, !.id = i, !.has = row].id = i
      /\ [Spent!NoForm EXCEPT !.open = TRUE, !.id = i, !.has = row].has = row
      /\ Spent!NoForm.id = 0 /\ Spent!NoForm.open = FALSE
  BY DEF Spent!NoForm
<1>6. QED
  BY <1>4, <1>5

\* The form after a field of it is typed.
LEMMA FieldTyped ==
  ASSUME NEW s, IsForm(s), NEW f \in Spent!Fields, NEW v \in Values
  PROVE  /\ [s EXCEPT !.has[f] = v, !.typed = @ \cup {f}].id = s.id
         /\ [s EXCEPT !.has[f] = v, !.typed = @ \cup {f}].open = s.open
         /\ \A g \in Spent!Fields : [s EXCEPT !.has[f] = v, !.typed = @ \cup {f}].has[g]
              = IF g = f THEN v ELSE s.has[g]
<1> DEFINE e == [s.has EXCEPT ![f] = v]
           r == [s EXCEPT !.has = e]
           u == s.typed \cup {f}
<1>1. \A g \in Spent!Fields : e[g] = IF g = f THEN v ELSE s.has[g]
  BY DEF IsForm, Entries
<1>2. /\ DOMAIN r = {"open", "id", "has", "typed"}
      /\ r.id = s.id /\ r.typed = s.typed /\ r.has = e /\ r.open = s.open
  <2> HIDE DEF e
  <2>1. QED
    BY DEF IsForm
<1>3. /\ [r EXCEPT !.typed = u].id = s.id /\ [r EXCEPT !.typed = u].open = s.open
      /\ [r EXCEPT !.typed = u].has = e
  <2> HIDE DEF r, u, e
  <2>1. QED
    BY <1>2
<1>4. QED
  BY <1>1, <1>2, <1>3

\* Rows are full to begin with, and every step keeps them so.
LEMMA FullInitially == Spent!Init => RowsAreFull
BY ExpensesAssumption, FormsOpened
   DEF Spent!Init, Spent!NoReq, Spent!NoQuery, Spent!NoForm, RowsAreFull, FullRows

\* Every step keeps rows full.
LEMMA FullInductive ==
  ASSUME SpentTypes, RowsAreFull, [Spent!Next]_(Spent!vars)
  PROVE  RowsAreFull'
<1> USE DEF RowsAreFull, FullRows
<1>1. ASSUME Spent!OpenAdd PROVE RowsAreFull'
  <2>1. PICK v \in Values :
          form' = [Spent!NoForm EXCEPT !.open = TRUE, !.has["category"] = v]
    BY <1>1 DEF Spent!OpenAdd
  <2>2. form'.id = 0 /\ form'.has["category"] \in Values
    BY <2>1, FormsOpened
  <2>3. QED
    BY <1>1, <2>2 DEF Spent!OpenAdd
<1>2. ASSUME Spent!Close PROVE RowsAreFull'
  BY <1>2 DEF Spent!Close, Spent!NoForm
<1>3. ASSUME Spent!Submit PROVE RowsAreFull'
  <2>1. form.has \in Entries /\ form.has["category"] \in Values /\ form.has["amount"] # 0
    BY <1>3 DEF Spent!Submit, SpentTypes, IsForm
  <2>2. form.has \in [Spent!Fields -> Values]
    BY <2>1 DEF Entries, Spent!Fields
  <2>3. spentReq'.has = form.has
    BY <1>3 DEF Spent!Submit
  <2>4. QED
    BY <1>3, <2>2, <2>3 DEF Spent!Submit
<1>4. ASSUME Spent!Insert PROVE RowsAreFull'
  BY <1>4 DEF Spent!Insert, Spent!With, SpentTypes
<1>5. ASSUME Spent!Update PROVE RowsAreFull'
  BY <1>5 DEF Spent!Update, SpentTypes
<1>6. ASSUME Spent!Answered PROVE RowsAreFull'
  BY <1>6 DEF Spent!Answered, Spent!NoReq, Spent!NoForm, Spent!Asked, Spent!NoQuery
<1>7. ASSUME Spent!Failed PROVE RowsAreFull'
  BY <1>7 DEF Spent!Failed, Spent!NoReq
<1>8. ASSUME NEW i \in DOMAIN spentScreen, Spent!OpenEdit(i) PROVE RowsAreFull'
  <2>1. /\ form' = [Spent!NoForm EXCEPT !.open = TRUE, !.id = i, !.has = spentScreen[i]]
        /\ spentSlips' \subseteq spentSlips \cup {"early"}
        /\ UNCHANGED <<spentRows, spentScreen, spentReq, spentQuery>>
    BY <1>8 DEF Spent!OpenEdit
  <2>2. form'.id = i /\ form'.has = spentScreen[i]
    BY <2>1, FormsOpened DEF Spent!NoForm
  <2>3. form'.has["category"] \in Values
    BY <2>2 DEF Spent!Fields
  <2>4. QED
    BY <2>1, <2>2, <2>3
<1>9. ASSUME NEW i \in DOMAIN spentScreen, Spent!Remove(i) PROVE RowsAreFull'
  BY <1>9 DEF Spent!Remove
<1>10. ASSUME NEW f \in Spent!Fields, Spent!Type(f) PROVE RowsAreFull'
  <2>1. PICK v \in Values : form' = [form EXCEPT !.has[f] = v, !.typed = @ \cup {f}]
    BY <1>10 DEF Spent!Type
  <2>2. IsForm(form) /\ form.open
    BY <1>10 DEF Spent!Type, SpentTypes
  <2>3. /\ form'.id = form.id
        /\ form'.has["category"] = IF "category" = f THEN v ELSE form.has["category"]
    BY <2>1, <2>2, FieldTyped DEF Spent!Fields
  <2>4. QED
    BY <1>10, <2>2, <2>3 DEF Spent!Type
<1>11. ASSUME \/ Spent!RemoveHandled \/ Spent!RemoveAnswered \/ Spent!RemoveFails
              \/ Spent!QueryRead \/ Spent!QueryArrives \/ Spent!QueryFails
              \/ UNCHANGED Spent!vars
       PROVE  RowsAreFull'
  BY <1>11 DEF Spent!RemoveHandled, Spent!RemoveAnswered, Spent!RemoveFails, Spent!QueryRead,
     Spent!QueryArrives, Spent!QueryFails, Spent!Asked, Spent!NoQuery, Spent!vars
<1>12. QED
  BY <1>1, <1>2, <1>3, <1>4, <1>5, <1>6, <1>7, <1>8, <1>9, <1>10, <1>11 DEF Spent!Next

\* Expenses have the types that a run checks.
LEMMA SpentHasTypes == RowsAreFull => Spent!TypeOK
BY DEF RowsAreFull, FullRows, Spent!TypeOK

-----------------------------------------------------------------------------
(* The packing list *)

\* Rows and lists as the handlers and the panel expect them.
PackTable(table) ==
  /\ IsFiniteSet(DOMAIN table) /\ DOMAIN table \subseteq Items
  /\ \A i \in DOMAIN table : table[i] \in [packed : BOOLEAN, order : Nat]

PackLists == Seq([id : Items, packed : BOOLEAN])

PackAdds     == [pc : {"idle", "sent", "counted", "done"}, count : Nat]
PackTicks    == [pc : {"idle", "sent", "done"}, id : Nat, packed : BOOLEAN, prev : PackLists]
PackMovings  == [pc : {"idle", "sent"}, ids : Seq(Nat)]
PackRemovals == [pc : {"idle", "sent", "done"}, id : Nat]
PackQueries  == [pc : {"idle", "asked", "read"}, reply : PackLists]

PackTypes ==
  /\ PackTable(packRows)
  /\ packScreen \in PackLists
  /\ newest \in Nat
  /\ adders \in [Pack!Adders -> PackAdds]
  /\ toggles \in [Toggles -> PackTicks]
  /\ reorder \in PackMovings
  /\ packRemoving \in PackRemovals
  /\ packQuery \in PackQueries

\* A list of all the rows of a table, each once, in some order.
IsListing(list, table) ==
  /\ Len(list) = Cardinality(DOMAIN table)
  /\ \A k \in DOMAIN list :
       list[k].id \in DOMAIN table /\ list[k].packed = table[list[k].id].packed
  /\ \A k, l \in DOMAIN list : list[k].id = list[l].id => k = l

\* Something is under way after which the list is fetched anew.
Settling ==
  \/ packQuery.pc = "asked" \/ packRemoving.pc = "done"
  \/ \E a \in Pack!Adders : adders[a].pc = "done"
  \/ \E t \in Toggles : toggles[t].pc # "idle"

\* Otherwise the screen has the rows, in another order only while that is on its way.
PanelAccounts ==
  packSlips \cap {"lost", "crossed", "not saved"} = {} /\ ~Settling =>
    /\ packQuery.pc = "read" => packQuery.reply = Pack!Listed(packRows)
    /\ packQuery.pc = "idle" =>
         /\ IsListing(packScreen, packRows)
         /\ reorder.pc = "idle" => packScreen = Pack!Listed(packRows)

\* The next order to be given is beyond all that were.
OrdersGrow ==
  packSlips \cap {"deleted", "raced", "reordered"} = {} =>
    /\ \A i \in DOMAIN packRows : packRows[i].order < Cardinality(DOMAIN packRows)
    /\ newest \in DOMAIN packRows =>
         \A i \in DOMAIN packRows \ {newest} : packRows[i].order < packRows[newest].order

PackInv == PackTypes /\ PanelAccounts /\ OrdersGrow

\* What is in a list, and in the list of its ids.
LEMMA InList ==
  ASSUME NEW s \in PackLists
  PROVE  /\ Len(s) \in Nat /\ DOMAIN s = 1 .. Len(s)
         /\ \A m \in DOMAIN s : s[m].id \in Nat /\ s[m].packed \in BOOLEAN
         /\ Pack!Ids(s) \in Seq(Nat) /\ DOMAIN Pack!Ids(s) = DOMAIN s
         /\ \A m \in DOMAIN s : Pack!Ids(s)[m] = s[m].id
<1>1. Len(s) \in Nat /\ DOMAIN s = 1 .. Len(s)
  BY LenProperties DEF PackLists
<1>2. \A m \in DOMAIN s : s[m] \in [id : Items, packed : BOOLEAN]
  BY <1>1, ElementOfSeq DEF PackLists
<1>3. \A m \in DOMAIN s : s[m].id \in Nat /\ s[m].packed \in BOOLEAN
  BY <1>2, ItemsAssumption
<1>4. Pack!Ids(s) \in [1 .. Len(s) -> Nat]
  BY <1>1, <1>3 DEF Pack!Ids
<1>5. Pack!Ids(s) \in Seq(Nat)
  BY <1>1, <1>4, SeqDef
<1>6. QED
  BY <1>1, <1>3, <1>5 DEF Pack!Ids

\* The orders of a table and the ids of its rows order them in full.
LEMMA BeforeOrders ==
  ASSUME NEW table, PackTable(table)
  PROVE  /\ \A i \in DOMAIN table : ~Pack!Before(table, i, i)
         /\ \A i, j \in DOMAIN table :
              i = j \/ Pack!Before(table, i, j) \/ Pack!Before(table, j, i)
         /\ \A i, j, k \in DOMAIN table :
              Pack!Before(table, i, j) /\ Pack!Before(table, j, k) => Pack!Before(table, i, k)
<1>1. \A i \in DOMAIN table : i \in Nat /\ table[i].order \in Nat
  BY ItemsAssumption DEF PackTable
<1>2. QED
  BY <1>1 DEF Pack!Before

\* The items that are not after one.
NotAfter(table, i) == {j \in DOMAIN table : j = i \/ Pack!Before(table, j, i)}

\* The cardinality of the model is that of the library.
LEMMA PlaceIsCount ==
  ASSUME NEW table, NEW i
  PROVE  Pack!Place(table, i) = Cardinality(NotAfter(table, i))
BY DEF Pack!Place, NotAfter, Pack!Cardinality, Cardinality

\* Each item has a place of its own, and each place an item.
LEMMA RanksAreTaken ==
  ASSUME NEW table, PackTable(table)
  PROVE  /\ Cardinality(DOMAIN table) \in Nat
         /\ \A i \in DOMAIN table : Pack!Place(table, i) \in 1 .. Cardinality(DOMAIN table)
         /\ \A i, j \in DOMAIN table : Pack!Place(table, i) = Pack!Place(table, j) => i = j
         /\ \A k \in 1 .. Cardinality(DOMAIN table) :
              \E i \in DOMAIN table : Pack!Place(table, i) = k
<1> DEFINE D == DOMAIN table
           n == Cardinality(D)
<1>1. IsFiniteSet(D) /\ n \in Nat
  BY FS_CardinalityType DEF PackTable
<1>2. \A i \in D : /\ IsFiniteSet(NotAfter(table, i))
                   /\ Cardinality(NotAfter(table, i)) \in Nat
                   /\ Cardinality(NotAfter(table, i)) <= n
                   /\ Cardinality(NotAfter(table, i)) # 0
  <2> TAKE i \in D
  <2>1. NotAfter(table, i) \in SUBSET D /\ i \in NotAfter(table, i)
    BY DEF NotAfter
  <2>2. IsFiniteSet(NotAfter(table, i)) /\ Cardinality(NotAfter(table, i)) <= n
    BY <1>1, <2>1, FS_Subset
  <2>3. Cardinality(NotAfter(table, i)) # 0
    BY <2>1, <2>2, FS_EmptySet
  <2>4. QED
    BY <2>2, <2>3, FS_CardinalityType
<1>3. \A i \in D : Pack!Place(table, i) \in 1 .. n
  BY <1>1, <1>2, PlaceIsCount
<1>4. ASSUME NEW i \in D, NEW j \in D, Pack!Before(table, i, j)
      PROVE  Pack!Place(table, i) # Pack!Place(table, j)
  <2>1. NotAfter(table, i) \in SUBSET NotAfter(table, j)
    BY <1>4, BeforeOrders DEF NotAfter
  <2>2. j \in NotAfter(table, j) /\ j \notin NotAfter(table, i)
    BY <1>4, BeforeOrders DEF NotAfter
  <2>3. Cardinality(NotAfter(table, i)) # Cardinality(NotAfter(table, j))
    BY <1>2, <2>1, <2>2, FS_Subset
  <2>4. QED
    BY <2>3, PlaceIsCount
<1>5. \A i, j \in D : Pack!Place(table, i) = Pack!Place(table, j) => i = j
  BY <1>4, BeforeOrders
<1>6. \A k \in 1 .. n : \E i \in D : Pack!Place(table, i) = k
  <2> DEFINE f == [i \in D |-> Pack!Place(table, i)]
  <2>1. f \in Injection(D, 1 .. n)
    BY <1>3, <1>5 DEF Injection, IsInjective
  <2>2. IsFiniteSet(1 .. n) /\ Cardinality(1 .. n) = n
    BY <1>1, FS_Interval
  <2>3. f \in Surjection(D, 1 .. n)
    <3> HIDE DEF f
    <3> QED
      BY <2>1, <2>2, FS_Injection
  <2>4. QED
    BY <2>3 DEF Surjection
<1>7. QED
  BY <1>1, <1>3, <1>5, <1>6

\* The list of a table is a listing of it, with each item at its place.
LEMMA ListedIsListing ==
  ASSUME NEW table, PackTable(table)
  PROVE  /\ Pack!Listed(table) \in PackLists /\ IsListing(Pack!Listed(table), table)
         /\ \A k \in 1 .. Cardinality(DOMAIN table) :
              Pack!Place(table, Pack!Listed(table)[k].id) = k
<1> DEFINE D == DOMAIN table
           n == Cardinality(D)
           at(k) == CHOOSE i \in D : Pack!Place(table, i) = k
           list == Pack!Listed(table)
<1>1. Pack!Cardinality(D) = n
  BY DEF Pack!Cardinality, Cardinality
<1>2. list = [k \in 1 .. n |-> [id |-> at(k), packed |-> table[at(k)].packed]]
  BY <1>1 DEF Pack!Listed
<1>3. n \in Nat
  BY RanksAreTaken
<1>4. \A k \in 1 .. n : at(k) \in D /\ Pack!Place(table, at(k)) = k
  BY RanksAreTaken
<1>5. \A k \in 1 .. n : at(k) \in Items /\ table[at(k)].packed \in BOOLEAN
  BY <1>4 DEF PackTable
<1> HIDE DEF at, list
<1>6. \A k \in 1 .. n : list[k].id = at(k) /\ list[k].packed = table[at(k)].packed
  BY <1>2
<1>7. list \in [1 .. n -> [id : Items, packed : BOOLEAN]]
  BY <1>2, <1>5
<1>8. list \in PackLists /\ DOMAIN list = 1 .. n
  BY <1>3, <1>7, SeqDef DEF PackLists
<1>9. Len(list) = n
  BY <1>3, <1>8, LenProperties DEF PackLists
<1>10. IsListing(list, table)
  BY <1>4, <1>6, <1>8, <1>9 DEF IsListing
<1>11. QED
  BY <1>4, <1>6, <1>8, <1>10 DEF list

\* A listing in which each item is before the next ones is the list.
LEMMA SortedIsListed ==
  ASSUME NEW table, PackTable(table), NEW list \in PackLists, IsListing(list, table),
         \A k, l \in DOMAIN list : k < l => Pack!Before(table, list[k].id, list[l].id)
  PROVE  list = Pack!Listed(table)
<1> DEFINE D == DOMAIN table
           n == Cardinality(D)
<1>1. n \in Nat /\ Len(list) = n /\ DOMAIN list = 1 .. n
  BY RanksAreTaken, LenProperties DEF IsListing, PackLists
<1>2. IsFiniteSet(1 .. n) /\ Cardinality(1 .. n) = n /\ IsFiniteSet(D)
  BY <1>1, FS_Interval DEF PackTable
<1> DEFINE f == [k \in 1 .. n |-> list[k].id]
<1>3. f \in Injection(1 .. n, D)
  BY <1>1 DEF IsListing, Injection, IsInjective
<1>4. \A i \in D : \E k \in 1 .. n : list[k].id = i
  <2>1. f \in Surjection(1 .. n, D)
    <3> HIDE DEF f
    <3> QED
      BY <1>2, <1>3, FS_Injection
  <2>2. QED
    BY <2>1 DEF Surjection
<1>5. \A k \in 1 .. n : Pack!Place(table, list[k].id) = k
  <2> TAKE k \in 1 .. n
  <2> DEFINE S == NotAfter(table, list[k].id)
             g == [m \in 1 .. k |-> list[m].id]
  <2>1. \A m \in 1 .. n : list[m].id \in S <=> m <= k
    <3> TAKE m \in 1 .. n
    <3>1. list[m].id \in D /\ list[k].id \in D
      BY <1>1 DEF IsListing
    <3>2. CASE m = k
      BY <3>1, <3>2 DEF NotAfter
    <3>3. CASE m < k
      BY <3>1, <3>3, <1>1 DEF NotAfter
    <3>4. CASE m > k
      <4>1. Pack!Before(table, list[k].id, list[m].id)
        BY <3>4, <1>1
      <4>2. ~Pack!Before(table, list[m].id, list[k].id) /\ list[m].id # list[k].id
        BY <4>1, <3>1, BeforeOrders
      <4>3. QED
        BY <4>2, <3>4 DEF NotAfter
    <3>5. QED
      BY <3>2, <3>3, <3>4, <1>1
  <2>2. \A i \in S : \E m \in 1 .. k : g[m] = i
    BY <1>1, <1>4, <2>1 DEF NotAfter
  <2>3. g \in [1 .. k -> S]
    BY <1>1, <2>1
  <2>4. \A l, m \in 1 .. k : g[l] = g[m] => l = m
    BY <1>1 DEF IsListing
  <2>5. g \in Bijection(1 .. k, S)
    <3> HIDE DEF g, S
    <3> QED
      BY <2>2, <2>3, <2>4 DEF Bijection, Injection, Surjection, IsInjective
  <2>6. Cardinality(S) = k
    <3> HIDE DEF g, S
    <3>1. k \in Nat
      BY <1>1
    <3>2. QED
      BY <2>5, <3>1, FS_CountingElements DEF ExistsBijection
  <2>7. QED
    BY <2>6, PlaceIsCount
<1>6. \A k \in 1 .. n : list[k].id = Pack!Listed(table)[k].id
  <2> TAKE k \in 1 .. n
  <2>1. list[k].id \in D
    BY <1>1 DEF IsListing
  <2>2. Pack!Listed(table)[k].id \in D /\ Pack!Place(table, Pack!Listed(table)[k].id) = k
    BY <1>1, ListedIsListing, LenProperties DEF IsListing, PackLists
  <2>3. QED
    BY <1>5, <2>1, <2>2, RanksAreTaken
<1>7. /\ Pack!Listed(table) \in PackLists
      /\ Len(Pack!Listed(table)) = n /\ DOMAIN Pack!Listed(table) = 1 .. n
      /\ \A k \in 1 .. n :
           Pack!Listed(table)[k].packed = table[Pack!Listed(table)[k].id].packed
  BY <1>1, ListedIsListing, LenProperties DEF IsListing, PackLists
<1>8. \A k \in 1 .. n : list[k].packed = Pack!Listed(table)[k].packed
  BY <1>1, <1>6, <1>7 DEF IsListing
<1>9. \A k \in 1 .. n : list[k] = Pack!Listed(table)[k]
  <2>1. \A r, s \in [id : Items, packed : BOOLEAN] : r.id = s.id /\ r.packed = s.packed => r = s
    OBVIOUS
  <2>2. \A k \in 1 .. n : /\ list[k] \in [id : Items, packed : BOOLEAN]
                         /\ Pack!Listed(table)[k] \in [id : Items, packed : BOOLEAN]
    BY <1>1, <1>7, ElementOfSeq DEF PackLists
  <2>3. QED
    BY <1>6, <1>8, <2>1, <2>2
<1>10. QED
  BY <1>1, <1>7, <1>9, SeqEqual DEF PackLists

\* What is taken out of a list and put in again elsewhere.
LEMMA TakenOut ==
  ASSUME NEW S, NEW s \in Seq(S), NEW k \in 1 .. Len(s)
  PROVE  /\ Pack!RemoveAt(s, k) \in Seq(S)
         /\ Len(Pack!RemoveAt(s, k)) = Len(s) - 1
         /\ \A m \in 1 .. Len(s) - 1 :
              Pack!RemoveAt(s, k)[m] = IF m < k THEN s[m] ELSE s[m + 1]
<1> DEFINE a == SubSeq(s, 1, k - 1)
           b == SubSeq(s, k + 1, Len(s))
<1>1. Len(s) \in Nat /\ \A m \in 1 .. Len(s) : s[m] \in S
  BY LenProperties, ElementOfSeq
<1>2. /\ a \in Seq(S) /\ Len(a) = k - 1
      /\ \A m \in 1 .. k - 1 : a[m] = s[m]
  BY <1>1, SubSeqProperties
<1>3. /\ b \in Seq(S) /\ Len(b) = Len(s) - k
      /\ \A m \in 1 .. Len(s) - k : b[m] = s[k + m]
  BY <1>1, SubSeqProperties
<1> HIDE DEF a, b
<1>4. /\ a \o b \in Seq(S) /\ Len(a \o b) = Len(s) - 1
      /\ \A m \in 1 .. Len(s) - 1 : (a \o b)[m] = IF m < k THEN s[m] ELSE s[m + 1]
  <2>1. /\ a \o b \in Seq(S) /\ Len(a \o b) = Len(a) + Len(b)
        /\ \A m \in 1 .. Len(a) + Len(b) : (a \o b)[m] = IF m <= Len(a) THEN a[m] ELSE b[m - Len(a)]
    BY <1>2, <1>3, ConcatProperties
  <2>2. k \in Nat /\ k > 0 /\ k <= Len(s) /\ Len(a) + Len(b) = Len(s) - 1
    BY <1>1, <1>2, <1>3
  <2>3. ASSUME NEW m \in 1 .. Len(s) - 1
        PROVE  (a \o b)[m] = IF m < k THEN s[m] ELSE s[m + 1]
    <3>1. (a \o b)[m] = IF m <= k - 1 THEN a[m] ELSE b[m - (k - 1)]
      BY <1>2, <2>1, <2>2
    <3>2. CASE m < k
      BY <1>2, <2>2, <3>1, <3>2
    <3>3. CASE ~(m < k)
      <4>1. m - (k - 1) \in 1 .. Len(s) - k /\ k + (m - (k - 1)) = m + 1
        BY <1>1, <2>2, <3>3
      <4>2. QED
        BY <1>3, <2>2, <3>1, <3>3, <4>1
    <3>4. QED
      BY <3>2, <3>3
  <2>4. QED
    BY <2>1, <2>2, <2>3
<1>5. QED
  BY <1>4 DEF Pack!RemoveAt, a, b

\* u is the list s with e put in at l.
IsPutIn(u, S, s, l, e) ==
  /\ u \in Seq(S)
  /\ Len(u) = Len(s) + 1
  /\ \A m \in 1 .. Len(s) + 1 :
       u[m] = IF m < l THEN s[m] ELSE IF m = l THEN e ELSE s[m - 1]

\* What is put into a list.
LEMMA PutIn ==
  ASSUME NEW S, NEW s \in Seq(S), NEW l \in 1 .. Len(s) + 1, NEW e \in S
  PROVE  IsPutIn(Pack!InsertAt(s, l, e), S, s, l, e)
<1> DEFINE a == SubSeq(s, 1, l - 1)
           b == SubSeq(s, l, Len(s))
           c == <<e>>
<1>1. Len(s) \in Nat /\ \A m \in 1 .. Len(s) : s[m] \in S
  BY LenProperties, ElementOfSeq
<1>2. /\ a \in Seq(S) /\ Len(a) = l - 1
      /\ \A m \in 1 .. l - 1 : a[m] = s[m]
  BY <1>1, SubSeqProperties
<1>3. /\ b \in Seq(S) /\ Len(b) = Len(s) - l + 1
      /\ \A m \in 1 .. Len(s) - l + 1 : b[m] = s[l + m - 1]
  BY <1>1, SubSeqProperties
<1>4. c \in Seq(S) /\ Len(c) = 1 /\ c[1] = e
  OBVIOUS
<1> HIDE DEF a, b, c
<1>5. /\ a \o c \in Seq(S) /\ Len(a \o c) = l
      /\ \A m \in 1 .. l : (a \o c)[m] = IF m < l THEN s[m] ELSE e
  <2>1. /\ a \o c \in Seq(S) /\ Len(a \o c) = Len(a) + Len(c)
        /\ \A m \in 1 .. Len(a) + Len(c) : (a \o c)[m] = IF m <= Len(a) THEN a[m] ELSE c[m - Len(a)]
    BY <1>2, <1>4, ConcatProperties
  <2>2. Len(a) + Len(c) = l
    BY <1>2, <1>4
  <2>3. QED
    BY <1>2, <1>4, <2>1, <2>2
<1> DEFINE d == a \o c
<1> HIDE DEF d
<1>6. /\ d \o b \in Seq(S) /\ Len(d \o b) = Len(s) + 1
      /\ \A m \in 1 .. Len(s) + 1 :
           (d \o b)[m] = IF m < l THEN s[m] ELSE IF m = l THEN e ELSE s[m - 1]
  <2>1. d \in Seq(S) /\ Len(d) = l /\ \A m \in 1 .. l : d[m] = IF m < l THEN s[m] ELSE e
    BY <1>5 DEF d
  <2>2. /\ d \o b \in Seq(S) /\ Len(d \o b) = Len(d) + Len(b)
        /\ \A m \in 1 .. Len(d) + Len(b) : (d \o b)[m] = IF m <= Len(d) THEN d[m] ELSE b[m - Len(d)]
    BY <1>3, <2>1, ConcatProperties
  <2>3. Len(d) + Len(b) = Len(s) + 1
    BY <1>1, <1>3, <2>1
  <2>4. QED
    BY <1>1, <1>3, <2>1, <2>2, <2>3
<1>7. QED
  BY <1>6 DEF IsPutIn, Pack!InsertAt, a, b, c, d

\* Dragging keeps a listing a listing.
LEMMA DraggedIsListing ==
  ASSUME NEW s \in PackLists, NEW k \in DOMAIN s, NEW l \in DOMAIN s
  PROVE  LET t == Pack!InsertAt(Pack!RemoveAt(s, k), l, s[k])
         IN  /\ t \in PackLists
             /\ \A table : IsListing(s, table) => IsListing(t, table)
<1> DEFINE r == Pack!RemoveAt(s, k)
           t == Pack!InsertAt(r, l, s[k])
           n == Len(s)
<1>1. n \in Nat /\ DOMAIN s = 1 .. n
  BY LenProperties DEF PackLists
<1>2. s[k] \in [id : Items, packed : BOOLEAN]
  BY <1>1, ElementOfSeq DEF PackLists
<1>3. /\ r \in PackLists /\ Len(r) = n - 1
      /\ \A m \in 1 .. n - 1 : r[m] = IF m < k THEN s[m] ELSE s[m + 1]
  BY <1>1, TakenOut DEF PackLists
<1> HIDE DEF r
<1>4. /\ t \in PackLists /\ Len(t) = n
      /\ \A m \in 1 .. n : t[m] = IF m < l THEN r[m] ELSE IF m = l THEN s[k] ELSE r[m - 1]
  <2>1. r \in Seq([id : Items, packed : BOOLEAN]) /\ l \in 1 .. Len(r) + 1 /\ Len(r) + 1 = n
    BY <1>1, <1>3 DEF PackLists
  <2> HIDE DEF t, n
  <2>2. IsPutIn(t, [id : Items, packed : BOOLEAN], r, l, s[k])
    BY <1>2, <2>1, PutIn DEF t
  <2>3. QED
    BY <2>1, <2>2 DEF IsPutIn, PackLists
<1> HIDE DEF t, n
<1> DEFINE from == [m \in 1 .. n |-> IF m < l THEN IF m < k THEN m ELSE m + 1
                                     ELSE IF m = l THEN k
                                     ELSE IF m - 1 < k THEN m - 1 ELSE m]
<1>5. /\ \A m \in 1 .. n : from[m] \in 1 .. n
      /\ \A m, p \in 1 .. n : from[m] = from[p] => m = p
  BY <1>1
<1>6. \A m \in 1 .. n : t[m] = s[from[m]]
  BY <1>1, <1>3, <1>4
<1> HIDE DEF from
<1>7. DOMAIN t = 1 .. n
  BY <1>1, <1>4, LenProperties DEF PackLists
<1>8. ASSUME NEW table, IsListing(s, table) PROVE IsListing(t, table)
  <2>1. /\ DOMAIN s = 1 .. n
        /\ Len(t) = Cardinality(DOMAIN table)
        /\ \A m \in 1 .. n : s[m].id \in DOMAIN table /\ s[m].packed = table[s[m].id].packed
        /\ \A m, p \in 1 .. n : s[m].id = s[p].id => m = p
    BY <1>1, <1>4, <1>8 DEF IsListing, n
  <2>2. \A m \in 1 .. n : t[m].id \in DOMAIN table /\ t[m].packed = table[t[m].id].packed
    <3>1. ASSUME NEW m \in 1 .. n
          PROVE  t[m].id \in DOMAIN table /\ t[m].packed = table[t[m].id].packed
      <4>1. from[m] \in 1 .. n /\ t[m] = s[from[m]]
        BY <1>5, <1>6
      <4>2. QED
        BY <2>1, <4>1
    <3>2. QED
      BY <3>1
  <2>3. \A m, p \in 1 .. n : t[m].id = t[p].id => m = p
    <3>1. ASSUME NEW m \in 1 .. n, NEW p \in 1 .. n, t[m].id = t[p].id PROVE m = p
      <4>1. /\ from[m] \in 1 .. n /\ t[m] = s[from[m]]
            /\ from[p] \in 1 .. n /\ t[p] = s[from[p]]
        BY <1>5, <1>6
      <4>2. from[m] = from[p]
        BY <2>1, <3>1, <4>1
      <4>3. QED
        BY <1>5, <4>2
    <3>2. QED
      BY <3>1
  <2>4. QED
    BY <1>7, <2>1, <2>2, <2>3 DEF IsListing
<1>9. QED
  BY <1>4, <1>8 DEF t, r

\* What says that nothing is on its way, and that the list was asked for.
LEMMA PackNothing ==
  /\ Pack!NoAdd \in PackAdds
  /\ Pack!NoToggle \in PackTicks
  /\ Pack!NoIds \in PackMovings /\ Pack!NoIds.pc = "idle"
  /\ Pack!NoQuery \in PackQueries /\ Pack!NoQuery.pc = "idle"
  /\ Pack!Asked \in PackQueries /\ Pack!Asked.pc = "asked"
<1>1. Pack!NoAdd \in PackAdds
  BY DEF Pack!NoAdd, PackAdds
<1>2. <<>> \in PackLists /\ <<>> \in Seq(Nat)
  BY EmptySeq DEF PackLists
<1>3. ASSUME NEW e, e = <<>>
      PROVE  /\ [pc |-> "idle", id |-> 0, packed |-> FALSE, prev |-> e] \in PackTicks
             /\ [pc |-> "idle", ids |-> e] \in PackMovings
             /\ [pc |-> "idle", reply |-> e] \in PackQueries
             /\ [[pc |-> "idle", reply |-> e] EXCEPT !.pc = "asked"] \in PackQueries
             /\ [[pc |-> "idle", reply |-> e] EXCEPT !.pc = "asked"].pc = "asked"
             /\ [pc |-> "idle", ids |-> e].pc = "idle"
             /\ [pc |-> "idle", reply |-> e].pc = "idle"
  <2>1. e \in PackLists /\ e \in Seq(Nat)
    BY <1>2, <1>3
  <2>2. QED
    BY <2>1 DEF PackTicks, PackMovings, PackQueries
<1>4. QED
  BY <1>1, <1>3, Zenon DEF Pack!NoToggle, Pack!NoIds, Pack!NoQuery, Pack!Asked

\* Each variable of the packing list stays of its type.
LEMMA PackTypesStay ==
  ASSUME PackTypes, [Pack!Next]_(Pack!vars)
  PROVE  PackTypes'
<1>1. ASSUME NEW a \in Pack!Adders, Pack!Add(a)
      PROVE  PackTypes'
  BY <1>1 DEF Pack!Add, PackTypes, PackTable, PackAdds, PackTicks, PackRemovals
<1>2. ASSUME NEW a \in Pack!Adders, Pack!AddCount(a)
      PROVE  PackTypes'
  <2>1. Pack!Cardinality(DOMAIN packRows) \in Nat
    BY FS_CardinalityType DEF PackTypes, PackTable, Pack!Cardinality, Cardinality
  <2>2. adders' \in [Pack!Adders -> PackAdds]
    BY <1>2, <2>1 DEF Pack!AddCount, PackTypes, PackAdds
  <2>3. QED
    BY <1>2, <2>2 DEF Pack!AddCount, PackTypes
<1>3. ASSUME NEW a \in Pack!Adders, Pack!AddInsert(a)
      PROVE  PackTypes'
  <2>1. adders[a].count \in Nat /\ adders' \in [Pack!Adders -> PackAdds]
    BY <1>3 DEF Pack!AddInsert, PackTypes, PackAdds
  <2>2. PICK i \in Items :
          /\ packRows' = [j \in DOMAIN packRows \cup {i} |->
               IF j = i THEN [packed |-> FALSE, order |-> adders[a].count] ELSE packRows[j]]
          /\ newest' = i
    BY <1>3 DEF Pack!AddInsert
  <2>3. i \in Nat
    BY ItemsAssumption
  <2>4. DOMAIN packRows' = DOMAIN packRows \cup {i}
    BY <2>2
  <2>5. IsFiniteSet(DOMAIN packRows') /\ DOMAIN packRows' \subseteq Items
    BY <2>3, <2>4, FS_AddElement DEF PackTypes, PackTable
  <2>6. \A j \in DOMAIN packRows' : packRows'[j] \in [packed : BOOLEAN, order : Nat]
    <3>1. [packed |-> FALSE, order |-> adders[a].count] \in [packed : BOOLEAN, order : Nat]
      BY <2>1
    <3>2. \A j \in DOMAIN packRows : packRows[j] \in [packed : BOOLEAN, order : Nat]
      BY DEF PackTypes, PackTable
    <3>3. QED
      BY <2>2, <2>4, <3>1, <3>2
  <2>7. QED
    BY <1>3, <2>1, <2>2, <2>3, <2>5, <2>6 DEF Pack!AddInsert, PackTypes, PackTable
<1>4. ASSUME NEW a \in Pack!Adders, Pack!AddAnswered(a)
      PROVE  PackTypes'
  BY <1>4, PackNothing DEF Pack!AddAnswered, PackTypes
<1>5. ASSUME NEW a \in Pack!Adders, Pack!AddFails(a)
      PROVE  PackTypes'
  BY <1>5, PackNothing DEF Pack!AddFails, PackTypes
<1>6. ASSUME NEW t \in Toggles, Pack!ToggleHandled(t)
      PROVE  PackTypes'
  BY <1>6 DEF Pack!ToggleHandled, PackTypes, PackTable, PackAdds, PackTicks, PackRemovals
<1>7. ASSUME NEW t \in Toggles, Pack!ToggleSettled(t)
      PROVE  PackTypes'
  BY <1>7, PackNothing DEF Pack!ToggleSettled, PackTypes, PackTicks
<1>8. ASSUME NEW t \in Toggles, NEW k \in DOMAIN packScreen, Pack!Toggle(t, k)
      PROVE  PackTypes'
  <2>1. k \in 1 .. Len(packScreen) /\ packScreen[k] \in [id : Items, packed : BOOLEAN]
    BY <1>8, LenProperties, ElementOfSeq DEF PackTypes, PackLists
  <2>2. ASSUME NEW r \in [id : Items, packed : BOOLEAN]
        PROVE  [r EXCEPT !.packed = ~r.packed] \in [id : Items, packed : BOOLEAN]
    BY <2>2
  <2>3. packScreen' \in PackLists
    <3> DEFINE e == [packScreen[k] EXCEPT !.packed = ~packScreen[k].packed]
    <3>1. e \in [id : Items, packed : BOOLEAN]
      BY <2>1, <2>2
    <3>2. packScreen' = [packScreen EXCEPT ![k] = e]
      BY <1>8 DEF Pack!Toggle
    <3> HIDE DEF e
    <3>3. QED
      BY <2>1, <3>1, <3>2, ExceptSeq DEF PackTypes, PackLists
  <2>4. [pc |-> "sent", id |-> packScreen[k].id, packed |-> ~packScreen[k].packed,
         prev |-> packScreen] \in PackTicks
    BY <2>1, ItemsAssumption DEF PackTypes, PackTicks
  <2>5. toggles' \in [Toggles -> PackTicks]
    BY <1>8, <2>4 DEF Pack!Toggle, PackTypes
  <2>6. QED
    BY <1>8, <2>3, <2>5, PackNothing DEF Pack!Toggle, PackTypes
<1>9. ASSUME NEW k \in DOMAIN packScreen, NEW l \in DOMAIN packScreen, Pack!Drag(k, l)
      PROVE  PackTypes'
  <2>1. packScreen' \in PackLists
    BY <1>9, DraggedIsListing DEF Pack!Drag, PackTypes
  <2>2. Pack!Ids(packScreen') \in Seq(Nat)
    BY <2>1, InList
  <2>3. reorder' \in PackMovings
    BY <1>9, <2>2 DEF Pack!Drag, PackMovings
  <2>4. QED
    BY <1>9, <2>1, <2>3 DEF Pack!Drag, PackTypes
<1>10. ASSUME NEW k \in DOMAIN packScreen, Pack!RemoveItem(k)
      PROVE  PackTypes'
  <2>1. packScreen[k].id \in Nat
    BY InList DEF PackTypes
  <2>2. packRemoving' \in PackRemovals
    BY <1>10, <2>1 DEF Pack!RemoveItem, PackRemovals
  <2>3. QED
    BY <1>10, <2>2 DEF Pack!RemoveItem, PackTypes
<1>11. ASSUME Pack!Reordered
      PROVE  PackTypes'
  <2>1. DOMAIN packRows' = DOMAIN packRows
    BY <1>11 DEF Pack!Reordered
  <2>2. ASSUME NEW i \in DOMAIN packRows PROVE packRows'[i] \in [packed : BOOLEAN, order : Nat]
    <3>1. packRows[i] \in [packed : BOOLEAN, order : Nat]
      BY DEF PackTypes, PackTable
    <3>2. CASE \E m \in DOMAIN reorder.ids : reorder.ids[m] = i
      <4> DEFINE m == CHOOSE m \in DOMAIN reorder.ids : reorder.ids[m] = i
      <4>1. m \in DOMAIN reorder.ids
        BY <3>2
      <4>2. packRows'[i] = [packRows[i] EXCEPT !.order = m - 1]
        BY <1>11, <3>2 DEF Pack!Reordered
      <4> HIDE DEF m
      <4>3. m - 1 \in Nat
        BY <4>1, LenProperties DEF PackTypes, PackMovings
      <4>4. QED
        BY <3>1, <4>2, <4>3
    <3>3. CASE ~\E m \in DOMAIN reorder.ids : reorder.ids[m] = i
      BY <1>11, <3>1, <3>3 DEF Pack!Reordered
    <3>4. QED
      BY <3>2, <3>3
  <2>3. PackTable(packRows')
    BY <2>1, <2>2 DEF PackTypes, PackTable
  <2>4. QED
    BY <1>11, <2>3, PackNothing DEF Pack!Reordered, PackTypes
<1>12. ASSUME Pack!ReorderFails
      PROVE  PackTypes'
  BY <1>12, PackNothing DEF Pack!ReorderFails, PackTypes
<1>13. ASSUME Pack!RemoveHandled
      PROVE  PackTypes'
  <2>1. DOMAIN packRows' = DOMAIN packRows \ {packRemoving.id}
    BY <1>13 DEF Pack!RemoveHandled
  <2>2. IsFiniteSet(DOMAIN packRows')
    BY <2>1, FS_RemoveElement DEF PackTypes, PackTable
  <2>3. PackTable(packRows')
    BY <1>13, <2>1, <2>2 DEF Pack!RemoveHandled, PackTypes, PackTable
  <2>4. packRemoving' \in PackRemovals
    BY <1>13 DEF Pack!RemoveHandled, PackTypes, PackRemovals
  <2>5. QED
    BY <1>13, <2>3, <2>4 DEF Pack!RemoveHandled, PackTypes
<1>14. ASSUME Pack!RemoveAnswered
      PROVE  PackTypes'
  BY <1>14, PackNothing DEF Pack!RemoveAnswered, PackTypes, PackRemovals
<1>15. ASSUME Pack!RemoveFails
      PROVE  PackTypes'
  BY <1>15 DEF Pack!RemoveFails, PackTypes, PackTable, PackAdds, PackTicks, PackRemovals
<1>16. ASSUME Pack!QueryRead
      PROVE  PackTypes'
  <2>1. Pack!Listed(packRows) \in PackLists
    BY ListedIsListing DEF PackTypes
  <2>2. QED
    BY <1>16, <2>1 DEF Pack!QueryRead, PackTypes, PackQueries
<1>17. ASSUME Pack!QueryArrives
      PROVE  PackTypes'
  <2>1. packQuery.reply \in PackLists
    BY DEF PackTypes, PackQueries
  <2>2. QED
    BY <1>17, <2>1, PackNothing DEF Pack!QueryArrives, PackTypes
<1>18. ASSUME Pack!QueryFails
      PROVE  PackTypes'
  BY <1>18, PackNothing DEF Pack!QueryFails, PackTypes
<1>19. ASSUME UNCHANGED Pack!vars PROVE PackTypes'
  BY <1>19 DEF Pack!vars, PackTypes, PackTable
<1>q. QED
  BY <1>1, <1>2, <1>3, <1>4, <1>5, <1>6, <1>7, <1>8, <1>9, <1>10, <1>11, <1>12, <1>13, <1>14,
     <1>15, <1>16, <1>17, <1>18, <1>19
     DEF Pack!Next

\* Every step keeps PanelAccounts.
LEMMA PanelStays ==
  ASSUME PackTypes, PanelAccounts, [Pack!Next]_(Pack!vars)
  PROVE  PanelAccounts'
<1>1. ASSUME NEW a \in Pack!Adders, Pack!Add(a)
      PROVE  PanelAccounts'
  BY <1>1
     DEF Pack!Add, PanelAccounts, Settling, PackTypes, PackAdds, PackTicks, PackMovings,
         PackRemovals, PackQueries
<1>2. ASSUME NEW a \in Pack!Adders, Pack!AddCount(a)
      PROVE  PanelAccounts'
  BY <1>2
     DEF Pack!AddCount, PanelAccounts, Settling, PackTypes, PackAdds, PackTicks, PackMovings,
         PackRemovals, PackQueries
<1>3. ASSUME NEW a \in Pack!Adders, Pack!AddInsert(a)
      PROVE  PanelAccounts'
  BY <1>3
     DEF Pack!AddInsert, PanelAccounts, Settling, PackTypes, PackAdds, PackTicks, PackMovings,
         PackRemovals, PackQueries
<1>4. ASSUME NEW a \in Pack!Adders, Pack!AddAnswered(a)
      PROVE  PanelAccounts'
  BY <1>4
     DEF Pack!AddAnswered, Pack!NoAdd, Pack!Asked, Pack!NoQuery, PanelAccounts, Settling,
         PackTypes, PackAdds, PackTicks, PackMovings, PackRemovals, PackQueries
<1>5. ASSUME NEW a \in Pack!Adders, Pack!AddFails(a)
      PROVE  PanelAccounts'
  BY <1>5
     DEF Pack!AddFails, Pack!NoAdd, PanelAccounts, Settling, PackTypes, PackAdds, PackTicks,
         PackMovings, PackRemovals, PackQueries
<1>6. ASSUME NEW t \in Toggles, Pack!ToggleHandled(t)
      PROVE  PanelAccounts'
  BY <1>6
     DEF Pack!ToggleHandled, PanelAccounts, Settling, PackTypes, PackAdds, PackTicks, PackMovings,
         PackRemovals, PackQueries
<1>7. ASSUME NEW t \in Toggles, Pack!ToggleSettled(t)
      PROVE  PanelAccounts'
  BY <1>7
     DEF Pack!ToggleSettled, Pack!NoToggle, Pack!Asked, Pack!NoQuery, PanelAccounts, Settling,
         PackTypes, PackAdds, PackTicks, PackMovings, PackRemovals, PackQueries
<1>8. ASSUME NEW t \in Toggles, NEW k \in DOMAIN packScreen, Pack!Toggle(t, k)
      PROVE  PanelAccounts'
  BY <1>8
     DEF Pack!Toggle, Pack!NoQuery, PanelAccounts, Settling, PackTypes, PackAdds, PackTicks,
         PackMovings, PackRemovals, PackQueries
<1>9. ASSUME NEW k \in DOMAIN packScreen, NEW l \in DOMAIN packScreen, Pack!Drag(k, l)
      PROVE  PanelAccounts'
  <2>1. /\ packScreen' = Pack!InsertAt(Pack!RemoveAt(packScreen, k), l, packScreen[k])
        /\ packRows' = packRows /\ packQuery' = packQuery
        /\ reorder'.pc = "sent"
        /\ packSlips \subseteq packSlips'
        /\ packQuery.pc # "idle" => "crossed" \in packSlips'
        /\ Settling' = Settling
    BY <1>9 DEF Pack!Drag, Settling
  <2>2. \A table : IsListing(packScreen, table) => IsListing(packScreen', table)
    BY <2>1, DraggedIsListing DEF PackTypes
  <2>3. QED
    BY <2>1, <2>2 DEF PanelAccounts
<1>10. ASSUME NEW k \in DOMAIN packScreen, Pack!RemoveItem(k)
      PROVE  PanelAccounts'
  BY <1>10
     DEF Pack!RemoveItem, PanelAccounts, Settling, PackTypes, PackAdds, PackTicks, PackMovings,
         PackRemovals, PackQueries
<1>11. ASSUME Pack!Reordered
      PROVE  PanelAccounts'
  <2>1. /\ packScreen' = packScreen /\ packQuery' = packQuery
        /\ packSlips \subseteq packSlips'
        /\ packQuery.pc # "idle" \/ Pack!Ids(packScreen) # reorder.ids => "crossed" \in packSlips'
        /\ Settling' = Settling
    BY <1>11 DEF Pack!Reordered, Settling
  <2>2. DOMAIN packRows' = DOMAIN packRows
    BY <1>11 DEF Pack!Reordered
  <2>3. PackTypes'
    BY <1>11, PackTypesStay DEF Pack!Next
  <2>4. SUFFICES ASSUME packSlips' \cap {"lost", "crossed", "not saved"} = {}, ~Settling'
                 PROVE  packQuery.pc = "idle" /\ packScreen = Pack!Listed(packRows')
                        /\ IsListing(packScreen, packRows')
    BY <2>1 DEF PanelAccounts
  <2>5. packQuery.pc = "idle" /\ Pack!Ids(packScreen) = reorder.ids
    BY <2>1, <2>4
  <2>6. IsListing(packScreen, packRows)
    BY <2>1, <2>4, <2>5 DEF PanelAccounts
  <2>7. /\ DOMAIN packScreen = 1 .. Len(packScreen) /\ Len(packScreen) \in Nat
        /\ DOMAIN reorder.ids = DOMAIN packScreen
        /\ \A m \in DOMAIN packScreen : reorder.ids[m] = packScreen[m].id
    BY <2>5, InList DEF PackTypes
  <2>8. ASSUME NEW m \in DOMAIN packScreen
        PROVE  /\ packRows'[packScreen[m].id].order = m - 1
               /\ packRows'[packScreen[m].id].packed = packRows[packScreen[m].id].packed
    <3> DEFINE i == packScreen[m].id
               n == CHOOSE n \in DOMAIN reorder.ids : reorder.ids[n] = i
    <3>1. i \in DOMAIN packRows /\ \E p \in DOMAIN reorder.ids : reorder.ids[p] = i
      BY <2>6, <2>7 DEF IsListing
    <3>2. n \in DOMAIN reorder.ids /\ reorder.ids[n] = i
      BY <3>1
    <3>3. packRows'[i] = [packRows[i] EXCEPT !.order = n - 1]
      BY <1>11, <3>1 DEF Pack!Reordered
    <3> HIDE DEF n
    <3>4. n = m
      BY <2>6, <2>7, <3>2 DEF IsListing
    <3>5. packRows[i] \in [packed : BOOLEAN, order : Nat]
      BY <3>1 DEF PackTypes, PackTable
    <3> HIDE DEF i
    <3>6. packRows'[i].order = m - 1 /\ packRows'[i].packed = packRows[i].packed
      BY <3>3, <3>4, <3>5
    <3>7. QED
      BY <3>6 DEF i
  <2>9. IsListing(packScreen, packRows')
    BY <2>2, <2>6, <2>8 DEF IsListing
  <2>10. \A k, l \in DOMAIN packScreen :
           k < l => Pack!Before(packRows', packScreen[k].id, packScreen[l].id)
    BY <2>7, <2>8 DEF Pack!Before
  <2>11. PackTable(packRows') /\ packScreen \in PackLists
    BY <2>3 DEF PackTypes
  <2>12. packScreen = Pack!Listed(packRows')
    BY <2>9, <2>10, <2>11, SortedIsListed
  <2>13. QED
    BY <2>5, <2>9, <2>12
<1>12. ASSUME Pack!ReorderFails
      PROVE  PanelAccounts'
  BY <1>12
     DEF Pack!ReorderFails, Pack!NoIds, PanelAccounts, Settling, PackTypes, PackAdds, PackTicks,
         PackMovings, PackRemovals, PackQueries
<1>13. ASSUME Pack!RemoveHandled
      PROVE  PanelAccounts'
  BY <1>13
     DEF Pack!RemoveHandled, PanelAccounts, Settling, PackTypes, PackAdds, PackTicks, PackMovings,
         PackRemovals, PackQueries
<1>14. ASSUME Pack!RemoveAnswered
      PROVE  PanelAccounts'
  BY <1>14
     DEF Pack!RemoveAnswered, Pack!Asked, Pack!NoQuery, PanelAccounts, Settling, PackTypes,
         PackAdds, PackTicks, PackMovings, PackRemovals, PackQueries
<1>15. ASSUME Pack!RemoveFails
      PROVE  PanelAccounts'
  BY <1>15
     DEF Pack!RemoveFails, PanelAccounts, Settling, PackTypes, PackAdds, PackTicks, PackMovings,
         PackRemovals, PackQueries
<1>16. ASSUME Pack!QueryRead
      PROVE  PanelAccounts'
  BY <1>16
     DEF Pack!QueryRead, PanelAccounts, Settling, PackTypes, PackAdds, PackTicks, PackMovings,
         PackRemovals, PackQueries
<1>17. ASSUME Pack!QueryArrives
      PROVE  PanelAccounts'
  <2>1. /\ packQuery.pc = "read" /\ packScreen' = packQuery.reply /\ packRows' = packRows
        /\ packQuery'.pc = "idle" /\ packSlips' = packSlips /\ Settling' = Settling
    BY <1>17, PackNothing DEF Pack!QueryArrives, Settling
  <2>2. IsListing(Pack!Listed(packRows), packRows)
    BY ListedIsListing DEF PackTypes
  <2>3. QED
    BY <2>1, <2>2 DEF PanelAccounts
<1>18. ASSUME Pack!QueryFails
      PROVE  PanelAccounts'
  BY <1>18
     DEF Pack!QueryFails, Pack!NoQuery, PanelAccounts, Settling, PackTypes, PackAdds, PackTicks,
         PackMovings, PackRemovals, PackQueries
<1>19. ASSUME UNCHANGED Pack!vars PROVE PanelAccounts'
  BY <1>19
     DEF Pack!vars, PanelAccounts, Settling, PackTypes, PackAdds, PackTicks, PackMovings,
         PackRemovals, PackQueries
<1>q. QED
  BY <1>1, <1>2, <1>3, <1>4, <1>5, <1>6, <1>7, <1>8, <1>9, <1>10, <1>11, <1>12, <1>13, <1>14,
     <1>15, <1>16, <1>17, <1>18, <1>19
     DEF Pack!Next

\* Every step keeps OrdersGrow.
LEMMA OrdersStay ==
  ASSUME PackTypes, OrdersGrow, [Pack!Next]_(Pack!vars)
  PROVE  OrdersGrow'
<1>1. ASSUME NEW a \in Pack!Adders, Pack!Add(a)
      PROVE  OrdersGrow'
  BY <1>1
     DEF Pack!Add, OrdersGrow, PackTypes, PackTable, PackAdds, PackTicks, PackMovings,
         PackRemovals, PackQueries
<1>2. ASSUME NEW a \in Pack!Adders, Pack!AddCount(a)
      PROVE  OrdersGrow'
  BY <1>2
     DEF Pack!AddCount, OrdersGrow, PackTypes, PackTable, PackAdds, PackTicks, PackMovings,
         PackRemovals, PackQueries
<1>3. ASSUME NEW a \in Pack!Adders, Pack!AddInsert(a)
      PROVE  OrdersGrow'
  <2>1. PICK i \in Items :
          /\ \A j \in Items : j < i <=> j <= newest \/ j \in DOMAIN packRows
          /\ packRows' = [j \in DOMAIN packRows \cup {i} |->
               IF j = i THEN [packed |-> FALSE, order |-> adders[a].count] ELSE packRows[j]]
          /\ newest' = i
    BY <1>3 DEF Pack!AddInsert
  <2>2. i \in Nat /\ i \notin DOMAIN packRows
    BY <2>1, ItemsAssumption
  <2>3. Pack!Cardinality(DOMAIN packRows) = Cardinality(DOMAIN packRows)
    BY DEF Pack!Cardinality, Cardinality
  <2> DEFINE n == Cardinality(DOMAIN packRows)
             c == adders[a].count
  <2>4. packSlips \subseteq packSlips' /\ (c # n => "raced" \in packSlips')
    BY <1>3, <2>3 DEF Pack!AddInsert
  <2>5. DOMAIN packRows' = DOMAIN packRows \cup {i}
    BY <2>1
  <2>6. n \in Nat /\ Cardinality(DOMAIN packRows') = n + 1
    BY <2>2, <2>5, FS_AddElement, FS_CardinalityType DEF PackTypes, PackTable
  <2>7. packRows'[i].order = c /\ \A j \in DOMAIN packRows : packRows'[j] = packRows[j]
    BY <2>1, <2>2
  <2>8. SUFFICES ASSUME packSlips' \cap {"deleted", "raced", "reordered"} = {}
                 PROVE  /\ \A j \in DOMAIN packRows' : packRows'[j].order < n + 1
                        /\ \A j \in DOMAIN packRows : packRows'[j].order < packRows'[i].order
    BY <2>1, <2>5, <2>6 DEF OrdersGrow
  <2>9. c = n /\ \A j \in DOMAIN packRows : packRows[j].order < n
    BY <2>4, <2>8 DEF OrdersGrow
  <2>10. \A j \in DOMAIN packRows : packRows[j].order \in Nat
    BY DEF PackTypes, PackTable
  <2> HIDE DEF n, c
  <2>11. QED
    BY <2>5, <2>6, <2>7, <2>9, <2>10
<1>4. ASSUME NEW a \in Pack!Adders, Pack!AddAnswered(a)
      PROVE  OrdersGrow'
  BY <1>4
     DEF Pack!AddAnswered, Pack!NoAdd, Pack!Asked, Pack!NoQuery, OrdersGrow, PackTypes, PackTable,
         PackAdds, PackTicks, PackMovings, PackRemovals, PackQueries
<1>5. ASSUME NEW a \in Pack!Adders, Pack!AddFails(a)
      PROVE  OrdersGrow'
  BY <1>5
     DEF Pack!AddFails, Pack!NoAdd, OrdersGrow, PackTypes, PackTable, PackAdds, PackTicks,
         PackMovings, PackRemovals, PackQueries
<1>6. ASSUME NEW t \in Toggles, Pack!ToggleHandled(t)
      PROVE  OrdersGrow'
  BY <1>6
     DEF Pack!ToggleHandled, OrdersGrow, PackTypes, PackTable, PackAdds, PackTicks, PackMovings,
         PackRemovals, PackQueries
<1>7. ASSUME NEW t \in Toggles, Pack!ToggleSettled(t)
      PROVE  OrdersGrow'
  BY <1>7
     DEF Pack!ToggleSettled, Pack!NoToggle, Pack!Asked, Pack!NoQuery, OrdersGrow, PackTypes,
         PackTable, PackAdds, PackTicks, PackMovings, PackRemovals, PackQueries
<1>8. ASSUME NEW t \in Toggles, NEW k \in DOMAIN packScreen, Pack!Toggle(t, k)
      PROVE  OrdersGrow'
  BY <1>8
     DEF Pack!Toggle, Pack!NoQuery, OrdersGrow, PackTypes, PackTable, PackAdds, PackTicks,
         PackMovings, PackRemovals, PackQueries
<1>9. ASSUME NEW k \in DOMAIN packScreen, NEW l \in DOMAIN packScreen, Pack!Drag(k, l)
      PROVE  OrdersGrow'
  BY <1>9
     DEF Pack!Drag, OrdersGrow, PackTypes, PackTable, PackAdds, PackTicks, PackMovings,
         PackRemovals, PackQueries
<1>10. ASSUME NEW k \in DOMAIN packScreen, Pack!RemoveItem(k)
      PROVE  OrdersGrow'
  BY <1>10
     DEF Pack!RemoveItem, OrdersGrow, PackTypes, PackTable, PackAdds, PackTicks, PackMovings,
         PackRemovals, PackQueries
<1>11. ASSUME Pack!Reordered
      PROVE  OrdersGrow'
  BY <1>11
     DEF Pack!Reordered, Pack!NoIds, OrdersGrow, PackTypes, PackTable, PackAdds, PackTicks,
         PackMovings, PackRemovals, PackQueries
<1>12. ASSUME Pack!ReorderFails
      PROVE  OrdersGrow'
  BY <1>12
     DEF Pack!ReorderFails, Pack!NoIds, OrdersGrow, PackTypes, PackTable, PackAdds, PackTicks,
         PackMovings, PackRemovals, PackQueries
<1>13. ASSUME Pack!RemoveHandled
      PROVE  OrdersGrow'
  BY <1>13
     DEF Pack!RemoveHandled, OrdersGrow, PackTypes, PackTable, PackAdds, PackTicks, PackMovings,
         PackRemovals, PackQueries
<1>14. ASSUME Pack!RemoveAnswered
      PROVE  OrdersGrow'
  BY <1>14
     DEF Pack!RemoveAnswered, Pack!Asked, Pack!NoQuery, OrdersGrow, PackTypes, PackTable, PackAdds,
         PackTicks, PackMovings, PackRemovals, PackQueries
<1>15. ASSUME Pack!RemoveFails
      PROVE  OrdersGrow'
  BY <1>15
     DEF Pack!RemoveFails, OrdersGrow, PackTypes, PackTable, PackAdds, PackTicks, PackMovings,
         PackRemovals, PackQueries
<1>16. ASSUME Pack!QueryRead
      PROVE  OrdersGrow'
  BY <1>16
     DEF Pack!QueryRead, OrdersGrow, PackTypes, PackTable, PackAdds, PackTicks, PackMovings,
         PackRemovals, PackQueries
<1>17. ASSUME Pack!QueryArrives
      PROVE  OrdersGrow'
  BY <1>17
     DEF Pack!QueryArrives, Pack!NoQuery, OrdersGrow, PackTypes, PackTable, PackAdds, PackTicks,
         PackMovings, PackRemovals, PackQueries
<1>18. ASSUME Pack!QueryFails
      PROVE  OrdersGrow'
  BY <1>18
     DEF Pack!QueryFails, Pack!NoQuery, OrdersGrow, PackTypes, PackTable, PackAdds, PackTicks,
         PackMovings, PackRemovals, PackQueries
<1>19. ASSUME UNCHANGED Pack!vars PROVE OrdersGrow'
  BY <1>19
     DEF Pack!vars, OrdersGrow, PackTypes, PackTable, PackAdds, PackTicks, PackMovings,
         PackRemovals, PackQueries
<1>q. QED
  BY <1>1, <1>2, <1>3, <1>4, <1>5, <1>6, <1>7, <1>8, <1>9, <1>10, <1>11, <1>12, <1>13, <1>14,
     <1>15, <1>16, <1>17, <1>18, <1>19
     DEF Pack!Next

\* Every step keeps the invariant of the packing list.
LEMMA PackInductive ==
  ASSUME PackInv, [Pack!Next]_(Pack!vars)
  PROVE  PackInv'
BY PackTypesStay, PanelStays, OrdersStay DEF PackInv

\* The invariant of the packing list holds to begin with.
LEMMA PackInitially ==
  ASSUME Pack!Init
  PROVE  PackInv
<1>1. /\ packRows = [i \in {1, 2} |-> [packed |-> FALSE, order |-> i - 1]]
      /\ packScreen = Pack!Listed(packRows) /\ newest = 2
      /\ adders = [a \in Pack!Adders |-> Pack!NoAdd]
      /\ toggles = [t \in Toggles |-> Pack!NoToggle]
      /\ reorder = Pack!NoIds /\ packQuery = Pack!NoQuery
      /\ packRemoving \in PackRemovals
  BY DEF Pack!Init, PackRemovals
<1>2. /\ DOMAIN packRows = {1, 2}
      /\ packRows[1].order = 0 /\ packRows[2].order = 1
  BY <1>1
<1>3. IsFiniteSet(DOMAIN packRows) /\ Cardinality(DOMAIN packRows) = 2
  <2>1. IsFiniteSet({1}) /\ Cardinality({1}) = 1
    BY FS_Singleton
  <2>2. DOMAIN packRows = {1} \cup {2} /\ 2 \notin {1}
    BY <1>2
  <2>3. IsFiniteSet({1} \cup {2}) /\ Cardinality({1} \cup {2}) = 2
    BY <2>1, <2>2, FS_AddElement
  <2>4. QED
    BY <2>2, <2>3
<1>4. PackTable(packRows)
  BY <1>1, <1>3, ItemsAssumption DEF PackTable
<1>5. packScreen \in PackLists /\ IsListing(packScreen, packRows)
  BY <1>1, <1>4, ListedIsListing
<1>6. PackTypes
  BY <1>1, <1>4, <1>5, PackNothing DEF PackTypes
<1>7. PanelAccounts
  BY <1>1, <1>5, PackNothing DEF PanelAccounts
<1>8. OrdersGrow
  BY <1>1, <1>2, <1>3 DEF OrdersGrow
<1>9. QED
  BY <1>6, <1>7, <1>8 DEF PackInv

\* The properties of the packing list follow from its invariant.
LEMMA PackShows ==
  ASSUME PackInv
  PROVE  Pack!PanelShowsList /\ Pack!NewestIsLast
<1>1. Pack!PanelShowsList
  BY DEF PackInv, PanelAccounts, Settling, Pack!PanelShowsList, Pack!AtRest
<1>2. Pack!NewestIsLast
  BY DEF PackInv, OrdersGrow, Pack!NewestIsLast, Pack!Before
<1>3. QED
  BY <1>1, <1>2

\* What makes a packing list wrong has a name.
PackReasons ==
  packSlips \subseteq {"raced", "lost", "crossed", "reordered", "not saved", "deleted"}

\* Every step notes such a reason, or none.
LEMMA ReasonsInductive ==
  ASSUME PackReasons, [Pack!Next]_(Pack!vars)
  PROVE  PackReasons'
<1>1. ASSUME NEW a \in Pack!Adders,
             \/ Pack!Add(a) \/ Pack!AddCount(a) \/ Pack!AddInsert(a)
             \/ Pack!AddAnswered(a) \/ Pack!AddFails(a)
      PROVE  packSlips' \subseteq packSlips \cup {"raced", "lost"}
  BY <1>1 DEF Pack!Add, Pack!AddCount, Pack!AddInsert, Pack!AddAnswered, Pack!AddFails
<1>2. ASSUME NEW t \in Toggles,
             \/ Pack!ToggleHandled(t) \/ Pack!ToggleSettled(t)
             \/ \E k \in DOMAIN packScreen : Pack!Toggle(t, k)
      PROVE  packSlips' = packSlips
  BY <1>2 DEF Pack!ToggleHandled, Pack!ToggleSettled, Pack!Toggle
<1>3. ASSUME NEW k \in DOMAIN packScreen,
             Pack!RemoveItem(k) \/ \E l \in DOMAIN packScreen : Pack!Drag(k, l)
      PROVE  packSlips' \subseteq packSlips \cup {"crossed"}
  BY <1>3 DEF Pack!RemoveItem, Pack!Drag
<1>4. ASSUME \/ Pack!Reordered \/ Pack!ReorderFails
             \/ Pack!RemoveHandled \/ Pack!RemoveAnswered \/ Pack!RemoveFails
      PROVE  packSlips' \subseteq packSlips \cup
               {"reordered", "crossed", "not saved", "deleted", "lost"}
  BY <1>4 DEF Pack!Reordered, Pack!ReorderFails, Pack!RemoveHandled, Pack!RemoveAnswered,
     Pack!RemoveFails
<1>5. ASSUME \/ Pack!QueryRead \/ Pack!QueryArrives \/ Pack!QueryFails
             \/ UNCHANGED Pack!vars
      PROVE  packSlips' \subseteq packSlips \cup {"lost"}
  BY <1>5 DEF Pack!QueryRead, Pack!QueryArrives, Pack!QueryFails, Pack!vars
<1>6. QED
  BY <1>1, <1>2, <1>3, <1>4, <1>5 DEF Pack!Next, PackReasons

\* Packing lists have the types that a run checks.
LEMMA PackHasTypes ==
  ASSUME PackInv, PackReasons
  PROVE  Pack!TypeOK
<1>1. DOMAIN packScreen = 1 .. Len(packScreen)
      /\ \A k \in 1 .. Len(packScreen) : packScreen[k] \in [id : Items, packed : BOOLEAN]
  BY LenProperties, ElementOfSeq DEF PackInv, PackTypes, PackLists
<1>2. QED
  BY <1>1 DEF PackInv, PackTypes, PackTable, PackReasons, Pack!TypeOK

-----------------------------------------------------------------------------
(* The window of a new post *)

Dests == {Window!NoDest, "typed", "detected"}

Written == {p \in Posts : composeRow[p].here}

FormTypes ==
  /\ window \in Nat /\ photos \in Seq(Photos) /\ caption \in Seq(Nat) /\ dest \in Dests
  /\ stream \in 0 .. Window!Pieces

SendTypes ==
  /\ composeSend \in [pc : {"idle", "upload", "post", "done"}, window : Nat,
                      photos : Seq(Photos), caption : Seq(Nat), dest : Dests, up : Nat]
  /\ composeSend.up <= Len(composeSend.photos)

Rows == [here : BOOLEAN, photos : Seq(Photos), caption : Seq(Nat),
         dest : Dests \cup {"edited", "found"}, window : Nat]

PostTypes ==
  /\ composeRow \in [Posts -> Rows]
  /\ IsFiniteSet(Written)
  /\ tag \in [Posts -> BOOLEAN]
  /\ edit # Window!NoEdit => edit \in [pc : {"sent"}, post : Posts, dest : {"edited", Window!NoDest}]
  /\ kept \in [Posts -> Dests \cup {"edited"}]

\* What the author gave is there; what was found is only where nothing was given.
GivenPlaces ==
  \A p \in Posts :
    /\ kept[p] # Window!NoDest => composeRow[p].dest = kept[p]
    /\ kept[p] = Window!NoDest => composeRow[p].dest \in {Window!NoDest, "found"}

\* Windows are numbered upwards.  A post on its way is of the window that is open, or
\* of one that was closed since; the posts that are there are of earlier ones.
WindowsInOrder ==
  /\ window <= Cardinality(Written) + 2
  /\ composeSend.window <= Cardinality(Written) + 2
  /\ \A p \in Written : composeRow[p].window <= Cardinality(Written) + 1
  /\ composeSend.pc # "idle" => window \in {0, composeSend.window}
  /\ window # 0 /\ composeSend.pc # "done" =>
       \A p \in Written : composeRow[p].window < window
  /\ composeSend.pc \in {"upload", "post"} =>
       \A p \in Written : composeRow[p].window < composeSend.window
  /\ Window!OnePostAWindow

WindowInv ==
  /\ FormTypes /\ SendTypes /\ PostTypes
  /\ composeSlips \subseteq {"late", "mixed", "cut", "lost"}
  /\ GivenPlaces
  /\ "lost" \notin composeSlips => WindowsInOrder

\* The invariant of the window of a new post holds to begin with.
LEMMA WindowInitially == Window!Init => WindowInv
<1> SUFFICES ASSUME Window!Init PROVE WindowInv
  OBVIOUS
<1>1. FormTypes
  <2>1. window = 1 /\ stream = 0
    BY DEF Window!Init
  <2>2. photos \in Seq(Photos) /\ caption \in Seq(Nat)
    BY DEF Window!Init
  <2>3. dest \in Dests
    BY DEF Window!Init, Dests
  <2>4. QED
    BY <2>1, <2>2, <2>3 DEF FormTypes, Window!Pieces
<1>2. SendTypes
  <2>1. composeSend = Window!NoSend
    BY DEF Window!Init
  <2>2. QED
    BY <2>1 DEF SendTypes, Dests, Window!NoSend
<1>3. \A p \in Posts : composeRow[p] = Window!NoRow /\ ~composeRow[p].here
  BY DEF Window!Init, Window!NoRow
<1>4. Written = {} /\ IsFiniteSet(Written) /\ Cardinality(Written) = 0
  BY <1>3, FS_EmptySet DEF Written
<1>5. PostTypes
  <2>1. Window!NoRow \in Rows
    BY DEF Window!NoRow, Rows, Dests
  <2>2. composeRow \in [Posts -> Rows]
    BY <2>1 DEF Window!Init
  <2>3. QED
    BY <1>4, <2>2 DEF PostTypes, Dests, Window!Init
<1>6. GivenPlaces
  BY DEF GivenPlaces, Window!Init, Window!NoRow
<1>7. WindowsInOrder
  <2>1. window = 1 /\ composeSend.pc = "idle" /\ composeSend.window = 0
    BY DEF Window!Init, Window!NoSend
  <2>2. QED
    BY <1>3, <1>4, <2>1 DEF WindowsInOrder, Window!OnePostAWindow
<1>8. composeSlips = {}
  BY DEF Window!Init
<1>9. QED
  BY <1>1, <1>2, <1>5, <1>6, <1>7, <1>8 DEF WindowInv

\* The cardinality of the model is that of the library.
LEMMA WindowCards == ASSUME NEW S PROVE Window!Cardinality(S) = Cardinality(S)
BY DEF Window!Cardinality, Cardinality

\* What is in the form stays of its type.
LEMMA WindowKeepsForm ==
  ASSUME FormTypes, PostTypes, Window!Next
  PROVE  FormTypes'
<1> USE DEF FormTypes, Window!Pieces
<1>1. ASSUME NEW p \in Photos, Window!AddPhoto(p)
      PROVE  FormTypes'
  BY <1>1 DEF Window!AddPhoto
<1>2. ASSUME NEW k \in DOMAIN photos, Window!RemovePhoto(k)
      PROVE  FormTypes'
  <2>1. photos' \in Seq(Photos)
    BY <1>2 DEF Window!RemovePhoto, Window!RemoveAt
  <2>2. QED
    BY <1>2, <2>1 DEF Window!RemovePhoto
<1>3. CASE Window!TypeCaption
  BY <1>3 DEF Window!TypeCaption
<1>4. CASE Window!TypeDest
  BY <1>4 DEF Window!TypeDest, Dests
<1>5. CASE Window!Suggest
  BY <1>5 DEF Window!Suggest
<1>6. CASE Window!Piece
  BY <1>6 DEF Window!Piece
<1>7. CASE Window!StreamFails
  BY <1>7 DEF Window!StreamFails, Window!form
<1>8. CASE Window!Detected
  BY <1>8 DEF Window!Detected, Dests
<1>9. CASE Window!Close
  BY <1>9 DEF Window!Close, Dests
<1>10. CASE Window!Open
  <2>1. window' = Cardinality(Written) + 2
    BY <1>10, WindowCards DEF Window!Open, Written
  <2>2. Cardinality(Written) \in Nat
    BY FS_CardinalityType DEF PostTypes
  <2>3. QED
    BY <1>10, <2>1, <2>2 DEF Window!Open, Window!form
<1>11. CASE Window!Published
  <2>1. CASE window = composeSend.window
    BY <1>11, <2>1 DEF Window!Published, Dests
  <2>2. CASE window # composeSend.window
    BY <1>11, <2>2 DEF Window!Published, Window!form
  <2>3. QED
    BY <2>1, <2>2
<1>12. CASE UNCHANGED <<window, Window!form, stream>>
  BY <1>12 DEF Window!form
<1>13. QED
  BY <1>1, <1>2, <1>3, <1>4, <1>5, <1>6, <1>7, <1>8, <1>9, <1>10, <1>11, <1>12
  DEF Window!Next, Window!Detect, Window!Publish, Window!Upload, Window!Insert,
      Window!PublishFails, Window!EditPost, Window!EditWrite, Window!TagWrite,
      Window!TagFails, Window!form

\* What is on its way stays of its type.
LEMMA WindowKeepsSend ==
  ASSUME FormTypes, SendTypes, Window!Next
  PROVE  SendTypes'
<1> USE DEF SendTypes
<1>1. CASE Window!Publish
  BY <1>1 DEF Window!Publish, FormTypes
<1>2. CASE Window!Upload
  <2>1. CASE composeSend.up < Len(composeSend.photos)
    <3>1. composeSend' = [composeSend EXCEPT !.up = composeSend.up + 1]
      BY <1>2, <2>1 DEF Window!Upload
    <3>2. composeSend.up + 1 <= Len(composeSend.photos)
      BY <2>1
    <3>3. composeSend'.photos = composeSend.photos /\ composeSend'.up = composeSend.up + 1
      BY <3>1
    <3>4. composeSend' \in [pc : {"idle", "upload", "post", "done"}, window : Nat,
                           photos : Seq(Photos), caption : Seq(Nat), dest : Dests,
                           up : Nat]
      <4>1. composeSend.up + 1 \in Nat
        OBVIOUS
      <4>2. QED
        BY <3>1, <4>1
    <3>5. QED
      BY <3>2, <3>3, <3>4
  <2>2. CASE ~(composeSend.up < Len(composeSend.photos))
    BY <1>2, <2>2 DEF Window!Upload
  <2>3. QED
    BY <2>1, <2>2
<1>3. ASSUME NEW p \in Posts, Window!Insert(p)
      PROVE  SendTypes'
  BY <1>3 DEF Window!Insert
<1>4. CASE composeSend' = Window!NoSend
  BY <1>4 DEF Window!NoSend, Dests
<1>5. CASE UNCHANGED composeSend
  BY <1>5
<1>6. QED
  BY <1>1, <1>2, <1>3, <1>4, <1>5
  DEF Window!Next, Window!AddPhoto, Window!RemovePhoto, Window!TypeCaption,
      Window!TypeDest, Window!Suggest, Window!Piece, Window!StreamFails, Window!Detect,
      Window!Detected, Window!Close, Window!Open, Window!Published, Window!PublishFails,
      Window!EditPost, Window!EditWrite, Window!TagWrite, Window!TagFails

\* A row whose place is changed is a row.
LEMMA RowPlaced ==
  ASSUME NEW w \in Rows, NEW d \in Dests \cup {"edited", "found"}
  PROVE  [w EXCEPT !.dest = d] \in Rows
BY DEF Rows

\* What is posted stays of its type, with a place its author gave.
LEMMA WindowKeepsPosts ==
  ASSUME SendTypes, PostTypes, GivenPlaces, Window!Next
  PROVE  PostTypes' /\ GivenPlaces'
<1> USE DEF PostTypes, GivenPlaces
<1>1. ASSUME NEW p \in Posts, Window!Insert(p)
      PROVE  PostTypes' /\ GivenPlaces'
  <2>1. /\ composeRow' = [composeRow EXCEPT ![p] =
             [here |-> TRUE, photos |-> composeSend.photos,
              caption |-> composeSend.caption, dest |-> composeSend.dest,
              window |-> composeSend.window]]
        /\ kept' = [kept EXCEPT ![p] = composeSend.dest]
        /\ UNCHANGED edit
    BY <1>1 DEF Window!Insert
  <2>2. composeRow' \in [Posts -> Rows]
    BY <2>1 DEF SendTypes, Rows
  <2>3. tag' \in [Posts -> BOOLEAN] /\ kept' \in [Posts -> Dests \cup {"edited"}]
    BY <1>1 DEF Window!Insert, SendTypes
  <2>4. Written' = Written \cup {p}
    BY <2>1 DEF Written
  <2>5. IsFiniteSet(Written)'
    BY <2>4, FS_AddElement
  <2>6. GivenPlaces'
    BY <2>1 DEF SendTypes, Dests
  <2>7. QED
    BY <2>1, <2>2, <2>3, <2>5, <2>6
<1>2. ASSUME NEW p \in Posts, NEW d \in {"edited", Window!NoDest}, Window!EditPost(p, d)
      PROVE  PostTypes' /\ GivenPlaces'
  BY <1>2 DEF Window!EditPost, Written
<1>3. CASE Window!EditWrite
  <2>1. edit.post \in Posts /\ edit.dest \in {"edited", Window!NoDest}
    BY <1>3 DEF Window!EditWrite, Window!NoEdit
  <2>2. /\ composeRow' = [composeRow EXCEPT ![edit.post].dest = edit.dest]
        /\ kept' = [kept EXCEPT ![edit.post] = edit.dest]
        /\ edit' = Window!NoEdit
        /\ UNCHANGED tag
    BY <1>3, <2>1 DEF Window!EditWrite
  <2>3. composeRow' \in [Posts -> Rows] /\ kept' \in [Posts -> Dests \cup {"edited"}]
    <3>1. edit.dest \in Dests \cup {"edited"} /\ edit.dest \in Dests \cup {"edited", "found"}
      BY <2>1 DEF Dests
    <3>2. QED
      BY <2>1, <2>2, <3>1, RowPlaced
  <2>4. Written' = Written
    BY <2>1, <2>2 DEF Written, Rows
  <2>5. GivenPlaces'
    <3>1. kept'[edit.post] = edit.dest /\ composeRow'[edit.post].dest = edit.dest
      BY <2>1, <2>2 DEF Rows
    <3>2. \A p \in Posts \ {edit.post} : kept'[p] = kept[p] /\ composeRow'[p] = composeRow[p]
      BY <2>1, <2>2
    <3>3. QED
      BY <3>1, <3>2
  <2>6. QED
    BY <2>1, <2>2, <2>3, <2>4, <2>5
<1>4. ASSUME NEW p \in Posts, Window!TagWrite(p)
      PROVE  PostTypes' /\ GivenPlaces'
  <2>1. /\ tag' = [tag EXCEPT ![p] = FALSE]
        /\ UNCHANGED <<edit, kept>>
    BY <1>4 DEF Window!TagWrite
  <2>2. CASE composeRow[p].dest = Window!NoDest
    <3>1. composeRow' = [composeRow EXCEPT ![p].dest = "found"]
      BY <1>4, <2>2 DEF Window!TagWrite
    <3>2. composeRow' \in [Posts -> Rows]
      BY <3>1, RowPlaced
    <3>3. Written' = Written
      BY <3>1 DEF Written, Rows
    <3>4. GivenPlaces'
      BY <2>1, <2>2, <3>1 DEF Rows, Dests, Window!NoDest
    <3>5. QED
      BY <2>1, <3>2, <3>3, <3>4
  <2>3. CASE UNCHANGED composeRow
    BY <2>1, <2>3 DEF Written
  <2>4. QED
    BY <1>4, <2>2, <2>3 DEF Window!TagWrite
<1>5. ASSUME NEW p \in Posts, Window!TagFails(p)
      PROVE  PostTypes' /\ GivenPlaces'
  BY <1>5 DEF Window!TagFails, Written
<1>6. CASE UNCHANGED <<composeRow, tag, edit, kept>>
  BY <1>6 DEF Written
<1>7. QED
  BY <1>1, <1>2, <1>3, <1>4, <1>5, <1>6
  DEF Window!Next, Window!AddPhoto, Window!RemovePhoto, Window!TypeCaption,
      Window!TypeDest, Window!Suggest, Window!Piece, Window!StreamFails, Window!Detect,
      Window!Detected, Window!Close, Window!Open, Window!Publish, Window!Upload,
      Window!Published, Window!PublishFails

\* Windows are numbered by the posts that are there, and a post goes out once unless its
\* answer is lost.
LEMMA WindowKeepsOrder ==
  ASSUME FormTypes, SendTypes, PostTypes, WindowsInOrder, Window!Next,
         "lost" \notin composeSlips'
  PROVE  WindowsInOrder'
<1>1. Cardinality(Written) \in Nat /\ window \in Nat /\ composeSend.window \in Nat
  BY FS_CardinalityType DEF PostTypes, FormTypes, SendTypes
<1>2. \A p \in Posts : composeRow[p].window \in Nat
  BY DEF PostTypes, Rows
<1> USE DEF WindowsInOrder, Window!OnePostAWindow
<1>3. ASSUME UNCHANGED <<window, composeSend, composeSlips>>,
             \A p \in Posts : /\ composeRow'[p].here = composeRow[p].here
                             /\ composeRow'[p].window = composeRow[p].window
      PROVE  WindowsInOrder'
  <2>1. Written' = Written
    BY <1>3 DEF Written
  <2>2. QED
    BY <1>3, <2>1 DEF Written
<1>4. ASSUME UNCHANGED <<window, composeSend, composeRow>>, "lost" \notin composeSlips
      PROVE  WindowsInOrder'
  BY <1>4 DEF Written
<1>5. "lost" \notin composeSlips
  BY DEF Window!Next, Window!AddPhoto, Window!RemovePhoto, Window!TypeCaption,
     Window!TypeDest, Window!Suggest, Window!Piece, Window!StreamFails, Window!Detect,
     Window!Detected, Window!Close, Window!Open, Window!Publish, Window!Upload,
     Window!Published, Window!PublishFails, Window!Insert, Window!EditPost,
     Window!EditWrite, Window!TagWrite, Window!TagFails
<1>6. CASE Window!Close
  BY <1>1, <1>5, <1>6 DEF Window!Close, Written
<1>7. CASE Window!Open
  <2>1. window' = Cardinality(Written) + 2 /\ composeSend.pc = "idle"
        /\ UNCHANGED <<composeSend, composeRow, composeSlips>>
    BY <1>7, WindowCards DEF Window!Open, Written
  <2>2. Written' = Written
    BY <2>1 DEF Written
  <2>3. QED
    BY <1>1, <1>2, <1>5, <2>1, <2>2 DEF Written
<1>8. CASE Window!Publish
  <2>1. /\ composeSend'.pc = "upload" /\ composeSend'.window = window
        /\ window # 0 /\ composeSend.pc = "idle"
        /\ UNCHANGED <<window, composeRow>>
    BY <1>8 DEF Window!Publish
  <2>2. Written' = Written
    BY <2>1 DEF Written
  <2>3. QED
    BY <1>1, <1>2, <1>5, <2>1, <2>2
<1>9. CASE Window!Upload
  <2>1. /\ composeSend'.pc \in {"upload", "post"} /\ composeSend'.window = composeSend.window
        /\ composeSend.pc = "upload"
        /\ UNCHANGED <<window, composeRow>>
    BY <1>9 DEF Window!Upload, SendTypes
  <2>2. Written' = Written
    BY <2>1 DEF Written
  <2>3. QED
    BY <1>1, <1>2, <1>5, <2>1, <2>2
<1>10. ASSUME NEW p \in Posts, Window!Insert(p)
       PROVE  WindowsInOrder'
  <2>1. /\ composeSend.pc = "post" /\ ~composeRow[p].here
        /\ composeRow'[p].here /\ composeRow'[p].window = composeSend.window
        /\ \A q \in Posts \ {p} : composeRow'[q] = composeRow[q]
        /\ composeSend'.pc = "done" /\ composeSend'.window = composeSend.window
        /\ UNCHANGED window
    BY <1>10 DEF Window!Insert, Window!NextPost, PostTypes, SendTypes
  <2>2. Written' = Written \cup {p} /\ p \notin Written
    BY <2>1 DEF Written
  <2>3. Cardinality(Written)' = Cardinality(Written) + 1
    BY <2>2, FS_AddElement DEF PostTypes
  <2>4. \A q \in Written' : composeRow'[q].window <= Cardinality(Written)' + 1
    BY <1>1, <1>2, <2>1, <2>2, <2>3 DEF Written
  <2>5. \A q \in Written : composeRow[q].window < composeSend.window
    BY <2>1
  <2>6. Window!OnePostAWindow'
    <3>1. ASSUME NEW q \in Posts, NEW r \in Posts,
                 composeRow'[q].here, composeRow'[r].here, q # r
          PROVE  composeRow'[q].window # composeRow'[r].window
      <4>1. CASE q = p
        <5>1. r \in Written /\ composeRow'[r] = composeRow[r]
          BY <2>1, <3>1, <4>1 DEF Written
        <5>2. QED
          BY <1>1, <1>2, <2>1, <2>5, <4>1, <5>1
      <4>2. CASE r = p
        <5>1. q \in Written /\ composeRow'[q] = composeRow[q]
          BY <2>1, <3>1, <4>2 DEF Written
        <5>2. QED
          BY <1>1, <1>2, <2>1, <2>5, <4>2, <5>1
      <4>3. CASE q # p /\ r # p
        BY <1>5, <2>1, <3>1, <4>3
      <4>4. QED
        BY <4>1, <4>2, <4>3
    <3>2. QED
      BY <3>1
  <2>7. QED
    BY <1>1, <2>1, <2>3, <2>4, <2>6
<1>11. CASE Window!Published
  <2>1. window' = 0
    BY <1>11 DEF Window!Published, Window!form
  <2>2. /\ composeSend'.pc = "idle" /\ composeSend'.window = 0
        /\ UNCHANGED <<composeRow, composeSlips>>
    BY <1>11 DEF Window!Published, Window!NoSend
  <2>3. Written' = Written
    BY <2>2 DEF Written
  <2>4. QED
    BY <1>1, <1>5, <2>1, <2>2, <2>3
<1>12. CASE Window!PublishFails
  <2>1. /\ composeSend'.pc = "idle" /\ composeSend'.window = 0
        /\ composeSend.pc # "done"
        /\ UNCHANGED <<window, composeRow>>
    BY <1>12 DEF Window!PublishFails, Window!NoSend
  <2>2. Written' = Written
    BY <2>1 DEF Written
  <2>3. QED
    BY <1>1, <1>5, <2>1, <2>2
<1>13. CASE Window!EditWrite
  <2>1. edit.post \in Posts
    BY <1>13 DEF Window!EditWrite, Window!NoEdit, PostTypes
  <2>2. QED
    BY <1>3, <1>13, <2>1 DEF Window!EditWrite, PostTypes, Rows
<1>14. ASSUME NEW p \in Posts, Window!TagWrite(p)
       PROVE  WindowsInOrder'
  BY <1>3, <1>14 DEF Window!TagWrite, PostTypes, Rows
<1>15. QED
  BY <1>4, <1>5, <1>6, <1>7, <1>8, <1>9, <1>10, <1>11, <1>12, <1>13, <1>14
  DEF Window!Next, Window!AddPhoto, Window!RemovePhoto, Window!TypeCaption,
      Window!TypeDest, Window!Suggest, Window!Piece, Window!StreamFails, Window!Detect,
      Window!Detected, Window!EditPost, Window!TagFails, Window!form

\* Every step keeps the invariant of the window of a new post.
LEMMA WindowInductive ==
  ASSUME WindowInv, [Window!Next]_(Window!vars)
  PROVE  WindowInv'
<1>1. CASE Window!Next
  <2>1. FormTypes' /\ SendTypes' /\ PostTypes' /\ GivenPlaces'
    BY <1>1, WindowKeepsForm, WindowKeepsSend, WindowKeepsPosts DEF WindowInv
  <2>2. composeSlips \subseteq composeSlips'
        /\ composeSlips' \subseteq {"late", "mixed", "cut", "lost"}
    BY <1>1 DEF WindowInv, Window!Next, Window!AddPhoto, Window!RemovePhoto, Window!Late,
       Window!TypeCaption, Window!TypeDest, Window!Suggest, Window!Piece,
       Window!StreamFails, Window!Detect, Window!Detected, Window!Close, Window!Open,
       Window!Publish, Window!Upload, Window!Published, Window!PublishFails,
       Window!Insert, Window!EditPost, Window!EditWrite, Window!TagWrite, Window!TagFails
  <2>3. "lost" \notin composeSlips' => WindowsInOrder'
    BY <1>1, <2>2, WindowKeepsOrder DEF WindowInv
  <2>4. QED
    BY <2>1, <2>2, <2>3 DEF WindowInv
<1>2. CASE UNCHANGED Window!vars
  BY <1>2 DEF Window!vars, WindowInv, FormTypes, SendTypes, PostTypes, GivenPlaces,
     WindowsInOrder, Written, Window!OnePostAWindow
<1>3. QED
  BY <1>1, <1>2

\* The properties of the window follow from its invariant.
LEMMA WindowTells ==
  ASSUME WindowInv
  PROVE  Window!AuthorsPlaceStays /\ Window!OnePostAWindow
<1>1. Window!AuthorsPlaceStays
  BY DEF WindowInv, GivenPlaces, Window!AuthorsPlaceStays
<1>2. Window!OnePostAWindow
  BY DEF WindowInv, WindowsInOrder, Window!OnePostAWindow
<1>3. QED
  BY <1>1, <1>2

\* The window of a new post has the types that a run checks.
LEMMA WindowHasTypes == WindowInv => Window!TypeOK
<1> SUFFICES ASSUME WindowInv PROVE Window!TypeOK
  OBVIOUS
<1>1. \A p \in Posts : composeRow[p].dest \in Dests \cup {"edited", "found"}
  BY DEF WindowInv, PostTypes, Rows
<1>2. QED
  BY <1>1 DEF WindowInv, FormTypes, SendTypes, Dests, Window!TypeOK

-----------------------------------------------------------------------------
(* The editor of a trip *)

ManualDay == [id : Nat, day : Nat, date : Int, acts : Seq(ManualIds)]

InPlace(list) == \A i \in DOMAIN list : list[i].day = i

\* Dates go on but for the one that is repeated when the clock goes forward.
GoOn(list, spring) ==
  \A i, k \in DOMAIN list :
    i < k => \/ list[i].date < list[k].date
             \/ list[i].date = spring /\ list[k].date = spring

ManualTypes ==
  /\ span.first \in Int /\ span.spring \in Int
  /\ manualDays \in Seq(ManualDay)
  /\ named \subseteq ManualIds
  /\ manualSend \in [pc : {"idle", "sent", "done"}, days : Seq(ManualDay)]
  /\ manualRows \in Seq(Seq(ManualDay))
  /\ manualSlips \subseteq {"late", "dragged", "dated", "lost"}

\* What is said of the rows holds of the days on the screen and of those on their way.
DaysInOrder ==
  /\ InPlace(manualDays) /\ InPlace(manualSend.days)
  /\ \A n \in DOMAIN manualRows : InPlace(manualRows[n])
  /\ manualSlips \cap {"dragged", "dated"} = {} =>
       /\ GoOn(manualDays, span.spring) /\ GoOn(manualSend.days, span.spring)
       /\ \A n \in DOMAIN manualRows : GoOn(manualRows[n], span.spring)

\* What is on its way is what is shown, unless it was changed since.
SentAsShown ==
  /\ manualSend.pc = "done" =>
       manualRows # <<>> /\ manualRows[Len(manualRows)] = manualSend.days
  /\ manualSend.pc # "idle" /\ "late" \notin manualSlips =>
       manualSend.days = manualDays /\ Manual!Used \subseteq named

ManualInv == ManualTypes /\ DaysInOrder /\ SentAsShown

\* A list without its i-th element, and with one more in the i-th place.
LEMMA RemoveAtList ==
  ASSUME NEW S, NEW s \in Seq(S), NEW i \in 1 .. Len(s)
  PROVE  /\ Manual!RemoveAt(s, i) \in Seq(S)
         /\ Len(Manual!RemoveAt(s, i)) = Len(s) - 1
         /\ \A j \in 1 .. Len(s) - 1 :
              Manual!RemoveAt(s, i)[j] = IF j < i THEN s[j] ELSE s[j + 1]
<1> DEFINE p == SubSeq(s, 1, i - 1)
           q == SubSeq(s, i + 1, Len(s))
<1>1. p \in Seq(S) /\ Len(p) = i - 1 /\ \A j \in 1 .. i - 1 : p[j] = s[j]
  OBVIOUS
<1>2. q \in Seq(S) /\ Len(q) = Len(s) - i /\ \A j \in 1 .. Len(s) - i : q[j] = s[i + j]
  OBVIOUS
<1>3. Manual!RemoveAt(s, i) = p \o q
  BY DEF Manual!RemoveAt
<1> HIDE DEF p, q
<1>4. p \o q \in Seq(S) /\ Len(p \o q) = Len(s) - 1
  <2>1. p \o q \in Seq(S) /\ Len(p \o q) = Len(p) + Len(q)
    BY <1>1, <1>2, ConcatProperties
  <2>2. QED
    BY <1>1, <1>2, <2>1
<1>5. ASSUME NEW j \in 1 .. Len(s) - 1
      PROVE  (p \o q)[j] = IF j < i THEN s[j] ELSE s[j + 1]
  <2>1. CASE j < i
    BY <1>1, <1>2, <2>1
  <2>2. CASE ~(j < i)
    <3>1. (p \o q)[j] = q[j - Len(p)]
      BY <1>1, <1>2, <2>2
    <3>2. j - Len(p) \in 1 .. Len(s) - i /\ i + (j - Len(p)) = j + 1
      BY <1>1, <2>2
    <3>3. QED
      BY <1>2, <2>2, <3>1, <3>2
  <2>3. QED
    BY <2>1, <2>2
<1>6. QED
  BY <1>3, <1>4, <1>5

\* What is put into a list.
LEMMA InsertAtList ==
  ASSUME NEW S, NEW s \in Seq(S), NEW i \in 1 .. Len(s) + 1, NEW e \in S
  PROVE  Manual!InsertAt(s, i, e) \in Seq(S)
<1>1. SubSeq(s, 1, i - 1) \in Seq(S) /\ SubSeq(s, i, Len(s)) \in Seq(S)
  OBVIOUS
<1>2. <<e>> \in Seq(S)
  OBVIOUS
<1>3. QED
  BY <1>1, <1>2 DEF Manual!InsertAt

\* Numbering the days anew puts each at its number.
LEMMA NumberedList ==
  ASSUME NEW list \in Seq(ManualDay)
  PROVE  /\ Manual!Numbered(list) \in Seq(ManualDay)
         /\ InPlace(Manual!Numbered(list))
         /\ GoOn(list, span.spring) => GoOn(Manual!Numbered(list), span.spring)
<1> DEFINE new == Manual!Numbered(list)
<1>1. DOMAIN new = 1 .. Len(list) /\ Len(list) \in Nat
  BY DEF Manual!Numbered
<1>2. ASSUME NEW i \in 1 .. Len(list)
      PROVE  new[i] \in ManualDay /\ new[i].day = i /\ new[i].date = list[i].date
  <2>1. list[i] \in ManualDay /\ i \in Nat
    OBVIOUS
  <2>2. new[i] = [list[i] EXCEPT !.day = i]
    BY DEF Manual!Numbered
  <2>3. QED
    BY <2>1, <2>2 DEF ManualDay
<1>3. new \in Seq(ManualDay)
  <2>1. new = [i \in 1 .. Len(list) |-> new[i]]
    BY DEF Manual!Numbered
  <2> HIDE DEF new
  <2>2. new \in [1 .. Len(list) -> ManualDay]
    BY <1>2, <2>1
  <2>3. QED
    BY <1>1, <2>2, SeqDef
<1>4. QED
  BY <1>1, <1>2, <1>3 DEF InPlace, GoOn

\* Another list of activities leaves a day where it is.
LEMMA OtherActs ==
  ASSUME NEW list \in Seq(ManualDay), NEW i \in DOMAIN list, NEW l \in Seq(ManualIds)
  PROVE  /\ [list EXCEPT ![i].acts = l] \in Seq(ManualDay)
         /\ InPlace(list) => InPlace([list EXCEPT ![i].acts = l])
         /\ GoOn(list, span.spring) => GoOn([list EXCEPT ![i].acts = l], span.spring)
<1> DEFINE new == [list EXCEPT ![i].acts = l]
<1>1. \A j \in DOMAIN list : list[j] \in ManualDay
  OBVIOUS
<1>2. DOMAIN new = DOMAIN list
  OBVIOUS
<1>3. \A j \in DOMAIN list : /\ new[j] \in ManualDay /\ new[j].day = list[j].day
                             /\ new[j].date = list[j].date
  BY <1>1 DEF ManualDay
<1>4. new \in Seq(ManualDay)
  <2>1. list \in [1 .. Len(list) -> ManualDay] /\ Len(list) \in Nat
    OBVIOUS
  <2>2. [list[i] EXCEPT !.acts = l] \in ManualDay
    BY <1>1 DEF ManualDay
  <2>3. new \in [1 .. Len(list) -> ManualDay]
    BY <2>1, <2>2
  <2>4. QED
    BY <2>1, <2>3, SeqDef
<1>5. QED
  BY <1>2, <1>3, <1>4 DEF InPlace, GoOn

\* Another date leaves a day where it is.
LEMMA OtherDate ==
  ASSUME NEW list \in Seq(ManualDay), NEW i \in DOMAIN list, NEW d \in Int
  PROVE  /\ [list EXCEPT ![i].date = d] \in Seq(ManualDay)
         /\ InPlace(list) => InPlace([list EXCEPT ![i].date = d])
<1> DEFINE new == [list EXCEPT ![i].date = d]
<1>1. \A j \in DOMAIN list : list[j] \in ManualDay
  OBVIOUS
<1>2. DOMAIN new = DOMAIN list /\ \A j \in DOMAIN list : new[j].day = list[j].day
  BY <1>1 DEF ManualDay
<1>3. new \in Seq(ManualDay)
  <2>1. list \in [1 .. Len(list) -> ManualDay] /\ Len(list) \in Nat
    OBVIOUS
  <2>2. [list[i] EXCEPT !.date = d] \in ManualDay
    BY <1>1 DEF ManualDay
  <2>3. new \in [1 .. Len(list) -> ManualDay]
    BY <2>1, <2>2
  <2>4. QED
    BY <2>1, <2>3, SeqDef
<1>4. QED
  BY <1>2, <1>3 DEF InPlace

\* A day that is added gets an id of its own.
LEMMA DayIdIsNew ==
  ASSUME manualDays \in Seq(ManualDay), Len(manualDays) < MaxDays
  PROVE  Manual!NewDayId \in Nat
<1> DEFINE T == Manual!DayIds
           f == [i \in 1 .. Len(manualDays) |-> manualDays[i].id]
<1>1. f \in Surjection(1 .. Len(manualDays), T)
  BY DEF Surjection, Manual!DayIds
<1>2. IsFiniteSet(T) /\ Cardinality(T) <= Len(manualDays)
  <2>1. /\ IsFiniteSet(1 .. Len(manualDays))
        /\ Cardinality(1 .. Len(manualDays)) = Len(manualDays)
    BY FS_Interval
  <2> HIDE DEF T, f
  <2>2. QED
    BY <1>1, <2>1, FS_Surjection
<1>3. ~(1 .. 2 * MaxDays \subseteq T)
  <2>1. Cardinality(1 .. 2 * MaxDays) = 2 * MaxDays
    BY FS_Interval, MaxDaysAssumption
  <2>2. Cardinality(T) \in Nat
    BY <1>2, FS_CardinalityType
  <2> HIDE DEF T
  <2>3. ASSUME 1 .. 2 * MaxDays \subseteq T
        PROVE  Cardinality(1 .. 2 * MaxDays) <= Cardinality(T)
    BY <1>2, <2>3, FS_Subset
  <2>4. QED
    BY <1>2, <2>1, <2>2, <2>3, MaxDaysAssumption
<1>4. \E n \in 1 .. 2 * MaxDays : n \notin Manual!DayIds
  BY <1>3
<1>5. Manual!NewDayId \in 1 .. 2 * MaxDays
  BY <1>4 DEF Manual!NewDayId
<1>6. QED
  BY <1>5

\* The invariant of the form of a manual trip holds to begin with.
LEMMA ManualInitially == Manual!Init => ManualInv
<1> SUFFICES ASSUME Manual!Init PROVE ManualInv
  OBVIOUS
<1>1. /\ manualDays = <<>> /\ manualRows = <<>> /\ named = {} /\ manualSlips = {}
      /\ manualSend = [pc |-> "idle", days |-> <<>>]
      /\ span.first = 1 /\ span.spring \in Int
  BY DEF Manual!Init, Manual!NoSend
<1>2. ManualTypes
  BY <1>1 DEF ManualTypes
<1>3. QED
  BY <1>1, <1>2 DEF ManualInv, DaysInOrder, SentAsShown, InPlace, GoOn

\* What is changed while the days are sent is noted, and nothing else depends on them.
LEMMA DaysChange ==
  ASSUME ManualInv,
         manualSlips' \in {manualSlips \cup Manual!Late,
                          manualSlips \cup Manual!Late \cup {"dragged"},
                          manualSlips \cup Manual!Late \cup {"dated"}},
         UNCHANGED <<span, manualSend, manualRows>>, named' \subseteq ManualIds,
         manualDays' \in Seq(ManualDay), InPlace(manualDays'),
         GoOn(manualDays, span.spring) /\ manualSlips' \cap {"dragged", "dated"} = {} => GoOn(manualDays', span.spring)
  PROVE  ManualInv'
<1> USE DEF ManualInv
<1>1. ManualTypes'
  BY DEF ManualTypes, Manual!Late
<1>2. DaysInOrder'
  BY DEF DaysInOrder
<1>3. SentAsShown'
  BY DEF SentAsShown, Manual!Late
<1>4. QED
  BY <1>1, <1>2, <1>3

\* A step that leaves the days alone keeps the invariant.
LEMMA NothingToTheDays ==
  ASSUME ManualInv, UNCHANGED <<span, manualDays, named, manualSend, manualRows, manualSlips>>
  PROVE  ManualInv'
BY DEF ManualInv, ManualTypes, DaysInOrder, SentAsShown, Manual!Used, InPlace, GoOn

\* Every step keeps the invariant of the form of a manual trip.
LEMMA ManualInductive ==
  ASSUME ManualInv, [Manual!Next]_(Manual!vars)
  PROVE  ManualInv'
<1> USE DEF Manual!Act
<1>1. /\ span.first \in Int /\ span.spring \in Int /\ manualDays \in Seq(ManualDay) /\ named \subseteq ManualIds
      /\ InPlace(manualDays)
      /\ \A i \in DOMAIN manualDays : manualDays[i] \in ManualDay
  BY DEF ManualInv, ManualTypes, DaysInOrder
<1>2. \A i \in DOMAIN manualDays : manualDays[i].acts \in Seq(ManualIds)
  BY <1>1 DEF ManualDay
<1>3. CASE Manual!GenerateDays
  <2>1. PICK a \in ManualIds, b \in ManualIds :
          manualDays' = <<[id |-> 1, day |-> 1, date |-> span.first, acts |-> <<a>>],
                          [id |-> 2, day |-> 2, date |-> Manual!Shift(span.first, 1), acts |-> <<b>>]>>
    BY <1>3 DEF Manual!GenerateDays
  <2> DEFINE d1 == [id |-> 1, day |-> 1, date |-> span.first, acts |-> <<a>>]
             d2 == [id |-> 2, day |-> 2, date |-> Manual!Shift(span.first, 1), acts |-> <<b>>]
  <2>2. d1 \in ManualDay /\ d2 \in ManualDay
    BY <1>1 DEF ManualDay, Manual!Shift
  <2>3. /\ d1.day = 1 /\ d2.day = 2
        /\ \/ d1.date < d2.date
           \/ d1.date = span.spring /\ d2.date = span.spring
    BY <1>1 DEF Manual!Shift
  <2> HIDE DEF d1, d2
  <2>4. manualDays' \in Seq(ManualDay) /\ InPlace(manualDays') /\ GoOn(manualDays', span.spring)
    BY <2>1, <2>2, <2>3 DEF InPlace, GoOn, d1, d2
  <2>5. /\ manualSlips' = manualSlips \cup Manual!Late
        /\ UNCHANGED <<span, manualSend, manualRows>> /\ named' \subseteq ManualIds
    BY <1>1, <1>3 DEF Manual!GenerateDays
  <2>6. QED
    BY <2>4, <2>5, DaysChange
<1>4. ASSUME NEW a \in ManualIds, Manual!AddDay(a)
      PROVE  ManualInv'
  <2> DEFINE date == IF manualDays = <<>> THEN span.first
                     ELSE Manual!Shift(manualDays[Len(manualDays)].date, 1)
             d == [id |-> Manual!NewDayId, day |-> Len(manualDays) + 1, acts |-> <<a>>,
                   date |-> date]
  <2>1. manualDays' = Append(manualDays, d)
    BY <1>4 DEF Manual!AddDay, Manual!Last
  <2>2. Manual!NewDayId \in Nat
    BY <1>1, <1>4, DayIdIsNew DEF Manual!AddDay
  <2>3. /\ date \in Int
        /\ \A i \in DOMAIN manualDays :
             GoOn(manualDays, span.spring) =>
               \/ manualDays[i].date < date
               \/ manualDays[i].date = span.spring /\ date = span.spring
    <3>1. \A i \in DOMAIN manualDays : manualDays[i].date \in Int
      BY <1>1 DEF ManualDay
    <3>2. CASE manualDays = <<>>
      BY <1>1, <3>2
    <3>3. CASE manualDays # <<>>
      <4> DEFINE last == manualDays[Len(manualDays)].date
      <4>1. Len(manualDays) \in DOMAIN manualDays /\ DOMAIN manualDays = 1 .. Len(manualDays)
        BY <1>1, <3>3
      <4>2. /\ last \in Int
            /\ \/ date = last + 1
               \/ date = last /\ last = span.spring
        BY <1>1, <3>1, <3>3, <4>1 DEF Manual!Shift
      <4> HIDE DEF date
      <4>3. ASSUME NEW i \in DOMAIN manualDays, GoOn(manualDays, span.spring)
            PROVE  \/ manualDays[i].date < last
                   \/ manualDays[i].date = last /\ (i = Len(manualDays) \/ last = span.spring)
        <5>1. CASE i = Len(manualDays)
          BY <5>1
        <5>2. CASE i < Len(manualDays)
          BY <4>1, <4>3, <5>2 DEF GoOn
        <5>3. QED
          BY <4>1, <5>1, <5>2
      <4> HIDE DEF last
      <4>4. QED
        BY <1>1, <3>1, <4>2, <4>3
    <3>4. QED
      BY <3>2, <3>3
  <2> HIDE DEF date
  <2>4. d \in ManualDay /\ d.day = Len(manualDays) + 1 /\ d.date = date
    BY <1>1, <2>2, <2>3 DEF ManualDay
  <2> HIDE DEF d
  <2>5. manualDays' \in Seq(ManualDay) /\ InPlace(manualDays')
    BY <1>1, <2>1, <2>4 DEF InPlace
  <2>6. GoOn(manualDays, span.spring) => GoOn(manualDays', span.spring)
    BY <1>1, <2>1, <2>3, <2>4 DEF GoOn
  <2>7. /\ manualSlips' = manualSlips \cup Manual!Late
        /\ UNCHANGED <<span, manualSend, manualRows>> /\ named' \subseteq ManualIds
    BY <1>1, <1>4 DEF Manual!AddDay
  <2>8. QED
    BY <2>5, <2>6, <2>7, DaysChange
<1>5. ASSUME NEW i \in DOMAIN manualDays, Manual!RemoveDay(i)
      PROVE  ManualInv'
  <2> DEFINE rest == Manual!RemoveAt(manualDays, i)
  <2>1. i \in 1 .. Len(manualDays) /\ Len(manualDays) \in Nat
    BY <1>1
  <2>2. /\ rest \in Seq(ManualDay) /\ Len(rest) = Len(manualDays) - 1
        /\ \A j \in 1 .. Len(manualDays) - 1 :
             rest[j] = IF j < i THEN manualDays[j] ELSE manualDays[j + 1]
    BY <1>1, <2>1, RemoveAtList
  <2> HIDE DEF rest
  <2>3. GoOn(manualDays, span.spring) => GoOn(rest, span.spring)
    <3>1. ASSUME GoOn(manualDays, span.spring), NEW j \in DOMAIN rest, NEW k \in DOMAIN rest, j < k
          PROVE  \/ rest[j].date < rest[k].date
                 \/ rest[j].date = span.spring /\ rest[k].date = span.spring
      <4>1. j \in 1 .. Len(manualDays) - 1 /\ k \in 1 .. Len(manualDays) - 1
        BY <2>1, <2>2
      <4>2. PICK m \in DOMAIN manualDays :
              rest[j] = manualDays[m] /\ m = (IF j < i THEN j ELSE j + 1)
        BY <2>1, <2>2, <4>1
      <4>3. PICK n \in DOMAIN manualDays :
              rest[k] = manualDays[n] /\ n = (IF k < i THEN k ELSE k + 1)
        BY <2>1, <2>2, <4>1
      <4>4. m < n
        BY <2>1, <3>1, <4>1, <4>2, <4>3
      <4>5. QED
        BY <3>1, <4>2, <4>3, <4>4 DEF GoOn
    <3>2. QED
      BY <3>1 DEF GoOn
  <2>4. manualDays' = Manual!Numbered(rest)
    BY <1>5 DEF Manual!RemoveDay, rest
  <2>5. /\ manualDays' \in Seq(ManualDay) /\ InPlace(manualDays')
        /\ GoOn(manualDays, span.spring) => GoOn(manualDays', span.spring)
    BY <2>2, <2>3, <2>4, NumberedList
  <2>6. /\ manualSlips' = manualSlips \cup Manual!Late
        /\ UNCHANGED <<span, manualSend, manualRows, named>>
    BY <1>5 DEF Manual!RemoveDay
  <2>7. QED
    BY <1>1, <2>5, <2>6, DaysChange
<1>6. ASSUME NEW i \in DOMAIN manualDays, NEW k \in DOMAIN manualDays, Manual!DragDay(i, k)
      PROVE  ManualInv'
  <2> DEFINE rest == Manual!RemoveAt(manualDays, i)
             new  == Manual!InsertAt(rest, k, manualDays[i])
  <2>1. i \in 1 .. Len(manualDays) /\ k \in 1 .. Len(manualDays) /\ Len(manualDays) \in Nat
    BY <1>1
  <2>2. rest \in Seq(ManualDay) /\ k \in 1 .. Len(rest) + 1
    BY <1>1, <2>1, RemoveAtList
  <2>3. new \in Seq(ManualDay)
    <3> HIDE DEF rest
    <3>1. QED
      BY <1>1, <2>2, InsertAtList
  <2>4. manualDays' = Manual!Numbered(new)
    BY <1>6 DEF Manual!DragDay
  <2> HIDE DEF new, rest
  <2>5. manualDays' \in Seq(ManualDay) /\ InPlace(manualDays')
    BY <2>3, <2>4, NumberedList
  <2>6. /\ manualSlips' = manualSlips \cup Manual!Late \cup {"dragged"}
        /\ UNCHANGED <<span, manualSend, manualRows, named>>
    BY <1>6 DEF Manual!DragDay
  <2>7. QED
    BY <1>1, <2>5, <2>6, DaysChange
<1>18. ASSUME NEW i \in DOMAIN manualDays, NEW d \in 0 .. MaxDays, Manual!EditDate(i, d)
       PROVE  ManualInv'
  <2>1. /\ manualDays' = [manualDays EXCEPT ![i].date = d]
        /\ manualSlips' = manualSlips \cup Manual!Late \cup {"dated"}
        /\ UNCHANGED <<span, manualSend, manualRows, named>>
    BY <1>18 DEF Manual!EditDate
  <2>2. d \in Int
    OBVIOUS
  <2>3. manualDays' \in Seq(ManualDay) /\ InPlace(manualDays')
    BY <1>1, <2>1, <2>2, OtherDate
  <2>4. QED
    BY <1>1, <2>1, <2>3, DaysChange
<1>7. ASSUME NEW i \in DOMAIN manualDays, NEW l \in Seq(ManualIds),
             manualDays' = [manualDays EXCEPT ![i].acts = l],
             manualSlips' = manualSlips \cup Manual!Late,
             UNCHANGED <<span, manualSend, manualRows>>, named' \subseteq ManualIds
      PROVE  ManualInv'
  <2>1. /\ manualDays' \in Seq(ManualDay) /\ InPlace(manualDays')
        /\ GoOn(manualDays, span.spring) => GoOn(manualDays', span.spring)
    BY <1>1, <1>7, OtherActs
  <2>2. QED
    BY <1>7, <2>1, DaysChange
<1>8. ASSUME NEW i \in DOMAIN manualDays, NEW a \in ManualIds, Manual!AddActivity(i, a)
      PROVE  ManualInv'
  <2>1. Append(manualDays[i].acts, a) \in Seq(ManualIds)
    BY <1>2
  <2>2. QED
    BY <1>1, <1>7, <1>8, <2>1 DEF Manual!AddActivity
<1>9. ASSUME NEW i \in DOMAIN manualDays, NEW k \in DOMAIN manualDays[i].acts,
             Manual!RemoveActivity(i, k)
      PROVE  ManualInv'
  <2>1. Manual!RemoveAt(manualDays[i].acts, k) \in Seq(ManualIds)
    BY <1>2, RemoveAtList
  <2>2. QED
    BY <1>1, <1>7, <1>9, <2>1 DEF Manual!RemoveActivity
<1>10. ASSUME NEW i \in DOMAIN manualDays, NEW k \in DOMAIN manualDays[i].acts,
              NEW l \in DOMAIN manualDays[i].acts, Manual!DragActivity(i, k, l)
       PROVE  ManualInv'
  <2> DEFINE s == manualDays[i].acts
  <2>1. s \in Seq(ManualIds) /\ k \in 1 .. Len(s) /\ l \in 1 .. Len(s) /\ s[k] \in ManualIds
    BY <1>2
  <2> HIDE DEF s
  <2>2. Manual!RemoveAt(s, k) \in Seq(ManualIds) /\ l \in 1 .. Len(Manual!RemoveAt(s, k)) + 1
    BY <2>1, RemoveAtList
  <2>3. Manual!InsertAt(Manual!RemoveAt(s, k), l, s[k]) \in Seq(ManualIds)
    BY <2>1, <2>2, InsertAtList
  <2>4. QED
    BY <1>1, <1>7, <1>10, <2>3 DEF Manual!DragActivity, s
<1>11. ASSUME NEW a \in ManualIds, Manual!Accept(a)
       PROVE  ManualInv'
  <2>1. PICK i \in DOMAIN manualDays :
          manualDays' = [manualDays EXCEPT ![i].acts = Append(@, a)]
    BY <1>11 DEF Manual!Accept
  <2>2. Append(manualDays[i].acts, a) \in Seq(ManualIds)
    BY <1>2
  <2>3. QED
    BY <1>1, <1>7, <1>11, <2>1, <2>2 DEF Manual!Accept
<1>12. CASE Manual!NameIt
  <2>1. named \subseteq named' /\ named' \subseteq ManualIds
    <3>1. Manual!Used \subseteq ManualIds
      BY <1>2 DEF Manual!Used, Manual!ToSet
    <3>2. QED
      BY <1>1, <1>12, <3>1 DEF Manual!NameIt
  <2>2. /\ UNCHANGED <<span, manualDays, manualSend, manualRows>>
        /\ manualSlips \subseteq manualSlips' /\ manualSlips' \subseteq manualSlips \cup {"late"}
    BY <1>12 DEF Manual!NameIt, Manual!Late
  <2>3. Manual!Used' = Manual!Used
    BY <2>2 DEF Manual!Used
  <2>4. QED
    BY <2>1, <2>2, <2>3 DEF ManualInv, ManualTypes, DaysInOrder, SentAsShown
<1>13. CASE Manual!Save
  <2>1. /\ manualSend' = [pc |-> "sent", days |-> manualDays]
        /\ UNCHANGED <<span, manualDays, named, manualRows, manualSlips>>
        /\ Manual!Used \subseteq named
    BY <1>13 DEF Manual!Save
  <2>2. Manual!Used' = Manual!Used
    BY <2>1 DEF Manual!Used
  <2>3. QED
    BY <2>1, <2>2 DEF ManualInv, ManualTypes, DaysInOrder, SentAsShown
<1>14. CASE Manual!Insert
  <2>1. /\ manualSend.pc = "sent"
        /\ manualRows' = Append(manualRows, manualSend.days)
        /\ manualSend' = [manualSend EXCEPT !.pc = "done"]
        /\ UNCHANGED <<span, manualDays, named, manualSlips>>
    BY <1>14 DEF Manual!Insert
  <2>2. manualSend'.pc = "done" /\ manualSend'.days = manualSend.days
    BY <2>1 DEF ManualInv, ManualTypes
  <2>3. ManualTypes'
    <3>1. /\ manualSend \in [pc : {"idle", "sent", "done"}, days : Seq(ManualDay)]
          /\ manualRows \in Seq(Seq(ManualDay))
      BY DEF ManualInv, ManualTypes
    <3>2. manualSend' \in [pc : {"idle", "sent", "done"}, days : Seq(ManualDay)]
      BY <2>1, <3>1
    <3>3. manualSend.days \in Seq(ManualDay)
      BY <3>1
    <3>4. manualRows' \in Seq(Seq(ManualDay))
      BY <2>1, <3>1, <3>3
    <3>5. QED
      BY <2>1, <3>2, <3>4 DEF ManualInv, ManualTypes
  <2>4. /\ manualRows \in Seq(Seq(ManualDay))
        /\ DOMAIN manualRows' = 1 .. Len(manualRows) + 1
        /\ manualRows'[Len(manualRows) + 1] = manualSend.days
        /\ \A n \in DOMAIN manualRows : manualRows'[n] = manualRows[n]
    BY <2>1 DEF ManualInv, ManualTypes
  <2>5. DaysInOrder'
    BY <2>1, <2>2, <2>4 DEF ManualInv, DaysInOrder
  <2>6. Manual!Used' = Manual!Used
    BY <2>1 DEF Manual!Used
  <2>7. SentAsShown'
    BY <2>1, <2>2, <2>4, <2>6 DEF ManualInv, SentAsShown
  <2>8. QED
    BY <2>3, <2>5, <2>7 DEF ManualInv
<1>15. CASE Manual!SaveFails
  <2>1. /\ manualSend' = [pc |-> "idle", days |-> <<>>]
        /\ UNCHANGED <<span, manualDays, named, manualRows>>
        /\ manualSlips \subseteq manualSlips' /\ manualSlips' \subseteq manualSlips \cup {"lost"}
    BY <1>15 DEF Manual!SaveFails, Manual!NoSend
  <2>2. InPlace(<<>>) /\ GoOn(<<>>, span.spring)
    BY DEF InPlace, GoOn
  <2>3. QED
    BY <2>1, <2>2 DEF ManualInv, ManualTypes, DaysInOrder, SentAsShown
<1>16. ASSUME \/ Manual!Suggested \/ Manual!SuggestFails \/ UNCHANGED Manual!vars
              \/ \E i \in DOMAIN manualDays :
                   Manual!Suggest(i) \/ \E k \in DOMAIN manualDays[i].acts : Manual!Edit(i, k)
       PROVE  ManualInv'
  BY <1>16, NothingToTheDays
  DEF Manual!Suggested, Manual!SuggestFails, Manual!Suggest, Manual!Edit, Manual!vars
<1>17. QED
  BY <1>3, <1>4, <1>5, <1>6, <1>8, <1>9, <1>10, <1>11, <1>12, <1>13, <1>14, <1>15, <1>16,
     <1>18
  DEF Manual!Next

\* The properties of the editor follow from its invariant.
LEMMA ManualTells ==
  ASSUME ManualInv
  PROVE  Manual!DaysGoOn /\ Manual!KeptAsShown
<1>1. Manual!DaysGoOn
  BY DEF ManualInv, DaysInOrder, InPlace, GoOn, Manual!DaysGoOn
<1>2. Manual!KeptAsShown
  BY DEF ManualInv, SentAsShown, Manual!KeptAsShown, Manual!Last
<1>3. QED
  BY <1>1, <1>2

\* The editor of a trip has the types that a run checks.
LEMMA ManualHasTypes == ManualInv => Manual!TypeOK
<1> SUFFICES ASSUME ManualInv PROVE Manual!TypeOK
  OBVIOUS
<1>1. \A i \in DOMAIN manualDays : manualDays[i] \in ManualDay
  BY LenProperties, ElementOfSeq DEF ManualInv, ManualTypes
<1>2. QED
  BY <1>1 DEF ManualInv, ManualTypes, ManualDay, Manual!TypeOK

-----------------------------------------------------------------------------
(* The field of the destination *)

WhereTypes ==
  /\ text \in Short \cup Long \cup Where!Names \cup {Where!Undefined}
  /\ whereTimer \in Long \cup {Where!NoText}
  /\ requests \in [Lookups -> Long \cup {Where!NoText}]
  /\ names \in Seq(Where!Names)
  /\ active \in Nat

\* Names that are not about what is in the field will be replaced: the timer is set, or
\* a request is on its way, unless the last reply came late.
NamesOfText ==
  names # <<>> /\ ~late =>
    \/ text \in Long /\ names = Suggestions[text]
    \/ whereTimer # Where!NoText
    \/ \E r \in Lookups : requests[r] # Where!NoText

\* A cursor past the end of the list is there since the list was replaced.
CursorInList ==
  /\ active > Len(names) => cut
  /\ text = Where!Undefined => cut

WhereInv == WhereTypes /\ NamesOfText /\ CursorInList

\* The invariant of the field of the destination holds to begin with.
LEMMA WhereInitially == Where!Init => WhereInv
BY TextsAssumption
DEF Where!Init, WhereInv, WhereTypes, NamesOfText, CursorInList

\* Every step keeps the invariant of the field of the destination.
LEMMA WhereInductive ==
  ASSUME WhereInv, [Where!Next]_(Where!vars)
  PROVE  WhereInv'
<1> USE TextsAssumption DEF WhereInv, WhereTypes, NamesOfText, CursorInList
<1>1. ASSUME text # Where!Undefined, NEW t \in Short \cup Long, Where!Type(t)
      PROVE  WhereInv'
  BY <1>1 DEF Where!Type
<1>2. CASE Where!TimerFires
  BY <1>2 DEF Where!TimerFires
<1>3. ASSUME NEW r \in Lookups, NEW new \in Seq(Where!Names), Where!Replace(new, r),
             ~late' => new = <<>> \/ (text \in Long /\ new = Suggestions[text]),
             text # Where!Undefined
      PROVE  WhereInv'
  <2>1. WhereTypes'
    BY <1>3 DEF Where!Replace
  <2>2. NamesOfText'
    BY <1>3 DEF Where!Replace
  <2>3. CursorInList'
    BY <1>3 DEF Where!Replace
  <2>4. QED
    BY <2>1, <2>2, <2>3
<1>4. ASSUME text # Where!Undefined, NEW r \in Lookups, Where!Arrives(r) \/ Where!Fails(r)
      PROVE  WhereInv'
  <2>1. CASE Where!Arrives(r)
    <3>1. /\ requests[r] \in Long
          /\ Where!Replace(Suggestions[requests[r]], r) /\ late' = (requests[r] # text)
      BY <2>1 DEF Where!Arrives
    <3>2. Suggestions[requests[r]] \in Seq(Where!Names)
      BY <3>1
    <3>3. ~late' => text \in Long /\ Suggestions[requests[r]] = Suggestions[text]
      BY <3>1
    <3>4. QED
      BY <1>3, <1>4, <3>1, <3>2, <3>3
  <2>2. CASE Where!Fails(r)
    <3>1. Where!Replace(<<>>, r) /\ <<>> \in Seq(Where!Names)
      BY <2>2 DEF Where!Fails
    <3>2. QED
      BY <1>3, <1>4, <3>1
  <2>3. QED
    BY <1>4, <2>1, <2>2
<1>5. ASSUME NEW name \in Where!Names \cup {Where!Undefined}, Where!Select(name),
             name = Where!Undefined => cut
      PROVE  WhereInv'
  <2>1. WhereTypes'
    BY <1>5 DEF Where!Select
  <2>2. NamesOfText'
    BY <1>5 DEF Where!Select
  <2>3. CursorInList'
    <3>1. /\ text' = name /\ active' = 0 /\ names' = <<>>
          /\ name = Where!Undefined /\ cut => cut'
      BY <1>5 DEF Where!Select
    <3>2. QED
      BY <1>5, <3>1
  <2>4. QED
    BY <2>1, <2>2, <2>3
<1>6. ASSUME NEW k \in DOMAIN names, Where!Click(k)
      PROVE  WhereInv'
  <2>1. names[k] \in Where!Names /\ Where!Select(names[k])
    BY <1>6 DEF Where!Click
  <2>2. QED
    BY <1>5, <2>1
<1>7. ASSUME NEW k \in DOMAIN names, Where!Hover(k), text # Where!Undefined
      PROVE  WhereInv'
  <2>1. WhereTypes'
    BY <1>7 DEF Where!Hover
  <2>2. NamesOfText'
    BY <1>7 DEF Where!Hover
  <2>3. CursorInList'
    BY <1>7 DEF Where!Hover
  <2>4. QED
    BY <2>1, <2>2, <2>3
<1>8. CASE Where!Down /\ text # Where!Undefined
  <2>1. WhereTypes'
    BY <1>8 DEF Where!Down
  <2>2. NamesOfText'
    BY <1>8 DEF Where!Down
  <2>3. CursorInList'
    BY <1>8 DEF Where!Down
  <2>4. QED
    BY <2>1, <2>2, <2>3
<1>9. CASE Where!Up /\ text # Where!Undefined
  <2>1. WhereTypes'
    BY <1>9 DEF Where!Up
  <2>2. NamesOfText'
    BY <1>9 DEF Where!Up
  <2>3. CursorInList'
    <3>1. /\ text' = text /\ names' = names /\ active > 0 /\ active' = active - 1
          /\ cut /\ active' > Len(names) => cut'
      BY <1>9 DEF Where!Up
    <3>2. QED
      BY <1>9, <3>1
  <2>4. QED
    BY <2>1, <2>2, <2>3
<1>10. CASE Where!Enter
  <2>1. CASE active <= Len(names)
    <3>1. Where!Select(names[active]) /\ names[active] \in Where!Names
      BY <1>10, <2>1 DEF Where!Enter
    <3>2. QED
      BY <1>5, <3>1
  <2>2. CASE active > Len(names)
    <3>1. Where!Select(Where!Undefined) /\ cut
      BY <1>10, <2>2 DEF Where!Enter
    <3>2. QED
      BY <1>5, <3>1
  <2>3. QED
    BY <2>1, <2>2
<1>11. CASE Where!Escape /\ text # Where!Undefined
  <2>1. WhereTypes'
    BY <1>11 DEF Where!Escape
  <2>2. NamesOfText'
    BY <1>11 DEF Where!Escape
  <2>3. CursorInList'
    BY <1>11 DEF Where!Escape
  <2>4. QED
    BY <2>1, <2>2, <2>3
<1>12. CASE Where!Blur \/ Where!Left \/ Where!Focus
  BY <1>12 DEF Where!Blur, Where!Left, Where!Focus
<1>13. CASE UNCHANGED Where!vars
  BY <1>13 DEF Where!vars
<1>14. QED
  BY <1>1, <1>2, <1>4, <1>6, <1>7, <1>8, <1>9, <1>10, <1>11, <1>12, <1>13 DEF Where!Next

\* The property of the field follows from its invariant.
LEMMA WhereTells == ASSUME WhereInv  PROVE Where!OffersWhatIsTyped /\ Where!ChosenIsAName
BY DEF WhereInv, NamesOfText, CursorInList, Where!OffersWhatIsTyped, Where!ChosenIsAName,
       Where!Shown

\* The field of the destination has the types that a run checks.
LEMMA WhereHasTypes == WhereInv => Where!TypeOK
<1> SUFFICES ASSUME WhereInv PROVE Where!TypeOK
  OBVIOUS
<1>1. \A k \in DOMAIN names : names[k] \in Where!Names
  BY LenProperties, ElementOfSeq DEF WhereInv, WhereTypes
<1>2. QED
  BY <1>1 DEF WhereInv, WhereTypes, Where!TypeOK

-----------------------------------------------------------------------------
(* The wizard *)

Calling == Wizard!Running \cup {"waiting"}

Steps == Calling \cup {"begin", "reveal", "insert"}

JobState ==
  [pc : Steps \cup {"idle", "end"}, stage : Wizard!Stages, tries : 0 .. 3, sent : 0 .. NumDays]

Event == [kind : {"day"}, day : Nat] \cup [kind : {"done", "error"}]

PageTypes ==
  /\ phase \in {"form", "generating", "review"}
  /\ listening \in Jobs \cup {NoJob} /\ reviewed \in Jobs \cup {NoJob}
  /\ shown \in Seq(Jobs \X Nat)
  /\ generateSlips \subseteq {"uncounted", "broken", "closed", "left", "not deleted"}

ServerTypes ==
  /\ job \in [Jobs -> JobState]
  /\ generateRows \in [Jobs -> {"none", "draft", "deleted"}]
  /\ generateWire \in [Jobs -> Seq(Event)]

\* How far the handler is tells how many days it has sent.
InOrder(s) ==
  /\ s.pc = "waiting" => s.tries < 3
  /\ s.pc = "insert" => s.stage = "tips"
  /\ s.pc = "reveal" => s.stage = "days"
  /\ s.pc = "idle" => s.stage = "validate"
  /\ IF s.stage = "tips" THEN s.sent = NumDays ELSE s.pc = "reveal" \/ s.sent = 0

JobsInOrder ==
  \A j \in Jobs : /\ InOrder(job[j])
                  /\ job[j].pc = "idle" => generateWire[j] = <<>>
                  /\ generateRows[j] # "none" => job[j].pc = "end"

\* What is shown and what is on its way are the days that were sent, in their order; after
\* them, when the handler has ended, comes what it ended with.
StreamOf(j) ==
  /\ phase = "generating" /\ job[j].pc # "idle"
  /\ \A k \in DOMAIN shown : shown[k] = <<j, k>>
  /\ \A k \in DOMAIN generateWire[j] :
       \/ /\ generateWire[j][k].kind = "day"
          /\ generateWire[j][k].day = Len(shown) + k
       \/ k = Len(generateWire[j]) /\ job[j].pc = "end"
  /\ IF job[j].pc # "end"
       THEN Len(shown) + Len(generateWire[j]) = job[j].sent
       ELSE /\ generateWire[j] # <<>>
            /\ \/ /\ generateWire[j][Len(generateWire[j])].kind = "done"
                  /\ generateRows[j] = "draft"
                  /\ Len(shown) + Len(generateWire[j]) = NumDays + 1
               \/ /\ generateWire[j][Len(generateWire[j])].kind = "error"
                  /\ generateRows[j] = "none"

StreamInOrder == listening \in Jobs => StreamOf(listening)

ReviewInOrder ==
  /\ phase # "review" => reviewed = NoJob
  /\ phase = "review" =>
       /\ listening = NoJob /\ reviewed \in Jobs /\ generateRows[reviewed] = "draft"
       /\ Len(shown) = NumDays
       /\ \A k \in DOMAIN shown : shown[k] = <<reviewed, k>>

\* As long as nothing was lost the page listens to the one job that is going on.
NothingLost ==
  generateSlips \subseteq {"uncounted"} =>
    \A j \in Jobs : /\ generateRows[j] = "draft" => j \in {reviewed, listening}
                    /\ job[j].pc \in Steps => listening = j

InCall == {j \in Jobs : job[j].pc \in Calling}

CallsCounted ==
  /\ generateCount \in [chamadas : Nat, falhas : Nat, retentativas : Nat, answered : Nat]
  /\ "uncounted" \notin generateSlips =>
       generateCount.chamadas =
         generateCount.answered + generateCount.falhas + Cardinality(InCall)

WizardInv ==
  /\ PageTypes /\ ServerTypes /\ JobsInOrder /\ StreamInOrder /\ ReviewInOrder
  /\ NothingLost /\ CallsCounted

\* The invariant of the pages of the generation holds to begin with.
LEMMA WizardInitially == Wizard!Init => WizardInv
<1> SUFFICES ASSUME Wizard!Init  PROVE WizardInv
  OBVIOUS
<1> USE JobsAssumption DEF Wizard!Init, Wizard!IdleJob, Wizard!Enter
<1>1. PageTypes /\ StreamInOrder /\ ReviewInOrder
  BY DEF PageTypes, StreamInOrder, ReviewInOrder
<1>2. Wizard!IdleJob \in JobState /\ InOrder(Wizard!IdleJob)
  BY DEF JobState, InOrder, Steps, Calling, Wizard!Stages
<1>3. ServerTypes /\ JobsInOrder /\ NothingLost
  BY <1>2 DEF ServerTypes, JobsInOrder, NothingLost, Steps, Calling, Wizard!Running
<1>4. InCall = {}
  BY DEF InCall, Calling, Wizard!Running
<1>5. CallsCounted
  BY <1>4, FS_EmptySet DEF CallsCounted
<1>6. QED
  BY <1>1, <1>3, <1>5 DEF WizardInv

\* A step of the handler that sends nothing and does not end.
LEMMA HandlerStep ==
  ASSUME WizardInv, NEW j \in Jobs, job[j].pc \in Steps,
         job' \in [Jobs -> JobState], \A i \in Jobs \ {j} : job'[i] = job[i],
         job'[j].pc \in Steps, InOrder(job'[j]), job'[j].sent = job[j].sent,
         UNCHANGED Wizard!page, UNCHANGED <<generateWire, generateRows>>,
         generateSlips' = generateSlips \/ generateSlips' = generateSlips \cup {"uncounted"}
  PROVE  (/\ PageTypes /\ ServerTypes /\ JobsInOrder /\ StreamInOrder /\ ReviewInOrder
          /\ NothingLost)'
<1> USE DEF WizardInv, Wizard!page
<1>1. \A i \in Jobs : /\ InOrder(job'[i])
                      /\ job'[i].pc = "idle" => job[i].pc = "idle"
                      /\ job'[i].pc = "end" <=> job[i].pc = "end"
                      /\ job'[i].pc \in Steps <=> job[i].pc \in Steps
                      /\ job'[i].sent = job[i].sent
  BY DEF JobsInOrder, Steps, Calling, Wizard!Running
<1>2. PageTypes' /\ ServerTypes'
  BY DEF PageTypes, ServerTypes
<1>3. JobsInOrder'
  BY <1>1 DEF JobsInOrder
<1>4. StreamInOrder'
  BY <1>1 DEF StreamInOrder, StreamOf
<1>5. ReviewInOrder'
  BY DEF ReviewInOrder
<1>6. NothingLost'
  BY <1>1 DEF NothingLost
<1>7. QED
  BY <1>2, <1>3, <1>4, <1>5, <1>6

\* What is counted is a number.
LEMMA WizardNumbers ==
  ASSUME WizardInv, NEW j \in Jobs
  PROVE  /\ Len(shown) \in Nat /\ Len(generateWire[j]) \in Nat
         /\ job[j] \in JobState /\ job[j].sent \in Nat /\ job[j].sent <= NumDays
<1>1. shown \in Seq(Jobs \X Nat) /\ generateWire[j] \in Seq(Event) /\ job[j] \in JobState
  BY DEF WizardInv, PageTypes, ServerTypes
<1>2. job[j].sent \in 0 .. NumDays
  BY <1>1 DEF JobState
<1>3. QED
  BY <1>1, <1>2, JobsAssumption

\* The handler sends something: a day, or what it ends with.
LEMMA HandlerSends ==
  ASSUME WizardInv, NEW j \in Jobs, job[j].pc \in Steps,
         job' \in [Jobs -> JobState], \A i \in Jobs \ {j} : job'[i] = job[i],
         InOrder(job'[j]), NEW event \in Event,
         generateWire' = [generateWire EXCEPT ![j] = Append(@, event)],
         \/ /\ event.kind = "day" /\ event.day = job[j].sent + 1
            /\ job'[j].sent = job[j].sent + 1 /\ job'[j].pc \in Steps
            /\ generateRows' = generateRows
         \/ /\ event.kind = "error" /\ job'[j].pc = "end"
            /\ generateRows' = generateRows
         \/ /\ event.kind = "done" /\ job'[j].pc = "end" /\ job[j].sent = NumDays
            /\ generateRows' = [generateRows EXCEPT ![j] = "draft"],
         UNCHANGED Wizard!page,
         generateSlips' = generateSlips \/ generateSlips' = generateSlips \cup {"uncounted"}
  PROVE  (/\ PageTypes /\ ServerTypes /\ JobsInOrder /\ StreamInOrder /\ ReviewInOrder
          /\ NothingLost)'
<1> USE DEF WizardInv
<1>1. /\ generateWire' \in [Jobs -> Seq(Event)]
      /\ \A i \in Jobs \ {j} : generateWire'[i] = generateWire[i]
      /\ generateWire[j] \in Seq(Event) /\ generateWire'[j] = Append(generateWire[j], event)
  BY DEF ServerTypes
<1>2. /\ Len(generateWire'[j]) = Len(generateWire[j]) + 1
      /\ generateWire'[j] # <<>>
      /\ generateWire'[j][Len(generateWire[j]) + 1] = event
      /\ \A k \in DOMAIN generateWire[j] : generateWire'[j][k] = generateWire[j][k]
      /\ DOMAIN generateWire'[j] = DOMAIN generateWire[j] \cup {Len(generateWire[j]) + 1}
  BY <1>1
<1>3. /\ generateRows' \in [Jobs -> {"none", "draft", "deleted"}]
      /\ \A i \in Jobs \ {j} : generateRows'[i] = generateRows[i]
      /\ generateRows[j] = "none"
      /\ job[j].pc \notin {"idle", "end"} /\ job'[j].pc # "idle"
      /\ job'[j].pc # "end" => generateRows'[j] = "none"
      /\ generateRows'[j] = "draft" => event.kind = "done"
  BY DEF ServerTypes, JobsInOrder, Steps, Calling, Wizard!Running
<1>4. PageTypes' /\ ServerTypes'
  BY <1>1, <1>3 DEF PageTypes, ServerTypes, Wizard!page
<1>5. JobsInOrder'
  BY <1>1, <1>3 DEF JobsInOrder
<1>6. StreamInOrder'
  <2>1. CASE listening # j
    BY <2>1, <1>1, <1>3 DEF StreamInOrder, StreamOf, Wizard!page
  <2>2. CASE listening = j
    <3>1. StreamOf(j) /\ job[j].pc # "end"
      BY <2>2, <1>3 DEF StreamInOrder
    <3>2. \A k \in DOMAIN generateWire'[j] :
            \/ /\ generateWire'[j][k].kind = "day"
               /\ generateWire'[j][k].day = Len(shown) + k
            \/ k = Len(generateWire'[j]) /\ job'[j].pc = "end"
      <4>1. Len(shown) + Len(generateWire[j]) = job[j].sent
        BY <3>1 DEF StreamOf
      <4>2. Len(shown) \in Nat /\ Len(generateWire[j]) \in Nat /\ job[j].sent \in Nat
        BY WizardNumbers
      <4>3. CASE event.kind = "day"
        BY <4>1, <4>2, <4>3, <3>1, <1>2 DEF StreamOf
      <4>4. CASE event.kind # "day"
        BY <4>4, <3>1, <1>2 DEF StreamOf
      <4>5. QED
        BY <4>3, <4>4
    <3>3. IF job'[j].pc # "end"
            THEN Len(shown) + Len(generateWire'[j]) = job'[j].sent
            ELSE /\ generateWire'[j] # <<>>
                 /\ \/ /\ generateWire'[j][Len(generateWire'[j])].kind = "done"
                       /\ generateRows'[j] = "draft"
                       /\ Len(shown) + Len(generateWire'[j]) = NumDays + 1
                    \/ /\ generateWire'[j][Len(generateWire'[j])].kind = "error"
                       /\ generateRows'[j] = "none"
      <4>1. /\ Len(shown) + Len(generateWire[j]) = job[j].sent
            /\ Len(shown) \in Nat /\ Len(generateWire[j]) \in Nat /\ job[j].sent \in Nat
        BY <3>1, WizardNumbers DEF StreamOf
      <4>2. CASE event.kind = "day"
        BY <4>1, <4>2, <1>2, <1>3 DEF Steps, Calling, Wizard!Running
      <4>3. CASE event.kind = "error"
        BY <4>1, <4>3, <1>2, <1>3
      <4>4. CASE event.kind = "done"
        <5>1. generateRows'[j] = "draft" /\ job'[j].pc = "end" /\ job[j].sent = NumDays
          BY <4>4 DEF ServerTypes
        <5>2. QED
          BY <4>1, <4>4, <5>1, <1>2
      <4>5. QED
        BY <4>2, <4>3, <4>4
    <3>4. QED
      BY <2>2, <3>1, <3>2, <3>3, <1>3 DEF StreamInOrder, StreamOf, Wizard!page
  <2>3. QED
    BY <2>1, <2>2
<1>7. ReviewInOrder'
  BY <1>3 DEF ReviewInOrder, Wizard!page
<1>8. NothingLost'
  BY <1>3 DEF NothingLost, Wizard!page
<1>9. QED
  BY <1>4, <1>5, <1>6, <1>7, <1>8

\* How the number of jobs that are in a call changes with one of them.
LEMMA CallsMove ==
  ASSUME NEW j \in Jobs, \A i \in Jobs \ {j} : job'[i] = job[i]
  PROVE  /\ IsFiniteSet(InCall) /\ Cardinality(InCall) \in Nat /\ Cardinality(InCall') \in Nat
         /\ (job[j].pc \in Calling <=> job'[j].pc \in Calling) =>
              Cardinality(InCall') = Cardinality(InCall)
         /\ job[j].pc \notin Calling /\ job'[j].pc \in Calling =>
              Cardinality(InCall') = Cardinality(InCall) + 1
         /\ job[j].pc \in Calling /\ job'[j].pc \notin Calling =>
              Cardinality(InCall) = Cardinality(InCall') + 1
<1>1. IsFiniteSet(InCall) /\ IsFiniteSet(InCall')
  <2>1. InCall \subseteq Jobs /\ InCall' \subseteq Jobs
    BY DEF InCall
  <2>2. QED
    BY <2>1, JobsAssumption, FS_Subset
<1>2. Cardinality(InCall) \in Nat /\ Cardinality(InCall') \in Nat
  BY <1>1, FS_CardinalityType
<1>3. ASSUME job[j].pc \in Calling <=> job'[j].pc \in Calling
      PROVE  Cardinality(InCall') = Cardinality(InCall)
  <2>1. InCall' = InCall
    BY <1>3 DEF InCall
  <2>2. QED
    BY <2>1
<1>4. ASSUME job[j].pc \notin Calling, job'[j].pc \in Calling
      PROVE  Cardinality(InCall') = Cardinality(InCall) + 1
  <2>1. InCall' = InCall \cup {j} /\ j \notin InCall
    BY <1>4 DEF InCall
  <2>2. QED
    BY <2>1, <1>1, FS_AddElement
<1>5. ASSUME job[j].pc \in Calling, job'[j].pc \notin Calling
      PROVE  Cardinality(InCall) = Cardinality(InCall') + 1
  <2>1. InCall = InCall' \cup {j} /\ j \notin InCall'
    BY <1>5 DEF InCall
  <2>2. QED
    BY <2>1, <1>1, FS_AddElement
<1>6. QED
  BY <1>1, <1>2, <1>3, <1>4, <1>5

\* Where a job is that enters a stage.
LEMMA StageEntered ==
  ASSUME NEW p \in Steps, NEW s \in Wizard!Stages
  PROVE  /\ Wizard!Enter(p, s) = [pc |-> p, stage |-> s, tries |-> 0, sent |-> 0]
         /\ Wizard!Enter(p, s) \in JobState
<1>1. Wizard!Enter(p, s) = [pc |-> p, stage |-> s, tries |-> 0, sent |-> 0]
  BY DEF Wizard!Enter
<1>2. QED
  BY <1>1, JobsAssumption DEF JobState

\* The end of a call that does not end its job, or what the cache has in its stead.
LEMMA StageOver ==
  ASSUME WizardInv, NEW j \in Jobs,
         \/ job[j].pc \in Wizard!Running
         \/ job[j].pc = "begin" /\ job[j].stage # "mend",
         \/ job' = [job EXCEPT ![j] = Wizard!After(job[j].stage)]
         \/ job[j].stage = "days" /\ job' = [job EXCEPT ![j] = Wizard!Enter("begin", "mend")]
  PROVE  /\ job' \in [Jobs -> JobState] /\ \A i \in Jobs \ {j} : job'[i] = job[i]
         /\ job'[j].pc \in Steps /\ InOrder(job'[j]) /\ job'[j].sent = job[j].sent
         /\ job'[j].pc \notin Calling /\ job[j].pc \in Steps
<1>1. job \in [Jobs -> JobState] /\ job[j] \in JobState /\ InOrder(job[j])
  BY DEF WizardInv, ServerTypes, JobsInOrder
<1>2. job[j].stage \in {"validate", "days", "mend", "tips"}
  BY <1>1 DEF JobState, Wizard!Stages
<1>3. job[j].pc \in Steps /\ job[j].pc # "reveal"
  BY DEF Steps, Calling, Wizard!Running
<1>4. job[j].sent = IF job[j].stage = "tips" THEN NumDays ELSE 0
  BY <1>1, <1>3 DEF InOrder
<1>5. PICK s \in JobState :
        /\ job' = [job EXCEPT ![j] = s] /\ InOrder(s) /\ s.sent = job[j].sent
        /\ s.pc \in {"begin", "reveal", "insert"}
  <2> DEFINE E(p, s) == [pc |-> p, stage |-> s, tries |-> 0, sent |-> 0]
  <2>1. /\ Wizard!Enter("begin", "days") = E("begin", "days") /\ E("begin", "days") \in JobState
        /\ Wizard!Enter("begin", "mend") = E("begin", "mend") /\ E("begin", "mend") \in JobState
        /\ Wizard!Enter("reveal", "days") = E("reveal", "days") /\ E("reveal", "days") \in JobState
        /\ Wizard!Enter("insert", "tips") = E("insert", "tips") /\ E("insert", "tips") \in JobState
    BY StageEntered DEF Steps, Wizard!Stages
  <2>2. CASE job[j].stage = "days" /\ job' = [job EXCEPT ![j] = Wizard!Enter("begin", "mend")]
    <3>1. InOrder(E("begin", "mend")) /\ E("begin", "mend").sent = 0
      BY DEF InOrder
    <3>2. QED
      BY <1>4, <2>1, <2>2, <3>1
  <2>3. CASE job' = [job EXCEPT ![j] = Wizard!After(job[j].stage)]
    <3>1. CASE job[j].stage = "validate"
      <4>1. Wizard!After("validate") = E("begin", "days")
        BY <2>1 DEF Wizard!After
      <4>2. InOrder(E("begin", "days")) /\ E("begin", "days").sent = 0
        BY DEF InOrder
      <4>3. QED
        BY <1>4, <2>1, <2>3, <3>1, <4>1, <4>2
    <3>2. CASE job[j].stage \in {"days", "mend"}
      <4>1. Wizard!After(job[j].stage) = E("reveal", "days")
        BY <2>1, <3>2 DEF Wizard!After
      <4>2. InOrder(E("reveal", "days")) /\ E("reveal", "days").sent = 0
        BY DEF InOrder
      <4>3. QED
        BY <1>4, <2>1, <2>3, <3>2, <4>1, <4>2
    <3>3. CASE job[j].stage = "tips"
      <4> DEFINE T == [pc |-> "insert", stage |-> "tips", tries |-> 0, sent |-> NumDays]
      <4>1. Wizard!After("tips") = T
        BY <2>1 DEF Wizard!After
      <4>2. InOrder(T) /\ T.sent = NumDays /\ T \in JobState
        BY JobsAssumption DEF InOrder, JobState, Steps, Wizard!Stages
      <4>3. QED
        BY <1>4, <2>3, <3>3, <4>1, <4>2
    <3>4. QED
      BY <1>2, <3>1, <3>2, <3>3
  <2>4. QED
    BY <2>2, <2>3
<1>6. QED
  BY <1>1, <1>3, <1>5 DEF Steps, Calling, Wizard!Running

\* The first steps of the handler, which only change where it is.
LEMMA HandlerGoesOn ==
  ASSUME WizardInv, NEW j \in Jobs,
         \/ Wizard!Cached(j) \/ Wizard!Call(j) \/ Wizard!Answers(j) \/ Wizard!WaitOver(j)
         \/ Wizard!WithoutSchema(j)
         \/ \E err \in Wizard!Errors : Wizard!Retry(j, err) \/ Wizard!Fallback(j, err)
  PROVE  WizardInv'
<1>1. /\ job \in [Jobs -> JobState] /\ job[j] \in JobState /\ InOrder(job[j])
      /\ CallsCounted
  BY DEF WizardInv, ServerTypes, JobsInOrder
<1>2. ASSUME job[j].pc \in Steps,
             job' \in [Jobs -> JobState], \A i \in Jobs \ {j} : job'[i] = job[i],
             job'[j].pc \in Steps, InOrder(job'[j]), job'[j].sent = job[j].sent,
             UNCHANGED Wizard!page, UNCHANGED <<generateWire, generateRows, generateSlips>>,
             CallsCounted'
      PROVE  WizardInv'
  BY <1>2, HandlerStep DEF WizardInv
<1>4. CASE Wizard!Cached(j)
  <2>1. /\ job[j].pc = "begin" /\ job[j].stage # "mend"
        /\ job' = [job EXCEPT ![j] = Wizard!After(job[j].stage)]
        /\ UNCHANGED Wizard!page
        /\ UNCHANGED <<generateWire, generateRows, generateCount, generateSlips>>
    BY <1>4 DEF Wizard!Cached
  <2>2. job[j].pc \notin Calling
    BY <2>1 DEF Calling, Wizard!Running
  <2>3. CallsCounted'
    BY <1>1, <2>1, <2>2, StageOver, CallsMove DEF CallsCounted
  <2>4. QED
    BY <1>2, <2>1, <2>3, StageOver
<1>5. CASE Wizard!Call(j)
  <2>1. /\ job[j].pc = "begin"
        /\ job' = [job EXCEPT ![j].pc = "asked", ![j].tries = 1]
        /\ generateCount' = [generateCount EXCEPT !.chamadas = @ + 1]
        /\ UNCHANGED Wizard!page /\ UNCHANGED <<generateWire, generateRows, generateSlips>>
    BY <1>5 DEF Wizard!Call
  <2>2. job[j].pc \notin Calling /\ job[j].pc \in Steps
    BY <2>1 DEF Steps, Calling, Wizard!Running
  <2>3. /\ job' \in [Jobs -> JobState] /\ \A i \in Jobs \ {j} : job'[i] = job[i]
        /\ job'[j].pc = "asked" /\ job'[j].stage = job[j].stage /\ job'[j].sent = job[j].sent
    <3>1. job' = [job EXCEPT ![j] = [job[j] EXCEPT !.pc = "asked", !.tries = 1]]
      BY <1>1, <2>1
    <3>2. ASSUME NEW s \in JobState
          PROVE  [s EXCEPT !.pc = "asked", !.tries = 1] \in JobState
      <4>1. [s EXCEPT !.pc = "asked"] \in JobState
        BY DEF JobState, Steps, Calling, Wizard!Running
      <4>2. ASSUME NEW q \in JobState  PROVE [q EXCEPT !.tries = 1] \in JobState
        BY DEF JobState
      <4>3. QED
        BY <4>1, <4>2
    <3>3. QED
      BY <1>1, <3>1, <3>2 DEF JobState
  <2>4. job'[j].pc \in Calling /\ job'[j].pc \in Steps /\ InOrder(job'[j])
    BY <1>1, <2>1, <2>3 DEF InOrder, Steps, Calling, Wizard!Running
  <2>5. CallsCounted'
    BY <1>1, <2>1, <2>2, <2>3, <2>4, CallsMove DEF CallsCounted
  <2>6. QED
    BY <1>2, <2>1, <2>2, <2>3, <2>4, <2>5
<1>6. CASE Wizard!Answers(j)
  <2>1. /\ job[j].pc \in Wizard!Running
        /\ \/ job' = [job EXCEPT ![j] = Wizard!After(job[j].stage)]
           \/ job[j].stage = "days" /\ job' = [job EXCEPT ![j] = Wizard!Enter("begin", "mend")]
        /\ generateCount' = [generateCount EXCEPT !.answered = @ + 1]
        /\ UNCHANGED Wizard!page /\ UNCHANGED <<generateWire, generateRows, generateSlips>>
    BY <1>6 DEF Wizard!Answers
  <2>2. job[j].pc \in Calling
    BY <2>1 DEF Calling
  <2>3. CallsCounted'
    BY <1>1, <2>1, <2>2, StageOver, CallsMove DEF CallsCounted
  <2>4. QED
    BY <1>2, <2>1, <2>3, StageOver
<1>7. ASSUME job[j].pc \in Calling,
             job' \in [Jobs -> JobState], \A i \in Jobs \ {j} : job'[i] = job[i],
             job'[j].pc \in Calling,
             job'[j].stage = job[j].stage, job'[j].sent = job[j].sent,
             job'[j].pc = "waiting" => job'[j].tries < 3,
             UNCHANGED Wizard!page, UNCHANGED <<generateWire, generateRows, generateSlips>>,
             \/ generateCount' = generateCount
             \/ generateCount' = [generateCount EXCEPT !.retentativas = @ + 1]
      PROVE  WizardInv'
  <2>1. Cardinality(InCall') = Cardinality(InCall)
    BY <1>7, CallsMove
  <2>2. CallsCounted'
    BY <1>1, <1>7, <2>1 DEF CallsCounted
  <2>3. job'[j].pc \in Steps /\ job[j].pc \in Steps /\ InOrder(job'[j])
    BY <1>1, <1>7 DEF InOrder, Steps, Calling, Wizard!Running
  <2>4. QED
    BY <1>2, <1>7, <2>2, <2>3
<1>8. CASE Wizard!WaitOver(j)
  <2>1. /\ job[j].pc = "waiting" /\ job[j].tries \in 0 .. 2
        /\ job' = [job EXCEPT ![j].pc = "asked", ![j].tries = job[j].tries + 1]
        /\ UNCHANGED Wizard!page
        /\ UNCHANGED <<generateWire, generateRows, generateCount, generateSlips>>
    BY <1>1, <1>8 DEF Wizard!WaitOver, InOrder, JobState
  <2>2. job[j].tries + 1 \in 0 .. 3
    BY <2>1
  <2>3. /\ job' \in [Jobs -> JobState] /\ \A i \in Jobs \ {j} : job'[i] = job[i]
        /\ job'[j].pc = "asked" /\ job'[j].stage = job[j].stage /\ job'[j].sent = job[j].sent
    BY <1>1, <2>1, <2>2 DEF JobState, Steps, Calling, Wizard!Running
  <2>4. QED
    BY <1>7, <2>1, <2>3 DEF Calling, Wizard!Running
<1>9. ASSUME NEW pc \in {"waiting", "plain", "fallback"}, job[j].pc = "asked",
             pc = "waiting" => job[j].tries < 3,
             job' = [job EXCEPT ![j].pc = pc],
             UNCHANGED Wizard!page, UNCHANGED <<generateWire, generateRows, generateSlips>>,
             \/ generateCount' = generateCount
             \/ generateCount' = [generateCount EXCEPT !.retentativas = @ + 1]
      PROVE  WizardInv'
  <2>1. /\ job' \in [Jobs -> JobState] /\ \A i \in Jobs \ {j} : job'[i] = job[i]
        /\ job'[j].pc = pc /\ job'[j].stage = job[j].stage /\ job'[j].sent = job[j].sent
        /\ job'[j].tries = job[j].tries
    BY <1>1, <1>9 DEF JobState, Steps, Calling, Wizard!Running
  <2>2. QED
    BY <1>7, <1>9, <2>1 DEF Calling, Wizard!Running
<1>10. CASE Wizard!WithoutSchema(j)
  BY <1>9, <1>10 DEF Wizard!WithoutSchema
<1>11. ASSUME NEW err \in Wizard!Errors, Wizard!Retry(j, err) \/ Wizard!Fallback(j, err)
       PROVE  WizardInv'
  <2>1. CASE Wizard!Retry(j, err)
    BY <1>9, <2>1 DEF Wizard!Retry, Wizard!TENTATIVAS_MAX
  <2>2. CASE Wizard!Fallback(j, err)
    BY <1>9, <2>2 DEF Wizard!Fallback
  <2>3. QED
    BY <1>11, <2>1, <2>2
<1>12. QED
  BY <1>4, <1>5, <1>6, <1>8, <1>10, <1>11

\* The steps of the handler that end it, or a call of it.
LEMMA HandlerEnds ==
  ASSUME WizardInv, NEW j \in Jobs,
         \/ Wizard!Unknown(j) \/ Wizard!PlainFails(j) \/ Wizard!Insert(j)
         \/ Wizard!InsertFails(j) \/ \E err \in Wizard!Errors : Wizard!GiveUp(j, err)
  PROVE  WizardInv'
<1>1. /\ job \in [Jobs -> JobState] /\ job[j] \in JobState /\ InOrder(job[j])
      /\ CallsCounted
  BY DEF WizardInv, ServerTypes, JobsInOrder
<1>2. ASSUME job[j].pc \in Steps \ {"reveal"}, job' = [job EXCEPT ![j].pc = "end"]
      PROVE  /\ job' \in [Jobs -> JobState] /\ \A i \in Jobs \ {j} : job'[i] = job[i]
             /\ job'[j].pc = "end" /\ InOrder(job'[j])
             /\ job'[j].pc \notin Calling
  <2>1. /\ job' \in [Jobs -> JobState] /\ \A i \in Jobs \ {j} : job'[i] = job[i]
        /\ job'[j].pc = "end" /\ job'[j].stage = job[j].stage /\ job'[j].sent = job[j].sent
    BY <1>1, <1>2 DEF JobState
  <2>2. job'[j].pc \notin Calling
    BY <2>1 DEF Calling, Wizard!Running
  <2>3. InOrder(job'[j])
    BY <1>1, <1>2, <2>1 DEF InOrder
  <2>4. QED
    BY <2>1, <2>2, <2>3
<1>3. ASSUME job[j].pc \in Steps \ {"reveal"}, Wizard!EndWithError(j),
             UNCHANGED Wizard!page, UNCHANGED generateRows, CallsCounted',
             generateSlips' = generateSlips \/ generateSlips' = generateSlips \cup {"uncounted"}
      PROVE  WizardInv'
  <2>1. /\ job' = [job EXCEPT ![j].pc = "end"]
        /\ generateWire' = [generateWire EXCEPT ![j] = Append(@, [kind |-> "error"])]
    BY <1>3 DEF Wizard!EndWithError, Wizard!Send
  <2>2. [kind |-> "error"] \in Event
    BY DEF Event
  <2>3. QED
    BY <1>2, <1>3, <2>1, <2>2, HandlerSends DEF WizardInv
<1>10. ASSUME job[j].pc \in Wizard!Running, Wizard!CallFails(j),
              UNCHANGED Wizard!page, UNCHANGED generateRows,
              \/ /\ generateCount' = [generateCount EXCEPT !.falhas = @ + 1]
                 /\ generateSlips' = generateSlips
              \/ /\ generateCount' = generateCount
                 /\ generateSlips' = generateSlips \cup {"uncounted"}
       PROVE  WizardInv'
  <2>1. job[j].pc \in Calling /\ job[j].pc \in Steps /\ job[j].pc # "reveal"
    BY <1>10 DEF Steps, Calling, Wizard!Running
  <2>2. CASE job[j].stage = "mend"
    <3>1. job' = [job EXCEPT ![j] = Wizard!After(job[j].stage)] /\ UNCHANGED generateWire
      BY <1>10, <2>2 DEF Wizard!CallFails
    <3>2. job'[j].pc \notin Calling /\ \A i \in Jobs \ {j} : job'[i] = job[i]
      BY <1>10, <3>1, StageOver
    <3>3. CallsCounted'
      BY <1>1, <1>10, <2>1, <3>2, CallsMove DEF CallsCounted
    <3>4. QED
      BY <1>10, <2>1, <3>1, <3>3, StageOver, HandlerStep DEF WizardInv
  <2>3. CASE job[j].stage # "mend"
    <3>1. Wizard!EndWithError(j)
      BY <1>10, <2>3 DEF Wizard!CallFails
    <3>2. job'[j].pc \notin Calling /\ \A i \in Jobs \ {j} : job'[i] = job[i]
      BY <1>2, <2>1, <3>1 DEF Wizard!EndWithError
    <3>3. CallsCounted'
      BY <1>1, <1>10, <2>1, <3>2, CallsMove DEF CallsCounted
    <3>4. QED
      BY <1>3, <1>10, <2>1, <3>1, <3>3
  <2>4. QED
    BY <2>2, <2>3
<1>4. CASE Wizard!Unknown(j)
  <2>1. /\ job[j].pc \in Wizard!Running
        /\ Wizard!EndWithError(j)
        /\ generateCount' = [generateCount EXCEPT !.answered = @ + 1]
        /\ UNCHANGED Wizard!page /\ UNCHANGED <<generateRows, generateSlips>>
    BY <1>4 DEF Wizard!Unknown
  <2>2. job[j].pc \in Calling /\ job[j].pc \in Steps /\ job[j].pc # "reveal"
    BY <2>1 DEF Steps, Calling, Wizard!Running
  <2>3. job'[j].pc \notin Calling /\ \A i \in Jobs \ {j} : job'[i] = job[i]
    BY <1>2, <2>1, <2>2 DEF Wizard!EndWithError
  <2>4. CallsCounted'
    BY <1>1, <2>1, <2>2, <2>3, CallsMove DEF CallsCounted
  <2>5. QED
    BY <1>3, <2>1, <2>2, <2>4
<1>5. ASSUME NEW err \in Wizard!Errors, Wizard!GiveUp(j, err)
      PROVE  WizardInv'
  BY <1>5, <1>10 DEF Wizard!GiveUp, Wizard!Running
<1>6. CASE Wizard!PlainFails(j)
  BY <1>6, <1>10 DEF Wizard!PlainFails, Wizard!Running
<1>7. CASE Wizard!InsertFails(j)
  <2>1. /\ job[j].pc = "insert"
        /\ Wizard!EndWithError(j)
        /\ UNCHANGED Wizard!page
        /\ UNCHANGED <<generateRows, generateCount, generateSlips>>
    BY <1>7 DEF Wizard!InsertFails
  <2>2. job[j].pc \in Steps /\ job[j].pc \notin Calling
    BY <2>1 DEF Steps, Calling, Wizard!Running
  <2>3. job'[j].pc \notin Calling /\ \A i \in Jobs \ {j} : job'[i] = job[i]
    BY <1>2, <2>1, <2>2 DEF Wizard!EndWithError
  <2>4. CallsCounted'
    BY <1>1, <2>1, <2>2, <2>3, CallsMove DEF CallsCounted
  <2>5. QED
    BY <1>3, <2>1, <2>2, <2>4
<1>8. CASE Wizard!Insert(j)
  <2>1. /\ job[j].pc = "insert"
        /\ job' = [job EXCEPT ![j].pc = "end"]
        /\ generateWire' = [generateWire EXCEPT ![j] = Append(@, [kind |-> "done"])]
        /\ generateRows' = [generateRows EXCEPT ![j] = "draft"]
        /\ UNCHANGED Wizard!page /\ UNCHANGED <<generateCount, generateSlips>>
    BY <1>8 DEF Wizard!Insert, Wizard!Send
  <2>2. job[j].pc \in Steps /\ job[j].pc \notin Calling
    BY <2>1 DEF Steps, Calling, Wizard!Running
  <2>3. CallsCounted'
    BY <1>1, <1>2, <2>1, <2>2, CallsMove DEF CallsCounted
  <2>4. [kind |-> "done"] \in Event
    BY DEF Event
  <2>5. job[j].sent = NumDays
    BY <1>1, <2>1 DEF InOrder
  <2>6. QED
    BY <1>2, <2>1, <2>2, <2>3, <2>4, <2>5, HandlerSends DEF WizardInv
<1>9. QED
  BY <1>4, <1>5, <1>6, <1>7, <1>8

\* The handler reveals a day, or the end of the plan.
LEMMA HandlerReveals ==
  ASSUME WizardInv, NEW j \in Jobs, Wizard!Reveal(j)
  PROVE  WizardInv'
<1>1. /\ job \in [Jobs -> JobState] /\ job[j] \in JobState /\ InOrder(job[j])
      /\ CallsCounted /\ job[j].sent \in Nat /\ job[j].sent <= NumDays
  BY WizardNumbers DEF WizardInv, ServerTypes, JobsInOrder
<1>2. /\ job[j].pc = "reveal" /\ job[j].stage = "days"
      /\ job[j].pc \in Steps /\ job[j].pc \notin Calling
      /\ UNCHANGED Wizard!page /\ UNCHANGED <<generateRows, generateCount, generateSlips>>
  BY <1>1 DEF Wizard!Reveal, InOrder, Steps, Calling, Wizard!Running
<1>3. CASE job[j].sent < NumDays
  <2>1. /\ job' = [job EXCEPT ![j].sent = job[j].sent + 1]
        /\ generateWire' =
             [generateWire EXCEPT ![j] = Append(@, [kind |-> "day", day |-> job[j].sent + 1])]
    BY <1>3 DEF Wizard!Reveal, Wizard!Send
  <2>2. job[j].sent + 1 \in 0 .. NumDays
    BY <1>1, <1>3, JobsAssumption
  <2>3. /\ job' \in [Jobs -> JobState] /\ \A i \in Jobs \ {j} : job'[i] = job[i]
        /\ job'[j].pc = job[j].pc /\ job'[j].stage = job[j].stage
        /\ job'[j].sent = job[j].sent + 1
    BY <1>1, <2>1, <2>2 DEF JobState
  <2>4. InOrder(job'[j])
    BY <1>2, <2>3 DEF InOrder
  <2>5. CallsCounted'
    BY <1>1, <1>2, <2>3, CallsMove DEF CallsCounted
  <2>6. [kind |-> "day", day |-> job[j].sent + 1] \in Event
    BY <1>1 DEF Event
  <2>7. QED
    BY <1>2, <2>1, <2>3, <2>4, <2>5, <2>6, HandlerSends DEF WizardInv
<1>4. CASE ~(job[j].sent < NumDays)
  <2>1. /\ job' = [job EXCEPT ![j].pc = "begin", ![j].stage = "tips"]
        /\ UNCHANGED generateWire
    BY <1>4 DEF Wizard!Reveal
  <2>2. ASSUME NEW s \in JobState
        PROVE  [s EXCEPT !.pc = "begin", !.stage = "tips"] \in JobState
    <3>1. [s EXCEPT !.pc = "begin"] \in JobState
      BY DEF JobState, Steps
    <3>2. ASSUME NEW q \in JobState  PROVE [q EXCEPT !.stage = "tips"] \in JobState
      BY DEF JobState, Wizard!Stages
    <3>3. QED
      BY <3>1, <3>2
  <2>3. job' = [job EXCEPT ![j] = [job[j] EXCEPT !.pc = "begin", !.stage = "tips"]]
    BY <1>1, <2>1
  <2>4. /\ job' \in [Jobs -> JobState] /\ \A i \in Jobs \ {j} : job'[i] = job[i]
        /\ job'[j].pc = "begin" /\ job'[j].stage = "tips" /\ job'[j].sent = job[j].sent
    BY <1>1, <2>2, <2>3 DEF JobState
  <2>5. InOrder(job'[j]) /\ job'[j].pc \in Steps /\ job'[j].pc \notin Calling
    BY <1>1, <1>4, <2>4, JobsAssumption DEF InOrder, Steps, Calling, Wizard!Running
  <2>6. CallsCounted'
    BY <1>1, <1>2, <2>4, <2>5, CallsMove DEF CallsCounted
  <2>7. QED
    BY <1>2, <2>1, <2>4, <2>5, <2>6, HandlerStep DEF WizardInv
<1>5. QED
  BY <1>3, <1>4

\* The page asks for a plan.
LEMMA PageGenerates ==
  ASSUME WizardInv, NEW j \in Jobs, Wizard!Generate(j)
  PROVE  WizardInv'
<1> USE DEF WizardInv
<1>1. /\ phase = "form" /\ job[j].pc = "idle" /\ reviewed = NoJob /\ listening = NoJob
      /\ phase' = "generating" /\ listening' = j /\ shown' = <<>>
      /\ job' = [job EXCEPT ![j].pc = "begin"]
      /\ UNCHANGED <<reviewed, draft, generateWire, generateRows, generateCount, generateSlips>>
  BY DEF Wizard!Generate, ReviewInOrder, StreamInOrder, StreamOf, PageTypes
<1>2. /\ job' \in [Jobs -> JobState] /\ \A i \in Jobs \ {j} : job'[i] = job[i]
      /\ job'[j].pc = "begin" /\ job'[j].stage = "validate" /\ job'[j].sent = 0
      /\ generateWire[j] = <<>> /\ generateRows[j] = "none" /\ InOrder(job[j])
  <2>1. job \in [Jobs -> JobState] /\ generateRows[j] \in {"none", "draft", "deleted"}
    BY DEF ServerTypes
  <2>2. /\ InOrder(job[j]) /\ job[j].stage = "validate" /\ generateWire[j] = <<>>
        /\ generateRows[j] = "none"
    BY <1>1, <2>1 DEF JobsInOrder, InOrder
  <2>3. /\ job' \in [Jobs -> JobState] /\ \A i \in Jobs \ {j} : job'[i] = job[i]
        /\ job'[j].pc = "begin" /\ job'[j].stage = job[j].stage /\ job'[j].sent = job[j].sent
    BY <1>1, <2>1 DEF JobState, Steps
  <2>4. job[j].sent = 0
    BY <1>1, <2>2 DEF InOrder
  <2>5. QED
    BY <2>2, <2>3, <2>4
<1>3. PageTypes' /\ ServerTypes'
  <2>1. <<>> \in Seq(Jobs \X Nat)
    OBVIOUS
  <2>2. PageTypes'
    BY <1>1, <2>1 DEF PageTypes
  <2>3. ServerTypes'
    BY <1>1, <1>2 DEF ServerTypes
  <2>4. QED
    BY <2>2, <2>3
<1>4. InOrder(job'[j])
  BY <1>2 DEF InOrder
<1>5. JobsInOrder'
  BY <1>1, <1>2, <1>4 DEF JobsInOrder
<1>6. StreamInOrder'
  BY <1>1, <1>2 DEF StreamInOrder, StreamOf
<1>7. ReviewInOrder'
  BY <1>1 DEF ReviewInOrder
<1>8. NothingLost'
  <2>1. ASSUME generateSlips \subseteq {"uncounted"}, NEW i \in Jobs
        PROVE  /\ generateRows[i] = "draft" => i \in {NoJob, j}
               /\ job'[i].pc \in Steps => j = i
    <3>1. generateRows[i] # "draft" /\ job[i].pc \notin Steps
      BY <1>1, <2>1, JobsAssumption DEF NothingLost
    <3>2. QED
      BY <1>2, <3>1
  <2>2. QED
    BY <1>1, <2>1 DEF NothingLost
<1>9. CallsCounted'
  <2>1. job[j].pc \notin Calling /\ job'[j].pc \notin Calling
    BY <1>1, <1>2 DEF Calling, Wizard!Running
  <2>2. QED
    BY <1>1, <1>2, <2>1, CallsMove DEF CallsCounted
<1>10. QED
  BY <1>3, <1>5, <1>6, <1>7, <1>8, <1>9

\* The page takes an event from the wire.
LEMMA PageReceives ==
  ASSUME WizardInv, NEW j \in Jobs, Wizard!Receive(j)
  PROVE  WizardInv'
<1> USE DEF WizardInv
<1> DEFINE event == Head(generateWire[j])
<1>1. /\ listening = j /\ phase = "generating" /\ reviewed = NoJob
      /\ generateWire[j] \in Seq(Event) /\ generateWire[j] # <<>>
      /\ event \in Event /\ event = generateWire[j][1] /\ StreamOf(j)
  BY DEF Wizard!Receive, StreamInOrder, StreamOf, ReviewInOrder, ServerTypes
<1>2. /\ generateWire' = [generateWire EXCEPT ![j] = Tail(generateWire[j])]
      /\ UNCHANGED <<job, generateRows, generateCount, generateSlips>>
  BY DEF Wizard!Receive
<1>3. /\ generateWire' \in [Jobs -> Seq(Event)]
      /\ \A i \in Jobs \ {j} : generateWire'[i] = generateWire[i]
      /\ Len(generateWire'[j]) = Len(generateWire[j]) - 1
      /\ \A k \in 1 .. Len(generateWire[j]) - 1 : generateWire'[j][k] = generateWire[j][k + 1]
      /\ DOMAIN generateWire'[j] = 1 .. Len(generateWire[j]) - 1
      /\ Len(generateWire[j]) \in Nat /\ Len(generateWire[j]) > 0 /\ Len(shown) \in Nat
  <2>1. generateWire \in [Jobs -> Seq(Event)] /\ shown \in Seq(Jobs \X Nat)
    BY DEF ServerTypes, PageTypes
  <2>2. generateWire'[j] = Tail(generateWire[j]) /\ Tail(generateWire[j]) \in Seq(Event)
    BY <1>1, <1>2, <2>1
  <2>3. /\ generateWire' \in [Jobs -> Seq(Event)]
        /\ \A i \in Jobs \ {j} : generateWire'[i] = generateWire[i]
    BY <1>2, <2>1, <2>2
  <2>4. QED
    BY <1>1, <2>1, <2>2, <2>3
<1>4. JobsInOrder' /\ CallsCounted'
  <2>1. job[j].pc # "idle"
    BY <1>1 DEF StreamOf
  <2>2. JobsInOrder'
    BY <1>2, <1>3, <2>1 DEF JobsInOrder
  <2>3. InCall' = InCall
    BY <1>2 DEF InCall
  <2>4. QED
    BY <1>2, <2>2, <2>3 DEF CallsCounted
<1>5. ServerTypes'
  BY <1>2, <1>3 DEF ServerTypes
<1>6. CASE event.kind = "day"
  <2>1. /\ shown' = Append(shown, <<j, event.day>>) /\ phase' = phase
        /\ reviewed' = reviewed /\ listening' = j
    BY <1>6 DEF Wizard!Receive
  <2>2. event.day \in Nat
    BY <1>1, <1>6 DEF Event
  <2>3. /\ shown' \in Seq(Jobs \X Nat) /\ Len(shown') = Len(shown) + 1
        /\ DOMAIN shown' = DOMAIN shown \cup {Len(shown) + 1}
        /\ shown'[Len(shown) + 1] = <<j, event.day>>
        /\ \A k \in DOMAIN shown : shown'[k] = shown[k]
    <3>1. ASSUME NEW e \in Jobs \X Nat, NEW list \in Seq(Jobs \X Nat)
          PROVE  /\ Append(list, e) \in Seq(Jobs \X Nat)
                 /\ Len(Append(list, e)) = Len(list) + 1
                 /\ DOMAIN Append(list, e) = DOMAIN list \cup {Len(list) + 1}
                 /\ Append(list, e)[Len(list) + 1] = e
                 /\ \A k \in DOMAIN list : Append(list, e)[k] = list[k]
      OBVIOUS
    <3>2. shown \in Seq(Jobs \X Nat) /\ <<j, event.day>> \in Jobs \X Nat
      BY <2>2 DEF PageTypes
    <3>3. QED
      BY <2>1, <3>1, <3>2
  <2>4. event.day = Len(shown) + 1 /\ (job[j].pc = "end" => Len(generateWire[j]) > 1)
    <3>1. 1 \in DOMAIN generateWire[j]
      BY <1>1, <1>3
    <3>2. generateWire[j][1].kind # "done" /\ generateWire[j][1].kind # "error"
      BY <1>1, <1>6
    <3>3. job[j].pc = "end" => Len(generateWire[j]) # 1
      BY <1>1, <3>2 DEF StreamOf
    <3>4. \/ event.kind = "day" /\ event.day = Len(shown) + 1
          \/ 1 = Len(generateWire[j]) /\ job[j].pc = "end"
      BY <1>1, <3>1 DEF StreamOf
    <3>5. Len(generateWire[j]) # 1 => Len(generateWire[j]) > 1
      <4>1. ASSUME NEW n \in Nat, n > 0, n # 1  PROVE n > 1
        BY <4>1
      <4>2. QED
        BY <1>3, <4>1
    <3>6. QED
      BY <3>3, <3>4, <3>5
  <2>5. PageTypes'
    BY <1>1, <1>2, <2>1, <2>3 DEF PageTypes
  <2>6. StreamInOrder'
    <3>1. \A k \in DOMAIN shown' : shown'[k] = <<j, k>>
      BY <1>1, <2>3, <2>4 DEF StreamOf
    <3>2. \A k \in DOMAIN generateWire'[j] :
            \/ /\ generateWire'[j][k].kind = "day"
               /\ generateWire'[j][k].day = Len(shown') + k
            \/ k = Len(generateWire'[j]) /\ job[j].pc = "end"
      <4>1. SUFFICES ASSUME NEW k \in 1 .. Len(generateWire[j]) - 1
                     PROVE  \/ /\ generateWire[j][k + 1].kind = "day"
                               /\ generateWire[j][k + 1].day = Len(shown) + (k + 1)
                            \/ k + 1 = Len(generateWire[j]) /\ job[j].pc = "end"
        <5>1. \A k \in 1 .. Len(generateWire[j]) - 1 :
                /\ Len(shown') + k = Len(shown) + (k + 1)
                /\ k + 1 = Len(generateWire[j]) => k = Len(generateWire'[j])
          BY <1>3, <2>3
        <5>2. QED
          BY <1>3, <5>1
      <4>2. k + 1 \in DOMAIN generateWire[j]
        BY <1>1, <1>3
      <4>3. QED
        BY <1>1, <4>2 DEF StreamOf
    <3>3. IF job[j].pc # "end"
            THEN Len(shown') + Len(generateWire'[j]) = job[j].sent
            ELSE /\ Len(generateWire'[j]) > 0
                 /\ \/ /\ generateWire'[j][Len(generateWire'[j])].kind = "done"
                       /\ generateRows[j] = "draft"
                       /\ Len(shown') + Len(generateWire'[j]) = NumDays + 1
                    \/ /\ generateWire'[j][Len(generateWire'[j])].kind = "error"
                       /\ generateRows[j] = "none"
      <4>1. Len(shown') + Len(generateWire'[j]) = Len(shown) + Len(generateWire[j])
        <5>1. ASSUME NEW a \in Nat, NEW b \in Nat  PROVE (a + 1) + (b - 1) = a + b
          OBVIOUS
        <5>2. QED
          BY <1>3, <2>3, <5>1
      <4>2. CASE job[j].pc # "end"
        BY <1>1, <4>1, <4>2 DEF StreamOf
      <4>3. CASE job[j].pc = "end"
        <5>1. /\ Len(generateWire'[j]) > 0
              /\ generateWire'[j][Len(generateWire'[j])] = generateWire[j][Len(generateWire[j])]
          BY <4>3, <1>3, <2>4
        <5>2. QED
          BY <1>1, <4>1, <4>3, <5>1 DEF StreamOf
      <4>4. QED
        BY <4>2, <4>3
    <3>4. Len(generateWire'[j]) > 0 => generateWire'[j] # <<>>
      BY <1>3
    <3>5. QED
      BY <1>1, <1>2, <2>1, <3>1, <3>2, <3>3, <3>4 DEF StreamInOrder, StreamOf
  <2>7. ReviewInOrder' /\ NothingLost'
    BY <1>1, <1>2, <2>1 DEF ReviewInOrder, NothingLost
  <2>8. QED
    BY <1>4, <1>5, <2>5, <2>6, <2>7
<1>7. CASE event.kind \in {"done", "error"}
  <2>1. shown' = shown /\ listening' = NoJob
    BY <1>7 DEF Wizard!Receive
  <2>2. Len(generateWire[j]) = 1 /\ job[j].pc = "end"
    <3>1. 1 \in DOMAIN generateWire[j] /\ generateWire[j][1].kind # "day"
      BY <1>1, <1>3, <1>7
    <3>2. QED
      BY <1>1, <3>1 DEF StreamOf
  <2>3. CASE event.kind = "done"
    <3>1. phase' = "review" /\ reviewed' = j
      BY <2>3 DEF Wizard!Receive
    <3>2. Len(shown) = NumDays /\ generateRows[j] = "draft"
      BY <1>1, <1>3, <2>2, <2>3, JobsAssumption DEF StreamOf
    <3>3. \A k \in DOMAIN shown : shown[k] = <<j, k>>
      BY <1>1 DEF StreamOf
    <3>4. PageTypes'
      BY <1>2, <2>1, <3>1 DEF PageTypes
    <3>5. StreamInOrder' /\ ReviewInOrder'
      BY <1>2, <2>1, <3>1, <3>2, <3>3, JobsAssumption DEF StreamInOrder, ReviewInOrder
    <3>6. NothingLost'
      BY <1>1, <1>2, <2>1, <2>2, <3>1, JobsAssumption
      DEF NothingLost, Steps, Calling, Wizard!Running
    <3>7. QED
      BY <1>4, <1>5, <3>4, <3>5, <3>6
  <2>4. CASE event.kind = "error"
    <3>1. phase' = "form" /\ reviewed' = NoJob
      BY <1>1, <2>4 DEF Wizard!Receive
    <3>2. generateRows[j] = "none"
      BY <1>1, <2>2, <2>4 DEF StreamOf
    <3>3. PageTypes'
      BY <1>2, <2>1, <3>1 DEF PageTypes
    <3>4. StreamInOrder' /\ ReviewInOrder'
      BY <2>1, <3>1, JobsAssumption DEF StreamInOrder, ReviewInOrder
    <3>5. NothingLost'
      BY <1>1, <1>2, <2>1, <2>2, <3>1, <3>2, JobsAssumption
      DEF NothingLost, Steps, Calling, Wizard!Running
    <3>6. QED
      BY <1>4, <1>5, <3>3, <3>4, <3>5
  <2>5. QED
    BY <1>7, <2>3, <2>4
<1>8. QED
  BY <1>1, <1>6, <1>7 DEF Event

\* The connection breaks or is closed, the page is left, the row is discarded.
LEMMA PageGivesUp ==
  ASSUME WizardInv,
         Wizard!Broken \/ Wizard!ClosedEarly \/ Wizard!Leave \/ Wizard!Discard
  PROVE  WizardInv'
<1> USE DEF WizardInv
<1>1. /\ job' = job /\ generateWire' = generateWire /\ generateCount' = generateCount
      /\ generateSlips \subseteq generateSlips'
  BY DEF Wizard!Broken, Wizard!ClosedEarly, Wizard!Leave, Wizard!Discard
<1>2. CallsCounted'
  <2>1. InCall' = InCall
    BY <1>1 DEF InCall
  <2>2. QED
    BY <1>1, <2>1 DEF CallsCounted
<1>0. <<>> \in Seq(Jobs \X Nat)
  OBVIOUS
<1>3. listening' = NoJob
  <2>1. CASE Wizard!Discard
    BY <2>1 DEF Wizard!Discard, ReviewInOrder
  <2>2. CASE Wizard!Broken \/ Wizard!ClosedEarly \/ Wizard!Leave
    BY <2>2 DEF Wizard!Broken, Wizard!ClosedEarly, Wizard!Leave
  <2>3. QED
    BY <2>1, <2>2
<1>4. StreamInOrder'
  BY <1>3, JobsAssumption DEF StreamInOrder
<1>5. CASE Wizard!Broken \/ Wizard!ClosedEarly \/ Wizard!Leave
  <2>1. /\ generateRows' = generateRows
        /\ \E slip \in {"broken", "closed", "left"} :
             generateSlips' = generateSlips \cup {slip}
    BY <1>5 DEF Wizard!Broken, Wizard!ClosedEarly, Wizard!Leave
  <2>2. ServerTypes' /\ JobsInOrder' /\ NothingLost'
    BY <1>1, <2>1 DEF ServerTypes, JobsInOrder, NothingLost
  <2>3. /\ phase' \in {"form", "generating"} /\ reviewed' = NoJob
        /\ shown' = shown \/ shown' = <<>>
    BY <1>5, JobsAssumption
    DEF Wizard!Broken, Wizard!ClosedEarly, Wizard!Leave, StreamInOrder, StreamOf,
        ReviewInOrder, PageTypes
  <2>4. PageTypes' /\ ReviewInOrder'
    BY <1>0, <1>3, <2>1, <2>3 DEF PageTypes, ReviewInOrder
  <2>5. QED
    BY <1>2, <1>4, <2>2, <2>4
<1>6. CASE Wizard!Discard
  <2>1. /\ phase = "review" /\ phase' = "form" /\ reviewed' = NoJob /\ shown' = <<>>
        /\ \/ /\ generateRows' = [generateRows EXCEPT ![reviewed] = "deleted"]
              /\ generateSlips' = generateSlips
           \/ /\ generateSlips' = generateSlips \cup {"not deleted"}
              /\ generateRows' = generateRows
    BY <1>6 DEF Wizard!Discard
  <2>2. reviewed \in Jobs /\ generateRows[reviewed] = "draft" /\ listening = NoJob
    BY <2>1 DEF ReviewInOrder
  <2>3. /\ generateRows' \in [Jobs -> {"none", "draft", "deleted"}]
        /\ \A j \in Jobs : generateRows'[j] # "none" => generateRows[j] # "none"
        /\ \A j \in Jobs : generateRows'[j] = "draft" =>
             generateRows[j] = "draft" /\ (j # reviewed \/ "not deleted" \in generateSlips')
    BY <2>1, <2>2 DEF ServerTypes
  <2>4. PageTypes' /\ ReviewInOrder'
    BY <1>0, <1>3, <2>1 DEF PageTypes, ReviewInOrder
  <2>5. ServerTypes' /\ JobsInOrder'
    BY <1>1, <2>3 DEF ServerTypes, JobsInOrder
  <2>6. NothingLost'
    <3>1. ASSUME generateSlips' \subseteq {"uncounted"}, NEW j \in Jobs
          PROVE  generateRows'[j] # "draft" /\ job'[j].pc \notin Steps
      <4>1. generateSlips \subseteq {"uncounted"} /\ "not deleted" \notin generateSlips'
        BY <1>1, <3>1
      <4>2. QED
        BY <1>1, <2>2, <2>3, <4>1, JobsAssumption DEF NothingLost
    <3>2. QED
      BY <3>1 DEF NothingLost
  <2>7. QED
    BY <1>2, <1>4, <2>4, <2>5, <2>6
<1>7. QED
  BY <1>5, <1>6

\* Every step keeps the invariant of the pages of the generation.
LEMMA WizardInductive ==
  ASSUME WizardInv, [Wizard!Next]_(Wizard!vars)
  PROVE  WizardInv'
<1>1. CASE UNCHANGED Wizard!vars
  <2>1. UNCHANGED <<phase, listening, shown, reviewed, draft, job, generateWire,
                    generateRows, generateCount, generateSlips>>
    BY <1>1 DEF Wizard!vars
  <2>2. InCall' = InCall
    BY <2>1 DEF InCall
  <2>3. (PageTypes /\ ServerTypes /\ JobsInOrder /\ NothingLost)'
    BY <2>1 DEF WizardInv, PageTypes, ServerTypes, JobsInOrder, NothingLost
  <2>4. (StreamInOrder /\ ReviewInOrder /\ CallsCounted)'
    BY <2>1, <2>2 DEF WizardInv, StreamInOrder, StreamOf, ReviewInOrder, CallsCounted
  <2>5. QED
    BY <2>3, <2>4 DEF WizardInv
<1>2. CASE Wizard!Next
  BY <1>2, HandlerGoesOn, HandlerEnds, HandlerReveals, PageGenerates, PageReceives,
     PageGivesUp
  DEF Wizard!Next
<1>3. QED
  BY <1>1, <1>2

\* The property of the pages follows from their invariant.
LEMMA WizardTells ==
  ASSUME WizardInv
  PROVE  Wizard!ReviewShowsTheRow /\ Wizard!NoRowForgotten /\ Wizard!LedgerBalances
<1> USE DEF WizardInv
<1>1. Wizard!ReviewShowsTheRow
  <2>1. ASSUME phase = "review"
        PROVE  /\ generateRows[reviewed] = "draft"
               /\ shown = [k \in 1 .. NumDays |-> <<reviewed, k>>]
    <3>1. /\ generateRows[reviewed] = "draft" /\ Len(shown) = NumDays
          /\ \A k \in DOMAIN shown : shown[k] = <<reviewed, k>>
      BY <2>1 DEF ReviewInOrder
    <3>2. shown = [k \in 1 .. Len(shown) |-> shown[k]]
      <4>1. ASSUME NEW list \in Seq(Jobs \X Nat)
            PROVE  list = [k \in 1 .. Len(list) |-> list[k]]
        OBVIOUS
      <4>2. QED
        BY <4>1 DEF PageTypes
    <3>3. QED
      BY <3>1, <3>2
  <2>2. QED
    BY <2>1 DEF Wizard!ReviewShowsTheRow
<1>2. Wizard!NoRowForgotten
  BY DEF NothingLost, Wizard!NoRowForgotten
<1>3. Wizard!LedgerBalances
  <2>1. Wizard!Cardinality(InCall) = Cardinality(InCall)
    BY DEF Wizard!Cardinality, Cardinality
  <2>2. Wizard!Quantify(Jobs, LAMBDA j : job[j].pc \in Wizard!Running \cup {"waiting"})
          = Cardinality(InCall)
    BY <2>1 DEF Wizard!Quantify, InCall, Calling
  <2>3. QED
    BY <2>2 DEF CallsCounted, Wizard!LedgerBalances
<1>4. QED
  BY <1>1, <1>2, <1>3

\* The wizard has the types that a run checks.
LEMMA WizardHasTypes == WizardInv => Wizard!TypeOK
<1> SUFFICES ASSUME WizardInv PROVE Wizard!TypeOK
  OBVIOUS
<1>1. ASSUME NEW j \in Jobs
      PROVE  /\ job[j].pc \in Wizard!Running \cup
                  {"idle", "begin", "waiting", "reveal", "insert", "end"}
             /\ job[j].stage \in Wizard!Stages /\ job[j].tries \in 0 .. Wizard!TENTATIVAS_MAX
             /\ generateRows[j] \in {"none", "draft", "deleted"}
  <2>1. job[j] \in JobState /\ generateRows[j] \in {"none", "draft", "deleted"}
    BY DEF WizardInv, ServerTypes
  <2>2. QED
    BY <2>1 DEF JobState, Steps, Calling, Wizard!TENTATIVAS_MAX
<1>2. QED
  BY <1>1 DEF WizardInv, PageTypes, Wizard!TypeOK

=============================================================================
