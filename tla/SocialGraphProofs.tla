-------------------------- MODULE SocialGraphProofs --------------------------
(***************************************************************************)
(* Theorems about SocialGraph, for every set of users, pairs, requests and *)
(* milestones and all bounds: it is type correct, a private account opens  *)
(* only by consent, it implements Consent, requests are accepted once and  *)
(* badges are announced once.                                              *)
(***************************************************************************)
EXTENDS SocialGraph, FiniteSetTheorems, TLAPS

-----------------------------------------------------------------------------
(* Type correctness *)

\* An idle slot is a well-formed one.
LEMMA IdleIsRequest == Idle \in Request /\ Equipped(Idle) /\ Idle.pc = "idle"
  BY BoundsAssumption DEF Idle, Request, Equipped, PC, News

\* The host of a pair is one of the hosts.
LEMMA HostOfPair == \A p \in Pairs : p[2] \in Hosts
  BY DEF Hosts

\* Every step preserves the types.
LEMMA TypeStep == TypeOK /\ [Next]_vars => TypeOK'
<1> SUFFICES ASSUME TypeOK, [Next]_vars PROVE TypeOK'
  OBVIOUS
<1> USE IdleIsRequest DEF TypeOK, tables, history, At
<1>1. ASSUME NEW r \in Requests, CheckFollowing(r) PROVE TypeOK'
  BY <1>1 DEF CheckFollowing, Request, PC, Equipped
<1>2. ASSUME NEW r \in Requests, Ask(r) PROVE TypeOK'
  <2>1. requests' \subseteq Pairs /\ asked' \in Counter
    BY <1>2 DEF Ask, Equipped, Counter
  <2>2. req' \in [Requests -> Request] /\ \A s \in Requests : Equipped(req'[s])
    BY <1>2 DEF Ask, Request, PC, News, Equipped
  <2>3. QED
    BY <1>2, <2>1, <2>2 DEF Ask
<1>3. ASSUME NEW r \in Requests, Join(r) PROVE TypeOK'
  BY <1>3 DEF Join, Request, PC, News, Equipped
<1>4. ASSUME NEW r \in Requests, Tell(r) PROVE TypeOK'
  <2>1. acceptances' \in Counter
    BY <1>4 DEF Tell, Equipped, Counter
  <2>2. CASE req[r].news = "follow_request"
    BY <1>4, <2>1, <2>2 DEF Tell, End
  <2>3. CASE req[r].news # "follow_request"
    BY <1>4, <2>1, <2>3 DEF Tell, Request, PC, News, Equipped
  <2>4. QED
    BY <2>2, <2>3
<1>5. ASSUME NEW r \in Requests, Withdraw(r) PROVE TypeOK'
  BY <1>5 DEF Withdraw, End
<1>6. ASSUME NEW r \in Requests, Admit(r) PROVE TypeOK'
  BY <1>6 DEF Admit, Request, PC, News, Equipped
<1>7. ASSUME NEW r \in Requests, Count(r) PROVE TypeOK'
  BY <1>7 DEF Count, End, Request, PC, Equipped
<1>8. ASSUME NEW r \in Requests, Award(r) PROVE TypeOK'
  <2>1. badges' \subseteq Badges
    BY <1>8, HostOfPair DEF Award, Host, Equipped, Badges
  <2>2. CASE <<Host(r), req[r].mark>> \in badges
    BY <1>8, <2>1, <2>2 DEF Award, End
  <2>3. CASE <<Host(r), req[r].mark>> \notin badges
    BY <1>8, <2>1, <2>3 DEF Award, Goto, Request, PC, Equipped
  <2>4. QED
    BY <2>2, <2>3
<1>9. ASSUME NEW r \in Requests, Announce(r) PROVE TypeOK'
  <2>1. <<Host(r), req[r].mark>> \in Badges
    BY <1>9, HostOfPair DEF Announce, Host, Equipped, Badges
  <2>2. QED
    BY <1>9, <2>1 DEF Announce, End
<1>10. ASSUME NEW r \in Requests, NEW p \in Pairs, FollowStart(r, p) PROVE TypeOK'
  <2> DEFINE start == [Idle EXCEPT !.pc = "already", !.pair = p,
                                   !.closed = p[2] \in private]
  <2>1. (p[2] \in private) \in BOOLEAN
    OBVIOUS
  <2>2. start \in Request /\ Equipped(start)
    BY <2>1 DEF Idle, Request, PC, News, Equipped
  <2>3. QED
    BY <1>10, <2>2 DEF FollowStart, Start
<1>11. ASSUME NEW r \in Requests, NEW p \in Pairs, UnfollowStart(r, p) PROVE TypeOK'
  BY <1>11 DEF UnfollowStart, Start, Idle, Request, PC, News, Equipped
<1>12. ASSUME NEW r \in Requests, NEW p \in Pairs, AcceptStart(r, p) PROVE TypeOK'
  BY <1>12 DEF AcceptStart, Start, Idle, Request, PC, News, Equipped
<1>13. ASSUME NEW r \in Requests, QueryFails(r) PROVE TypeOK'
  <2>1. Unsaid(r) \subseteq Badges
    BY HostOfPair DEF Unsaid, Host, Badges, Equipped
  <2>2. QED
    BY <1>13, <2>1, BoundsAssumption DEF QueryFails, End, Mishap
<1>14. CASE Crash
  <2>1. \A r \in Requests : Unsaid(r) \subseteq Badges
    BY HostOfPair DEF Unsaid, Host, Badges, Equipped
  <2>2. QED
    BY <1>14, <2>1, BoundsAssumption DEF Crash, Mishap
<1>15. ASSUME NEW p \in Pairs, Decline(p) PROVE TypeOK'
  BY <1>15 DEF Decline
<1>16. ASSUME NEW u \in Hosts, SetPrivate(u) \/ SetPublic(u) PROVE TypeOK'
  BY <1>16 DEF SetPrivate, SetPublic
<1>17. CASE UNCHANGED vars
  BY <1>17 DEF vars
<1>18. QED
  BY <1>1, <1>2, <1>3, <1>4, <1>5, <1>6, <1>7, <1>8, <1>9, <1>10, <1>11, <1>12,
     <1>13, <1>14, <1>15, <1>16, <1>17 DEF Next, Serve, Arrive

LEMMA TypeInit == Init => TypeOK
  BY IdleIsRequest, BoundsAssumption, HostOfPair DEF Init, TypeOK, Hosts, Counter

\* Every reachable state is well typed, and every slot carries what its next
\* query needs.
THEOREM TypeCorrect == Spec => []TypeOK
  BY TypeInit, TypeStep, PTL DEF Spec

-----------------------------------------------------------------------------
(* Consent *)

\* Whoever may be let in: the host has been open, or accepted the pair.
Welcome(p) == p[2] \in open \/ p \in approved

\* The inductive invariant: a slot about to write a follow is welcome, because of
\* what it read (an account that was open, a follow that was there) or deleted.
Licensed(q) ==
  /\ q.pc = "already" /\ ~q.closed => Welcome(q.pair)
  /\ q.pc \in {"join", "admit"} => Welcome(q.pair)

IInv ==
  /\ TypeOK
  /\ Hosts \ private \subseteq open
  /\ \A p \in follows : Welcome(p)
  /\ \A r \in Requests : Licensed(req[r])

LEMMA InitialInvariant == Init => IInv
  BY TypeInit DEF Init, IInv, Licensed, Idle

\* No step takes a welcome back.
LEMMA WelcomeStays ==
  ASSUME [Next]_vars, NEW p, Welcome(p)
  PROVE  Welcome(p)'
  BY DEF Next, Serve, Arrive, CheckFollowing, Ask, Join, Tell, Withdraw, Admit,
         Count, Award, Announce, FollowStart, UnfollowStart, AcceptStart,
         QueryFails, Crash, Decline, SetPrivate, SetPublic, vars, tables, history,
         Welcome

\* Only an INSERT that is due makes somebody follow.
LEMMA NewFollows ==
  ASSUME TypeOK, [Next]_vars
  PROVE  follows' \subseteq follows \cup
           {req[r].pair : r \in {s \in Requests : req[s].pc \in {"join", "admit"}}}
  BY DEF TypeOK, Next, Serve, Arrive, CheckFollowing, Ask, Join, Tell, Withdraw, Admit, Count,
         Award, Announce, FollowStart, UnfollowStart, AcceptStart, QueryFails, Crash,
         Decline, SetPrivate, SetPublic, vars, tables, history, At

\* What a step may make of a slot.
LEMMA SlotStep ==
  ASSUME TypeOK, [Next]_vars, NEW r \in Requests
  PROVE  \/ req'[r] = req[r]
         \/ CheckFollowing(r)
         \/ \E p \in Pairs : FollowStart(r, p) \/ AcceptStart(r, p)
         \/ req'[r].pc \notin {"already", "join", "admit"}
<1> USE IdleIsRequest DEF TypeOK, End, Goto
<1> DEFINE Moved == \/ req'[r] = req[r]
                    \/ CheckFollowing(r)
                    \/ req'[r].pc \notin {"already", "join", "admit"}
<1>1. ASSUME NEW s \in Requests, Serve(s) PROVE Moved
  <2>1. CASE CheckFollowing(s)
    BY <2>1 DEF CheckFollowing
  <2>2. CASE Ask(s) \/ Join(s) \/ Admit(s)
    BY <2>2 DEF Ask, Join, Admit, Request
  <2>3. CASE Tell(s)
    BY <2>3 DEF Tell, Request
  <2>4. CASE Withdraw(s) \/ Announce(s)
    BY <2>4 DEF Withdraw, Announce
  <2>5. CASE Count(s)
    BY <2>5 DEF Count, Request
  <2>6. CASE Award(s)
    BY <2>6 DEF Award, Request
  <2>7. QED
    BY <1>1, <2>1, <2>2, <2>3, <2>4, <2>5, <2>6 DEF Serve
<1>2. ASSUME NEW s \in Requests, Arrive(s), s # r PROVE Moved
  BY <1>2 DEF Arrive, FollowStart, UnfollowStart, AcceptStart, Start
<1>3. ASSUME NEW p \in Pairs, UnfollowStart(r, p) PROVE Moved
  BY <1>3 DEF UnfollowStart, Start, Idle
<1>4. CASE Crash \/ \E s \in Requests : QueryFails(s)
  BY <1>4 DEF Crash, QueryFails
<1>5. CASE UNCHANGED req
  BY <1>5
<1>6. QED
  BY <1>1, <1>2, <1>3, <1>4, <1>5
  DEF Next, Arrive, Decline, SetPrivate, SetPublic, vars

LEMMA InductiveStep == IInv /\ [Next]_vars => IInv'
<1> SUFFICES ASSUME IInv, [Next]_vars PROVE IInv'
  OBVIOUS
<1>1. TypeOK /\ TypeOK'
  BY TypeStep DEF IInv
<1>2. (Hosts \ private \subseteq open)'
  BY DEF IInv, Next, Serve, Arrive, CheckFollowing, Ask, Join, Tell, Withdraw, Admit,
         Count, Award, Announce, FollowStart, UnfollowStart, AcceptStart,
         QueryFails, Crash, Decline, SetPrivate, SetPublic, vars, tables, history
<1>3. (\A p \in follows : Welcome(p))'
  <2>1. follows' \subseteq follows \cup
          {req[r].pair : r \in {s \in Requests : req[s].pc \in {"join", "admit"}}}
    BY <1>1, NewFollows
  <2>2. \A p \in follows' : Welcome(p)
    BY <2>1 DEF IInv, Licensed
  <2>3. QED
    BY <2>2, WelcomeStays
<1>4. (\A r \in Requests : Licensed(req[r]))'
  <2> SUFFICES ASSUME NEW r \in Requests PROVE Licensed(req[r])'
    OBVIOUS
  <2>1. CASE req'[r] = req[r]
    BY <2>1, WelcomeStays DEF IInv, Licensed
  <2>2. CASE CheckFollowing(r)
    BY <1>1, <2>2, WelcomeStays
    DEF IInv, TypeOK, Request, Equipped, Licensed, Welcome, CheckFollowing, At
  <2>3. ASSUME NEW p \in Pairs, FollowStart(r, p) PROVE Licensed(req[r])'
    <3>1. /\ req'[r].pc = "already"
          /\ req'[r].pair = p
          /\ req'[r].closed <=> p[2] \in private
      BY <1>1, <2>3 DEF TypeOK, FollowStart, Start, Idle
    <3>2. p[2] \in private \/ p[2] \in open
      BY HostOfPair DEF IInv
    <3>3. QED
      BY <2>3, <3>1, <3>2 DEF Licensed, Welcome, FollowStart, history
  <2>4. ASSUME NEW p \in Pairs, AcceptStart(r, p) PROVE Licensed(req[r])'
    <3>1. req'[r].pc = "admit" /\ req'[r].pair = p
      BY <1>1, <2>4 DEF TypeOK, AcceptStart, Start, Idle
    <3>2. QED
      BY <2>4, <3>1 DEF Licensed, Welcome, AcceptStart
  <2>5. CASE req'[r].pc \notin {"already", "join", "admit"}
    BY <2>5 DEF Licensed
  <2>6. \/ req'[r] = req[r]
        \/ CheckFollowing(r)
        \/ \E p \in Pairs : FollowStart(r, p) \/ AcceptStart(r, p)
        \/ req'[r].pc \notin {"already", "join", "admit"}
    BY <1>1, SlotStep
  <2>7. QED
    BY <2>1, <2>2, <2>3, <2>4, <2>5, <2>6
<1>5. QED
  BY <1>1, <1>2, <1>3, <1>4 DEF IInv

LEMMA Invariance == Spec => []IInv
  BY InitialInvariant, InductiveStep, PTL DEF Spec

\* A slot that lets its pair in.
LetsIn(q) == \/ q.pc \in {"join", "admit"}
             \/ q.pc = "already" /\ ~q.closed

\* A step that makes a slot let somebody in reads a public account or a follow, or
\* accepts a request.
LEMMA LettingIn ==
  ASSUME TypeOK, [Next]_vars, NEW r \in Requests, LetsIn(req'[r])
  PROVE  LET p == req'[r].pair
         IN \/ LetsIn(req[r]) /\ req[r].pair = p
            \/ p[2] \notin private
            \/ p \in follows
            \/ p \in requests /\ At(r, "idle") /\ At(r, "admit")'
<1> USE IdleIsRequest DEF TypeOK, At
<1>1. CASE req'[r] = req[r]
  BY <1>1
<1>2. CASE CheckFollowing(r)
  BY <1>2 DEF CheckFollowing, LetsIn, Request
<1>3. ASSUME NEW p \in Pairs, FollowStart(r, p)
      PROVE  p[2] \notin private /\ req'[r].pair = p
  BY <1>3 DEF FollowStart, Start, Idle, LetsIn
<1>4. ASSUME NEW p \in Pairs, AcceptStart(r, p)
      PROVE  p \in requests /\ req[r].pc = "idle" /\ req'[r].pc = "admit" /\ req'[r].pair = p
  BY <1>4 DEF AcceptStart, Start, Idle
<1>5. \/ req'[r] = req[r]
      \/ CheckFollowing(r)
      \/ \E p \in Pairs : FollowStart(r, p) \/ AcceptStart(r, p)
      \/ req'[r].pc \notin {"already", "join", "admit"}
  BY SlotStep
<1>6. QED
  BY <1>1, <1>2, <1>3, <1>4, <1>5 DEF LetsIn

\* A door that was shut stays shut, unless its owner opens it.
LEMMA DoorStep ==
  ASSUME TypeOK, [Next]_vars, NEW p \in Pairs, ShutOut(p)
  PROVE  ShutOut(p)' \/ p[2] \notin private' \/ Accepted(p)
<1>1. /\ p = <<p[1], p[2]>> /\ p[1] # p[2]
      /\ p \notin follows /\ p[2] \in private
  BY PairsAssumption DEF ShutOut, Visible
<1>2. p \notin follows'
  <2>1. follows' \subseteq follows \cup
          {req[r].pair : r \in {s \in Requests : req[s].pc \in {"join", "admit"}}}
    BY NewFollows
  <2>2. QED
    BY <1>1, <2>1 DEF ShutOut, Entering
<1>3. ASSUME NEW r \in Requests, LetsIn(req'[r]), req'[r].pair = p
      PROVE  Accepted(p)
  <2>1. ~(LetsIn(req[r]) /\ req[r].pair = p)
    BY DEF ShutOut, Entering, LetsIn, At
  <2>2. QED
    BY <1>1, <1>3, <2>1, LettingIn DEF Accepted
<1>4. CASE p[2] \in private' /\ ~Accepted(p)
  <2>1. ~Entering(p)'
    BY <1>3, <1>4 DEF Entering, LetsIn, At
  <2>2. QED
    BY <1>1, <1>2, <1>4, <2>1 DEF ShutOut, Visible
<1>5. QED
  BY <1>4

\* Whom a private account keeps out stays out until the account opens or accepts a
\* request of his, for any number of users and of concurrent requests.
THEOREM AccessIsConsented == Spec => ConsentedAccess
<1>1. ASSUME TypeOK, [Next]_vars
      PROVE  [\A p \in Pairs :
                ShutOut(p) => ShutOut(p)' \/ p[2] \notin private' \/ Accepted(p)]_vars
  BY <1>1, DoorStep
<1>2. QED
  BY <1>1, TypeCorrect, PTL DEF Spec, ConsentedAccess

-----------------------------------------------------------------------------
(* The implementation of Consent *)

LEMMA PromiseInit == Init => Promise!Init
<1> SUFFICES ASSUME Init PROVE Promise!Init
  OBVIOUS
<1>1. Granted = {}
  <2>1. \A r \in Requests : req[r].pc = "idle"
    BY DEF Init, Idle
  <2>2. QED
    BY <2>1 DEF Granted, At
<1>2. Hosts \subseteq Users
  BY PairsAssumption DEF Hosts
<1>3. QED
  BY <1>1, <1>2 DEF Init, Promise!Init

\* Every step of the API is a step of the promise or none of its business.
LEMMA PromiseStep ==
  ASSUME IInv, IInv', [Next]_vars
  PROVE  [Promise!Next]_Promise!vars
<1> USE DEF Granted, At
<1>0. TypeOK /\ TypeOK'
  BY DEF IInv
<1>1. ASSUME NEW r \in Requests, Ask(r) PROVE Promise!Ask(req[r].pair)
  <2>1. Granted' = Granted
    BY <1>0, <1>1 DEF TypeOK, Request, Ask
  <2>2. QED
    BY <1>1, <2>1 DEF Ask, Promise!Ask
<1>2. ASSUME NEW r \in Requests, Join(r) PROVE Promise!Enter(req[r].pair)
  <2>1. Granted' = Granted
    BY <1>0, <1>2 DEF TypeOK, Request, Join
  <2>2. Welcome(req[r].pair)
    BY <1>2 DEF IInv, Licensed, Join
  <2>3. QED
    BY <1>2, <2>1, <2>2 DEF Join, Promise!Enter, Welcome, history
<1>3. ASSUME NEW r \in Requests, Admit(r) PROVE Promise!Enter(req[r].pair)
  <2>1. Granted' \subseteq Granted /\ Granted \subseteq Granted' \cup {req[r].pair}
    BY <1>0, <1>3 DEF TypeOK, Request, Admit
  <2>2. (requests \cup Granted)' \in
          {requests \cup Granted, (requests \cup Granted) \ {req[r].pair}}
    BY <1>3, <2>1 DEF Admit
  <2>3. Welcome(req[r].pair)
    BY <1>3 DEF IInv, Licensed, Admit
  <2>4. QED
    BY <1>3, <2>2, <2>3 DEF Admit, Promise!Enter, Welcome, history
<1>4. ASSUME NEW r \in Requests, NEW p \in Pairs, UnfollowStart(r, p)
      PROVE  Promise!Leave(p)
  <2>1. Granted' = Granted
    BY <1>0, <1>4 DEF TypeOK, UnfollowStart, Start, Idle
  <2>2. QED
    BY <1>4, <2>1 DEF UnfollowStart, Promise!Leave, history
<1>5. ASSUME NEW r \in Requests, NEW p \in Pairs, AcceptStart(r, p)
      PROVE  Promise!Approve(p)
  <2>1. Granted' = Granted \cup {p}
    BY <1>0, <1>5 DEF TypeOK, AcceptStart, Start, Idle
  <2>2. QED
    BY <1>5, <2>1 DEF AcceptStart, Promise!Approve
<1>6. ASSUME NEW u \in Hosts, SetPublic(u) PROVE Promise!Open(u)
  BY <1>6 DEF SetPublic, Promise!Open
<1>7. ASSUME UNCHANGED <<open, approved, follows>>,
             requests' \subseteq requests, Granted' \subseteq Granted
      PROVE  \E S \in SUBSET Pairs : Promise!Drop(S)
  <2> DEFINE S == (requests \cup Granted) \ (requests \cup Granted)'
  <2>1. Granted \subseteq Pairs
    BY <1>0 DEF TypeOK, Equipped
  <2>2. S \in SUBSET Pairs
    BY <1>0, <2>1 DEF TypeOK
  <2>3. Promise!Drop(S)
    <3>1. (requests \cup Granted)' = (requests \cup Granted) \ S
      BY <1>7
    <3>2. QED
      BY <1>7, <3>1 DEF Promise!Drop
  <2> HIDE DEF S
  <2>4. QED
    BY <2>2, <2>3 DEF Promise!Drop
<1>8. CASE Crash \/ \E r \in Requests : Withdraw(r) \/ QueryFails(r)
  BY <1>0, <1>7, <1>8
  DEF TypeOK, Withdraw, QueryFails, Crash, End, Idle, tables, history, Promise!Next
<1>9. ASSUME NEW p \in Pairs, Decline(p)
      PROVE  \E S \in SUBSET Pairs : Promise!Drop(S)
  BY <1>7, <1>9 DEF Decline, history
<1>10. ASSUME NEW r \in Requests,
              CheckFollowing(r) \/ Tell(r) \/ Count(r) \/ Award(r) \/ Announce(r)
       PROVE  UNCHANGED Promise!vars
  <2>1. Granted' = Granted
    <3>1. CASE CheckFollowing(r)
      BY <1>0, <3>1 DEF TypeOK, Request, CheckFollowing
    <3>2. CASE Tell(r) \/ Announce(r)
      BY <1>0, <3>2 DEF TypeOK, Request, Tell, Announce, End, Idle
    <3>3. CASE Count(r) \/ Award(r)
      BY <1>0, <3>3 DEF TypeOK, Request, Count, Award, End, Goto, Idle
    <3>4. QED
      BY <1>10, <3>1, <3>2, <3>3
  <2>2. QED
    BY <1>10, <2>1
    DEF CheckFollowing, Tell, Count, Award, Announce, Promise!vars, tables, history
<1>11. ASSUME NEW r \in Requests, NEW p \in Pairs, FollowStart(r, p)
       PROVE  UNCHANGED Promise!vars
  <2>1. Granted' = Granted
    BY <1>0, <1>11 DEF TypeOK, FollowStart, Start, Idle
  <2>2. QED
    BY <1>11, <2>1 DEF FollowStart, Promise!vars, tables, history
<1>12. CASE UNCHANGED vars \/ \E u \in Hosts : SetPrivate(u)
  BY <1>12 DEF SetPrivate, vars, tables, history, Promise!vars
<1>13. ASSUME NEW r \in Requests, Serve(r) PROVE [Promise!Next]_Promise!vars
  <2>1. req[r].pc # "idle" => req[r].pair \in Pairs
    BY <1>0 DEF TypeOK, Equipped
  <2>2. CASE Ask(r) \/ Join(r) \/ Admit(r)
    <3>1. req[r].pair \in Pairs
      BY <2>1, <2>2 DEF Ask, Join, Admit
    <3>2. Promise!Ask(req[r].pair) \/ Promise!Enter(req[r].pair)
      BY <1>1, <1>2, <1>3, <2>2
    <3>3. QED
      BY <3>1, <3>2 DEF Promise!Next, Promise!Ask, Promise!Enter
  <2>3. CASE Withdraw(r)
    BY <1>8, <2>3
  <2>4. QED
    BY <1>10, <1>13, <2>2, <2>3 DEF Serve
<1>14. ASSUME NEW r \in Requests, Arrive(r) PROVE [Promise!Next]_Promise!vars
  BY <1>4, <1>5, <1>11, <1>14 DEF Arrive, Promise!Next
<1>15. ASSUME NEW u \in Hosts, SetPublic(u) PROVE Promise!Next
  <2>1. u \in Users
    BY PairsAssumption DEF Hosts
  <2>2. QED
    BY <1>6, <1>15, <2>1 DEF Promise!Next
<1>16. QED
  BY <1>8, <1>9, <1>12, <1>13, <1>14, <1>15 DEF Next, Promise!Next, Promise!Drop

\* The handlers, with all their interleavings, retries and failures, do nothing
\* that the consent of the hosts does not allow.
THEOREM Refinement == Spec => RefinesConsent
<1>1. Init => Promise!Init
  BY PromiseInit
<1>2. IInv /\ IInv' /\ [Next]_vars => [Promise!Next]_Promise!vars
  BY PromiseStep
<1>3. QED
  BY <1>1, <1>2, Invariance, PTL DEF Spec, RefinesConsent, Promise!Spec

-----------------------------------------------------------------------------
(* Requests are accepted once *)

\* A row is in its table once or not at all.
LEMMA PresenceCount ==
  ASSUME NEW S, NEW x
  PROVE  Cardinality(S \cap {x}) = IF x \in S THEN 1 ELSE 0
<1>1. CASE x \in S
  <2>1. S \cap {x} = {x}
    BY <1>1
  <2>2. QED
    BY <1>1, <2>1, FS_Singleton
<1>2. CASE x \notin S
  <2>1. S \cap {x} = {}
    BY <1>2
  <2>2. QED
    BY <1>2, <2>1, FS_EmptySet
<1>3. QED
  BY <1>1, <1>2

\* Finitely many acceptances are under way, and none for which no row was inserted.
Tallied(p) ==
  /\ IsFiniteSet(Admitting(p))
  /\ acceptances[p] + Cardinality(Admitting(p)) + Cardinality(requests \cap {p})
       <= asked[p]

\* A step that accepts nothing of the pair, and inserts nothing, keeps the tally.
LEMMA QuietTally ==
  ASSUME TypeOK, TypeOK', NEW p \in Pairs, Tallied(p),
         Admitting(p)' \subseteq Admitting(p), p \in requests' => p \in requests,
         acceptances'[p] = acceptances[p], asked'[p] = asked[p]
  PROVE  Tallied(p)'
<1>1. /\ IsFiniteSet(Admitting(p)')
      /\ Cardinality(Admitting(p)') <= Cardinality(Admitting(p))
      /\ Cardinality(Admitting(p)') \in Nat /\ Cardinality(Admitting(p)) \in Nat
  BY FS_Subset, FS_CardinalityType DEF Tallied
<1>2. Cardinality(requests' \cap {p}) <= Cardinality(requests \cap {p})
  BY PresenceCount
<1>3. /\ Cardinality(requests' \cap {p}) \in Nat /\ Cardinality(requests \cap {p}) \in Nat
      /\ acceptances[p] \in Nat /\ asked[p] \in Nat
  BY PresenceCount DEF TypeOK, Counter
<1>4. QED
  BY <1>1, <1>2, <1>3 DEF Tallied

LEMMA TallyStep ==
  ASSUME TypeOK, TypeOK', [Next]_vars, NEW p \in Pairs, Tallied(p)
  PROVE  Tallied(p)'
<1>n. /\ acceptances[p] \in Nat /\ asked[p] \in Nat
      /\ Cardinality(Admitting(p)) \in Nat
  BY FS_CardinalityType DEF Tallied, TypeOK, Counter
<1> USE DEF tables, history, At
<1>1. ASSUME NEW r \in Requests, Ask(r) PROVE Tallied(p)'
  <2>1. Admitting(p)' = Admitting(p)
    BY <1>1 DEF Ask, Admitting, TypeOK, Request
  <2>2. CASE req[r].pair = p /\ p \notin requests
    <3>1. asked'[p] = asked[p] + 1 /\ acceptances' = acceptances
      BY <1>1, <2>2 DEF Ask, TypeOK, Counter
    <3>2. QED
      BY <1>n, <2>1, <2>2, <3>1, PresenceCount DEF Tallied
  <2>3. CASE req[r].pair # p \/ p \in requests
    <3>1. asked'[p] = asked[p] /\ (p \in requests' => p \in requests)
      BY <1>1, <2>3 DEF Ask, TypeOK, Counter
    <3>2. QED
      BY <1>1, <2>1, <3>1, QuietTally DEF Ask
  <2>4. QED
    BY <2>2, <2>3
<1>2. ASSUME NEW r \in Requests, NEW q \in Pairs, AcceptStart(r, q) PROVE Tallied(p)'
  <2>1. CASE q = p
    <3>1. Admitting(p)' = Admitting(p) \cup {r} /\ r \notin Admitting(p)
      BY <1>2, <2>1 DEF AcceptStart, Start, Idle, Admitting, TypeOK, Request
    <3>2. /\ IsFiniteSet(Admitting(p)')
          /\ Cardinality(Admitting(p)') = Cardinality(Admitting(p)) + 1
      BY <3>1, FS_AddElement DEF Tallied
    <3>3. p \in requests /\ p \notin requests' /\ UNCHANGED <<asked, acceptances>>
      BY <1>2, <2>1 DEF AcceptStart
    <3>4. Cardinality(requests \cap {p}) = 1 /\ Cardinality(requests' \cap {p}) = 0
      BY <3>3, PresenceCount
    <3>5. QED
      BY <1>n, <3>2, <3>3, <3>4 DEF Tallied
  <2>2. CASE q # p
    <3>1. Admitting(p)' = Admitting(p)
      BY <1>2, <2>2 DEF AcceptStart, Start, Idle, Admitting, TypeOK, Request
    <3>2. QED
      BY <1>2, <3>1, QuietTally DEF AcceptStart
  <2>3. QED
    BY <2>1, <2>2
<1>3. ASSUME NEW r \in Requests, Tell(r) PROVE Tallied(p)'
  <2>1. CASE req[r].news = "follow_accepted" /\ req[r].pair = p
    <3>1. Admitting(p)' = Admitting(p) \ {r} /\ r \in Admitting(p)
      BY <1>3, <2>1 DEF Tell, End, Idle, Admitting, TypeOK, Request
    <3>2. /\ IsFiniteSet(Admitting(p)')
          /\ Cardinality(Admitting(p)') = Cardinality(Admitting(p)) - 1
      BY <3>1, FS_RemoveElement DEF Tallied
    <3>3. acceptances'[p] = acceptances[p] + 1 /\ UNCHANGED <<asked, requests>>
      BY <1>3, <2>1 DEF Tell, TypeOK, Counter
    <3>4. Cardinality(requests \cap {p}) \in Nat
      BY PresenceCount
    <3>5. QED
      BY <1>n, <3>2, <3>3, <3>4 DEF Tallied
  <2>2. CASE ~(req[r].news = "follow_accepted" /\ req[r].pair = p)
    <3>1. Admitting(p)' \subseteq Admitting(p)
      BY <1>3, <2>2 DEF Tell, End, Idle, Admitting, TypeOK, Request
    <3>2. acceptances'[p] = acceptances[p]
      BY <1>3, <2>2 DEF Tell, TypeOK, Counter
    <3>3. QED
      BY <1>3, <3>1, <3>2, QuietTally DEF Tell
  <2>3. QED
    BY <2>1, <2>2
<1>4. ASSUME NEW r \in Requests, CheckFollowing(r) \/ Join(r) \/ Admit(r) PROVE Tallied(p)'
  <2>1. Admitting(p)' \subseteq Admitting(p)
    BY <1>4 DEF CheckFollowing, Join, Admit, Admitting, TypeOK, Request
  <2>2. QED
    BY <1>4, <2>1, QuietTally DEF CheckFollowing, Join, Admit
<1>5. ASSUME NEW r \in Requests, Withdraw(r) \/ Count(r) \/ Award(r) \/ Announce(r)
      PROVE  Tallied(p)'
  <2>1. Admitting(p)' \subseteq Admitting(p)
    BY <1>5 DEF Withdraw, Count, Award, Announce, End, Goto, Idle, Admitting, TypeOK, Request
  <2>2. QED
    BY <1>5, <2>1, QuietTally DEF Withdraw, Count, Award, Announce
<1>6. ASSUME NEW r \in Requests, NEW q \in Pairs, FollowStart(r, q) \/ UnfollowStart(r, q)
      PROVE  Tallied(p)'
  <2>0. req'[r].pc \in {"already", "withdraw"} /\ \A s \in Requests \ {r} : req'[s] = req[s]
    BY <1>6 DEF FollowStart, UnfollowStart, Start, Idle, TypeOK
  <2>1. Admitting(p)' \subseteq Admitting(p)
    BY <2>0 DEF Admitting
  <2>2. QED
    BY <1>6, <2>1, QuietTally DEF FollowStart, UnfollowStart
<1>7. CASE Crash \/ \E r \in Requests : QueryFails(r)
  <2>1. Admitting(p)' \subseteq Admitting(p)
    BY <1>7 DEF Crash, QueryFails, End, Idle, Admitting, TypeOK, Request
  <2>2. QED
    BY <1>7, <2>1, QuietTally DEF Crash, QueryFails
<1>8. CASE \/ UNCHANGED vars
           \/ \E q \in Pairs : Decline(q)
           \/ \E u \in Hosts : SetPrivate(u) \/ SetPublic(u)
  <2>1. Admitting(p)' = Admitting(p)
    BY <1>8 DEF vars, Decline, SetPrivate, SetPublic, Admitting
  <2>2. QED
    BY <1>8, <2>1, QuietTally DEF vars, Decline, SetPrivate, SetPublic
<1>9. QED
  BY <1>1, <1>2, <1>3, <1>4, <1>5, <1>6, <1>7, <1>8 DEF Next, Serve, Arrive

\* However many taps accept a request, its row ends in one acceptance at most.
THEOREM RequestsAcceptedOnce == Spec => []AcceptedOnce
<1> DEFINE Tally == TypeOK /\ \A p \in Pairs : Tallied(p)
<1>1. Init => Tally
  <2> SUFFICES ASSUME Init, NEW p \in Pairs PROVE Tallied(p)
    BY TypeInit
  <2>1. Admitting(p) = {} /\ requests \cap {p} = {}
    BY DEF Init, Admitting, At, Idle
  <2>2. acceptances[p] = 0 /\ asked[p] = 0
    BY DEF Init
  <2>3. QED
    BY <2>1, <2>2, FS_EmptySet DEF Tallied
<1>2. Tally /\ [Next]_vars => Tally'
  BY TypeStep, TallyStep
<1>3. Tally => AcceptedOnce
  BY DEF AcceptedOnce, Tallied
<1>4. QED
  BY <1>1, <1>2, <1>3, PTL DEF Spec

-----------------------------------------------------------------------------
(* Badges are announced once *)

\* A badge that was awarded is announced, about to be by one check, or was cut short.
Told(b) ==
  /\ b \notin badges =>
       Announcing(b) = {} /\ announced[b] = 0 /\ b \notin unannounced
  /\ b \in badges =>
       \/ Announcing(b) = {} /\ announced[b] = 1 /\ b \notin unannounced
       \/ Announcing(b) = {} /\ announced[b] = 0 /\ b \in unannounced
       \/ /\ \E r \in Requests : Announcing(b) = {r}
          /\ announced[b] = 0 /\ b \notin unannounced

\* A step that has nothing to do with badges keeps what was told.
LEMMA QuietTold ==
  ASSUME NEW b \in Badges, Told(b), Announcing(b)' = Announcing(b),
         UNCHANGED <<badges, announced, unannounced>>
  PROVE  Told(b)'
  BY DEF Told

LEMMA ToldStep ==
  ASSUME TypeOK, TypeOK', [Next]_vars, NEW b \in Badges, Told(b)
  PROVE  Told(b)'
<1> USE DEF tables, history, At
<1>1. ASSUME NEW r \in Requests, Award(r) PROVE Told(b)'
  <2> DEFINE c == <<Host(r), req[r].mark>>
  <2>1. CASE c \in badges
    <3>1. Announcing(b)' = Announcing(b)
      BY <1>1, <2>1 DEF Award, End, Idle, Announcing, Unsaid, Host, TypeOK, Request
    <3>2. badges' = badges
      BY <1>1, <2>1 DEF Award
    <3>3. QED
      BY <1>1, <3>1, <3>2, QuietTold DEF Award
  <2>2. CASE c \notin badges /\ c = b
    <3>1. Announcing(b) = {} /\ announced[b] = 0 /\ b \notin unannounced
      BY <2>2 DEF Told
    <3>2. req' = [req EXCEPT ![r].pc = "announce"]
      BY <1>1, <2>2 DEF Award, Goto
    <3>3. Announcing(b)' = {r}
      BY <1>1, <2>2, <3>1, <3>2 DEF Announcing, Unsaid, Host, TypeOK, Request
    <3>4. b \in badges' /\ UNCHANGED <<announced, unannounced>>
      BY <1>1, <2>2 DEF Award
    <3>5. QED
      BY <3>1, <3>3, <3>4 DEF Told
  <2>3. CASE c \notin badges /\ c # b
    <3>1. req' = [req EXCEPT ![r].pc = "announce"]
      BY <1>1, <2>3 DEF Award, Goto
    <3>2. Announcing(b)' = Announcing(b)
      BY <1>1, <2>3, <3>1 DEF Award, Announcing, Unsaid, Host, TypeOK, Request
    <3>3. (b \in badges' <=> b \in badges) /\ UNCHANGED <<announced, unannounced>>
      BY <1>1, <2>3 DEF Award
    <3>4. QED
      BY <3>2, <3>3 DEF Told
  <2>4. QED
    BY <2>1, <2>2, <2>3
<1>2. ASSUME NEW r \in Requests, Announce(r) \/ QueryFails(r) PROVE Told(b)'
  <2>0. req' = [req EXCEPT ![r] = Idle] /\ badges' = badges
    BY <1>2 DEF Announce, QueryFails, End
  <2>1. CASE r \in Announcing(b)
    <3>1. Announcing(b) = {r} /\ b \in badges /\ announced[b] = 0 /\ b \notin unannounced
      BY <2>1 DEF Told
    <3>2. Announcing(b)' = {}
      BY <2>0, <3>1 DEF Announcing, Unsaid, Idle, Host, TypeOK
    <3>3. At(r, "announce") /\ <<Host(r), req[r].mark>> = b /\ Unsaid(r) = {b}
      BY <2>1 DEF Announcing, Unsaid
    <3>4. \/ announced'[b] = 1 /\ b \notin unannounced'
          \/ announced'[b] = 0 /\ b \in unannounced'
      BY <1>2, <3>1, <3>3 DEF Announce, QueryFails, TypeOK
    <3>5. QED
      BY <2>0, <3>1, <3>2, <3>4 DEF Told
  <2>2. CASE r \notin Announcing(b)
    <3>1. Announcing(b)' = Announcing(b)
      BY <2>0, <2>2 DEF Announcing, Unsaid, Idle, Host, TypeOK
    <3>2. announced'[b] = announced[b] /\ (b \in unannounced' <=> b \in unannounced)
      BY <1>2, <2>2 DEF Announcing, Unsaid, Announce, QueryFails, TypeOK
    <3>3. QED
      BY <2>0, <3>1, <3>2 DEF Told
  <2>3. QED
    BY <2>1, <2>2
<1>3. CASE Crash
  <2>1. Announcing(b)' = {}
    BY <1>3 DEF Crash, Announcing, Unsaid, Idle
  <2>2. badges' = badges /\ announced' = announced
    BY <1>3 DEF Crash
  <2>3. b \in unannounced' <=> b \in unannounced \/ Announcing(b) # {}
    BY <1>3 DEF Crash, Announcing
  <2>4. QED
    BY <2>1, <2>2, <2>3 DEF Told
<1>4. ASSUME NEW r \in Requests,
             \/ CheckFollowing(r) \/ Ask(r) \/ Join(r) \/ Tell(r) \/ Withdraw(r) \/ Admit(r)
             \/ Count(r)
      PROVE  Told(b)'
  <2>1. /\ req[r].pc # "announce" /\ req'[r].pc # "announce"
        /\ \A s \in Requests \ {r} : req'[s] = req[s]
    BY <1>4 DEF CheckFollowing, Ask, Join, Tell, Withdraw, Admit, Count, End, Idle, TypeOK,
                Request
  <2>2. Announcing(b)' = Announcing(b)
    BY <2>1 DEF Announcing, Unsaid, Host
  <2>3. UNCHANGED <<badges, announced, unannounced>>
    BY <1>4 DEF CheckFollowing, Ask, Join, Tell, Withdraw, Admit, Count
  <2>4. QED
    BY <2>2, <2>3, QuietTold
<1>5. ASSUME NEW r \in Requests, Arrive(r) PROVE Told(b)'
  <2>1. /\ req[r].pc # "announce" /\ req'[r].pc # "announce"
        /\ \A s \in Requests \ {r} : req'[s] = req[s]
    BY <1>5 DEF Arrive, FollowStart, UnfollowStart, AcceptStart, Start, Idle, TypeOK
  <2>2. Announcing(b)' = Announcing(b)
    BY <2>1 DEF Announcing, Unsaid, Host
  <2>3. UNCHANGED <<badges, announced, unannounced>>
    BY <1>5 DEF Arrive, FollowStart, UnfollowStart, AcceptStart
  <2>4. QED
    BY <2>2, <2>3, QuietTold
<1>6. CASE \/ UNCHANGED vars
           \/ \E q \in Pairs : Decline(q)
           \/ \E u \in Hosts : SetPrivate(u) \/ SetPublic(u)
  <2>1. Announcing(b)' = Announcing(b)
    BY <1>6 DEF vars, Decline, SetPrivate, SetPublic, Announcing, Unsaid, Host
  <2>2. QED
    BY <1>6, <2>1, QuietTold DEF vars, Decline, SetPrivate, SetPublic
<1>7. QED
  BY <1>1, <1>2, <1>3, <1>4, <1>5, <1>6 DEF Next, Serve

\* However many background checks award a badge, it is announced once, unless its
\* notification failed or was cut short.
THEOREM BadgesAnnouncedOnce == Spec => []AnnouncedOnce
<1> DEFINE Tell1 == TypeOK /\ \A b \in Badges : Told(b)
<1>1. Init => Tell1
  <2> SUFFICES ASSUME Init, NEW b \in Badges PROVE Told(b)
    BY TypeInit
  <2>1. QED
    BY DEF Init, Told, Announcing, Unsaid, At, Idle
<1>2. Tell1 /\ [Next]_vars => Tell1'
  BY TypeStep, ToldStep
<1>3. Tell1 => AnnouncedOnce
  <2> SUFFICES ASSUME NEW b \in Badges, Told(b)
               PROVE  announced[b] + Cardinality(Announcing(b))
                        + Cardinality(unannounced \cap {b}) = IF b \in badges THEN 1 ELSE 0
    BY DEF AnnouncedOnce
  <2>1. Cardinality(unannounced \cap {b}) = IF b \in unannounced THEN 1 ELSE 0
    BY PresenceCount
  <2>2. CASE Announcing(b) = {}
    BY <2>1, <2>2, FS_EmptySet DEF Told
  <2>3. CASE \E r \in Requests : Announcing(b) = {r}
    BY <2>1, <2>3, FS_Singleton DEF Told
  <2>4. QED
    BY <2>2, <2>3 DEF Told
<1>4. QED
  BY <1>1, <1>2, <1>3, PTL DEF Spec

=============================================================================
