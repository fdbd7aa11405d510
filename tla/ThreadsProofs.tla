--------------------------- MODULE ThreadsProofs ----------------------------
(***************************************************************************)
(* Theorems about Groups, for every set of users and requests and any      *)
(* number of them: it is type correct, the owner of a group is one of its  *)
(* members, invitations hold, a private group keeps its door shut and only *)
(* members post to it.  And inductive invariants of what people write to   *)
(* each other, the pages of a conversation and the screen with the         *)
(* comments, with what follows from them; that they hold throughout the    *)
(* behaviours is in FeaturesProofs.                                        *)
(***************************************************************************)
EXTENDS Threads, Ordered, FiniteSetTheorems, SequenceTheorems, TLAPS

-----------------------------------------------------------------------------
(* Type correctness *)

\* What a slot is set to when a request arrives is a request.
LEMMA QueryIsRequest ==
  ASSUME NEW p \in PC, NEW u \in Users \cup {None}, NEW w \in Users \cup {None}
  PROVE  Query(p, u, w) \in Request
  BY DEF Query, Idle, Request

LEMMA IdleIsRequest == Idle \in Request /\ Idle.pc = "idle"
  BY DEF Idle, Request, PC

\* A request that arrives leaves the slots well typed.
LEMMA StartTypes ==
  ASSUME TypeOK, NEW r \in Requests, NEW q \in Request, Start(r, q)
  PROVE  req' \in [Requests -> Request] /\ asked' \in 0..MaxAsks
  BY MaxAsksAssumption DEF Start, TypeOK

LEMMA AnswerTypes ==
  ASSUME TypeOK, NEW r \in Requests, Answer(r)
  PROVE  req' \in [Requests -> Request]
  BY IdleIsRequest DEF Answer, TypeOK

LEMMA GotoTypes ==
  ASSUME TypeOK, NEW r \in Requests, NEW p \in PC, Goto(r, p)
  PROVE  req' \in [Requests -> Request]
  BY DEF Goto, TypeOK, Request

\* A group that is disbanded leaves well-typed tables behind.
LEMMA DisbandTypes ==
  ASSUME Disband
  PROVE  /\ group' \in Group
         /\ ~Live'
         /\ group'.owner = None
         /\ members' = {} /\ posts' = {} /\ let' = {} /\ invited' = {}
         /\ invite' = [u \in Users |-> "none"]
         /\ inviter' = [u \in Users |-> None]
  BY DEF Disband, Group, Live

\* Every step that a request takes when it arrives preserves the types.
LEMMA AskTypes ==
  ASSUME TypeOK, NEW r \in Requests, Ask(r)
  PROVE  TypeOK'
<1> USE DEF tables, history
<1>1. ASSUME NEW u \in Users, NEW private \in BOOLEAN, Create(r, u, private)
      PROVE  TypeOK'
  <2>1. Query("found", u, None) \in Request
    BY QueryIsRequest DEF PC
  <2>2. req' \in [Requests -> Request] /\ asked' \in 0..MaxAsks
    BY <1>1, <2>1, StartTypes DEF Create
  <2>3. QED
    BY <1>1, <2>2, NoneAssumption DEF Create, TypeOK, Group, Live
<1>2. ASSUME NEW u \in Users, NEW private \in BOOLEAN, UpdateRead(r, u, private)
      PROVE  TypeOK'
  <2>1. [Query("update", u, None) EXCEPT !.set = private] \in Request
    BY DEF PC, Query, Idle, Request
  <2>2. req' \in [Requests -> Request] /\ asked' \in 0..MaxAsks
    BY <1>2, <2>1, StartTypes DEF UpdateRead
  <2>3. QED
    BY <1>2, <2>2 DEF UpdateRead, TypeOK, Live
<1>3. ASSUME NEW u \in Users, NEW w \in Users \cup {None}, NEW p \in PC,
             Start(r, Query(p, u, w)), UNCHANGED <<tables, let>>,
             invited' \subseteq Users, slips' \subseteq {"owner", "invite"}
      PROVE  TypeOK'
  <2>1. req' \in [Requests -> Request] /\ asked' \in 0..MaxAsks
    BY <1>3, QueryIsRequest, StartTypes
  <2>2. QED
    BY <1>3, <2>1 DEF TypeOK, Live
<1>4. ASSUME NEW u \in Users, DeleteRead(r, u) \/ JoinRead(r, u) \/ LeaveRead(r, u)
      PROVE  TypeOK'
  <2>1. slips' \subseteq {"owner", "invite"} /\ invited' \subseteq Users
    BY <1>4 DEF TypeOK, DeleteRead, JoinRead, LeaveRead
  <2>2. QED
    BY <1>3, <1>4, <2>1 DEF DeleteRead, JoinRead, LeaveRead, PC
<1>5. ASSUME NEW u \in Users, NEW w \in Users, TransferRead(r, u, w) \/ InviteRead(r, u, w)
      PROVE  TypeOK'
  <2>1. slips' \subseteq {"owner", "invite"} /\ invited' \subseteq Users
    BY <1>5 DEF TypeOK, TransferRead, InviteRead
  <2>2. QED
    BY <1>3, <1>5, <2>1 DEF TransferRead, InviteRead, PC
<1>6. ASSUME NEW u \in Users, AcceptRead(r, u) \/ PostRead(r, u)
      PROVE  TypeOK'
  <2>1. slips' \subseteq {"owner", "invite"} /\ invited' \subseteq Users
    BY <1>6 DEF TypeOK, AcceptRead, PostRead
  <2>2. QED
    BY <1>3, <1>6, <2>1 DEF AcceptRead, PostRead, PC, TypeOK
<1>7. QED
  BY <1>1, <1>2, <1>4, <1>5, <1>6 DEF Ask

\* Whom a request is by, and about whom, when it matters.
LEMMA WhoMayEnter ==
  ASSUME TypeOK, NEW r \in Requests
  PROVE  /\ CanEnter(req[r].by) => req[r].by \in Users
         /\ CanEnter(req[r].who) => req[r].who \in Users
  BY DEF CanEnter, TypeOK

\* Every query preserves the types.
LEMMA ServeTypes ==
  ASSUME TypeOK, NEW r \in Requests, Serve(r)
  PROVE  TypeOK'
<1> USE WhoMayEnter DEF tables, history, TypeOK
<1>1. CASE Found(r) \/ Join(r) \/ Leave(r) \/ Post(r)
  BY <1>1, AnswerTypes DEF Found, Join, Leave, Post, Live
<1>2. CASE Update(r)
  <2>1. group' \in Group /\ group'.owner = group.owner /\ group'.state = group.state
    BY <1>2 DEF Update, Group, Request
  <2>2. QED
    BY <1>2, <2>1, AnswerTypes DEF Update, Live
<1>3. CASE Delete(r)
  <2>1. CASE Live
    BY <1>3, <2>1, AnswerTypes, DisbandTypes DEF Delete, InviteState
  <2>2. CASE ~Live
    BY <1>3, <2>2, AnswerTypes DEF Delete, Live
  <2>3. QED
    BY <2>1, <2>2
<1>4. CASE TransferCheck(r)
  BY <1>4, AnswerTypes, GotoTypes DEF TransferCheck, Live, PC
<1>5. CASE Transfer(r)
  <2>1. group' \in Group /\ (Live' <=> group'.owner # None)
    BY <1>5, NoneAssumption DEF Transfer, Group, Live, CanEnter
  <2>2. QED
    BY <1>5, <2>1, AnswerTypes DEF Transfer
<1>6. CASE InviteCheck(r)
  BY <1>6, AnswerTypes, GotoTypes DEF InviteCheck, Live, PC
<1>7. CASE Invite(r)
  <2>1. invited' \subseteq Users /\ UNCHANGED let
    BY <1>7 DEF Invite
  <2>2. slips' \subseteq {"owner", "invite"}
    <3>1. slips' \in {slips, slips \cup {"invite"}}
      BY <1>7, Zenon DEF Invite
    <3>2. QED
      BY <3>1
  <2>3. /\ invite' \in [Users -> InviteState]
        /\ inviter' \in [Users -> users \cup {None}]
        /\ \A u \in Users : invite'[u] = "none" <=> inviter'[u] = None
    BY <1>7, NoneAssumption DEF Invite, InviteState, Request, CanEnter
  <2>4. QED
    BY <1>7, <2>1, <2>2, <2>3, AnswerTypes DEF Invite, Live
<1>8. CASE AcceptEnter(r)
  BY <1>8, AnswerTypes, GotoTypes DEF AcceptEnter, Live, PC
<1>9. CASE AcceptMark(r)
  BY <1>9, AnswerTypes, NoneAssumption DEF AcceptMark, Mark, Lasts, Live, InviteState, Request
<1>10. QED
  BY <1>1, <1>2, <1>3, <1>4, <1>5, <1>6, <1>7, <1>8, <1>9 DEF Serve

LEMMA TypeStep == TypeOK /\ [Next]_vars => TypeOK'
<1> SUFFICES ASSUME TypeOK, [Next]_vars PROVE TypeOK'
  OBVIOUS
<1> USE DEF tables, history
<1>1. ASSUME NEW r \in Requests, RequestFails(r) PROVE TypeOK'
  BY <1>1, AnswerTypes DEF RequestFails, TypeOK, Live
<1>2. ASSUME NEW u \in Users, InviteExpires(u) PROVE TypeOK'
  BY <1>2 DEF InviteExpires, TypeOK, Live, InviteState
<1>3. ASSUME NEW u \in Users, DeleteUser(u) PROVE TypeOK'
  <2>1. CASE Live /\ group.owner = u
    BY <1>3, <2>1, DisbandTypes DEF DeleteUser, TypeOK, InviteState
  <2>2. CASE ~(Live /\ group.owner = u)
    <3>1. /\ users' \subseteq Users /\ members' \subseteq Users /\ posts' \subseteq Users
          /\ let' \subseteq Users /\ invited' \subseteq Users
          /\ UNCHANGED <<group, req, asked, slips>>
      BY <1>3, <2>2 DEF DeleteUser, TypeOK
    <3>2. /\ invite' \in [Users -> InviteState]
          /\ inviter' \in [Users -> users' \cup {None}]
          /\ \A w \in Users : invite'[w] = "none" <=> inviter'[w] = None
      BY <1>3, <2>2 DEF DeleteUser, TypeOK, InviteState
    <3>3. QED
      BY <3>1, <3>2 DEF TypeOK, Live
  <2>3. QED
    BY <2>1, <2>2
<1>4. CASE UNCHANGED vars
  BY <1>4 DEF vars, TypeOK, Live
<1>5. QED
  BY <1>1, <1>2, <1>3, <1>4, AskTypes, ServeTypes DEF Next

LEMMA TypeInit == Init => TypeOK
  BY IdleIsRequest, MaxAsksAssumption DEF Init, TypeOK, Group, Live, InviteState

\* Every reachable state of a group is well typed; a group in use, and no other, has
\* an owner.
THEOREM TypeCorrect == Spec => []TypeOK
  BY TypeInit, TypeStep, PTL DEF Spec

-----------------------------------------------------------------------------
(* Who may enter a private group, who may post *)

\* What a slot holds once a request has arrived.
LEMMA Started ==
  ASSUME TypeOK, NEW r \in Requests, NEW p, NEW u, NEW w, Start(r, Query(p, u, w))
  PROVE  req'[r].pc = p /\ req'[r].by = u /\ req'[r].who = w
  BY DEF Start, Query, Idle, TypeOK

LEMMA StartedUpdate ==
  ASSUME TypeOK, NEW r \in Requests, NEW u \in Users, NEW private \in BOOLEAN,
         UpdateRead(r, u, private)
  PROVE  req'[r].pc = "update"
  BY DEF UpdateRead, Start, Query, Idle, TypeOK

\* Nobody is admitted to a private group who was not: only an invitation, or a door
\* that is opened, does that.  (groups.js: join reads is_private, /join/:token the
\* state of the invitation.)
LEMMA DoorStep ==
  ASSUME TypeOK, [Next]_vars, NEW u \in Users, ~Admitted(u), u \notin members
  PROVE  /\ u \notin members'
         /\ \A p \in {"found", "enter", "accept"} : ~By(p, u)'
<1> USE DEF tables, history, Admitted, By, At, TypeOK
<1>1. ASSUME NEW r \in Requests, Ask(r)
      PROVE  members' = members /\ \A s \in Requests \ {r} : req'[s] = req[s]
  BY <1>1 DEF Ask, Create, UpdateRead, DeleteRead, JoinRead, LeaveRead, TransferRead,
              InviteRead, AcceptRead, PostRead, Start
<1>2. ASSUME NEW r \in Requests, Ask(r)
      PROVE  req'[r].by # u \/ req'[r].pc \notin {"found", "enter", "accept"}
  <2>1. ASSUME NEW w \in Users,
               \/ \E private \in BOOLEAN : UpdateRead(r, w, private)
               \/ DeleteRead(r, w) \/ LeaveRead(r, w) \/ PostRead(r, w)
               \/ \E v \in Users : TransferRead(r, w, v) \/ InviteRead(r, w, v)
        PROVE  req'[r].pc \in {"update", "delete", "leave", "post", "transferee", "invitee"}
    <3> HIDE DEF TypeOK
    <3>1. QED
      BY <2>1, Started, StartedUpdate
         DEF DeleteRead, LeaveRead, PostRead, TransferRead, InviteRead
  <2>2. ASSUME NEW w \in Users, AcceptRead(r, w) PROVE req'[r].by # u
    BY <2>2, Started DEF AcceptRead
  <2>3. ASSUME NEW w \in Users, JoinRead(r, w) PROVE FALSE
    BY <2>3 DEF JoinRead, Live
  <2>4. ASSUME NEW w \in Users, NEW private \in BOOLEAN, Create(r, w, private) PROVE FALSE
    BY <2>4 DEF Create
  <2>5. QED
    BY <1>2, <2>1, <2>2, <2>3, <2>4 DEF Ask
<1>3. ASSUME NEW r \in Requests, Serve(r) \/ RequestFails(r)
      PROVE  \A s \in Requests :
               \/ req'[s] = req[s] \/ req'[s] = Idle
               \/ req'[s].pc \in {"transfer", "invite", "accepted"}
  BY <1>3 DEF Serve, Found, Update, Delete, Join, Leave, TransferCheck, Transfer,
              InviteCheck, Invite, AcceptEnter, AcceptMark, Mark, Post, RequestFails, Answer,
              Goto, Request
<1>4. ASSUME NEW r \in Requests, Serve(r) \/ RequestFails(r)
      PROVE  u \notin members'
  BY <1>4 DEF Serve, Found, Update, Delete, Join, Leave, TransferCheck, Transfer,
              InviteCheck, Invite, AcceptEnter, AcceptMark, Post, RequestFails, Disband
<1>5. ASSUME NEW w \in Users, InviteExpires(w) \/ DeleteUser(w)
      PROVE  u \notin members' /\ req' = req
  BY <1>5 DEF InviteExpires, DeleteUser, Disband
<1>6. CASE UNCHANGED vars
  BY <1>6 DEF vars
<1>7. QED
  BY <1>1, <1>2, <1>3, <1>4, <1>5, <1>6 DEF Next, Idle

\* Once a group is private, whoever is not invited stays outside, whatever was asked
\* before and however the requests overlap.
THEOREM DoorHolds == Spec => PrivateDoorHolds
<1>1. TypeOK /\ [Next]_vars =>
        [\A u \in Users : ~Admitted(u) /\ u \notin members =>
           /\ u \notin members'
           /\ \A p \in {"found", "enter", "accept"} : ~By(p, u)']_vars
  BY DoorStep
<1>2. QED
  BY <1>1, TypeCorrect, PTL DEF Spec, PrivateDoorHolds

\* Nobody comes to post who neither is a member nor was one when asking.
LEMMA PostStep ==
  ASSUME TypeOK, [Next]_vars, NEW u \in Users, u \notin members, ~By("post", u)
  PROVE  (u \in posts' => u \in posts) /\ ~By("post", u)'
<1> USE DEF tables, history, By, At
<1>1. ASSUME NEW r \in Requests, Ask(r)
      PROVE  posts' = posts /\ \A s \in Requests \ {r} : req'[s] = req[s]
  BY <1>1 DEF Ask, Create, UpdateRead, DeleteRead, JoinRead, LeaveRead, TransferRead,
              InviteRead, AcceptRead, PostRead, Start, TypeOK
<1>2. ASSUME NEW r \in Requests, Ask(r)
      PROVE  req'[r].by # u \/ req'[r].pc # "post"
  BY <1>2, Started, StartedUpdate
     DEF Ask, Create, DeleteRead, JoinRead, LeaveRead, TransferRead, InviteRead,
         AcceptRead, PostRead
<1>3. ASSUME NEW r \in Requests, Serve(r) \/ RequestFails(r)
      PROVE  \A s \in Requests :
               \/ req'[s] = req[s] \/ req'[s] = Idle
               \/ req'[s].pc \in {"transfer", "invite", "accepted"}
  BY <1>3 DEF Serve, Found, Update, Delete, Join, Leave, TransferCheck, Transfer,
              InviteCheck, Invite, AcceptEnter, AcceptMark, Mark, Post, RequestFails, Answer,
              Goto, Request, TypeOK
<1>4. ASSUME NEW r \in Requests, Serve(r) \/ RequestFails(r)
      PROVE  u \in posts' => u \in posts
  BY <1>4 DEF Serve, Found, Update, Delete, Join, Leave, TransferCheck, Transfer,
              InviteCheck, Invite, AcceptEnter, AcceptMark, Post, RequestFails, Disband
<1>5. ASSUME NEW w \in Users, InviteExpires(w) \/ DeleteUser(w)
      PROVE  (u \in posts' => u \in posts) /\ req' = req
  BY <1>5 DEF InviteExpires, DeleteUser, Disband
<1>6. CASE UNCHANGED vars
  BY <1>6 DEF vars
<1>7. QED
  BY <1>1, <1>2, <1>3, <1>4, <1>5, <1>6 DEF Next, Idle

\* Once somebody has left a group and what was being written is in, nothing of theirs
\* appears there.
THEOREM MembersPost == Spec => OnlyMembersPost
<1>1. TypeOK /\ [Next]_vars =>
        [\A u \in Users : u \notin members /\ ~By("post", u) =>
           /\ u \in posts' => u \in posts
           /\ ~By("post", u)']_vars
  BY PostStep
<1>2. QED
  BY <1>1, TypeCorrect, PTL DEF Spec, OnlyMembersPost

-----------------------------------------------------------------------------
(* The owner *)

\* Nobody asks of a group that was not founded.
Founded == group.state = "none" => \A r \in Requests : At(r, "idle")

OwnerExists == Live => group.owner \in users

\* Unless a transfer and a departure overlapped, whoever is leaving neither owns the
\* group nor is to own it, and whoever passed the check of a transfer is still a member.
LeaversDontOwn ==
  \A r \in Requests : At(r, "leave") =>
    /\ Live => req[r].by # group.owner
    /\ \A s \in Requests : At(s, "transferee") \/ At(s, "transfer") => req[r].by # req[s].who

ChosenIsMember ==
  \A s \in Requests : At(s, "transfer") /\ CanEnter(req[s].who) => req[s].who \in members

OwnerInv ==
  /\ TypeOK
  /\ Founded
  /\ OwnerExists
  /\ "owner" \notin slips => LeaversDontOwn /\ ChosenIsMember
  /\ OwnerIsMember

\* What arrives fills one slot, which was idle.
LEMMA StartedElsewhere ==
  ASSUME TypeOK, NEW r \in Requests, NEW q, Start(r, q)
  PROVE  At(r, "idle") /\ \A s \in Requests \ {r} : req'[s] = req[s]
  BY DEF Start, TypeOK

LEMMA OwnerStep == OwnerInv /\ [Next]_vars => OwnerInv'
<1> SUFFICES ASSUME OwnerInv, [Next]_vars PROVE OwnerInv'
  OBVIOUS
<1>t. TypeOK /\ TypeOK'
  BY TypeStep DEF OwnerInv
<1> USE <1>t DEF OwnerInv, Founded, OwnerExists, LeaversDontOwn, ChosenIsMember,
            OwnerIsMember, By, At, Live, CanEnter, tables, history
<1>1. ASSUME NEW r \in Requests, NEW u \in Users, NEW private \in BOOLEAN,
             Create(r, u, private)
      PROVE  OwnerInv'
  <2>1. req'[r].pc = "found" /\ req'[r].by = u
    BY <1>1, Started DEF Create
  <2>2. \A s \in Requests \ {r} : req'[s] = req[s]
    BY <1>1, StartedElsewhere DEF Create
  <2>3. QED
    BY <1>1, <2>1, <2>2 DEF Create
<1>2. ASSUME NEW r \in Requests, req'[r].pc \in PC \ {"leave", "transferee", "transfer"},
             \A s \in Requests \ {r} : req'[s] = req[s], Live, At(r, "idle"),
             UNCHANGED <<users, group, members, slips>>
      PROVE  OwnerInv'
  BY <1>2
<1>3. ASSUME NEW r \in Requests, NEW u \in Users,
             \/ \E private \in BOOLEAN : UpdateRead(r, u, private)
             \/ DeleteRead(r, u) \/ JoinRead(r, u) \/ AcceptRead(r, u) \/ PostRead(r, u)
             \/ \E w \in Users : InviteRead(r, u, w)
      PROVE  OwnerInv'
  <2>1. req'[r].pc \in PC \ {"leave", "transferee", "transfer"}
    BY <1>3, Started, StartedUpdate
       DEF DeleteRead, JoinRead, AcceptRead, PostRead, InviteRead, PC
  <2>2. (\A s \in Requests \ {r} : req'[s] = req[s]) /\ At(r, "idle")
    BY <1>3, StartedElsewhere
       DEF UpdateRead, DeleteRead, JoinRead, AcceptRead, PostRead, InviteRead
  <2>3. Live /\ UNCHANGED <<users, group, members, slips>>
    BY <1>3 DEF UpdateRead, DeleteRead, JoinRead, AcceptRead, PostRead, InviteRead
  <2>4. QED
    BY <1>2, <2>1, <2>2, <2>3
<1>4. ASSUME NEW r \in Requests, NEW u \in Users, LeaveRead(r, u) PROVE OwnerInv'
  <2>1. req'[r].pc = "leave" /\ req'[r].by = u /\ At(r, "idle")
    BY <1>4, Started, StartedElsewhere DEF LeaveRead
  <2>2. \A s \in Requests \ {r} : req'[s] = req[s]
    BY <1>4, StartedElsewhere DEF LeaveRead
  <2>3. QED
    BY <1>4, <2>1, <2>2 DEF LeaveRead, About
<1>5. ASSUME NEW r \in Requests, NEW u \in Users, NEW w \in Users, TransferRead(r, u, w)
      PROVE  OwnerInv'
  <2>1. req'[r].pc = "transferee" /\ req'[r].who = w /\ At(r, "idle")
    BY <1>5, Started, StartedElsewhere DEF TransferRead
  <2>2. \A s \in Requests \ {r} : req'[s] = req[s]
    BY <1>5, StartedElsewhere DEF TransferRead
  <2>3. QED
    BY <1>5, <2>1, <2>2 DEF TransferRead
<1>6. ASSUME NEW r \in Requests, Found(r) \/ Join(r) PROVE OwnerInv'
  BY <1>6 DEF Found, Join, Answer, Idle, TypeOK
<1>7. ASSUME NEW r \in Requests, Leave(r) PROVE OwnerInv'
  BY <1>7 DEF Leave, Answer, Idle, TypeOK
<1>8. ASSUME NEW r \in Requests, Update(r) \/ Post(r) \/ Invite(r) \/ AcceptMark(r)
      PROVE  OwnerInv'
  BY <1>8 DEF Update, Post, Invite, AcceptMark, Mark, Answer, Idle, TypeOK, Group
<1>9. ASSUME NEW r \in Requests, Delete(r) PROVE OwnerInv'
  BY <1>9, DisbandTypes DEF Delete, Disband, Answer, Idle, TypeOK
<1>10. ASSUME NEW r \in Requests, TransferCheck(r) \/ InviteCheck(r) PROVE OwnerInv'
  BY <1>10 DEF TransferCheck, InviteCheck, Goto, Answer, Idle, TypeOK, Request
<1>11. ASSUME NEW r \in Requests, Transfer(r) PROVE OwnerInv'
  BY <1>11 DEF Transfer, Answer, Idle, TypeOK, Group
<1>12. ASSUME NEW r \in Requests, AcceptEnter(r) PROVE OwnerInv'
  BY <1>12 DEF AcceptEnter, Goto, Answer, Idle, TypeOK, Request
<1>13. ASSUME NEW r \in Requests, RequestFails(r) PROVE OwnerInv'
  BY <1>13 DEF RequestFails, Answer, Idle, TypeOK
<1>14. ASSUME NEW u \in Users, InviteExpires(u) \/ DeleteUser(u) PROVE OwnerInv'
  BY <1>14 DEF InviteExpires, DeleteUser, Disband, TypeOK
<1>15. CASE UNCHANGED vars
  BY <1>15 DEF vars
<1>16. QED
  BY <1>1, <1>3, <1>4, <1>5, <1>6, <1>7, <1>8, <1>9, <1>10, <1>11, <1>12, <1>13, <1>14,
     <1>15 DEF Next, Ask, Serve

\* A group in use has its owner among its members, unless it was handed over to
\* somebody who was leaving or its creation was cut in two.
THEOREM OwnerBelongs == Spec => []OwnerIsMember
<1>1. Init => OwnerInv
  BY TypeInit DEF Init, OwnerInv, Founded, OwnerExists, LeaversDontOwn, ChosenIsMember,
                  OwnerIsMember, At, Live, Idle
<1>2. OwnerInv => OwnerIsMember
  BY DEF OwnerInv
<1>3. QED
  BY <1>1, <1>2, OwnerStep, PTL DEF Spec

-----------------------------------------------------------------------------
(* Invitations *)

\* Only users of a group in use have invitations.
InvitedExist ==
  \A u \in Users : invite[u] # "none" => Live /\ u \in users

\* Whoever is about to use up an invitation was let in, or is gone with it.
MarkedAreLet ==
  \A r \in Requests : At(r, "accepted") /\ CanEnter(req[r].by) => req[r].by \in let

\* Whoever accepts an invitation has it, as long as there are the group, the user and
\* the account that sent it.
TokensLast ==
  \A r \in Requests : At(r, "accept") \/ At(r, "accepted") =>
    /\ req[r].by \in Users /\ req[r].who \in Users
    /\ CanEnter(req[r].by) /\ req[r].who \in users => inviter[req[r].by] = req[r].who

\* Nobody who is accepting his invitation has been sent it again, unless the two
\* overlapped.
AcceptingIsOld ==
  \A r \in Requests :
    /\ At(r, "accept") \/ At(r, "accepted")
    /\ Lasts(r)
    => req[r].by \notin invited

InviteInv ==
  /\ TypeOK
  /\ Founded
  /\ InvitedExist
  /\ MarkedAreLet
  /\ TokensLast
  /\ "invite" \notin slips => AcceptingIsOld
  /\ InvitationsHold

LEMMA InviteStep == InviteInv /\ [Next]_vars => InviteInv'
<1> SUFFICES ASSUME InviteInv, [Next]_vars PROVE InviteInv'
  OBVIOUS
<1>t. TypeOK /\ TypeOK'
  BY TypeStep DEF InviteInv
<1> USE <1>t DEF InviteInv, Founded, InvitedExist, MarkedAreLet, TokensLast,
            AcceptingIsOld, Lasts, InvitationsHold, UsedInvitationLetIn, InvitationStands, By, At, Live, CanEnter,
            tables, history
<1>1. ASSUME NEW r \in Requests, NEW u \in Users, NEW private \in BOOLEAN,
             Create(r, u, private)
      PROVE  InviteInv'
  <2>1. req'[r].pc = "found" /\ req'[r].by = u
    BY <1>1, Started DEF Create
  <2>2. \A s \in Requests \ {r} : req'[s] = req[s]
    BY <1>1, StartedElsewhere DEF Create
  <2>3. QED
    BY <1>1, <2>1, <2>2 DEF Create
<1>2. ASSUME NEW r \in Requests, req'[r].pc \in PC \ {"accept", "accepted"},
             \A s \in Requests \ {r} : req'[s] = req[s], Live, At(r, "idle"),
             UNCHANGED <<users, group, invite, inviter, let, invited>>, slips \subseteq slips'
      PROVE  InviteInv'
  BY <1>2
<1>3. ASSUME NEW r \in Requests, NEW u \in Users,
             \/ \E private \in BOOLEAN : UpdateRead(r, u, private)
             \/ DeleteRead(r, u) \/ JoinRead(r, u) \/ LeaveRead(r, u) \/ PostRead(r, u)
             \/ \E w \in Users : TransferRead(r, u, w) \/ InviteRead(r, u, w)
      PROVE  InviteInv'
  <2>1. req'[r].pc \in PC \ {"accept", "accepted"}
    BY <1>3, Started, StartedUpdate
       DEF DeleteRead, JoinRead, LeaveRead, PostRead, TransferRead, InviteRead, PC
  <2>2. (\A s \in Requests \ {r} : req'[s] = req[s]) /\ At(r, "idle")
    BY <1>3, StartedElsewhere
       DEF UpdateRead, DeleteRead, JoinRead, LeaveRead, PostRead, TransferRead, InviteRead
  <2>3. Live /\ UNCHANGED <<users, group, invite, inviter, let, invited>> /\ slips \subseteq slips'
    BY <1>3
       DEF UpdateRead, DeleteRead, JoinRead, LeaveRead, PostRead, TransferRead, InviteRead
  <2>4. QED
    BY <1>2, <2>1, <2>2, <2>3
<1>4. ASSUME NEW r \in Requests, NEW u \in Users, AcceptRead(r, u) PROVE InviteInv'
  <2>1. req'[r].pc = "accept" /\ req'[r].by = u /\ req'[r].who = inviter[u]
    BY <1>4, Started DEF AcceptRead
  <2>4. inviter[u] \in Users
    BY <1>4 DEF AcceptRead, TypeOK
  <2>2. \A s \in Requests \ {r} : req'[s] = req[s]
    BY <1>4, StartedElsewhere DEF AcceptRead
  <2>3. QED
    BY <1>4, <2>1, <2>2, <2>4 DEF AcceptRead
<1>5. ASSUME NEW r \in Requests, Found(r) \/ Join(r) \/ Leave(r) \/ Update(r) \/ Post(r)
      PROVE  InviteInv'
  BY <1>5 DEF Found, Join, Leave, Update, Post, Answer, Idle, TypeOK, Group
<1>6. ASSUME NEW r \in Requests, Delete(r) PROVE InviteInv'
  BY <1>6, DisbandTypes DEF Delete, Disband, Answer, Idle, TypeOK
<1>7. ASSUME NEW r \in Requests, TransferCheck(r) \/ InviteCheck(r) PROVE InviteInv'
  BY <1>7 DEF TransferCheck, InviteCheck, Goto, Answer, Idle, TypeOK, Request
<1>8. ASSUME NEW r \in Requests, Transfer(r) PROVE InviteInv'
  BY <1>8 DEF Transfer, Answer, Idle, TypeOK, Group
<1>9. ASSUME NEW r \in Requests, Invite(r) PROVE InviteInv'
  <2> DEFINE w == req[r].who
  <2>0. req' = [req EXCEPT ![r] = Idle] /\ UNCHANGED <<users, group, let>>
    BY <1>9 DEF Invite, Answer
  <2>1. CASE ~(CanEnter(w) /\ req[r].by \in users)
    BY <1>9, <2>0, <2>1 DEF Invite, Idle, TypeOK
  <2>2. CASE CanEnter(w) /\ req[r].by \in users
    <3>1. /\ invite' = [invite EXCEPT ![w] = "pending"]
          /\ inviter' = [inviter EXCEPT ![w] = IF @ = None THEN req[r].by ELSE @]
          /\ invited' = invited \cup {w}
          /\ slips' = IF Accepting(w) THEN slips \cup {"invite"} ELSE slips
          /\ w \in Users
      BY <1>9, <2>2 DEF Invite, TypeOK
    <3>2. TokensLast'
      <4> SUFFICES ASSUME NEW q \in Requests, At(q, "accept")' \/ At(q, "accepted")'
                   PROVE  /\ req'[q].by \in Users /\ req'[q].who \in Users
                          /\ CanEnter(req[q].by)' /\ req'[q].who \in users'
                                => inviter'[req'[q].by] = req'[q].who
        BY DEF TokensLast
      <4>1. req'[q] = req[q] /\ q # r
        BY <2>0 DEF Idle, TypeOK
      <4>2. CASE CanEnter(req[q].by) /\ req[q].who \in users
        <5>1. inviter[req[q].by] = req[q].who /\ req[q].who # None /\ req[q].by \in Users
          BY <4>1, <4>2, NoneAssumption
        <5>2. inviter'[req[q].by] = req[q].who
          BY <3>1, <5>1 DEF TypeOK
        <5>3. QED
          BY <4>1, <5>1, <5>2, NoneAssumption DEF TypeOK
      <4>3. CASE ~(CanEnter(req[q].by) /\ req[q].who \in users)
        BY <2>0, <4>1, <4>3
      <4>4. QED
        BY <4>2, <4>3
    <3>3. ASSUME "invite" \notin slips', NEW q \in Requests,
                 At(q, "accept")' \/ At(q, "accepted")', Lasts(q)'
          PROVE  req'[q].by \notin invited'
      <4>1. req'[q] = req[q] /\ req[q].by \in Users /\ req[q].who \in Users
        BY <2>0, <3>3 DEF Idle, TypeOK
      <4>0. inviter'[req[q].by] = req[q].who /\ req[q].who # None
        BY <3>3, <4>1 DEF Lasts
      <4>2. CASE req[q].by # w
        BY <3>1, <3>3, <4>0, <4>1, <4>2 DEF TypeOK, Lasts
      <4>3. CASE req[q].by = w
        <5>1. inviter[w] = req[q].who
          <6>1. CASE req[q].who \in users
            BY <2>2, <4>1, <4>3, <6>1, <3>3
          <6>2. CASE req[q].who \notin users
            BY <2>2, <3>1, <4>0, <4>3, <6>2 DEF TypeOK
          <6>3. QED
            BY <6>1, <6>2
        <5>2. Accepting(w)
          BY <3>3, <4>0, <4>1, <4>3, <5>1 DEF Accepting, Lasts
        <5>3. QED
          BY <3>1, <3>3, <5>2
      <4>4. QED
        BY <4>2, <4>3
    <3>4. QED
      BY <2>0, <2>2, <3>1, <3>2, <3>3 DEF Idle, TypeOK
  <2>3. QED
    BY <2>1, <2>2
<1>10. ASSUME NEW r \in Requests, AcceptEnter(r) PROVE InviteInv'
  BY <1>10 DEF AcceptEnter, Goto, Answer, Idle, TypeOK, Request
<1>11. ASSUME NEW r \in Requests, AcceptMark(r) PROVE InviteInv'
  BY <1>11, NoneAssumption DEF AcceptMark, Mark, Lasts, Answer, Idle, TypeOK
<1>12. ASSUME NEW r \in Requests, RequestFails(r) PROVE InviteInv'
  BY <1>12 DEF RequestFails, Answer, Idle, TypeOK
<1>13. ASSUME NEW u \in Users, InviteExpires(u) \/ DeleteUser(u) PROVE InviteInv'
  BY <1>13 DEF InviteExpires, DeleteUser, Disband, TypeOK
<1>14. CASE UNCHANGED vars
  BY <1>14 DEF vars
<1>15. QED
  BY <1>1, <1>3, <1>4, <1>5, <1>6, <1>7, <1>8, <1>9, <1>10, <1>11, <1>12, <1>13, <1>14
     DEF Next, Ask, Serve

\* An invitation is used up only by letting its user in, and one that is sent can be
\* accepted or expires as long as the account that first sent it exists, unless it was
\* sent again while the user was accepting it.
THEOREM InvitationsAreKept == Spec => []InvitationsHold
<1>1. Init => InviteInv
  BY TypeInit DEF Init, InviteInv, Founded, InvitedExist, MarkedAreLet, TokensLast,
                  AcceptingIsOld, Lasts, InvitationsHold, UsedInvitationLetIn, InvitationStands, At, Live, Idle
<1>2. InviteInv => InvitationsHold
  BY DEF InviteInv
<1>3. QED
  BY <1>1, <1>2, InviteStep, PTL DEF Spec

-----------------------------------------------------------------------------
(* Lists in an order *)

\* The numbers of a set that are not after one.
UpTo(S, i) == {j \in S : j <= i}

\* In a finite set of numbers each has a place of its own, and each place a number; a
\* larger number has a later place.
LEMMA PlacesAreTaken ==
  ASSUME NEW S \in SUBSET Int, IsFiniteSet(S)
  PROVE  /\ Cardinality(S) \in Nat
         /\ \A i \in S : Place(S, i) \in 1 .. Cardinality(S)
         /\ \A i, j \in S : i < j => Place(S, i) < Place(S, j)
         /\ \A k \in 1 .. Cardinality(S) : \E i \in S : Place(S, i) = k
<1> DEFINE n == Cardinality(S)
<1>1. n \in Nat /\ \A i \in S : i \in Int
  BY FS_CardinalityType
<1>2. \A i : Place(S, i) = Cardinality(UpTo(S, i))
  BY DEF Place, UpTo
<1>3. \A i \in S : /\ IsFiniteSet(UpTo(S, i))
                   /\ Cardinality(UpTo(S, i)) \in Nat
                   /\ Cardinality(UpTo(S, i)) <= n
                   /\ Cardinality(UpTo(S, i)) # 0
  <2> TAKE i \in S
  <2>1. UpTo(S, i) \in SUBSET S /\ i \in UpTo(S, i)
    BY <1>1 DEF UpTo
  <2>2. IsFiniteSet(UpTo(S, i)) /\ Cardinality(UpTo(S, i)) <= n
    BY <2>1, FS_Subset
  <2>3. Cardinality(UpTo(S, i)) # 0
    BY <2>1, <2>2, FS_EmptySet
  <2>4. QED
    BY <2>2, <2>3, FS_CardinalityType
<1>4. \A i \in S : Place(S, i) \in 1 .. n
  BY <1>1, <1>2, <1>3
<1>5. ASSUME NEW i \in S, NEW j \in S, i < j
      PROVE  Place(S, i) < Place(S, j)
  <2> i \in Int /\ j \in Int
    BY <1>1
  <2>1. UpTo(S, i) \in SUBSET UpTo(S, j)
    <3>1. \A m \in S : m <= i => m <= j
      BY <1>1, <1>5
    <3>2. QED
      BY <3>1 DEF UpTo
  <2>2. j \in UpTo(S, j) /\ j \notin UpTo(S, i)
    BY <1>1, <1>5 DEF UpTo
  <2>3. /\ Cardinality(UpTo(S, i)) <= Cardinality(UpTo(S, j))
        /\ Cardinality(UpTo(S, i)) # Cardinality(UpTo(S, j))
    BY <1>3, <2>1, <2>2, FS_Subset
  <2>4. QED
    BY <1>2, <1>3, <2>3
<1>6. \A k \in 1 .. n : \E i \in S : Place(S, i) = k
  <2> DEFINE f == [i \in S |-> Place(S, i)]
  <2>1. \A i, j \in S : Place(S, i) = Place(S, j) => i = j
    <3> SUFFICES ASSUME NEW i \in S, NEW j \in S, i # j
                 PROVE  Place(S, i) # Place(S, j)
      OBVIOUS
    <3>1. i < j \/ j < i
      BY <1>1
    <3>2. Place(S, i) \in Nat /\ Place(S, j) \in Nat
      BY <1>1, <1>4
    <3>3. QED
      BY <1>5, <3>1, <3>2
  <2>2. f \in Injection(S, 1 .. n)
    BY <1>4, <2>1 DEF Injection, IsInjective
  <2>3. IsFiniteSet(1 .. n) /\ Cardinality(1 .. n) = n
    BY <1>1, FS_Interval
  <2>4. f \in Surjection(S, 1 .. n)
    <3> HIDE DEF f
    <3> QED
      BY <2>2, <2>3, FS_Injection
  <2>5. QED
    BY <2>4 DEF Surjection
<1>7. QED
  BY <1>1, <1>4, <1>5, <1>6

\* Ascending lists every number of the set once, the smallest first.
LEMMA AscendingLists ==
  ASSUME NEW S \in SUBSET Int, IsFiniteSet(S)
  PROVE  /\ Ascending(S) \in Seq(S)
         /\ Len(Ascending(S)) = Cardinality(S)
         /\ DOMAIN Ascending(S) = 1 .. Cardinality(S)
         /\ \A k \in 1 .. Cardinality(S) :
              Ascending(S)[k] \in S /\ Place(S, Ascending(S)[k]) = k
         /\ \A k, l \in 1 .. Cardinality(S) : k < l => Ascending(S)[k] < Ascending(S)[l]
         /\ \A i \in S : \E k \in 1 .. Cardinality(S) : Ascending(S)[k] = i
<1> DEFINE n == Cardinality(S)
           at(k) == CHOOSE i \in S : Place(S, i) = k
           list == Ascending(S)
<1>1. n \in Nat /\ \A i \in S : i \in Int
  BY PlacesAreTaken
<1>2. list = [k \in 1 .. n |-> at(k)]
  BY DEF Ascending
<1>3. \A k \in 1 .. n : at(k) \in S /\ Place(S, at(k)) = k
  BY PlacesAreTaken
<1> HIDE DEF at, list
<1>4. list \in [1 .. n -> S] /\ \A k \in 1 .. n : list[k] = at(k)
  BY <1>2, <1>3
<1>5. list \in Seq(S) /\ DOMAIN list = 1 .. n
  BY <1>1, <1>4, SeqDef
<1>6. Len(list) = n
  BY <1>1, <1>5, LenProperties
<1>7. ASSUME NEW k \in 1 .. n, NEW l \in 1 .. n, k < l
      PROVE  list[k] < list[l]
  <2>1. list[k] \in S /\ list[l] \in S /\ Place(S, list[k]) = k /\ Place(S, list[l]) = l
    BY <1>3, <1>4
  <2>2. list[k] \in Int /\ list[l] \in Int
    BY <1>1, <2>1
  <2>3. ~(list[l] < list[k]) /\ list[k] # list[l]
    <3>1. ~(l < k) /\ l # k
      BY <1>1, <1>7
    <3>2. list[l] < list[k] => Place(S, list[l]) < Place(S, list[k])
      BY <2>1, PlacesAreTaken
    <3>3. QED
      BY <2>1, <3>1, <3>2
  <2>4. QED
    BY <2>2, <2>3
<1>8. ASSUME NEW i \in S
      PROVE  \E k \in 1 .. n : list[k] = i
  <2>1. Place(S, i) \in 1 .. n
    BY PlacesAreTaken
  <2>2. list[Place(S, i)] \in S /\ Place(S, list[Place(S, i)]) = Place(S, i)
    BY <1>3, <1>4, <2>1
  <2> DEFINE j == list[Place(S, i)]
  <2>3. i \in Int /\ j \in Int
    BY <1>1, <2>2
  <2>4. j = i
    <3> HIDE DEF j
    <3>1. /\ i < j => Place(S, i) < Place(S, j)
          /\ j < i => Place(S, j) < Place(S, i)
      <4>1. j \in S
        BY <2>2 DEF j
      <4>2. QED
        BY <4>1, PlacesAreTaken
    <3>2. Place(S, j) = Place(S, i)
      BY <2>2 DEF j
    <3>3. Place(S, i) \in Int
      BY <1>1, <2>1
    <3>4. QED
      BY <2>3, <3>1, <3>2, <3>3
  <2>5. QED
    BY <2>1, <2>4
<1>9. QED
  BY <1>3, <1>4, <1>5, <1>6, <1>7, <1>8 DEF list

\* A list of every number of the set in which each is smaller than the next ones is it.
LEMMA AscendingOnly ==
  ASSUME NEW S \in SUBSET Int, IsFiniteSet(S), NEW n \in Nat, NEW s,
         \A k \in 1 .. n : s[k] \in S,
         \A k, l \in 1 .. n : k < l => s[k] < s[l],
         \A i \in S : \E k \in 1 .. n : s[k] = i
  PROVE  n = Cardinality(S) /\ \A k \in 1 .. n : s[k] = Ascending(S)[k]
<1>1. \A k \in 1 .. n : s[k] \in Int
  OBVIOUS
<1>2. ASSUME NEW k \in 1 .. n
      PROVE  Place(S, s[k]) = k
  <2> DEFINE T == UpTo(S, s[k])
             g == [m \in 1 .. k |-> s[m]]
  <2>1. \A m \in 1 .. n : s[m] \in T <=> m <= k
    <3> TAKE m \in 1 .. n
    <3>1. s[m] \in T <=> s[m] <= s[k]
      BY DEF UpTo
    <3>2. /\ s[m] \in Int /\ s[k] \in Int
          /\ m < k => s[m] < s[k]
          /\ k < m => s[k] < s[m]
      BY <1>1
    <3>3. QED
      BY <3>1, <3>2
  <2>2. g \in [1 .. k -> T] /\ \A m \in 1 .. k : g[m] = s[m]
    BY <2>1
  <2> HIDE DEF g
  <2>3. \A i \in T : \E m \in 1 .. k : g[m] = i
    <3> TAKE i \in T
    <3>1. PICK m \in 1 .. n : s[m] = i
      BY DEF UpTo
    <3>2. m \in 1 .. k
      BY <2>1, <3>1
    <3>3. QED
      BY <2>2, <3>1, <3>2
  <2>4. \A l, m \in 1 .. k : g[l] = g[m] => l = m
    <3> SUFFICES ASSUME NEW l \in 1 .. k, NEW m \in 1 .. k, l # m
                 PROVE  g[l] # g[m]
      OBVIOUS
    <3>1. /\ s[l] \in Int /\ s[m] \in Int
          /\ m < l => s[m] < s[l]
          /\ l < m => s[l] < s[m]
      BY <1>1
    <3>2. QED
      BY <2>2, <3>1
  <2>5. g \in Bijection(1 .. k, T)
    <3> HIDE DEF T
    <3> QED
      BY <2>2, <2>3, <2>4 DEF Bijection, Injection, Surjection, IsInjective
  <2>6. Cardinality(T) = k
    <3> HIDE DEF T
    <3>1. k \in Nat
      OBVIOUS
    <3>2. QED
      BY <2>5, <3>1, FS_CountingElements DEF ExistsBijection
  <2>7. QED
    BY <2>6 DEF Place, UpTo
<1>3. Cardinality(S) \in Nat
  BY FS_CardinalityType
<1>4. \A k \in 1 .. n : k \in 1 .. Cardinality(S)
  <2> TAKE k \in 1 .. n
  <2>1. s[k] \in S /\ Place(S, s[k]) = k
    BY <1>2
  <2>2. Place(S, s[k]) \in 1 .. Cardinality(S)
    BY <2>1, PlacesAreTaken
  <2>3. QED
    BY <2>1, <2>2
<1>5. \A k \in 1 .. Cardinality(S) : k \in 1 .. n
  <2> TAKE k \in 1 .. Cardinality(S)
  <2>1. PICK i \in S : Place(S, i) = k
    BY PlacesAreTaken
  <2>2. PICK m \in 1 .. n : s[m] = i
    BY <2>1
  <2>3. QED
    BY <1>2, <2>1, <2>2
<1>6. n = Cardinality(S)
  <2>1. n <= Cardinality(S)
    <3>1. CASE n = 0
      BY <1>3, <3>1
    <3>2. CASE n # 0
      BY <1>3, <1>4, <3>2
    <3>3. QED
      BY <3>1, <3>2
  <2>2. Cardinality(S) <= n
    <3>1. CASE Cardinality(S) = 0
      BY <3>1
    <3>2. CASE Cardinality(S) # 0
      BY <1>3, <1>5, <3>2
    <3>3. QED
      BY <3>1, <3>2
  <2>3. QED
    BY <1>3, <2>1, <2>2
<1>7. ASSUME NEW k \in 1 .. n
      PROVE  s[k] = Ascending(S)[k]
  <2> DEFINE a == Ascending(S)[k]
  <2>1. a \in S /\ Place(S, a) = k /\ s[k] \in S /\ Place(S, s[k]) = k
    BY <1>2, <1>6, AscendingLists
  <2> HIDE DEF a
  <2>2. a \in Int /\ s[k] \in Int /\ k \in Int
    <3>1. a \in Int
      BY <2>1
    <3>2. s[k] \in Int
      BY <1>1
    <3>3. k \in Int
      OBVIOUS
    <3>4. QED
      BY <3>1, <3>2, <3>3
  <2>3. /\ a < s[k] => Place(S, a) < Place(S, s[k])
        /\ s[k] < a => Place(S, s[k]) < Place(S, a)
    BY <2>1, PlacesAreTaken
  <2>4. s[k] = a
    BY <2>1, <2>2, <2>3
  <2>5. QED
    BY <2>4 DEF a
<1>8. QED
  BY <1>6, <1>7

\* Descending lists every number of the set once, the largest first.
LEMMA DescendingLists ==
  ASSUME NEW S \in SUBSET Int, IsFiniteSet(S)
  PROVE  /\ Descending(S) \in Seq(S)
         /\ Len(Descending(S)) = Cardinality(S)
         /\ DOMAIN Descending(S) = 1 .. Cardinality(S)
         /\ \A k \in 1 .. Cardinality(S) : Descending(S)[k] \in S
         /\ \A k, l \in 1 .. Cardinality(S) : k < l => Descending(S)[l] < Descending(S)[k]
         /\ \A i \in S : \E k \in 1 .. Cardinality(S) : Descending(S)[k] = i
<1> DEFINE n == Cardinality(S)
           a == Ascending(S)
           list == Descending(S)
<1>1. n \in Nat
  BY FS_CardinalityType
<1>2. list = [k \in 1 .. n |-> a[n + 1 - k]]
  BY DEF Descending
<1>3. /\ \A k \in 1 .. n : a[k] \in S
      /\ \A k, l \in 1 .. n : k < l => a[k] < a[l]
      /\ \A i \in S : \E k \in 1 .. n : a[k] = i
  BY AscendingLists
<1> HIDE DEF n, a, list
<1>4. \A k \in 1 .. n : n + 1 - k \in 1 .. n /\ n + 1 - (n + 1 - k) = k
  BY <1>1
<1>5. list \in [1 .. n -> S] /\ \A k \in 1 .. n : list[k] = a[n + 1 - k]
  BY <1>2, <1>3, <1>4
<1>6. list \in Seq(S) /\ DOMAIN list = 1 .. n
  BY <1>1, <1>5, SeqDef
<1>7. Len(list) = n
  BY <1>1, <1>6, LenProperties
<1>8. ASSUME NEW k \in 1 .. n, NEW l \in 1 .. n, k < l
      PROVE  list[l] < list[k]
  <2>1. n + 1 - l < n + 1 - k
    BY <1>1, <1>8
  <2>2. a[n + 1 - l] < a[n + 1 - k]
    BY <1>3, <1>4, <2>1
  <2>3. QED
    BY <1>5, <2>2
<1>9. ASSUME NEW i \in S
      PROVE  \E k \in 1 .. n : list[k] = i
  <2>1. PICK k \in 1 .. n : a[k] = i
    BY <1>3
  <2>2. list[n + 1 - k] = i
    BY <1>4, <1>5, <2>1
  <2>3. QED
    BY <1>4, <2>2
<1>10. QED
  BY <1>5, <1>6, <1>7, <1>8, <1>9 DEF n, list

\* A list of every number of the set in which each is larger than the next ones is it.
LEMMA DescendingOnly ==
  ASSUME NEW S \in SUBSET Int, IsFiniteSet(S), NEW n \in Nat, NEW s,
         \A k \in 1 .. n : s[k] \in S,
         \A k, l \in 1 .. n : k < l => s[l] < s[k],
         \A i \in S : \E k \in 1 .. n : s[k] = i
  PROVE  n = Cardinality(S) /\ \A k \in 1 .. n : s[k] = Descending(S)[k]
<1>1. PICK t : t = [k \in 1 .. n |-> s[n + 1 - k]]
  OBVIOUS
<1>2. \A k \in 1 .. n : n + 1 - k \in 1 .. n /\ n + 1 - (n + 1 - k) = k
  OBVIOUS
<1>3. \A k \in 1 .. n : t[k] = s[n + 1 - k] /\ s[k] = t[n + 1 - k]
  BY <1>1, <1>2
<1>4. \A k \in 1 .. n : t[k] \in S
  BY <1>2, <1>3
<1>5. ASSUME NEW k \in 1 .. n, NEW l \in 1 .. n, k < l
      PROVE  t[k] < t[l]
  <2>1. n + 1 - l < n + 1 - k
    BY <1>5
  <2>2. s[n + 1 - k] < s[n + 1 - l]
    BY <1>2, <2>1
  <2>3. QED
    BY <1>3, <2>2
<1>6. ASSUME NEW i \in S
      PROVE  \E k \in 1 .. n : t[k] = i
  <2>1. PICK k \in 1 .. n : s[k] = i
    OBVIOUS
  <2>2. t[n + 1 - k] = i
    BY <1>2, <1>3, <2>1
  <2>3. QED
    BY <1>2, <2>2
<1>7. n = Cardinality(S) /\ \A k \in 1 .. n : t[k] = Ascending(S)[k]
  BY <1>4, <1>5, <1>6, AscendingOnly
<1>8. \A k \in 1 .. n : s[k] = Descending(S)[k]
  BY <1>2, <1>3, <1>7 DEF Descending
<1>9. QED
  BY <1>7, <1>8

\* What is kept of a list are the elements at these places, in the order of the list.
LEMMA KeptIs ==
  ASSUME NEW T, NEW s \in Seq(T), NEW P \in SUBSET (DOMAIN s)
  PROVE  /\ IsFiniteSet(P) /\ P \in SUBSET Int
         /\ Kept(s, P) \in Seq(T)
         /\ Len(Kept(s, P)) = Cardinality(P)
         /\ DOMAIN Kept(s, P) = 1 .. Cardinality(P)
         /\ \A k \in 1 .. Cardinality(P) :
              Ascending(P)[k] \in P /\ Kept(s, P)[k] = s[Ascending(P)[k]]
<1> DEFINE n == Cardinality(P)
           a == Ascending(P)
           list == Kept(s, P)
<1>1. DOMAIN s = 1 .. Len(s) /\ Len(s) \in Nat
  BY LenProperties
<1>2. IsFiniteSet(1 .. Len(s))
  BY <1>1, FS_Interval
<1>3. IsFiniteSet(P) /\ P \in SUBSET Int
  BY <1>1, <1>2, FS_Subset
<1>4. n \in Nat /\ \A k \in 1 .. n : a[k] \in P
  BY <1>3, AscendingLists, FS_CardinalityType
<1>5. list = [k \in 1 .. n |-> s[a[k]]]
  BY DEF Kept
<1> HIDE DEF n, a, list
<1>6. \A k \in DOMAIN s : s[k] \in T
  BY <1>1, ElementOfSeq
<1>7. list \in [1 .. n -> T] /\ \A k \in 1 .. n : list[k] = s[a[k]]
  BY <1>4, <1>5, <1>6
<1>8. list \in Seq(T) /\ DOMAIN list = 1 .. n
  BY <1>4, <1>7, SeqDef
<1>9. Len(list) = n
  BY <1>4, <1>8, LenProperties
<1>10. QED
  BY <1>3, <1>4, <1>7, <1>8, <1>9 DEF n, a, list

-----------------------------------------------------------------------------
(* Conversations: what a page shows *)

On(list, m) == \E k \in DOMAIN list : list[k] = m

Message == [conv : Convs \cup {None}, from : People, read : BOOLEAN]
Sending == [pc : {"idle", "insert", "emit", "answer"}, conv : Convs \cup {None}, id : Nat]
Page(n) == [conv : Convs \cup {None}, on : BOOLEAN, ready : BOOLEAN, view : Seq(0 .. n),
            cursor : 0 .. n]
Reply(n) == [state : {"none", "asked", "read"}, ids : SUBSET (1 .. n)]
Connection(n) == [up : BOOLEAN, room : BOOLEAN, todo : SUBSET {"join", "read"},
                  inbox : Seq(1 .. n)]

\* The messages are numbered; a message that is being sent has its number once its row is
\* inserted; older messages are fetched by a page that has data.
TalkShape ==
  /\ thread \in Seq(Message)
  /\ post \in [People -> Sending]
  /\ talkPage \in [People -> Page(Len(thread))]
  /\ reply \in [People -> Reply(Len(thread))]
  /\ older \in [People -> Reply(Len(thread))]
  /\ socket \in [People -> Connection(Len(thread))]
  /\ talkMissed \in [People -> SUBSET Nat]
  /\ crossed \in [People -> SUBSET Nat]
  /\ \A u \in People :
       IF post[u].pc \in {"emit", "answer"}
         THEN post[u].id \in 1 .. Len(thread) /\ thread[post[u].id].from = u
         ELSE post[u].id = 0
  /\ \A u \in People : older[u].state = "read" => talkPage[u].ready
  /\ \A u \in People : socket[u].up \/ Len(socket[u].inbox) = 0

\* Message m is no longer on its way to the room, and not one that u is sending.
Free(u, m) == \A v \in People : post[v].id = m => v # u /\ post[v].pc # "emit"

\* It is on the page of u, or its event is on the way, or it is known why it is neither.
Has(u, m) ==
  \/ On(talkPage[u].view, m)
  \/ m \in talkMissed[u]
  \/ On(socket[u].inbox, m) /\ thread[m].from # u

\* Every free message that is not before the first one has been told of, or is in the
\* answer that will tell of it.
Tells(u) ==
  \A m \in 1 .. Len(thread) : thread[m].conv = talkPage[u].conv /\ Free(u, m) =>
    /\ talkPage[u].ready /\ m >= talkPage[u].cursor => Has(u, m)
    /\ reply[u].state = "read" /\ m >= Talk!First(reply[u].ids)
         => m \in reply[u].ids \/ Has(u, m)
    /\ older[u].state = "read" /\ m >= Talk!First(older[u].ids)
         => m \in older[u].ids \/ Has(u, m)

\* Of a message twice on the page the event came after a reply that had it; a message
\* that waits for its number is there once, and nothing with that number yet.
Once(u) ==
  /\ \A i, j \in DOMAIN talkPage[u].view :
       talkPage[u].view[i] = talkPage[u].view[j] /\ i # j
         => talkPage[u].view[i] # 0 /\ talkPage[u].view[i] \in crossed[u]
  /\ On(talkPage[u].view, 0) => post[u].pc # "idle"
  /\ On(talkPage[u].view, 0) /\ post[u].id # 0 =>
       /\ ~On(talkPage[u].view, post[u].id)
       /\ talkPage[u].cursor <= post[u].id
       /\ older[u].state = "read" => \A m \in older[u].ids : m < post[u].id

\* An event comes once, and after the message was announced; if the page has the message
\* by then a reply was faster.
Events(u) ==
  /\ \A i, j \in DOMAIN socket[u].inbox : socket[u].inbox[i] = socket[u].inbox[j] => i = j
  /\ \A m \in 1 .. Len(thread) : Talk!Unsaid(m) => ~On(socket[u].inbox, m)
  /\ \A m \in 1 .. Len(thread) :
       /\ On(talkPage[u].view, m) /\ thread[m].from # u
       /\ Talk!Unsaid(m) \/ On(socket[u].inbox, m)
       => m \in crossed[u]

PagesInv == TalkShape /\ \A u \in People : Tells(u) /\ Once(u) /\ Events(u)

LEMMA OnTheList == \A list, m : m \in Talk!ToSet(list) <=> On(list, m)
  BY DEF Talk!ToSet, On

\* The operators of the module are those of Ordered.
LEMMA TalkOrder ==
  ASSUME NEW S
  PROVE  Talk!Ascending(S) = Ascending(S)
BY DEF Talk!Ascending, Ascending, Talk!Place, Place, Talk!Cardinality, Cardinality

LEMMA TalkKept ==
  ASSUME NEW s, NEW P
  PROVE  Talk!Kept(s, P) = Kept(s, P)
<1>1. Talk!Cardinality(P) = Cardinality(P)
  BY DEF Talk!Cardinality, Cardinality
<1>2. QED
  BY <1>1, TalkOrder DEF Talk!Kept, Kept

\* Messages are finitely many.
LEMMA MessagesAreFew ==
  ASSUME NEW n \in Nat, NEW S \in SUBSET (1 .. n)
  PROVE  IsFiniteSet(S) /\ S \in SUBSET Int /\ \A m \in S : m \in 1 .. n
<1>1. IsFiniteSet(1 .. n)
  BY FS_Interval
<1>2. IsFiniteSet(S)
  BY <1>1, FS_Subset
<1>3. QED
  BY <1>2

\* A reply lists its messages once each, in order.
LEMMA ReplyLists ==
  ASSUME NEW n \in Nat, NEW S \in SUBSET (1 .. n)
  PROVE  /\ Talk!Ascending(S) \in Seq(S)
         /\ \A m : On(Talk!Ascending(S), m) <=> m \in S
         /\ \A i, j \in DOMAIN Talk!Ascending(S) :
              Talk!Ascending(S)[i] = Talk!Ascending(S)[j] => i = j
<1> DEFINE a == Ascending(S)
           c == Cardinality(S)
<1>1. IsFiniteSet(S) /\ S \in SUBSET Int /\ c \in Nat
  BY MessagesAreFew, FS_CardinalityType
<1>2. /\ a \in Seq(S) /\ DOMAIN a = 1 .. c
      /\ \A k \in 1 .. c : a[k] \in S
      /\ \A k, l \in 1 .. c : k < l => a[k] < a[l]
      /\ \A i \in S : \E k \in 1 .. c : a[k] = i
  BY <1>1, AscendingLists
<1> HIDE DEF a, c
<1>3. \A m : On(a, m) <=> m \in S
  BY <1>2 DEF On
<1>4. ASSUME NEW i \in DOMAIN a, NEW j \in DOMAIN a, i # j
      PROVE  a[i] # a[j]
  <2>1. i < j \/ j < i
    BY <1>1, <1>2, <1>4
  <2>2. \A k \in 1 .. c : a[k] \in Int
    BY <1>1, <1>2
  <2>3. a[i] < a[j] \/ a[j] < a[i]
    BY <1>2, <2>1
  <2>4. QED
    BY <1>2, <2>2, <2>3
<1>5. QED
  BY <1>2, <1>3, <1>4, TalkOrder DEF a

\* The first message of a reply is one of it, and none is before it.
LEMMA FirstOfReply ==
  ASSUME NEW n \in Nat, NEW S \in SUBSET (1 .. n)
  PROVE  /\ Talk!First(S) \in 0 .. n
         /\ S # {} => Talk!First(S) \in S /\ \A m \in S : Talk!First(S) <= m
<1>1. CASE S = {}
  BY <1>1 DEF Talk!First
<1>2. CASE S # {}
  <2> DEFINE a == Ascending(S)
             c == Cardinality(S)
  <2>1. IsFiniteSet(S) /\ S \in SUBSET Int /\ c \in Nat
    BY MessagesAreFew, FS_CardinalityType
  <2>2. c # 0
    BY <1>2, <2>1, FS_EmptySet
  <2>3. /\ \A k \in 1 .. c : a[k] \in S
        /\ \A k, l \in 1 .. c : k < l => a[k] < a[l]
        /\ \A i \in S : \E k \in 1 .. c : a[k] = i
    BY <2>1, AscendingLists
  <2> HIDE DEF a, c
  <2>4. 1 \in 1 .. c /\ \A k \in 1 .. c : k = 1 \/ 1 < k
    BY <2>1, <2>2
  <2>5. a[1] \in S /\ a[1] \in 1 .. n /\ a[1] \in Int
    <3>1. a[1] \in S
      BY <2>3, <2>4
    <3>2. a[1] \in 1 .. n
      BY <3>1
    <3>3. QED
      BY <3>1, <3>2
  <2>6. \A m \in S : a[1] <= m
    <3> TAKE m \in S
    <3>1. PICK k \in 1 .. c : a[k] = m
      BY <2>3
    <3>2. a[1] = m \/ a[1] < m
      BY <2>3, <2>4, <3>1
    <3>3. QED
      BY <2>5, <3>2
  <2>7. Talk!First(S) \in S /\ \A m \in S : Talk!First(S) <= m
    BY <1>2, <2>5, <2>6 DEF Talk!First, Talk!Min
  <2>8. Talk!First(S) \in 1 .. n
    BY <2>7
  <2>9. QED
    BY <2>7, <2>8
<1>3. QED
  BY <1>1, <1>2

\* The last of some messages are the later ones: whatever is not before the first of them
\* is one of them.
LEMMA LastReaches ==
  ASSUME NEW n \in Nat, NEW S \in SUBSET (1 .. n)
  PROVE  /\ Talk!LastOf(S) \in SUBSET (1 .. n) /\ Talk!LastOf(S) \in SUBSET S
         /\ \A m \in S : m >= Talk!First(Talk!LastOf(S)) => m \in Talk!LastOf(S)
<1> DEFINE L == Talk!LastOf(S)
           After(m) == {j \in S : j > m}
<1>1. L = {m \in S : Cardinality(After(m)) < PageSize}
  <2>1. \A T : Talk!Cardinality(T) = Cardinality(T)
    BY DEF Talk!Cardinality, Cardinality
  <2>2. QED
    BY <2>1 DEF Talk!LastOf
<1>2. L \in SUBSET S /\ L \in SUBSET (1 .. n)
  BY <1>1
<1>3. \A m : /\ IsFiniteSet(After(m)) /\ Cardinality(After(m)) \in Nat
  <2> TAKE m
  <2>1. After(m) \in SUBSET (1 .. n)
    OBVIOUS
  <2>2. QED
    BY <2>1, MessagesAreFew, FS_CardinalityType
<1>4. ASSUME NEW k \in L, NEW m \in S, m >= k
      PROVE  m \in L
  <2>1. k \in S /\ Cardinality(After(k)) < PageSize
    BY <1>1
  <2>2. After(m) \in SUBSET After(k)
    <3>1. \A j \in S : j > m => j > k
      BY <1>4, <2>1
    <3>2. QED
      BY <3>1
  <2>3. Cardinality(After(m)) <= Cardinality(After(k))
    BY <1>3, <2>2, FS_Subset
  <2>4. Cardinality(After(m)) < PageSize
    BY <1>3, <2>1, <2>3, NumbersAssumption
  <2>5. QED
    BY <1>1, <2>4
<1>5. ASSUME S # {}
      PROVE  L # {}
  <2> DEFINE a == Ascending(S)
             c == Cardinality(S)
  <2>1. IsFiniteSet(S) /\ S \in SUBSET Int /\ c \in Nat
    BY MessagesAreFew, FS_CardinalityType
  <2>2. c # 0
    BY <1>5, <2>1, FS_EmptySet
  <2>3. /\ \A k \in 1 .. c : a[k] \in S
        /\ \A k, l \in 1 .. c : k < l => a[k] < a[l]
        /\ \A i \in S : \E k \in 1 .. c : a[k] = i
    BY <2>1, AscendingLists
  <2> HIDE DEF a, c
  <2>4. c \in 1 .. c /\ \A k \in 1 .. c : k = c \/ k < c
    BY <2>1, <2>2
  <2>5. a[c] \in S /\ a[c] \in Int
    <3>1. a[c] \in S
      BY <2>3, <2>4
    <3>2. a[c] \in 1 .. n
      BY <3>1
    <3>3. QED
      BY <3>1, <3>2
  <2>6. After(a[c]) = {}
    <3> SUFFICES ASSUME NEW m \in S, m > a[c]
                 PROVE  FALSE
      OBVIOUS
    <3>1. PICK k \in 1 .. c : a[k] = m
      BY <2>3
    <3>2. m = a[c] \/ m < a[c]
      BY <2>3, <2>4, <3>1
    <3>3. QED
      BY <2>5, <3>2
  <2>7. Cardinality(After(a[c])) < PageSize
    BY <2>6, FS_EmptySet, NumbersAssumption
  <2>8. QED
    BY <1>1, <2>5, <2>7
<1> HIDE DEF L
<1>6. ASSUME NEW m \in S, m >= Talk!First(L)
      PROVE  m \in L
  <2>1. Talk!First(L) \in L
    BY <1>2, <1>5, FirstOfReply
  <2>2. QED
    BY <1>4, <1>6, <2>1
<1>7. QED
  BY <1>2, <1>6 DEF L

\* Parts that are empty.
LEMMA NothingYet ==
  /\ Talk!NoPage.ready = FALSE /\ Talk!NoPage.conv = None /\ Talk!NoPage.cursor = 0
  /\ Len(Talk!NoPage.view) = 0
  /\ \A n \in Nat : Talk!NoPage \in Page(n)
BY DEF Talk!NoPage, Page

LEMMA NothingHeard ==
  /\ Talk!Offline.up = FALSE /\ Len(Talk!Offline.inbox) = 0
  /\ \A n \in Nat : Talk!Offline \in Connection(n)
BY DEF Talk!Offline, Connection

LEMMA NothingAnswered ==
  /\ Talk!NoReply.state = "none" /\ Talk!NoReply.ids = {}
  /\ \A n \in Nat : Talk!NoReply \in Reply(n)
BY DEF Talk!NoReply, Reply

LEMMA AskedAgain ==
  /\ Talk!Asked.state = "asked" /\ Talk!Asked.ids = {}
  /\ \A n \in Nat : Talk!Asked \in Reply(n)
BY DEF Talk!Asked, Talk!NoReply, Reply

LEMMA NothingWritten ==
  /\ Talk!NoPost.pc = "idle" /\ Talk!NoPost.id = 0 /\ Talk!NoPost \in Sending
BY DEF Talk!NoPost, Sending

LEMMA NobodyThere ==
  ASSUME NEW S, NEW list \in Seq(S), Len(list) = 0
  PROVE  DOMAIN list = {} /\ \A m : ~On(list, m)
BY LenProperties DEF On

\* What does not touch u keeps what holds of u.
LEMMA Elsewhere ==
  ASSUME NEW v \in People, Tells(v), Once(v), Events(v),
         talkPage'[v] = talkPage[v], reply'[v] = reply[v], older'[v] = older[v],
         post'[v] = post[v], crossed'[v] = crossed[v],
         socket'[v].inbox = socket[v].inbox,
         talkMissed[v] \subseteq talkMissed'[v],
         Len(thread') = Len(thread),
         \A m \in 1 .. Len(thread) :
           /\ thread'[m].conv = thread[m].conv /\ thread'[m].from = thread[m].from
           /\ Free(v, m)' => Free(v, m)
           /\ Talk!Unsaid(m)' => Talk!Unsaid(m)
  PROVE  Tells(v)' /\ Once(v)' /\ Events(v)'
<1>1. Tells(v)'
  <2> SUFFICES ASSUME NEW m \in 1 .. Len(thread),
                      thread'[m].conv = talkPage'[v].conv, Free(v, m)'
               PROVE  /\ talkPage'[v].ready /\ m >= talkPage'[v].cursor => Has(v, m)'
                      /\ reply'[v].state = "read" /\ m >= Talk!First(reply'[v].ids)
                           => m \in reply'[v].ids \/ Has(v, m)'
                      /\ older'[v].state = "read" /\ m >= Talk!First(older'[v].ids)
                           => m \in older'[v].ids \/ Has(v, m)'
    BY DEF Tells
  <2>1. Has(v, m) => Has(v, m)'
    BY DEF Has
  <2>2. thread[m].conv = talkPage[v].conv /\ Free(v, m)
    OBVIOUS
  <2>3. QED
    BY <2>1, <2>2 DEF Tells
<1>2. Once(v)'
  BY DEF Once
<1>3. Events(v)'
  <2>1. \A i, j \in DOMAIN socket'[v].inbox :
          socket'[v].inbox[i] = socket'[v].inbox[j] => i = j
    BY DEF Events
  <2>2. \A m \in 1 .. Len(thread') : Talk!Unsaid(m)' => ~On(socket'[v].inbox, m)
    BY DEF Events
  <2>3. \A m \in 1 .. Len(thread') :
          /\ On(talkPage'[v].view, m) /\ thread'[m].from # v
          /\ Talk!Unsaid(m)' \/ On(socket'[v].inbox, m)
          => m \in crossed'[v]
    BY DEF Events
  <2>4. QED
    BY <2>1, <2>2, <2>3 DEF Events
<1>4. QED
  BY <1>1, <1>2, <1>3

\* What is known of one person's parts.
LEMMA PartsOf ==
  ASSUME TalkShape, NEW u \in People
  PROVE  /\ Len(thread) \in Nat /\ DOMAIN thread = 1 .. Len(thread)
         /\ post[u] \in Sending /\ talkPage[u] \in Page(Len(thread))
         /\ reply[u] \in Reply(Len(thread)) /\ older[u] \in Reply(Len(thread))
         /\ socket[u] \in Connection(Len(thread))
BY LenProperties DEF TalkShape

\* The invariant of the pages holds to begin with.
LEMMA PagesInitially == Talk!Init => PagesInv
<1> SUFFICES ASSUME Talk!Init
             PROVE  PagesInv
  OBVIOUS
<1>1. /\ post = [u \in People |-> Talk!NoPost] /\ talkPage = [u \in People |-> Talk!NoPage]
      /\ reply = [u \in People |-> Talk!NoReply] /\ older = [u \in People |-> Talk!NoReply]
      /\ socket = [u \in People |-> Talk!Offline]
      /\ talkMissed = [u \in People |-> {}] /\ crossed = [u \in People |-> {}]
  BY DEF Talk!Init
<1>2. thread \in Seq(Message)
  <2>1. CASE thread = <<>>
    BY <2>1
  <2>2. ASSUME NEW c \in Convs, NEW u \in People,
               thread = <<[conv |-> c, from |-> u, read |-> FALSE]>>
        PROVE  thread \in Seq(Message)
    <3>1. [conv |-> c, from |-> u, read |-> FALSE] \in Message
      BY DEF Message
    <3>2. QED
      BY <2>2, <3>1
  <2>3. QED
    BY <2>1, <2>2 DEF Talk!Init
<1>3. Len(thread) \in Nat
  BY <1>2, LenProperties
<1>4. TalkShape
  BY <1>1, <1>2, <1>3, NothingYet, NothingHeard, NothingAnswered, NothingWritten
     DEF TalkShape
<1>5. ASSUME NEW u \in People
      PROVE  Tells(u) /\ Once(u) /\ Events(u)
  <2>1. /\ talkPage[u].ready = FALSE /\ Len(talkPage[u].view) = 0
        /\ Len(socket[u].inbox) = 0 /\ reply[u].state = "none" /\ older[u].state = "none"
    BY <1>1, NothingYet, NothingHeard, NothingAnswered
  <2>2. /\ DOMAIN talkPage[u].view = {} /\ \A m : ~On(talkPage[u].view, m)
        /\ DOMAIN socket[u].inbox = {} /\ \A m : ~On(socket[u].inbox, m)
    <3>1. talkPage[u].view \in Seq(0 .. Len(thread)) /\ socket[u].inbox \in Seq(1 .. Len(thread))
      BY <1>4, PartsOf DEF Page, Connection
    <3>2. QED
      BY <2>1, <3>1, NobodyThere
  <2>3. QED
    BY <2>1, <2>2 DEF Tells, Once, Events
<1>6. QED
  BY <1>4, <1>5 DEF PagesInv

\* A step that hears and says nothing.
LEMMA PagesAtRest ==
  ASSUME PagesInv,
         UNCHANGED <<thread, post, talkPage, reply, older, talkMissed, crossed>>,
         socket' \in [People -> Connection(Len(thread))],
         \A v \in People : socket'[v].inbox = socket[v].inbox,
         \A v \in People : socket'[v].up \/ Len(socket'[v].inbox) = 0
  PROVE  PagesInv'
<1>1. TalkShape'
  BY DEF PagesInv, TalkShape
<1>2. ASSUME NEW v \in People
      PROVE  Tells(v)' /\ Once(v)' /\ Events(v)'
  <2>1. \A m : (Free(v, m)' <=> Free(v, m)) /\ (Talk!Unsaid(m)' <=> Talk!Unsaid(m))
    BY DEF Free, Talk!Unsaid
  <2>2. QED
    BY <2>1, Elsewhere DEF PagesInv
<1>3. QED
  BY <1>1, <1>2 DEF PagesInv

\* A step in which one person asks or opens; what the others have stays.
LEMMA OthersStay ==
  ASSUME TalkShape, NEW u \in People, NEW v \in People, v # u,
         Tells(v), Once(v), Events(v),
         UNCHANGED <<thread, post>>,
         talkPage'[v] = talkPage[v], reply'[v] = reply[v], older'[v] = older[v],
         socket'[v] = socket[v], talkMissed'[v] = talkMissed[v], crossed'[v] = crossed[v]
  PROVE  Tells(v)' /\ Once(v)' /\ Events(v)'
<1>1. \A m : (Free(v, m)' <=> Free(v, m)) /\ (Talk!Unsaid(m)' <=> Talk!Unsaid(m))
  BY DEF Free, Talk!Unsaid
<1>2. QED
  BY <1>1, Elsewhere

\* The page opens with what it remembers, and may ask for it again.
LEMMA ReopensStays ==
  ASSUME PagesInv, NEW u \in People,
         talkPage' = [talkPage EXCEPT ![u].on = TRUE],
         \/ UNCHANGED reply
         \/ reply' = [reply EXCEPT ![u] = IF @ = Talk!NoReply THEN Talk!Asked ELSE @],
         UNCHANGED <<thread, post, older, socket, talkMissed, crossed>>
  PROVE  PagesInv'
<1>1. TalkShape /\ Len(thread) \in Nat /\ talkPage[u] \in Page(Len(thread))
  BY PartsOf DEF PagesInv
<1>2. PICK p : p = [talkPage[u] EXCEPT !.on = TRUE]
  OBVIOUS
<1>3. /\ p \in Page(Len(thread)) /\ p.conv = talkPage[u].conv /\ p.ready = talkPage[u].ready
      /\ p.view = talkPage[u].view /\ p.cursor = talkPage[u].cursor
  BY <1>1, <1>2 DEF Page
<1>4. talkPage' = [talkPage EXCEPT ![u] = p]
  BY <1>1, <1>2 DEF TalkShape
<1>5. PICK a \in Reply(Len(thread)) :
        /\ reply' = [reply EXCEPT ![u] = a]
        /\ a = reply[u] \/ a.state = "asked"
  <2>1. reply = [reply EXCEPT ![u] = reply[u]] /\ reply[u] \in Reply(Len(thread))
    BY <1>1 DEF TalkShape
  <2>2. Talk!Asked \in Reply(Len(thread)) /\ Talk!Asked.state = "asked"
    BY <1>1, AskedAgain
  <2>3. \/ reply' = [reply EXCEPT ![u] = reply[u]]
        \/ reply' = [reply EXCEPT ![u] = Talk!Asked]
    BY <1>1, <2>1 DEF TalkShape
  <2>4. QED
    BY <2>1, <2>2, <2>3
<1>6. TalkShape'
  <2>1. /\ talkPage' \in [People -> Page(Len(thread))]
        /\ reply' \in [People -> Reply(Len(thread))]
    BY <1>1, <1>3, <1>4, <1>5 DEF TalkShape
  <2>2. \A v \in People : older'[v].state = "read" => talkPage'[v].ready
    BY <1>1, <1>3, <1>4 DEF TalkShape
  <2>3. QED
    BY <1>1, <2>1, <2>2 DEF TalkShape
<1>7. Tells(u)' /\ Once(u)' /\ Events(u)'
  <2>1. /\ talkPage'[u].conv = talkPage[u].conv /\ talkPage'[u].ready = talkPage[u].ready
        /\ talkPage'[u].view = talkPage[u].view /\ talkPage'[u].cursor = talkPage[u].cursor
        /\ reply'[u] = reply[u] \/ reply'[u].state = "asked"
    BY <1>1, <1>3, <1>4, <1>5 DEF TalkShape
  <2>2. \A m : /\ Free(u, m)' <=> Free(u, m)
               /\ Has(u, m)' <=> Has(u, m)
               /\ Talk!Unsaid(m)' <=> Talk!Unsaid(m)
    BY <2>1 DEF Free, Has, Talk!Unsaid
  <2>3. Tells(u)'
    BY <2>1, <2>2 DEF PagesInv, Tells
  <2>4. Once(u)'
    BY <2>1 DEF PagesInv, Once
  <2>5. Events(u)'
    BY <2>1, <2>2 DEF PagesInv, Events
  <2>6. QED
    BY <2>3, <2>4, <2>5
<1>8. ASSUME NEW v \in People, v # u
      PROVE  Tells(v)' /\ Once(v)' /\ Events(v)'
  BY <1>1, <1>4, <1>5, <1>8, OthersStay DEF PagesInv, TalkShape
<1>9. QED
  BY <1>6, <1>7, <1>8 DEF PagesInv

\* The page opens, with nothing or with what it remembers.
LEMMA PageOpensStays ==
  ASSUME PagesInv, NEW u \in People, NEW c \in Convs, Talk!PageOpens(u, c)
  PROVE  PagesInv'
<1>1. CASE /\ talkPage' = [talkPage EXCEPT ![u] = [Talk!NoPage EXCEPT !.conv = c, !.on = TRUE]]
           /\ reply' = [reply EXCEPT ![u] = Talk!Asked]
           /\ older' = [older EXCEPT ![u] = Talk!NoReply]
           /\ talkMissed' = [talkMissed EXCEPT ![u] = {}]
           /\ crossed' = [crossed EXCEPT ![u] = {}]
           /\ UNCHANGED <<thread, post, socket>>
  <2>1. TalkShape /\ Len(thread) \in Nat
    BY PartsOf DEF PagesInv
  <2>2. PICK p : p = [Talk!NoPage EXCEPT !.conv = c, !.on = TRUE]
    OBVIOUS
  <2>3. p \in Page(Len(thread)) /\ p.ready = FALSE /\ Len(p.view) = 0
    BY <2>1, <2>2, NothingYet DEF Page
  <2>4. TalkShape'
    <3>1. talkPage' \in [People -> Page(Len(thread))]
      BY <1>1, <2>1, <2>2, <2>3 DEF TalkShape
    <3>2. reply' \in [People -> Reply(Len(thread))] /\ older' \in [People -> Reply(Len(thread))]
      BY <1>1, <2>1, AskedAgain, NothingAnswered DEF TalkShape
    <3>3. talkMissed' \in [People -> SUBSET Nat] /\ crossed' \in [People -> SUBSET Nat]
      BY <1>1, <2>1 DEF TalkShape
    <3>4. \A v \in People : older'[v].state = "read" => talkPage'[v].ready
      BY <1>1, <2>1, NothingAnswered DEF TalkShape
    <3>5. QED
      BY <1>1, <2>1, <3>1, <3>2, <3>3, <3>4 DEF TalkShape
  <2>5. Tells(u)' /\ Once(u)' /\ Events(u)'
    <3>1. /\ talkPage'[u].ready = FALSE /\ Len(talkPage'[u].view) = 0
          /\ reply'[u].state = "asked" /\ older'[u].state = "none"
      BY <1>1, <2>1, <2>2, <2>3, AskedAgain, NothingAnswered DEF TalkShape
    <3>2. talkPage'[u].view \in Seq(0 .. Len(thread'))
      BY <2>4, PartsOf DEF TalkShape, Page
    <3>3. DOMAIN talkPage'[u].view = {} /\ \A m : ~On(talkPage'[u].view, m)
      BY <3>1, <3>2, NobodyThere
    <3>4. Tells(u)'
      BY <3>1 DEF Tells
    <3>5. Once(u)'
      BY <3>3 DEF Once
    <3>6. Events(u) /\ \A m : Talk!Unsaid(m)' <=> Talk!Unsaid(m)
      BY <1>1 DEF PagesInv, Talk!Unsaid
    <3>7. Events(u)'
      BY <1>1, <3>3, <3>6 DEF Events
    <3>8. QED
      BY <3>4, <3>5, <3>7
  <2>6. ASSUME NEW v \in People, v # u
        PROVE  Tells(v)' /\ Once(v)' /\ Events(v)'
    BY <1>1, <2>1, <2>6, OthersStay DEF PagesInv, TalkShape
  <2>7. QED
    BY <2>4, <2>5, <2>6 DEF PagesInv
<1>2. CASE /\ talkPage' = [talkPage EXCEPT ![u].on = TRUE]
           /\ \/ UNCHANGED reply
              \/ reply' = [reply EXCEPT ![u] = IF @ = Talk!NoReply THEN Talk!Asked ELSE @]
           /\ UNCHANGED <<thread, post, older, socket, talkMissed, crossed>>
  BY <1>2, ReopensStays
<1>3. QED
  BY <1>1, <1>2 DEF Talk!PageOpens

\* The query is asked, or fails.
LEMMA AskingStays ==
  ASSUME PagesInv, NEW u \in People, Talk!Refetch(u) \/ Talk!QueryFails(u)
  PROVE  PagesInv'
<1>1. PICK a : a = IF Talk!Refetch(u) THEN Talk!Asked ELSE Talk!NoReply
  OBVIOUS
<1>2. /\ reply' = [reply EXCEPT ![u] = a]
      /\ UNCHANGED <<thread, post, talkPage, older, socket, talkMissed, crossed>>
  BY <1>1 DEF Talk!Refetch, Talk!QueryFails, Talk!history
<1>3. TalkShape /\ Len(thread) \in Nat
  BY PartsOf DEF PagesInv
<1>4. a \in Reply(Len(thread)) /\ a.state # "read"
  BY <1>1, <1>3, NothingAnswered, AskedAgain
<1>5. TalkShape'
  BY <1>2, <1>3, <1>4 DEF TalkShape
<1>6. Tells(u)' /\ Once(u)' /\ Events(u)'
  <2>1. reply'[u].state # "read"
    BY <1>2, <1>3, <1>4 DEF TalkShape
  <2>2. \A m : /\ Free(u, m)' <=> Free(u, m)
               /\ Has(u, m)' <=> Has(u, m)
               /\ Talk!Unsaid(m)' <=> Talk!Unsaid(m)
    BY <1>2 DEF Free, Has, Talk!Unsaid
  <2>3. Tells(u)'
    BY <1>2, <2>1, <2>2 DEF PagesInv, Tells
  <2>4. Once(u)' /\ Events(u)'
    BY <1>2, <2>2 DEF PagesInv, Once, Events
  <2>5. QED
    BY <2>3, <2>4
<1>7. ASSUME NEW v \in People, v # u
      PROVE  Tells(v)' /\ Once(v)' /\ Events(v)'
  BY <1>2, <1>3, <1>7, OthersStay DEF PagesInv, TalkShape
<1>8. QED
  BY <1>5, <1>6, <1>7 DEF PagesInv

\* The messages of a conversation before one of them.
LEMMA MessagesOf ==
  ASSUME TalkShape, NEW c, NEW n \in Nat
  PROVE  /\ Talk!Of(c, n) \in SUBSET (1 .. Len(thread))
         /\ \A m \in 1 .. Len(thread) : m \in Talk!Of(c, n) <=> thread[m].conv = c /\ m < n
BY PartsOf DEF Talk!Of

\* The server reads the messages of the conversation.
LEMMA QueryReadStays ==
  ASSUME PagesInv, NEW u \in People, Talk!QueryRead(u)
  PROVE  PagesInv'
<1> DEFINE S == Talk!Of(talkPage[u].conv, Len(thread) + 1)
           ids == Talk!LastOf(S)
<1>1. /\ reply' = [reply EXCEPT ![u] = [state |-> "read", ids |-> ids]]
      /\ UNCHANGED <<thread, post, talkPage, older, socket, talkMissed, crossed>>
  BY DEF Talk!QueryRead, Talk!history
<1>2. TalkShape /\ Len(thread) \in Nat /\ Len(thread) + 1 \in Nat
  BY PartsOf DEF PagesInv
<1>3. /\ S \in SUBSET (1 .. Len(thread))
      /\ \A m \in 1 .. Len(thread) : thread[m].conv = talkPage[u].conv => m \in S
  BY <1>2, MessagesOf
<1> HIDE DEF S
<1>4. /\ ids \in SUBSET (1 .. Len(thread))
      /\ \A m \in S : m >= Talk!First(ids) => m \in ids
  BY <1>2, <1>3, LastReaches
<1> HIDE DEF ids
<1>5. TalkShape'
  <2>1. [state |-> "read", ids |-> ids] \in Reply(Len(thread))
    BY <1>4 DEF Reply
  <2>2. QED
    BY <1>1, <1>2, <2>1 DEF TalkShape
<1>6. Tells(u)' /\ Once(u)' /\ Events(u)'
  <2>1. reply'[u].ids = ids
    BY <1>1, <1>2 DEF TalkShape
  <2>2. \A m : /\ Free(u, m)' <=> Free(u, m)
               /\ Has(u, m)' <=> Has(u, m)
               /\ Talk!Unsaid(m)' <=> Talk!Unsaid(m)
    BY <1>1 DEF Free, Has, Talk!Unsaid
  <2>3. \A m \in 1 .. Len(thread') :
          thread'[m].conv = talkPage'[u].conv /\ m >= Talk!First(reply'[u].ids)
            => m \in reply'[u].ids
    BY <1>1, <1>3, <1>4, <2>1
  <2>4. Tells(u)'
    BY <1>1, <2>2, <2>3 DEF PagesInv, Tells
  <2>5. Once(u)' /\ Events(u)'
    BY <1>1, <2>2 DEF PagesInv, Once, Events
  <2>6. QED
    BY <2>4, <2>5
<1>7. ASSUME NEW v \in People, v # u
      PROVE  Tells(v)' /\ Once(v)' /\ Events(v)'
  BY <1>1, <1>2, <1>7, OthersStay DEF PagesInv, TalkShape
<1>8. QED
  BY <1>5, <1>6, <1>7 DEF PagesInv

\* The server reads the messages before the first on the page.
LEMMA OlderReadStays ==
  ASSUME PagesInv, NEW u \in People, Talk!OlderRead(u)
  PROVE  PagesInv'
<1> DEFINE S == Talk!Of(talkPage[u].conv, talkPage[u].cursor)
           ids == Talk!LastOf(S)
<1>1. /\ older' = [older EXCEPT ![u] = [state |-> "read", ids |-> ids]]
      /\ talkPage[u].ready
      /\ UNCHANGED <<thread, post, talkPage, reply, socket, talkMissed, crossed>>
  BY DEF Talk!OlderRead, Talk!history
<1>2. /\ TalkShape /\ Len(thread) \in Nat
      /\ talkPage[u].cursor \in 0 .. Len(thread) /\ talkPage[u].cursor \in Nat
  <2>1. TalkShape /\ Len(thread) \in Nat /\ talkPage[u].cursor \in 0 .. Len(thread)
    BY PartsOf DEF PagesInv, Page
  <2>2. QED
    BY <2>1
<1>3. /\ S \in SUBSET (1 .. Len(thread))
      /\ \A m \in 1 .. Len(thread) :
           m \in S <=> thread[m].conv = talkPage[u].conv /\ m < talkPage[u].cursor
  BY <1>2, MessagesOf
<1> HIDE DEF S
<1>4. /\ ids \in SUBSET (1 .. Len(thread)) /\ ids \in SUBSET S
      /\ \A m \in S : m >= Talk!First(ids) => m \in ids
  BY <1>2, <1>3, LastReaches
<1> HIDE DEF ids
<1>5. TalkShape'
  <2>1. [state |-> "read", ids |-> ids] \in Reply(Len(thread))
    BY <1>4 DEF Reply
  <2>2. QED
    BY <1>1, <1>2, <2>1 DEF TalkShape
<1>6. Tells(u)' /\ Once(u)' /\ Events(u)'
  <2>1. older'[u].ids = ids
    BY <1>1, <1>2 DEF TalkShape
  <2>2. \A m : /\ Free(u, m)' <=> Free(u, m)
               /\ Has(u, m)' <=> Has(u, m)
               /\ Talk!Unsaid(m)' <=> Talk!Unsaid(m)
    BY <1>1 DEF Free, Has, Talk!Unsaid
  <2>3. \A m \in 1 .. Len(thread') :
          thread'[m].conv = talkPage'[u].conv /\ m >= Talk!First(older'[u].ids)
            => m \in older'[u].ids \/ m >= talkPage'[u].cursor
    BY <1>1, <1>2, <1>3, <1>4, <2>1
  <2>4. Tells(u)'
    BY <1>1, <2>2, <2>3 DEF PagesInv, Tells
  <2>5. Events(u)'
    BY <1>1, <2>2 DEF PagesInv, Events
  <2>6. Once(u)'
    <3>1. On(talkPage[u].view, 0) /\ post[u].id # 0
            => \A m \in older'[u].ids : m < post[u].id
      <4> SUFFICES ASSUME On(talkPage[u].view, 0), post[u].id # 0, NEW m \in ids
                   PROVE  m < post[u].id
        BY <2>1
      <4>1. talkPage[u].cursor <= post[u].id
        BY DEF PagesInv, Once
      <4>2. m \in 1 .. Len(thread) /\ m < talkPage[u].cursor
        BY <1>3, <1>4
      <4>3. post[u].id \in Nat
        BY <1>2, PartsOf DEF Sending
      <4>4. QED
        BY <1>2, <4>1, <4>2, <4>3
    <3>2. QED
      BY <1>1, <3>1 DEF PagesInv, Once
  <2>7. QED
    BY <2>4, <2>5, <2>6
<1>7. ASSUME NEW v \in People, v # u
      PROVE  Tells(v)' /\ Once(v)' /\ Events(v)'
  BY <1>1, <1>2, <1>7, OthersStay DEF PagesInv, TalkShape
<1>8. QED
  BY <1>5, <1>6, <1>7 DEF PagesInv

\* Events that are still to come of messages that a reply brings.
LEMMA EarlyOnes ==
  ASSUME NEW u, NEW S, NEW m
  PROVE  m \in Talk!Early(u, S) <=>
           m \in S /\ thread[m].from # u /\ (Talk!Unsaid(m) \/ On(socket[u].inbox, m))
BY OnTheList DEF Talk!Early

\* A reply replaces what is on the page.
LEMMA QueryArrivesStays ==
  ASSUME PagesInv, NEW u \in People, Talk!QueryArrives(u)
  PROVE  PagesInv'
<1> DEFINE ids == reply[u].ids
           n == Len(thread)
<1>1. PICK p : p = [talkPage[u] EXCEPT !.ready = TRUE, !.view = Talk!Ascending(ids),
                                       !.cursor = Talk!First(ids)]
  OBVIOUS
<1>2. /\ reply[u].state = "read"
      /\ talkPage' = [talkPage EXCEPT ![u] = p]
      /\ reply' = [reply EXCEPT ![u] = Talk!NoReply]
      /\ talkMissed' = [talkMissed EXCEPT ![u] =
                          (@ \cup (Talk!ToSet(talkPage[u].view) \ {0})) \ ids]
      /\ crossed' = [crossed EXCEPT ![u] = @ \cup Talk!Early(u, ids)]
      /\ UNCHANGED <<thread, post, older, socket>>
  BY <1>1 DEF Talk!QueryArrives, Talk!Pending
<1>3. /\ TalkShape /\ n \in Nat /\ ids \in SUBSET (1 .. n)
      /\ talkPage[u] \in Page(n)
      /\ Tells(u) /\ Once(u) /\ Events(u)
  BY PartsOf DEF PagesInv, Reply
<1>4. /\ Talk!Ascending(ids) \in Seq(ids)
      /\ \A m : On(Talk!Ascending(ids), m) <=> m \in ids
      /\ \A i, j \in DOMAIN Talk!Ascending(ids) :
           Talk!Ascending(ids)[i] = Talk!Ascending(ids)[j] => i = j
  BY <1>3, ReplyLists
<1>5. Talk!First(ids) \in 0 .. n
  BY <1>3, FirstOfReply
<1>6. /\ p \in Page(n) /\ p.ready /\ p.conv = talkPage[u].conv
      /\ p.view = Talk!Ascending(ids) /\ p.cursor = Talk!First(ids)
  <2>1. \A m \in ids : m \in 0 .. n
    BY <1>3
  <2>2. Talk!Ascending(ids) \in Seq(0 .. n)
    BY <1>4, <2>1
  <2>3. QED
    BY <1>1, <1>3, <1>5, <2>2 DEF Page
<1> HIDE DEF ids, n
<1>7. /\ talkPage'[u] = p /\ reply'[u].state = "none"
      /\ \A m : m \in talkMissed'[u] <=>
                  (m \in talkMissed[u] \/ (On(talkPage[u].view, m) /\ m # 0)) /\ m \notin ids
      /\ \A m : m \in crossed'[u] <=> m \in crossed[u] \/ m \in Talk!Early(u, ids)
  BY <1>2, <1>3, NothingAnswered, OnTheList DEF TalkShape
<1>8. \A m : On(talkPage'[u].view, m) <=> m \in ids
  BY <1>4, <1>6, <1>7
<1>9. TalkShape'
  <2>1. talkPage' \in [People -> Page(n)] /\ reply' \in [People -> Reply(n)]
    BY <1>2, <1>3, <1>6, NothingAnswered DEF TalkShape, n
  <2>2. crossed' \in [People -> SUBSET Nat]
    <3>1. \A m \in Talk!Early(u, ids) : m \in ids
      BY EarlyOnes
    <3>2. ids \in SUBSET Nat
      BY <1>3
    <3>3. QED
      BY <1>2, <1>3, <3>1, <3>2 DEF TalkShape
  <2>3. talkMissed' \in [People -> SUBSET Nat]
    <3>1. Talk!ToSet(talkPage[u].view) \in SUBSET Nat
      <4>1. talkPage[u].view \in Seq(0 .. n)
        BY <1>3 DEF Page
      <4>2. \A k \in DOMAIN talkPage[u].view : talkPage[u].view[k] \in Nat
        BY <1>3, <4>1, LenProperties, ElementOfSeq
      <4>3. QED
        BY <4>2 DEF Talk!ToSet
    <3>2. QED
      BY <1>2, <1>3, <3>1 DEF TalkShape
  <2>4. \A v \in People : older'[v].state = "read" => talkPage'[v].ready
    BY <1>2, <1>3, <1>6, <1>7 DEF TalkShape
  <2>5. QED
    BY <1>2, <1>3, <2>1, <2>2, <2>3, <2>4 DEF TalkShape, n
<1>10. \A m : /\ Free(u, m)' <=> Free(u, m)
              /\ Talk!Unsaid(m)' <=> Talk!Unsaid(m)
  BY <1>2 DEF Free, Talk!Unsaid
<1>11. Tells(u)'
  <2> SUFFICES ASSUME NEW m \in 1 .. n, thread[m].conv = talkPage[u].conv, Free(u, m)
               PROVE  /\ m >= Talk!First(ids) => Has(u, m)'
                      /\ older[u].state = "read" /\ m >= Talk!First(older[u].ids)
                           => m \in older[u].ids \/ Has(u, m)'
    BY <1>2, <1>6, <1>7, <1>10 DEF Tells, n
  <2>1. m # 0
    OBVIOUS
  <2>2. Has(u, m) => Has(u, m)'
    BY <1>2, <1>7, <1>8, <2>1 DEF Has
  <2>3. m \in ids => Has(u, m)'
    BY <1>8 DEF Has
  <2>4. m >= Talk!First(ids) => m \in ids \/ Has(u, m)
    BY <1>2, <1>3 DEF Tells, ids, n
  <2>5. older[u].state = "read" /\ m >= Talk!First(older[u].ids)
          => m \in older[u].ids \/ Has(u, m)
    BY <1>3 DEF Tells, n
  <2>6. QED
    BY <2>2, <2>3, <2>4, <2>5
<1>12. Once(u)'
  <2>1. ~On(talkPage'[u].view, 0)
    BY <1>3, <1>8
  <2>2. QED
    BY <1>4, <1>6, <1>7, <2>1 DEF Once
<1>13. Events(u)'
  <2>1. ASSUME NEW m \in 1 .. n, On(talkPage'[u].view, m), thread[m].from # u,
               Talk!Unsaid(m) \/ On(socket[u].inbox, m)
        PROVE  m \in crossed'[u]
    BY <1>7, <1>8, <2>1, EarlyOnes
  <2>2. QED
    BY <1>2, <1>3, <1>10, <2>1 DEF Events, n
<1>14. ASSUME NEW v \in People, v # u
       PROVE  Tells(v)' /\ Once(v)' /\ Events(v)'
  BY <1>2, <1>3, <1>14, OthersStay DEF PagesInv, TalkShape
<1>15. QED
  BY <1>9, <1>11, <1>12, <1>13, <1>14 DEF PagesInv

\* Two lists, one after the other.
LEMMA JoinedLists ==
  ASSUME NEW S, NEW s \in Seq(S), NEW t \in Seq(S)
  PROVE  /\ s \o t \in Seq(S)
         /\ \A m : On(s \o t, m) <=> On(s, m) \/ On(t, m)
         /\ \A i \in DOMAIN (s \o t) :
              \/ i \in DOMAIN s /\ (s \o t)[i] = s[i]
              \/ i - Len(s) \in DOMAIN t /\ (s \o t)[i] = t[i - Len(s)]
<1>1. /\ Len(s) \in Nat /\ Len(t) \in Nat /\ DOMAIN s = 1 .. Len(s) /\ DOMAIN t = 1 .. Len(t)
  BY LenProperties
<1>2. /\ s \o t \in Seq(S) /\ Len(s \o t) = Len(s) + Len(t)
      /\ \A i \in 1 .. Len(s) + Len(t) :
           (s \o t)[i] = IF i <= Len(s) THEN s[i] ELSE t[i - Len(s)]
  BY ConcatProperties
<1>3. DOMAIN (s \o t) = 1 .. Len(s) + Len(t)
  BY <1>2, LenProperties
<1>4. ASSUME NEW i \in DOMAIN (s \o t)
      PROVE  \/ i \in DOMAIN s /\ (s \o t)[i] = s[i]
             \/ i - Len(s) \in DOMAIN t /\ (s \o t)[i] = t[i - Len(s)]
  BY <1>1, <1>2, <1>3
<1>5. ASSUME NEW m
      PROVE  On(s \o t, m) <=> On(s, m) \/ On(t, m)
  <2>1. On(s \o t, m) => On(s, m) \/ On(t, m)
    BY <1>4 DEF On
  <2>2. ASSUME NEW k \in DOMAIN s, s[k] = m
        PROVE  On(s \o t, m)
    BY <1>1, <1>2, <1>3, <2>2 DEF On
  <2>3. ASSUME NEW k \in DOMAIN t, t[k] = m
        PROVE  On(s \o t, m)
    <3>1. k + Len(s) \in 1 .. Len(s) + Len(t) /\ ~(k + Len(s) <= Len(s))
      BY <1>1
    <3>2. k + Len(s) - Len(s) = k
      BY <1>1
    <3>3. (s \o t)[k + Len(s)] = m
      BY <1>2, <2>3, <3>1, <3>2
    <3>4. QED
      BY <1>3, <3>1, <3>3 DEF On
  <2>4. QED
    BY <2>1, <2>2, <2>3 DEF On
<1>6. QED
  BY <1>2, <1>4, <1>5

\* Older messages are put in front.
LEMMA OlderArrivesStays ==
  ASSUME PagesInv, NEW u \in People, Talk!OlderArrives(u)
  PROVE  PagesInv'
<1> DEFINE ids == older[u].ids
           view == talkPage[u].view
           new == Talk!Ascending(ids \ Talk!ToSet(view))
           n == Len(thread)
<1>1. PICK p : p = [talkPage[u] EXCEPT !.view = new \o @, !.cursor = Talk!First(ids)]
  OBVIOUS
<1>2. /\ TalkShape /\ n \in Nat /\ ids \in SUBSET (1 .. n)
      /\ talkPage[u] \in Page(n) /\ view \in Seq(0 .. n)
      /\ Tells(u) /\ Once(u) /\ Events(u)
  BY PartsOf DEF PagesInv, Reply, Page
<1>3. /\ older[u].state = "read" /\ talkPage[u].ready
      /\ talkPage' = [talkPage EXCEPT ![u] = p]
      /\ older' = [older EXCEPT ![u] = Talk!NoReply]
      /\ talkMissed' = [talkMissed EXCEPT ![u] = @ \ ids]
      /\ crossed' = [crossed EXCEPT ![u] = @ \cup Talk!Early(u, ids)]
      /\ UNCHANGED <<thread, post, reply, socket>>
  BY <1>1, <1>2 DEF Talk!OlderArrives, TalkShape
<1>4. /\ new \in Seq(0 .. n)
      /\ \A m : On(new, m) <=> m \in ids /\ ~On(view, m)
      /\ \A i, j \in DOMAIN new : new[i] = new[j] => i = j
  <2> DEFINE S == ids \ Talk!ToSet(view)
  <2>1. S \in SUBSET (1 .. n) /\ \A m : m \in S <=> m \in ids /\ ~On(view, m)
    BY <1>2, OnTheList
  <2> HIDE DEF S
  <2>2. /\ Talk!Ascending(S) \in Seq(S)
        /\ \A m : On(Talk!Ascending(S), m) <=> m \in S
        /\ \A i, j \in DOMAIN Talk!Ascending(S) :
             Talk!Ascending(S)[i] = Talk!Ascending(S)[j] => i = j
    BY <1>2, <2>1, ReplyLists
  <2>3. \A m \in S : m \in 0 .. n
    BY <2>1
  <2>4. Talk!Ascending(S) \in Seq(0 .. n)
    BY <2>2, <2>3
  <2>5. QED
    BY <2>1, <2>2, <2>4 DEF S
<1>5. Talk!First(ids) \in 0 .. n
  BY <1>2, FirstOfReply
<1> HIDE DEF new
<1>6. /\ new \o view \in Seq(0 .. n)
      /\ \A m : On(new \o view, m) <=> m \in ids \/ On(view, m)
      /\ \A i \in DOMAIN (new \o view) :
           \/ i \in DOMAIN new /\ (new \o view)[i] = new[i]
           \/ i - Len(new) \in DOMAIN view /\ (new \o view)[i] = view[i - Len(new)]
  BY <1>2, <1>4, JoinedLists
<1>7. /\ p \in Page(n) /\ p.ready /\ p.conv = talkPage[u].conv
      /\ p.view = new \o view /\ p.cursor = Talk!First(ids)
  BY <1>1, <1>2, <1>3, <1>5, <1>6 DEF Page
<1> HIDE DEF ids, n, view
<1>8. /\ talkPage'[u] = p /\ older'[u].state = "none"
      /\ \A m : m \in talkMissed'[u] <=> m \in talkMissed[u] /\ m \notin ids
      /\ \A m : m \in crossed'[u] <=> m \in crossed[u] \/ m \in Talk!Early(u, ids)
  BY <1>2, <1>3, NothingAnswered DEF TalkShape
<1>9. TalkShape'
  <2>1. talkPage' \in [People -> Page(n)] /\ older' \in [People -> Reply(n)]
    BY <1>2, <1>3, <1>7, NothingAnswered DEF TalkShape, n
  <2>2. crossed' \in [People -> SUBSET Nat]
    <3>1. \A m \in Talk!Early(u, ids) : m \in ids
      BY EarlyOnes
    <3>2. ids \in SUBSET Nat
      BY <1>2
    <3>3. QED
      BY <1>2, <1>3, <3>1, <3>2 DEF TalkShape
  <2>3. talkMissed' \in [People -> SUBSET Nat]
    BY <1>2, <1>3 DEF TalkShape
  <2>4. \A v \in People : older'[v].state = "read" => talkPage'[v].ready
    BY <1>2, <1>3, <1>7, <1>8 DEF TalkShape
  <2>5. QED
    BY <1>2, <1>3, <2>1, <2>2, <2>3, <2>4 DEF TalkShape, n
<1>10. \A m : /\ Free(u, m)' <=> Free(u, m)
              /\ Talk!Unsaid(m)' <=> Talk!Unsaid(m)
  BY <1>3 DEF Free, Talk!Unsaid
<1>11. Tells(u)'
  <2> SUFFICES ASSUME NEW m \in 1 .. n, thread[m].conv = talkPage[u].conv, Free(u, m)
               PROVE  /\ m >= Talk!First(ids) => Has(u, m)'
                      /\ reply[u].state = "read" /\ m >= Talk!First(reply[u].ids)
                           => m \in reply[u].ids \/ Has(u, m)'
    BY <1>3, <1>7, <1>8, <1>10 DEF Tells, n
  <2>1. On(talkPage'[u].view, m) <=> m \in ids \/ On(talkPage[u].view, m)
    BY <1>6, <1>7, <1>8 DEF view
  <2>2. Has(u, m) \/ m \in ids => Has(u, m)'
    BY <1>3, <1>8, <2>1 DEF Has
  <2>3. m >= Talk!First(ids) => m \in ids \/ Has(u, m)
    BY <1>2, <1>3 DEF Tells, ids, n
  <2>4. reply[u].state = "read" /\ m >= Talk!First(reply[u].ids)
          => m \in reply[u].ids \/ Has(u, m)
    BY <1>2 DEF Tells, n
  <2>5. QED
    BY <2>2, <2>3, <2>4
<1>12. Once(u)'
  <2>1. ASSUME NEW i \in DOMAIN p.view, NEW j \in DOMAIN p.view, p.view[i] = p.view[j], i # j
        PROVE  p.view[i] # 0 /\ p.view[i] \in crossed'[u]
    <3>1. ASSUME NEW a \in DOMAIN new, NEW b \in DOMAIN view
          PROVE  new[a] # view[b]
      BY <1>4 DEF On
    <3>2. ASSUME NEW a \in DOMAIN view, NEW b \in DOMAIN view, view[a] = view[b], a # b
          PROVE  view[a] # 0 /\ view[a] \in crossed[u]
      BY <1>2, <3>2 DEF Once, view
    <3>3. Len(new) \in Nat /\ i \in Nat /\ j \in Nat
      BY <1>4, <1>6, <1>7, LenProperties
    <3>4. CASE i \in DOMAIN new /\ p.view[i] = new[i]
      <4>1. CASE j \in DOMAIN new /\ p.view[j] = new[j]
        BY <1>4, <2>1, <3>4, <4>1
      <4>2. CASE j - Len(new) \in DOMAIN view /\ p.view[j] = view[j - Len(new)]
        BY <2>1, <3>1, <3>4, <4>2
      <4>3. QED
        BY <1>6, <1>7, <4>1, <4>2
    <3>5. CASE i - Len(new) \in DOMAIN view /\ p.view[i] = view[i - Len(new)]
      <4>1. j - Len(new) \in DOMAIN view /\ p.view[j] = view[j - Len(new)]
        BY <1>6, <1>7, <2>1, <3>1, <3>5
      <4>2. i - Len(new) # j - Len(new)
        BY <2>1, <3>3
      <4>3. QED
        BY <1>8, <2>1, <3>2, <3>5, <4>1, <4>2
    <3>6. QED
      BY <1>6, <1>7, <3>4, <3>5
  <2>2. ASSUME On(talkPage'[u].view, 0)
        PROVE  On(view, 0)
    <3>1. 0 \notin ids
      BY <1>2
    <3>2. QED
      BY <1>6, <1>7, <1>8, <2>2, <3>1
  <2>3. ASSUME On(view, 0), post[u].id # 0
        PROVE  /\ ~On(talkPage'[u].view, post[u].id)
               /\ talkPage'[u].cursor <= post[u].id
    <3>1. ~On(view, post[u].id) /\ \A m \in ids : m < post[u].id
      BY <1>2, <1>3, <2>3 DEF Once, view, ids
    <3>2. post[u].id \in Nat
      BY <1>2, PartsOf DEF Sending
    <3>3. post[u].id \notin ids
      BY <1>2, <3>1, <3>2
    <3>4. Talk!First(ids) <= post[u].id
      <4>1. CASE ids = {}
        BY <3>2, <4>1 DEF Talk!First
      <4>2. CASE ids # {}
        <5>1. Talk!First(ids) \in ids /\ Talk!First(ids) \in 1 .. n
          BY <1>2, <4>2, FirstOfReply
        <5>2. QED
          BY <1>2, <3>1, <3>2, <5>1
      <4>3. QED
        BY <4>1, <4>2
    <3>5. QED
      BY <1>6, <1>7, <1>8, <3>1, <3>3, <3>4
  <2>4. On(view, 0) => post[u].pc # "idle"
    BY <1>2 DEF Once, view
  <2>5. /\ talkPage'[u].view = p.view /\ post'[u] = post[u]
        /\ older'[u].state # "read"
    BY <1>3, <1>8
  <2>6. \A i, j \in DOMAIN talkPage'[u].view :
          talkPage'[u].view[i] = talkPage'[u].view[j] /\ i # j
            => talkPage'[u].view[i] # 0 /\ talkPage'[u].view[i] \in crossed'[u]
    BY <2>1, <2>5
  <2>7. QED
    BY <2>2, <2>3, <2>4, <2>5, <2>6 DEF Once
<1>13. Events(u)'
  <2>1. ASSUME NEW m \in 1 .. n, On(talkPage'[u].view, m), thread[m].from # u,
               Talk!Unsaid(m) \/ On(socket[u].inbox, m)
        PROVE  m \in crossed'[u]
    <3>1. m \in ids \/ On(talkPage[u].view, m)
      BY <1>6, <1>7, <1>8, <2>1 DEF view
    <3>2. On(talkPage[u].view, m) => m \in crossed[u]
      BY <1>2, <2>1 DEF Events, n
    <3>3. QED
      BY <1>8, <2>1, <3>1, <3>2, EarlyOnes
  <2>2. QED
    BY <1>2, <1>3, <1>10, <2>1 DEF Events, n
<1>14. ASSUME NEW v \in People, v # u
       PROVE  Tells(v)' /\ Once(v)' /\ Events(v)'
  BY <1>2, <1>3, <1>14, OthersStay DEF PagesInv, TalkShape
<1>15. QED
  BY <1>9, <1>11, <1>12, <1>13, <1>14 DEF PagesInv

\* The messages of the other are marked as read.
LEMMA MarkReadStays ==
  ASSUME PagesInv, NEW u \in People, Talk!MarkRead(u)
  PROVE  PagesInv'
<1>1. /\ thread' = [i \in DOMAIN thread |->
                      IF thread[i].conv = talkPage[u].conv /\ thread[i].from # u
                        THEN [thread[i] EXCEPT !.read = TRUE] ELSE thread[i]]
      /\ socket' = [socket EXCEPT ![u].todo = @ \ {"read"}]
      /\ UNCHANGED <<post, talkPage, reply, older, talkMissed, crossed>>
  BY DEF Talk!MarkRead, Talk!history
<1>2. TalkShape /\ Len(thread) \in Nat /\ DOMAIN thread = 1 .. Len(thread)
  BY PartsOf DEF PagesInv
<1>3. \A m \in 1 .. Len(thread) : /\ thread'[m] \in Message
                                  /\ thread'[m].conv = thread[m].conv
                                  /\ thread'[m].from = thread[m].from
  <2> TAKE m \in 1 .. Len(thread)
  <2>1. thread[m] \in Message
    BY <1>2, ElementOfSeq DEF TalkShape
  <2>2. QED
    BY <1>1, <1>2, <2>1 DEF Message
<1>4. thread' \in Seq(Message) /\ Len(thread') = Len(thread)
  <2>1. thread' \in [1 .. Len(thread) -> Message]
    BY <1>1, <1>2, <1>3
  <2>2. thread' \in Seq(Message)
    BY <1>2, <2>1, SeqDef
  <2>3. QED
    BY <1>2, <2>1, <2>2, LenProperties
<1>5. socket' \in [People -> Connection(Len(thread))]
  BY <1>1, <1>2 DEF TalkShape, Connection
<1>6. \A v \in People : socket'[v].inbox = socket[v].inbox /\ socket'[v].up = socket[v].up
  BY <1>1, <1>2 DEF TalkShape, Connection
<1>7. TalkShape'
  <2>1. \A v \in People :
          IF post[v].pc \in {"emit", "answer"}
            THEN post[v].id \in 1 .. Len(thread) /\ thread'[post[v].id].from = v
            ELSE post[v].id = 0
    BY <1>2, <1>3 DEF TalkShape
  <2>2. QED
    BY <1>1, <1>2, <1>4, <1>5, <1>6, <2>1 DEF TalkShape
<1>8. ASSUME NEW v \in People
      PROVE  Tells(v)' /\ Once(v)' /\ Events(v)'
  <2>1. \A m : (Free(v, m)' <=> Free(v, m)) /\ (Talk!Unsaid(m)' <=> Talk!Unsaid(m))
    BY <1>1 DEF Free, Talk!Unsaid
  <2>2. QED
    BY <1>1, <1>3, <1>4, <1>6, <2>1, Elsewhere DEF PagesInv
<1>9. QED
  BY <1>7, <1>8 DEF PagesInv

\* The socket connects, joins the room or drops what it was to say.
LEMMA SocketTurnsStays ==
  ASSUME PagesInv, NEW u \in People,
         Talk!Connect(u) \/ Talk!Reconnect(u) \/ Talk!Join(u) \/ Talk!EventDropped(u)
  PROVE  PagesInv'
<1>1. TalkShape /\ Len(thread) \in Nat /\ socket[u] \in Connection(Len(thread))
  BY PartsOf DEF PagesInv
<1>2. UNCHANGED <<thread, post, talkPage, reply, older, talkMissed, crossed>>
  BY DEF Talk!Connect, Talk!Reconnect, Talk!Join, Talk!EventDropped, Talk!history
<1>3. \E s \in Connection(Len(thread)) :
        /\ socket' = [socket EXCEPT ![u] = s]
        /\ s.inbox = socket[u].inbox
        /\ s.up \/ Len(s.inbox) = 0
  <2>1. CASE Talk!Connect(u) \/ Talk!Reconnect(u)
    <3>1. PICK s : /\ socket' = [socket EXCEPT ![u] = s]
                   /\ \/ s = [Talk!Offline EXCEPT !.up = TRUE, !.todo = {"join", "read"}]
                      \/ s = [Talk!Offline EXCEPT !.up = TRUE]
      BY <2>1 DEF Talk!Connect, Talk!Reconnect
    <3>2. Talk!Offline \in Connection(Len(thread)) /\ Len(Talk!Offline.inbox) = 0
      BY <1>1, NothingHeard
    <3>3. /\ s \in Connection(Len(thread)) /\ s.up = TRUE
          /\ s.inbox = Talk!Offline.inbox
      BY <3>1, <3>2 DEF Connection
    <3>4. Len(socket[u].inbox) = 0
      BY <1>1, <2>1 DEF TalkShape, Talk!Connect, Talk!Reconnect
    <3>5. s.inbox = socket[u].inbox
      <4>1. /\ socket[u].inbox \in Seq(1 .. Len(thread))
            /\ s.inbox \in Seq(1 .. Len(thread)) /\ Len(s.inbox) = 0
        BY <1>1, <3>2, <3>3 DEF Connection
      <4>2. QED
        BY <3>4, <4>1, EmptySeq
    <3>6. QED
      BY <3>1, <3>3, <3>5
  <2>2. CASE Talk!Join(u)
    <3>1. PICK s : s = [socket[u] EXCEPT !.room = @ \/ talkPage[u].conv \in paired,
                                         !.todo = @ \ {"join"}]
      OBVIOUS
    <3>2. socket' = [socket EXCEPT ![u] = s]
      BY <1>1, <2>2, <3>1 DEF Talk!Join, TalkShape
    <3>3. s \in Connection(Len(thread)) /\ s.inbox = socket[u].inbox /\ s.up = socket[u].up
      BY <1>1, <3>1 DEF Connection
    <3>4. QED
      BY <1>1, <3>2, <3>3 DEF TalkShape
  <2>3. CASE Talk!EventDropped(u)
    <3>1. PICK e \in socket[u].todo : socket' = [socket EXCEPT ![u].todo = @ \ {e}]
      BY <2>3 DEF Talk!EventDropped
    <3>2. PICK s : s = [socket[u] EXCEPT !.todo = @ \ {e}]
      OBVIOUS
    <3>3. socket' = [socket EXCEPT ![u] = s]
      BY <1>1, <3>1, <3>2 DEF TalkShape
    <3>4. s \in Connection(Len(thread)) /\ s.inbox = socket[u].inbox /\ s.up = socket[u].up
      BY <1>1, <3>2 DEF Connection
    <3>5. QED
      BY <1>1, <3>3, <3>4 DEF TalkShape
  <2>4. QED
    BY <2>1, <2>2, <2>3
<1>4. QED
  BY <1>1, <1>2, <1>3, PagesAtRest DEF TalkShape

\* The connection ends, or the page that has it closes, and what was on the way is lost.
LEMMA DisconnectStays ==
  ASSUME PagesInv, NEW u \in People, Talk!Disconnect(u) \/ Talk!PageCloses(u)
  PROVE  PagesInv'
<1>1. /\ talkMissed' = [talkMissed EXCEPT ![u] = @ \cup Talk!ToSet(socket[u].inbox)]
      /\ socket' = [socket EXCEPT ![u] = Talk!Offline]
      /\ UNCHANGED <<thread, post, reply, older, crossed>>
      /\ talkPage' = talkPage \/ talkPage' = [talkPage EXCEPT ![u].on = FALSE]
  BY DEF Talk!Disconnect, Talk!PageCloses
<1>2. /\ TalkShape /\ Len(thread) \in Nat
      /\ socket[u] \in Connection(Len(thread)) /\ talkPage[u] \in Page(Len(thread))
  BY PartsOf DEF PagesInv
<1>3. \A m : m \in talkMissed'[u] <=> m \in talkMissed[u] \/ On(socket[u].inbox, m)
  BY <1>1, <1>2, OnTheList DEF TalkShape
<1>4. PICK p \in Page(Len(thread)) :
        /\ talkPage' = [talkPage EXCEPT ![u] = p]
        /\ p.conv = talkPage[u].conv /\ p.ready = talkPage[u].ready
        /\ p.view = talkPage[u].view /\ p.cursor = talkPage[u].cursor
  <2>1. PICK q : q = [talkPage[u] EXCEPT !.on = FALSE]
    OBVIOUS
  <2>2. /\ q \in Page(Len(thread)) /\ q.conv = talkPage[u].conv
        /\ q.ready = talkPage[u].ready
        /\ q.view = talkPage[u].view /\ q.cursor = talkPage[u].cursor
    BY <1>2, <2>1 DEF Page
  <2>3. \/ talkPage' = [talkPage EXCEPT ![u] = talkPage[u]]
        \/ talkPage' = [talkPage EXCEPT ![u] = q]
    BY <1>1, <1>2, <2>1 DEF TalkShape
  <2>4. QED
    BY <1>2, <2>2, <2>3
<1>5. TalkShape'
  <2>1. talkMissed' \in [People -> SUBSET Nat]
    <3>1. socket[u].inbox \in Seq(1 .. Len(thread))
      BY <1>2 DEF Connection
    <3>2. \A k \in DOMAIN socket[u].inbox : socket[u].inbox[k] \in Nat
      BY <1>2, <3>1, LenProperties, ElementOfSeq
    <3>3. Talk!ToSet(socket[u].inbox) \in SUBSET Nat
      BY <3>2 DEF Talk!ToSet
    <3>4. QED
      BY <1>1, <1>2, <3>3 DEF TalkShape
  <2>2. /\ socket' \in [People -> Connection(Len(thread))]
        /\ \A v \in People : socket'[v].up \/ Len(socket'[v].inbox) = 0
    BY <1>1, <1>2, NothingHeard DEF TalkShape
  <2>3. /\ talkPage' \in [People -> Page(Len(thread))]
        /\ \A v \in People : older'[v].state = "read" => talkPage'[v].ready
    BY <1>1, <1>2, <1>4 DEF TalkShape
  <2>4. QED
    BY <1>1, <1>2, <2>1, <2>2, <2>3 DEF TalkShape
<1>6. \A m : /\ Free(u, m)' <=> Free(u, m)
             /\ Talk!Unsaid(m)' <=> Talk!Unsaid(m)
  BY <1>1 DEF Free, Talk!Unsaid
<1>7. DOMAIN socket'[u].inbox = {} /\ \A m : ~On(socket'[u].inbox, m)
  <2>1. socket'[u].inbox \in Seq(1 .. Len(thread)) /\ Len(socket'[u].inbox) = 0
    BY <1>1, <1>2, NothingHeard DEF TalkShape, Connection
  <2>2. QED
    BY <2>1, NobodyThere
<1>8. /\ talkPage'[u].conv = talkPage[u].conv /\ talkPage'[u].ready = talkPage[u].ready
      /\ talkPage'[u].view = talkPage[u].view /\ talkPage'[u].cursor = talkPage[u].cursor
  BY <1>2, <1>4 DEF TalkShape
<1>9. \A m : Has(u, m) => Has(u, m)'
  BY <1>3, <1>8 DEF Has
<1>10. Tells(u)'
  BY <1>1, <1>6, <1>8, <1>9 DEF PagesInv, Tells
<1>11. Once(u)'
  BY <1>1, <1>8 DEF PagesInv, Once
<1>12. Events(u)'
  BY <1>1, <1>6, <1>7, <1>8 DEF PagesInv, Events
<1>13. ASSUME NEW v \in People, v # u
       PROVE  Tells(v)' /\ Once(v)' /\ Events(v)'
  BY <1>1, <1>2, <1>4, <1>13, OthersStay DEF PagesInv, TalkShape
<1>14. QED
  BY <1>5, <1>10, <1>11, <1>12, <1>13 DEF PagesInv

\* The first of a list, and the rest.
LEMMA FirstAndRest ==
  ASSUME NEW S, NEW s \in Seq(S), s # << >>
  PROVE  /\ Head(s) \in S /\ Tail(s) \in Seq(S)
         /\ \A m : On(s, m) <=> m = Head(s) \/ On(Tail(s), m)
         /\ 1 \in DOMAIN s /\ s[1] = Head(s)
         /\ \A k \in DOMAIN Tail(s) :
              k \in Int /\ k + 1 \in DOMAIN s /\ k + 1 # 1 /\ Tail(s)[k] = s[k + 1]
<1>1. Len(s) \in Nat /\ DOMAIN s = 1 .. Len(s) /\ Len(s) # 0
  BY LenProperties, EmptySeq
<1>2. /\ Head(s) = s[1] /\ Head(s) \in S /\ Tail(s) \in Seq(S) /\ Len(Tail(s)) = Len(s) - 1
      /\ \A k \in 1 .. Len(s) - 1 : Tail(s)[k] = s[k + 1]
  BY <1>1, HeadTailProperties, ElementOfSeq
<1>3. DOMAIN Tail(s) = 1 .. Len(s) - 1
  BY <1>1, <1>2, LenProperties
<1>4. \A k \in DOMAIN Tail(s) :
        k \in Int /\ k + 1 \in DOMAIN s /\ k + 1 # 1 /\ Tail(s)[k] = s[k + 1]
  BY <1>1, <1>2, <1>3
<1>5. 1 \in DOMAIN s
  BY <1>1
<1>6. ASSUME NEW m
      PROVE  On(s, m) <=> m = Head(s) \/ On(Tail(s), m)
  <2>1. ASSUME NEW k \in DOMAIN s, s[k] = m, k # 1
        PROVE  On(Tail(s), m)
    <3>1. k - 1 \in 1 .. Len(s) - 1 /\ k - 1 + 1 = k
      BY <1>1, <2>1
    <3>2. QED
      BY <1>2, <1>3, <2>1, <3>1 DEF On
  <2>2. On(Tail(s), m) => On(s, m)
    BY <1>4 DEF On
  <2>3. QED
    BY <1>2, <1>5, <2>1, <2>2 DEF On
<1>7. QED
  BY <1>2, <1>4, <1>5, <1>6

\* One more at the end of a list.
LEMMA OneMore ==
  ASSUME NEW S, NEW s \in Seq(S), NEW m \in S
  PROVE  /\ Append(s, m) \in Seq(S)
         /\ \A x : On(Append(s, m), x) <=> On(s, x) \/ x = m
         /\ \A i \in DOMAIN Append(s, m) :
              \/ i \in DOMAIN s /\ Append(s, m)[i] = s[i]
              \/ i = Len(s) + 1 /\ Append(s, m)[i] = m
<1>1. Len(s) \in Nat /\ DOMAIN s = 1 .. Len(s)
  BY LenProperties
<1>2. /\ Append(s, m) \in Seq(S) /\ Len(Append(s, m)) = Len(s) + 1
      /\ \A i \in 1 .. Len(s) : Append(s, m)[i] = s[i]
      /\ Append(s, m)[Len(s) + 1] = m
  BY AppendProperties
<1>3. DOMAIN Append(s, m) = 1 .. Len(s) + 1
  BY <1>2, LenProperties
<1>4. Len(s) + 1 \in DOMAIN Append(s, m)
  BY <1>1, <1>3
<1>5. \A i \in DOMAIN Append(s, m) :
        \/ i \in DOMAIN s /\ Append(s, m)[i] = s[i]
        \/ i = Len(s) + 1 /\ Append(s, m)[i] = m
  BY <1>1, <1>2, <1>3
<1>6. \A i \in DOMAIN s : i \in DOMAIN Append(s, m) /\ Append(s, m)[i] = s[i]
  BY <1>1, <1>2, <1>3
<1>7. \A x : On(Append(s, m), x) <=> On(s, x) \/ x = m
  BY <1>2, <1>4, <1>5, <1>6 DEF On
<1>8. QED
  BY <1>2, <1>5, <1>7

\* An event comes: the message is appended, or dropped, or there is no page for it yet.
LEMMA HearStays ==
  ASSUME PagesInv, NEW u \in People, Talk!Hear(u)
  PROVE  PagesInv'
<1> DEFINE n == Len(thread)
           box == socket[u].inbox
           m == Head(box)
           view == talkPage[u].view
<1>1. /\ TalkShape /\ n \in Nat /\ n = Len(thread)
      /\ talkPage[u] \in Page(n) /\ socket[u] \in Connection(n)
      /\ Tells(u) /\ Once(u) /\ Events(u)
  BY PartsOf DEF PagesInv
<1>2. /\ view \in Seq(0 .. n) /\ box \in Seq(1 .. n) /\ box # << >>
      /\ UNCHANGED <<thread, post, reply, older, crossed>>
  BY <1>1 DEF Talk!Hear, Page, Connection
<1>3. /\ m \in 1 .. n /\ Tail(box) \in Seq(1 .. n)
      /\ \A x : On(box, x) <=> x = m \/ On(Tail(box), x)
      /\ 1 \in DOMAIN box /\ box[1] = m
      /\ \A k \in DOMAIN Tail(box) :
           /\ k \in Int /\ k + 1 \in DOMAIN box /\ k + 1 # 1
           /\ Tail(box)[k] = box[k + 1]
  BY <1>2, FirstAndRest
<1>4. PICK s \in Connection(n) :
        /\ socket' = [socket EXCEPT ![u] = s]
        /\ s.inbox = Tail(box) /\ s.up = socket[u].up
  <2>1. PICK s : s = IF thread[m].from = u
                       THEN [socket[u] EXCEPT !.inbox = Tail(@)]
                       ELSE [socket[u] EXCEPT !.inbox = Tail(@), !.todo = @ \cup {"read"}]
    OBVIOUS
  <2>2. socket' = [socket EXCEPT ![u] = s]
    BY <1>1, <2>1 DEF Talk!Hear, TalkShape
  <2>3. s \in Connection(n) /\ s.inbox = Tail(box) /\ s.up = socket[u].up
    BY <1>1, <1>3, <2>1 DEF Connection
  <2>4. QED
    BY <2>2, <2>3
<1>5. \/ /\ thread[m].from = u
         /\ UNCHANGED <<talkPage, talkMissed>>
      \/ /\ thread[m].from # u /\ talkPage[u].ready
         /\ talkPage' = [talkPage EXCEPT ![u].view = Append(@, m)]
         /\ UNCHANGED talkMissed
      \/ /\ thread[m].from # u /\ ~talkPage[u].ready
         /\ talkMissed' = [talkMissed EXCEPT ![u] = @ \cup {m}]
         /\ UNCHANGED talkPage
  BY DEF Talk!Hear
<1>6. PICK p : p = [talkPage[u] EXCEPT !.view = Append(@, m)]
  OBVIOUS
<1>7. /\ p \in Page(n) /\ p.view = Append(view, m) /\ p.conv = talkPage[u].conv
      /\ p.ready = talkPage[u].ready /\ p.cursor = talkPage[u].cursor
  <2>1. m \in 0 .. n
    BY <1>3
  <2>2. Append(view, m) \in Seq(0 .. n)
    BY <1>2, <2>1, OneMore
  <2>3. QED
    BY <1>1, <1>6, <2>2 DEF Page
<1>8. /\ \A x : On(p.view, x) <=> On(view, x) \/ x = m
      /\ \A i \in DOMAIN p.view :
           \/ i \in DOMAIN view /\ p.view[i] = view[i]
           \/ i = Len(view) + 1 /\ p.view[i] = m
  <2>1. m \in 0 .. n
    BY <1>3
  <2>2. /\ \A x : On(Append(view, m), x) <=> On(view, x) \/ x = m
        /\ \A i \in DOMAIN Append(view, m) :
             \/ i \in DOMAIN view /\ Append(view, m)[i] = view[i]
             \/ i = Len(view) + 1 /\ Append(view, m)[i] = m
    <3> HIDE DEF n, box, m, view
    <3>1. view \in Seq(0 .. n)
      BY <1>2
    <3>2. QED
      BY <2>1, <3>1, OneMore
  <2> HIDE DEF m, view
  <2>3. QED
    BY <1>7, <2>2
<1> HIDE DEF n, box, m, view
<1>9. talkPage' = [talkPage EXCEPT ![u] = p] \/ UNCHANGED talkPage
  BY <1>1, <1>5, <1>6 DEF TalkShape
<1>10. TalkShape'
  <2>1. socket' \in [People -> Connection(n)] /\ socket'[u].up = socket[u].up
    BY <1>1, <1>4 DEF TalkShape
  <2>2. /\ talkPage' \in [People -> Page(n)]
        /\ \A v \in People : talkPage'[v].ready = talkPage[v].ready
    BY <1>1, <1>7, <1>9 DEF TalkShape
  <2>3. talkMissed' \in [People -> SUBSET Nat]
    BY <1>1, <1>3, <1>5 DEF TalkShape
  <2>4. \A v \in People : socket'[v].up \/ Len(socket'[v].inbox) = 0
    <3>1. Len(box) # 0
      BY <1>2, EmptySeq DEF box
    <3>2. socket[u].up
      BY <1>1, <3>1 DEF TalkShape, box
    <3>3. QED
      BY <1>1, <1>4, <3>2 DEF TalkShape
  <2>5. QED
    BY <1>1, <1>2, <2>1, <2>2, <2>3, <2>4 DEF TalkShape
<1>11. \A x : /\ Free(u, x)' <=> Free(u, x)
              /\ Talk!Unsaid(x)' <=> Talk!Unsaid(x)
  BY <1>2 DEF Free, Talk!Unsaid
<1>12. socket'[u].inbox = Tail(box)
  BY <1>1, <1>4 DEF TalkShape
<1>13. \A x : Has(u, x) => Has(u, x)'
  <2> SUFFICES ASSUME NEW x, Has(u, x)
               PROVE  Has(u, x)'
    OBVIOUS
  <2>1. CASE thread[m].from = u /\ UNCHANGED <<talkPage, talkMissed>>
    BY <1>2, <1>3, <1>12, <2>1 DEF Has, box
  <2>2. CASE talkPage' = [talkPage EXCEPT ![u] = p] /\ UNCHANGED talkMissed
    <3>1. talkPage'[u] = p
      BY <1>1, <2>2 DEF TalkShape
    <3>2. On(talkPage[u].view, x) \/ x = m => On(talkPage'[u].view, x)
      BY <1>8, <3>1 DEF view
    <3>3. QED
      BY <1>2, <1>3, <1>12, <2>2, <3>2 DEF Has, box
  <2>3. CASE talkMissed' = [talkMissed EXCEPT ![u] = @ \cup {m}] /\ UNCHANGED talkPage
    <3>1. x \in talkMissed[u] \/ x = m => x \in talkMissed'[u]
      BY <1>1, <2>3 DEF TalkShape
    <3>2. QED
      BY <1>2, <1>3, <1>12, <2>3, <3>1 DEF Has, box
  <2>4. QED
    BY <1>1, <1>5, <1>6, <2>1, <2>2, <2>3 DEF TalkShape
<1>14. /\ talkPage'[u].ready = talkPage[u].ready /\ talkPage'[u].conv = talkPage[u].conv
       /\ talkPage'[u].cursor = talkPage[u].cursor
  BY <1>1, <1>7, <1>9 DEF TalkShape
<1>15. Tells(u)'
  <2>1. \A x : Free(u, x)' => Free(u, x)
    BY <1>11
  <2>2. QED
    BY <1>1, <1>2, <1>13, <1>14, <2>1 DEF Tells
<1>16. thread[m].from # u => ~On(Tail(box), m) /\ (On(view, m) => m \in crossed[u])
  <2>1. \A i, j \in DOMAIN box : box[i] = box[j] => i = j
    BY <1>1 DEF Events, box
  <2>2. ~On(Tail(box), m)
    BY <1>3, <2>1 DEF On
  <2>3. QED
    BY <1>1, <1>3, <2>2 DEF Events, box, n, view
<1>17. Once(u)'
  <2>1. CASE UNCHANGED talkPage
    BY <1>1, <1>2, <2>1 DEF Once
  <2>2. CASE talkPage' = [talkPage EXCEPT ![u] = p] /\ thread[m].from # u
    <3>1. talkPage'[u] = p
      BY <1>1, <2>2 DEF TalkShape
    <3>2. ASSUME NEW i \in DOMAIN p.view, NEW j \in DOMAIN p.view, p.view[i] = p.view[j],
                 i # j
          PROVE  p.view[i] # 0 /\ p.view[i] \in crossed[u]
      <4>1. \A a, b \in DOMAIN view : view[a] = view[b] /\ a # b
                                        => view[a] # 0 /\ view[a] \in crossed[u]
        BY <1>1 DEF Once, view
      <4>2. \A a \in DOMAIN view : view[a] = m => m \in crossed[u]
        BY <1>16, <2>2 DEF On
      <4>3. m # 0
        BY <1>1, <1>3
      <4>4. QED
        BY <1>8, <3>2, <4>1, <4>2, <4>3
    <3>3. On(p.view, 0) => On(view, 0)
      BY <1>1, <1>3, <1>8
    <3>4. On(view, 0) /\ post[u].id # 0 => post[u].id # m
      <4>1. post[u].id # 0 => thread[post[u].id].from = u
        BY <1>1 DEF TalkShape
      <4>2. QED
        BY <2>2, <4>1
    <3>5. On(p.view, 0) /\ post[u].id # 0 => ~On(p.view, post[u].id)
      BY <1>1, <1>8, <3>3, <3>4 DEF Once, view
    <3>6. QED
      BY <1>1, <1>2, <1>14, <3>1, <3>2, <3>3, <3>5 DEF Once, view
  <2>3. QED
    BY <1>1, <1>5, <1>6, <2>1, <2>2 DEF TalkShape
<1>18. Events(u)'
  <2>1. \A i, j \in DOMAIN Tail(box) : Tail(box)[i] = Tail(box)[j] => i = j
    <3> SUFFICES ASSUME NEW i \in DOMAIN Tail(box), NEW j \in DOMAIN Tail(box),
                        Tail(box)[i] = Tail(box)[j]
                 PROVE  i = j
      OBVIOUS
    <3>1. i + 1 = j + 1
      BY <1>1, <1>3 DEF Events, box
    <3>2. QED
      BY <1>3, <3>1
  <2>2. \A x \in 1 .. n : Talk!Unsaid(x)' => ~On(Tail(box), x)
    BY <1>1, <1>3, <1>11 DEF Events, box, n
  <2>3. ASSUME NEW x \in 1 .. n, On(talkPage'[u].view, x), thread[x].from # u,
               Talk!Unsaid(x) \/ On(Tail(box), x)
        PROVE  x \in crossed[u]
    <3>1. On(view, x) => x \in crossed[u]
      BY <1>1, <1>3, <2>3 DEF Events, box, n, view
    <3>2. CASE x = m
      <4>1. ~On(Tail(box), m)
        BY <1>16, <2>3, <3>2
      <4>2. ~Talk!Unsaid(m)
        BY <1>1, <1>3 DEF Events, box, n
      <4>3. QED
        BY <2>3, <3>2, <4>1, <4>2
    <3>3. CASE x # m
      BY <1>1, <1>8, <1>9, <2>3, <3>1, <3>3 DEF TalkShape, view
    <3>4. QED
      BY <3>2, <3>3
  <2>4. QED
    BY <1>2, <1>11, <1>12, <2>1, <2>2, <2>3 DEF Events, n
<1>19. ASSUME NEW v \in People, v # u
       PROVE  Tells(v)' /\ Once(v)' /\ Events(v)'
  <2>1. /\ talkPage'[v] = talkPage[v] /\ talkMissed'[v] = talkMissed[v]
        /\ socket'[v] = socket[v]
    BY <1>1, <1>4, <1>5, <1>19 DEF TalkShape
  <2>2. QED
    BY <1>1, <1>2, <1>19, <2>1, OthersStay DEF PagesInv
<1>20. QED
  BY <1>10, <1>15, <1>17, <1>18, <1>19 DEF PagesInv

\* A message is on the page before it is sent.
LEMMA SendStays ==
  ASSUME PagesInv, NEW u \in People, Talk!Send(u)
  PROVE  PagesInv'
<1> DEFINE n == Len(thread)
           view == talkPage[u].view
<1>1. /\ TalkShape /\ n \in Nat /\ talkPage[u] \in Page(n) /\ view \in Seq(0 .. n)
      /\ Tells(u) /\ Once(u) /\ Events(u)
  BY PartsOf DEF PagesInv, Page
<1>2. PICK p : p = [talkPage[u] EXCEPT !.view = Append(@, 0)]
  OBVIOUS
<1>3. PICK q : q = [Talk!NoPost EXCEPT !.pc = "insert", !.conv = talkPage[u].conv]
  OBVIOUS
<1>4. /\ talkPage' = [talkPage EXCEPT ![u] = p] /\ post' = [post EXCEPT ![u] = q]
      /\ post[u] = Talk!NoPost
      /\ UNCHANGED <<thread, reply, older, socket, talkMissed, crossed>>
  BY <1>1, <1>2, <1>3 DEF Talk!Send, Talk!history, Talk!Pending, TalkShape
<1>5. /\ Append(view, 0) \in Seq(0 .. n)
      /\ \A x : On(Append(view, 0), x) <=> On(view, x) \/ x = 0
      /\ \A i \in DOMAIN Append(view, 0) :
           \/ i \in DOMAIN view /\ Append(view, 0)[i] = view[i]
           \/ i = Len(view) + 1 /\ Append(view, 0)[i] = 0
  <2>1. 0 \in 0 .. n
    BY <1>1
  <2> HIDE DEF n, view
  <2>2. QED
    BY <1>1, <2>1, OneMore
<1>6. /\ p \in Page(n) /\ p.view = Append(view, 0) /\ p.conv = talkPage[u].conv
      /\ p.ready = talkPage[u].ready /\ p.cursor = talkPage[u].cursor
  BY <1>1, <1>2, <1>5 DEF Page
<1>7. q \in Sending /\ q.id = 0 /\ q.pc = "insert"
  BY <1>1, <1>3, NothingWritten DEF Sending, Page
<1> HIDE DEF n, view
<1>8. talkPage'[u] = p /\ post'[u] = q /\ post[u].id = 0 /\ post[u].pc = "idle"
  BY <1>1, <1>4, NothingWritten DEF TalkShape
<1>9. TalkShape'
  BY <1>1, <1>4, <1>6, <1>7 DEF TalkShape, n
<1>10. \A v \in People : \A m \in 1 .. n : /\ Free(v, m)' <=> Free(v, m)
                                           /\ Talk!Unsaid(m)' <=> Talk!Unsaid(m)
  <2> TAKE v \in People
  <2> TAKE m \in 1 .. n
  <2>1. m # 0
    BY <1>1
  <2>2. \A w \in People : /\ post'[w].id = m <=> post[w].id = m
                          /\ post[w].id = m => post'[w].pc = post[w].pc
    BY <1>1, <1>4, <1>7, <1>8, <2>1 DEF TalkShape
  <2>3. QED
    BY <2>2 DEF Free, Talk!Unsaid
<1>11. Tells(u)'
  <2>1. \A m : Has(u, m) => Has(u, m)'
    BY <1>4, <1>5, <1>6, <1>8 DEF Has, view
  <2>2. QED
    BY <1>1, <1>4, <1>6, <1>8, <1>10, <2>1 DEF Tells, n
<1>12. Once(u)'
  <2>1. ~On(view, 0)
    BY <1>1, <1>8 DEF Once, view
  <2>2. \A i, j \in DOMAIN p.view :
          p.view[i] = p.view[j] /\ i # j => p.view[i] # 0 /\ p.view[i] \in crossed[u]
    <3> SUFFICES ASSUME NEW i \in DOMAIN p.view, NEW j \in DOMAIN p.view,
                        p.view[i] = p.view[j], i # j
                 PROVE  p.view[i] # 0 /\ p.view[i] \in crossed[u]
      OBVIOUS
    <3>1. \A k \in DOMAIN view : view[k] # 0
      BY <2>1 DEF On
    <3>2. \A a, b \in DOMAIN view :
            view[a] = view[b] /\ a # b => view[a] # 0 /\ view[a] \in crossed[u]
      BY <1>1 DEF Once, view
    <3>3. QED
      BY <1>5, <1>6, <3>1, <3>2
  <2>3. QED
    BY <1>4, <1>7, <1>8, <2>2 DEF Once
<1>13. Events(u)'
  <2>1. \A m \in 1 .. n : On(talkPage'[u].view, m) => On(talkPage[u].view, m)
    <3>1. \A m \in 1 .. n : m # 0
      BY <1>1
    <3>2. QED
      BY <1>5, <1>6, <1>8, <3>1 DEF view
  <2>2. QED
    BY <1>1, <1>4, <1>10, <2>1 DEF Events, n
<1>14. ASSUME NEW v \in People, v # u
       PROVE  Tells(v)' /\ Once(v)' /\ Events(v)'
  <2>1. /\ talkPage'[v] = talkPage[v] /\ post'[v] = post[v]
    BY <1>1, <1>4, <1>14 DEF TalkShape
  <2>2. QED
    BY <1>4, <1>10, <2>1, Elsewhere DEF PagesInv, n
<1>15. QED
  BY <1>9, <1>11, <1>12, <1>13, <1>14 DEF PagesInv

\* Larger bounds.
LEMMA MoreMessages ==
  ASSUME NEW n \in Nat
  PROVE  /\ Page(n) \subseteq Page(n + 1) /\ Reply(n) \subseteq Reply(n + 1)
         /\ Connection(n) \subseteq Connection(n + 1)
<1>1. 0 .. n \subseteq 0 .. n + 1 /\ 1 .. n \subseteq 1 .. n + 1
  OBVIOUS
<1>2. Seq(0 .. n) \subseteq Seq(0 .. n + 1) /\ Seq(1 .. n) \subseteq Seq(1 .. n + 1)
  BY <1>1
<1>3. QED
  BY <1>1, <1>2 DEF Page, Reply, Connection

\* What is on a list is one of what it is of.
LEMMA OnlyThese ==
  ASSUME NEW S, NEW s \in Seq(S), NEW m, On(s, m)
  PROVE  m \in S
BY LenProperties, ElementOfSeq DEF On

\* The row of the message is inserted: it is the last.
LEMMA InsertStays ==
  ASSUME PagesInv, NEW u \in People, Talk!PostInsert(u)
  PROVE  PagesInv'
<1> DEFINE n == Len(thread)
<1>1. /\ TalkShape /\ n \in Nat /\ DOMAIN thread = 1 .. n /\ post[u] \in Sending
  BY PartsOf DEF PagesInv
<1>2. PICK row : row = [conv |-> post[u].conv, from |-> u, read |-> FALSE]
  OBVIOUS
<1>3. row \in Message /\ row.from = u
  BY <1>1, <1>2 DEF Message, Sending
<1>4. PICK q : q = [post[u] EXCEPT !.pc = "emit", !.id = n + 1]
  OBVIOUS
<1>5. q \in Sending /\ q.pc = "emit" /\ q.id = n + 1
  <2>1. n + 1 \in Nat
    BY <1>1
  <2> HIDE DEF n
  <2>2. \A k \in Nat : [post[u] EXCEPT !.pc = "emit", !.id = k] \in Sending
    BY <1>1 DEF Sending
  <2>3. q.pc = "emit" /\ q.id = n + 1
    BY <1>1, <1>4 DEF Sending
  <2>4. QED
    BY <1>4, <2>1, <2>2, <2>3
<1>6. /\ post[u].pc = "insert"
      /\ thread' = Append(thread, row) /\ post' = [post EXCEPT ![u] = q]
      /\ UNCHANGED <<talkPage, reply, older, socket, talkMissed, crossed>>
  BY <1>1, <1>2, <1>4 DEF Talk!PostInsert, Talk!history, TalkShape
<1> HIDE DEF n
<1>7. /\ thread' \in Seq(Message) /\ Len(thread') = n + 1
      /\ \A m \in 1 .. n : thread'[m] = thread[m]
      /\ thread'[n + 1] = row
  BY <1>1, <1>3, <1>6, AppendProperties DEF TalkShape, n
<1>8. post'[u] = q /\ post[u].id = 0
  BY <1>1, <1>6 DEF TalkShape
<1>9. TalkShape'
  <2>1. post' \in [People -> Sending]
    BY <1>1, <1>5, <1>6 DEF TalkShape
  <2>2. \A v \in People :
          IF post'[v].pc \in {"emit", "answer"}
            THEN post'[v].id \in 1 .. n + 1 /\ thread'[post'[v].id].from = v
            ELSE post'[v].id = 0
    <3> TAKE v \in People
    <3>1. CASE v = u
      <4>1. n + 1 \in 1 .. n + 1
        BY <1>1
      <4>2. QED
        BY <1>3, <1>5, <1>7, <1>8, <3>1, <4>1
    <3>2. CASE v # u
      <4>1. post'[v] = post[v]
        BY <1>1, <1>6, <3>2 DEF TalkShape
      <4>2. \A m \in 1 .. n : m \in 1 .. n + 1
        BY <1>1
      <4>3. QED
        BY <1>1, <1>7, <4>1, <4>2 DEF TalkShape, n
    <3>3. QED
      BY <3>1, <3>2
  <2>3. /\ talkPage' \in [People -> Page(n + 1)]
        /\ reply' \in [People -> Reply(n + 1)] /\ older' \in [People -> Reply(n + 1)]
        /\ socket' \in [People -> Connection(n + 1)]
    BY <1>1, <1>6, MoreMessages DEF TalkShape, n
  <2>4. QED
    BY <1>1, <1>6, <1>7, <2>1, <2>2, <2>3 DEF TalkShape
<1>10. \A v \in People : \A m \in 1 .. n : /\ Free(v, m)' <=> Free(v, m)
                                           /\ Talk!Unsaid(m)' <=> Talk!Unsaid(m)
  <2> TAKE v \in People
  <2> TAKE m \in 1 .. n
  <2>1. m # 0 /\ m # n + 1
    BY <1>1
  <2>2. \A w \in People : /\ post'[w].id = m <=> post[w].id = m
                          /\ post[w].id = m => post'[w].pc = post[w].pc
    BY <1>1, <1>5, <1>6, <1>8, <2>1 DEF TalkShape
  <2>3. QED
    BY <2>2 DEF Free, Talk!Unsaid
<1>11. \A v \in People : \A m : m = n + 1 => ~Free(v, m)'
  <2>1. post'[u].id = n + 1 /\ post'[u].pc = "emit"
    BY <1>5, <1>8
  <2>2. QED
    BY <2>1 DEF Free
<1>12. ASSUME NEW v \in People
       PROVE  Tells(v)' /\ Once(v)' /\ Events(v)'
  <2>1. Tells(v) /\ Once(v) /\ Events(v)
    BY DEF PagesInv
  <2>2. \A m \in 1 .. n + 1 : m \in 1 .. n \/ m = n + 1
    BY <1>1
  <2>3. /\ ~On(talkPage[v].view, n + 1) /\ ~On(socket[v].inbox, n + 1)
        /\ talkPage[v].cursor \in 0 .. n /\ older[v].ids \in SUBSET (1 .. n)
    <3>1. /\ talkPage[v].view \in Seq(0 .. n) /\ talkPage[v].cursor \in 0 .. n
          /\ socket[v].inbox \in Seq(1 .. n) /\ older[v].ids \in SUBSET (1 .. n)
      BY <1>1, PartsOf DEF Page, Connection, Reply, n
    <3>2. n + 1 \notin 0 .. n /\ n + 1 \notin 1 .. n
      BY <1>1
    <3>3. QED
      BY <3>1, <3>2, OnlyThese
  <2>4. Tells(v)'
    <3> SUFFICES ASSUME NEW m \in 1 .. n + 1,
                        thread'[m].conv = talkPage'[v].conv, Free(v, m)'
                 PROVE  /\ talkPage'[v].ready /\ m >= talkPage'[v].cursor => Has(v, m)'
                        /\ reply'[v].state = "read" /\ m >= Talk!First(reply'[v].ids)
                             => m \in reply'[v].ids \/ Has(v, m)'
                        /\ older'[v].state = "read" /\ m >= Talk!First(older'[v].ids)
                             => m \in older'[v].ids \/ Has(v, m)'
      BY <1>7 DEF Tells
    <3>1. m \in 1 .. n
      BY <1>11, <2>2
    <3>2. thread'[m] = thread[m]
      BY <1>7, <3>1
    <3>3. Has(v, m) => Has(v, m)'
      BY <1>6, <3>2 DEF Has
    <3>4. QED
      BY <1>6, <1>10, <2>1, <3>1, <3>2, <3>3 DEF Tells, n
  <2>5. Once(v)'
    <3>1. CASE v = u
      <4>1. ~On(talkPage'[v].view, post'[v].id) /\ talkPage'[v].cursor <= post'[v].id
        BY <1>1, <1>5, <1>6, <1>8, <2>3, <3>1
      <4>2. \A m \in older'[v].ids : m < post'[v].id
        BY <1>1, <1>5, <1>6, <1>8, <2>3, <3>1
      <4>3. post'[v].pc # "idle"
        BY <1>5, <1>8, <3>1
      <4>4. QED
        BY <1>6, <2>1, <4>1, <4>2, <4>3 DEF Once
    <3>2. CASE v # u
      <4>1. post'[v] = post[v]
        BY <1>1, <1>6, <3>2 DEF TalkShape
      <4>2. QED
        BY <1>6, <2>1, <4>1 DEF Once
    <3>3. QED
      BY <3>1, <3>2
  <2>6. Events(v)'
    <3>1. \A m \in 1 .. n + 1 : Talk!Unsaid(m)' => ~On(socket'[v].inbox, m)
      BY <1>6, <1>10, <2>1, <2>2, <2>3 DEF Events, n
    <3>2. ASSUME NEW m \in 1 .. n + 1, On(talkPage'[v].view, m), thread'[m].from # v,
                 Talk!Unsaid(m)' \/ On(socket'[v].inbox, m)
          PROVE  m \in crossed'[v]
      <4>1. m \in 1 .. n
        BY <1>6, <2>2, <2>3, <3>2
      <4>2. QED
        BY <1>6, <1>7, <1>10, <2>1, <3>2, <4>1 DEF Events, n
    <3>3. QED
      BY <1>6, <1>7, <2>1, <3>1, <3>2 DEF Events
  <2>7. QED
    BY <2>4, <2>5, <2>6
<1>13. QED
  BY <1>9, <1>12 DEF PagesInv

\* Only its author sends a message.
LEMMA OneAuthor ==
  ASSUME TalkShape, NEW v \in People, NEW w \in People, post[v].id = post[w].id,
         post[v].id # 0
  PROVE  v = w
BY DEF TalkShape

\* The message is announced to whoever is in the room.
LEMMA EmitStays ==
  ASSUME PagesInv, NEW u \in People, Talk!PostEmit(u)
  PROVE  PagesInv'
<1> DEFINE n == Len(thread)
           id == post[u].id
           hears(v) == Talk!Listening(v, post[u].conv)
<1>1. /\ TalkShape /\ n \in Nat /\ post[u] \in Sending
  BY PartsOf DEF PagesInv
<1>2. PICK q : q = [post[u] EXCEPT !.pc = "answer"]
  OBVIOUS
<1>3. /\ post[u].pc = "emit"
      /\ post' = [post EXCEPT ![u] = q]
      /\ socket' = [v \in People |->
                      IF hears(v) THEN [socket[v] EXCEPT !.inbox = Append(@, id)]
                                  ELSE socket[v]]
      /\ talkMissed' = [v \in People |->
                          IF v = u \/ hears(v) \/ id \in Talk!ToSet(talkPage[v].view)
                            THEN talkMissed[v] ELSE talkMissed[v] \cup {id}]
      /\ UNCHANGED <<thread, talkPage, reply, older, crossed>>
  BY <1>1, <1>2 DEF Talk!PostEmit, TalkShape
<1>4. /\ q \in Sending /\ q.pc = "answer" /\ q.id = id
      /\ id \in 1 .. n /\ thread[id].from = u
  BY <1>1, <1>2, <1>3 DEF Sending, TalkShape
<1>5. \A v \in People : hears(v) => socket[v].up
  BY DEF Talk!Listening
<1> HIDE DEF n, id, hears
<1>6. post'[u] = q
  BY <1>1, <1>3 DEF TalkShape
<1>7. ASSUME NEW v \in People
      PROVE  /\ socket'[v] \in Connection(n) /\ socket'[v].up = socket[v].up
             /\ hears(v) => socket'[v].inbox = Append(socket[v].inbox, id)
             /\ ~hears(v) => socket'[v].inbox = socket[v].inbox
             /\ socket[v].inbox \in Seq(1 .. n)
  <2>1. socket[v] \in Connection(n)
    BY <1>1 DEF TalkShape, n
  <2>2. socket[v].inbox \in Seq(1 .. n)
    BY <2>1 DEF Connection
  <2>3. CASE hears(v)
    <3>1. socket'[v] = [socket[v] EXCEPT !.inbox = Append(@, id)]
      BY <1>3, <2>3
    <3>2. Append(socket[v].inbox, id) \in Seq(1 .. n)
      BY <1>4, <2>2, AppendProperties
    <3>3. QED
      BY <2>1, <2>2, <2>3, <3>1, <3>2 DEF Connection
  <2>4. CASE ~hears(v)
    BY <1>3, <2>1, <2>2, <2>4
  <2>5. QED
    BY <2>3, <2>4
<1>8. TalkShape'
  <2>1. post' \in [People -> Sending]
    BY <1>1, <1>3, <1>4 DEF TalkShape
  <2>2. \A v \in People :
          IF post'[v].pc \in {"emit", "answer"}
            THEN post'[v].id \in 1 .. n /\ thread[post'[v].id].from = v
            ELSE post'[v].id = 0
    <3> TAKE v \in People
    <3>1. CASE v = u
      BY <1>4, <1>6, <3>1
    <3>2. CASE v # u
      <4>1. post'[v] = post[v]
        BY <1>1, <1>3, <3>2 DEF TalkShape
      <4>2. QED
        BY <1>1, <4>1 DEF TalkShape, n
    <3>3. QED
      BY <3>1, <3>2
  <2>3. socket' \in [People -> Connection(n)]
    BY <1>3, <1>7
  <2>4. \A v \in People : socket'[v].up \/ Len(socket'[v].inbox) = 0
    <3> TAKE v \in People
    <3>1. CASE hears(v)
      BY <1>5, <1>7, <3>1
    <3>2. CASE ~hears(v)
      BY <1>1, <1>7, <3>2 DEF TalkShape
    <3>3. QED
      BY <3>1, <3>2
  <2>5. talkMissed' \in [People -> SUBSET Nat]
    <3>1. id \in Nat
      BY <1>1, <1>4
    <3>2. QED
      BY <1>1, <1>3, <3>1 DEF TalkShape
  <2>6. QED
    BY <1>1, <1>3, <2>1, <2>2, <2>3, <2>4, <2>5 DEF TalkShape, n
<1>9. \A w \in People : /\ post'[w].id = post[w].id
                        /\ post'[w].pc = "emit" => post[w].pc = "emit" /\ w # u
                        /\ post[w].pc = "emit" /\ w # u => post'[w].pc = "emit"
  BY <1>1, <1>3, <1>4, <1>6 DEF TalkShape, id
<1>10. \A m \in 1 .. n : Talk!Unsaid(m)' => Talk!Unsaid(m) /\ m # id
  <2> SUFFICES ASSUME NEW m \in 1 .. n, NEW w \in People, post'[w].pc = "emit", post'[w].id = m
               PROVE  Talk!Unsaid(m) /\ m # id
    BY DEF Talk!Unsaid
  <2>1. post[w].pc = "emit" /\ post[w].id = m /\ w # u
    BY <1>9
  <2>2. m # 0
    BY <1>1
  <2>3. m # id
    BY <1>1, <2>1, <2>2, OneAuthor DEF id
  <2>4. QED
    BY <2>1, <2>3 DEF Talk!Unsaid
<1>11. ASSUME NEW v \in People, NEW m \in 1 .. n, Free(v, m)'
       PROVE  Free(v, m) \/ (m = id /\ v # u)
  <2>1. \A w \in People : post[w].id = m => w # v /\ (post[w].pc # "emit" \/ w = u)
    BY <1>9, <1>11 DEF Free
  <2>2. CASE post[u].id = m
    BY <2>1, <2>2 DEF id
  <2>3. CASE post[u].id # m
    BY <2>1, <2>3 DEF Free
  <2>4. QED
    BY <2>2, <2>3
<1>12. ASSUME NEW v \in People
       PROVE  Tells(v)' /\ Once(v)' /\ Events(v)'
  <2>1. Tells(v) /\ Once(v) /\ Events(v)
    BY DEF PagesInv
  <2>2. /\ \A x : On(socket'[v].inbox, x) <=> On(socket[v].inbox, x) \/ (hears(v) /\ x = id)
        /\ \A i \in DOMAIN socket'[v].inbox :
             \/ i \in DOMAIN socket[v].inbox /\ socket'[v].inbox[i] = socket[v].inbox[i]
             \/ hears(v) /\ i = Len(socket[v].inbox) + 1 /\ socket'[v].inbox[i] = id
    <3>1. CASE hears(v)
      <4>1. socket[v].inbox \in Seq(1 .. n) /\ socket'[v].inbox = Append(socket[v].inbox, id)
        BY <1>7, <3>1
      <4>2. ASSUME NEW S, NEW b \in Seq(S), NEW x \in S
            PROVE  /\ \A y : On(Append(b, x), y) <=> On(b, y) \/ y = x
                   /\ \A i \in DOMAIN Append(b, x) :
                        \/ i \in DOMAIN b /\ Append(b, x)[i] = b[i]
                        \/ i = Len(b) + 1 /\ Append(b, x)[i] = x
        BY OneMore
      <4>4. PICK b \in Seq(1 .. n) : b = socket[v].inbox
        BY <4>1
      <4>5. id \in 1 .. n
        BY <1>4
      <4>6. /\ \A y : On(Append(b, id), y) <=> On(b, y) \/ y = id
            /\ \A i \in DOMAIN Append(b, id) :
                 \/ i \in DOMAIN b /\ Append(b, id)[i] = b[i]
                 \/ i = Len(b) + 1 /\ Append(b, id)[i] = id
        BY <4>2, <4>5
      <4>7. QED
        BY <3>1, <4>1, <4>4, <4>6
    <3>2. CASE ~hears(v)
      BY <1>7, <3>2
    <3>3. QED
      BY <3>1, <3>2
  <2>3. Talk!Unsaid(id)
    BY <1>3 DEF Talk!Unsaid, id
  <2>4. ~On(socket[v].inbox, id)
    BY <1>4, <2>1, <2>3 DEF Events, n
  <2>5. Tells(v)'
    <3> SUFFICES ASSUME NEW m \in 1 .. n, thread[m].conv = talkPage[v].conv, Free(v, m)'
                 PROVE  /\ talkPage[v].ready /\ m >= talkPage[v].cursor => Has(v, m)'
                        /\ reply[v].state = "read" /\ m >= Talk!First(reply[v].ids)
                             => m \in reply[v].ids \/ Has(v, m)'
                        /\ older[v].state = "read" /\ m >= Talk!First(older[v].ids)
                             => m \in older[v].ids \/ Has(v, m)'
      BY <1>3 DEF Tells, n
    <3>1. Has(v, m) => Has(v, m)'
      BY <1>3, <2>2 DEF Has
    <3>2. CASE Free(v, m)
      BY <2>1, <3>1, <3>2 DEF Tells, n
    <3>3. CASE m = id /\ v # u
      <4>1. thread[m].from # v
        BY <1>4, <3>3
      <4>2. hears(v) \/ On(talkPage[v].view, m) \/ m \in talkMissed'[v]
        BY <1>3, <3>3, OnTheList
      <4>3. Has(v, m)'
        BY <1>3, <2>2, <3>3, <4>1, <4>2 DEF Has
      <4>4. QED
        BY <4>3
    <3>4. QED
      BY <1>11, <3>2, <3>3
  <2>6. Once(v)'
    <3>1. post'[v].id = post[v].id /\ (post[v].pc # "idle" => post'[v].pc # "idle")
      BY <1>1, <1>3, <1>4, <1>6, <1>9 DEF TalkShape
    <3>2. QED
      BY <1>3, <2>1, <3>1 DEF Once
  <2>7. Events(v)'
    <3>1. \A i, j \in DOMAIN socket'[v].inbox :
            socket'[v].inbox[i] = socket'[v].inbox[j] => i = j
      <4> SUFFICES ASSUME NEW i \in DOMAIN socket'[v].inbox, NEW j \in DOMAIN socket'[v].inbox,
                          socket'[v].inbox[i] = socket'[v].inbox[j]
                   PROVE  i = j
        OBVIOUS
      <4>1. \A k \in DOMAIN socket[v].inbox : socket[v].inbox[k] # id
        BY <2>4 DEF On
      <4>2. \A a, b \in DOMAIN socket[v].inbox :
              socket[v].inbox[a] = socket[v].inbox[b] => a = b
        BY <2>1 DEF Events
      <4>3. QED
        BY <2>2, <4>1, <4>2
    <3>2. \A m \in 1 .. n : Talk!Unsaid(m)' => ~On(socket'[v].inbox, m)
      BY <1>10, <2>1, <2>2 DEF Events, n
    <3>3. ASSUME NEW m \in 1 .. n, On(talkPage[v].view, m), thread[m].from # v,
                 Talk!Unsaid(m)' \/ On(socket'[v].inbox, m)
          PROVE  m \in crossed[v]
      <4>1. Talk!Unsaid(m) \/ On(socket[v].inbox, m)
        BY <1>10, <2>2, <2>3, <3>3
      <4>2. QED
        BY <2>1, <3>3, <4>1 DEF Events, n
    <3>4. QED
      BY <1>3, <3>1, <3>2, <3>3 DEF Events, n
  <2>8. QED
    BY <2>5, <2>6, <2>7
<1>13. QED
  BY <1>8, <1>12 DEF PagesInv

\* A message is given up, or answered: it stands for nothing any more.
LEMMA EndedSending ==
  ASSUME TalkShape, NEW u \in People, post' = [post EXCEPT ![u] = Talk!NoPost]
  PROVE  /\ post' \in [People -> Sending] /\ post'[u].id = 0 /\ post'[u].pc = "idle"
         /\ \A w \in People : w # u => post'[w] = post[w]
         /\ \A m \in 1 .. Len(thread) : Talk!Unsaid(m)' => Talk!Unsaid(m)
         /\ \A v \in People : \A m \in 1 .. Len(thread) :
              Free(v, m)' =>
                Free(v, m) \/ (m = post[u].id /\ (v = u \/ post[u].pc = "emit"))
         /\ \A v \in People :
              IF post'[v].pc \in {"emit", "answer"}
                THEN post'[v].id \in 1 .. Len(thread) /\ thread[post'[v].id].from = v
                ELSE post'[v].id = 0
<1>1. /\ post' \in [People -> Sending] /\ post'[u].id = 0 /\ post'[u].pc = "idle"
      /\ \A w \in People : w # u => post'[w] = post[w]
  BY NothingWritten DEF TalkShape
<1>2. Len(thread) \in Nat /\ \A m \in 1 .. Len(thread) : m # 0
  BY PartsOf
<1>3. \A m \in 1 .. Len(thread) : Talk!Unsaid(m)' => Talk!Unsaid(m)
  BY <1>1, <1>2 DEF Talk!Unsaid
<1>4. ASSUME NEW v \in People, NEW m \in 1 .. Len(thread), Free(v, m)'
      PROVE  Free(v, m) \/ (m = post[u].id /\ (v = u \/ post[u].pc = "emit"))
  <2>1. \A w \in People : w # u /\ post[w].id = m => w # v /\ post[w].pc # "emit"
    BY <1>1, <1>4 DEF Free
  <2>2. QED
    BY <2>1 DEF Free
<1>5. \A v \in People :
        IF post'[v].pc \in {"emit", "answer"}
          THEN post'[v].id \in 1 .. Len(thread) /\ thread[post'[v].id].from = v
          ELSE post'[v].id = 0
  <2> TAKE v \in People
  <2>1. CASE v = u
    BY <1>1, <2>1
  <2>2. CASE v # u
    BY <1>1, <2>2 DEF TalkShape
  <2>3. QED
    BY <2>1, <2>2
<1>6. QED
  BY <1>1, <1>3, <1>4, <1>5

\* The message shown gets its number.
LEMMA Numbered ==
  ASSUME NEW n \in Nat, NEW view \in Seq(0 .. n), NEW id \in 1 .. n, NEW list,
         list = [i \in DOMAIN view |-> IF view[i] = 0 THEN id ELSE view[i]]
  PROVE  /\ list \in Seq(0 .. n) /\ DOMAIN list = DOMAIN view
         /\ \A i \in DOMAIN view : list[i] = IF view[i] = 0 THEN id ELSE view[i]
         /\ \A x : On(list, x) <=> (On(view, x) /\ x # 0) \/ (On(view, 0) /\ x = id)
<1>1. DOMAIN view = 1 .. Len(view) /\ Len(view) \in Nat
      /\ \A i \in DOMAIN view : view[i] \in 0 .. n
  BY LenProperties, ElementOfSeq
<1>2. DOMAIN list = DOMAIN view
      /\ \A i \in DOMAIN view : list[i] = IF view[i] = 0 THEN id ELSE view[i]
  OBVIOUS
<1>3. \A i \in DOMAIN view : list[i] \in 0 .. n /\ list[i] # 0
  BY <1>1, <1>2
<1>4. list \in [1 .. Len(view) -> 0 .. n]
  BY <1>1, <1>3
<1>5. list \in Seq(0 .. n)
  BY <1>1, <1>4, SeqDef
<1>6. \A x : On(list, x) <=> (On(view, x) /\ x # 0) \/ (On(view, 0) /\ x = id)
  BY <1>2, <1>3 DEF On
<1>7. QED
  BY <1>2, <1>5, <1>6

\* The answer comes: the row takes the place of the message shown, or there is none.
LEMMA AnsweredStays ==
  ASSUME PagesInv, NEW u \in People, Talk!PostAnswered(u)
  PROVE  PagesInv'
<1> DEFINE n == Len(thread)
           id == post[u].id
           view == talkPage[u].view
           list == [i \in DOMAIN view |-> IF view[i] = 0 THEN id ELSE view[i]]
<1>1. /\ TalkShape /\ n \in Nat /\ n = Len(thread)
      /\ talkPage[u] \in Page(n) /\ Tells(u) /\ Once(u) /\ Events(u)
  BY PartsOf DEF PagesInv
<1>2. PICK p : p = [talkPage[u] EXCEPT !.view = list]
  OBVIOUS
<1>3. /\ post[u].pc = "answer"
      /\ post' = [post EXCEPT ![u] = Talk!NoPost]
      /\ talkPage' = [talkPage EXCEPT ![u] = p]
      /\ talkMissed' = IF ~On(view, 0) /\ ~On(view, id)
                         THEN [talkMissed EXCEPT ![u] = @ \cup {id}] ELSE talkMissed
      /\ UNCHANGED <<thread, reply, older, socket, crossed>>
  BY <1>1, <1>2, OnTheList DEF Talk!PostAnswered, Talk!Pending, TalkShape
<1>4. view \in Seq(0 .. n) /\ id \in 1 .. n /\ thread[id].from = u
  BY <1>1, <1>3 DEF Page, TalkShape
<1>5. /\ p \in Page(n) /\ p.view = list /\ p.conv = talkPage[u].conv
      /\ p.ready = talkPage[u].ready /\ p.cursor = talkPage[u].cursor
  <2>1. list \in Seq(0 .. n)
    <3> HIDE DEF view, id
    <3>1. n \in Nat
      BY <1>1
    <3> HIDE DEF n
    <3>2. QED
      BY <1>4, <3>1, Numbered
  <2>2. QED
    BY <1>1, <1>2, <2>1 DEF Page
<1> HIDE DEF n, id, view
<1>6. /\ DOMAIN list = DOMAIN view
      /\ \A i \in DOMAIN view : list[i] = IF view[i] = 0 THEN id ELSE view[i]
      /\ \A x : On(list, x) <=> (On(view, x) /\ x # 0) \/ (On(view, 0) /\ x = id)
  BY <1>1, <1>4, Numbered
<1> HIDE DEF list
<1>7. /\ talkPage' \in [People -> Page(n)] /\ talkPage'[u] = p
      /\ \A v \in People : v # u => talkPage'[v] = talkPage[v]
      /\ \A v \in People : talkPage'[v].ready = talkPage[v].ready
  BY <1>1, <1>3, <1>5 DEF TalkShape, n
<1>8. /\ talkMissed' \in [People -> SUBSET Nat]
      /\ \A v \in People : talkMissed[v] \subseteq talkMissed'[v]
      /\ ~On(view, 0) /\ ~On(view, id) => id \in talkMissed'[u]
  <2>1. id \in Nat
    BY <1>1, <1>4
  <2>2. QED
    BY <1>1, <1>3, <2>1 DEF TalkShape
<1>9. /\ post' \in [People -> Sending] /\ post'[u].id = 0 /\ post'[u].pc = "idle"
      /\ \A w \in People : w # u => post'[w] = post[w]
      /\ \A m \in 1 .. n : Talk!Unsaid(m)' => Talk!Unsaid(m)
      /\ \A v \in People : \A m \in 1 .. n : Free(v, m)' => Free(v, m) \/ (m = id /\ v = u)
      /\ \A v \in People :
           IF post'[v].pc \in {"emit", "answer"}
             THEN post'[v].id \in 1 .. n /\ thread[post'[v].id].from = v
             ELSE post'[v].id = 0
  BY <1>1, <1>3, EndedSending DEF n, id
<1>10. TalkShape'
  BY <1>1, <1>3, <1>7, <1>8, <1>9 DEF TalkShape, n
<1>11. Tells(u)'
  <2> SUFFICES ASSUME NEW m \in 1 .. n, thread[m].conv = talkPage[u].conv, Free(u, m)'
               PROVE  /\ talkPage[u].ready /\ m >= talkPage[u].cursor => Has(u, m)'
                      /\ reply[u].state = "read" /\ m >= Talk!First(reply[u].ids)
                           => m \in reply[u].ids \/ Has(u, m)'
                      /\ older[u].state = "read" /\ m >= Talk!First(older[u].ids)
                           => m \in older[u].ids \/ Has(u, m)'
    BY <1>3, <1>5, <1>7 DEF Tells, n
  <2>1. m # 0
    BY <1>1
  <2>2. On(view, m) => On(talkPage'[u].view, m)
    BY <1>5, <1>6, <1>7, <2>1
  <2>3. CASE Free(u, m)
    <3>1. Has(u, m) => Has(u, m)'
      BY <1>3, <1>8, <2>2 DEF Has, view
    <3>2. QED
      BY <1>1, <2>3, <3>1 DEF Tells, n
  <2>4. CASE m = id
    <3>1. On(view, 0) => On(talkPage'[u].view, m)
      BY <1>5, <1>6, <1>7, <2>4
    <3>2. Has(u, m)'
      BY <1>8, <2>2, <2>4, <3>1 DEF Has
    <3>3. QED
      BY <3>2
  <2>5. QED
    BY <1>9, <2>3, <2>4
<1>12. Once(u)'
  <2>1. ASSUME NEW i \in DOMAIN view, NEW j \in DOMAIN view, list[i] = list[j], i # j
        PROVE  list[i] # 0 /\ list[i] \in crossed[u]
    <3>1. id # 0
      BY <1>1, <1>4
    <3>2. On(view, view[i]) /\ On(view, view[j])
      BY DEF On
    <3>3. view[i] = view[j] => view[i] # 0 /\ view[i] \in crossed[u]
      BY <1>1, <2>1 DEF Once, view
    <3>4. On(view, 0) => ~On(view, id)
      BY <1>1, <3>1 DEF Once, view, id
    <3>5. list[i] = view[i] /\ list[j] = view[j] /\ view[i] # 0
      BY <1>6, <2>1, <3>1, <3>2, <3>3, <3>4
    <3>6. QED
      BY <2>1, <3>3, <3>5
  <2>2. ~On(list, 0)
    BY <1>1, <1>4, <1>6
  <2>3. QED
    BY <1>3, <1>5, <1>6, <1>7, <2>1, <2>2 DEF Once
<1>13. Events(u)'
  <2>1. \A m \in 1 .. n : On(list, m) /\ thread[m].from # u => On(view, m)
    BY <1>4, <1>6
  <2>2. QED
    BY <1>1, <1>3, <1>5, <1>7, <1>9, <2>1 DEF Events, n, view
<1>14. ASSUME NEW v \in People, v # u
       PROVE  Tells(v)' /\ Once(v)' /\ Events(v)'
  <2>1. /\ \A m \in 1 .. n : (Free(v, m)' => Free(v, m))
                             /\ (Talk!Unsaid(m)' => Talk!Unsaid(m))
        /\ post'[v] = post[v] /\ talkMissed[v] \subseteq talkMissed'[v]
    BY <1>8, <1>9, <1>14
  <2>2. Tells(v) /\ Once(v) /\ Events(v)
    BY DEF PagesInv
  <2>3. QED
    BY <1>3, <1>7, <1>14, <2>1, <2>2, Elsewhere DEF n
<1>15. QED
  BY <1>10, <1>11, <1>12, <1>13, <1>14 DEF PagesInv

\* What is taken off a page that drops the messages without a number.
LEMMA Dropped ==
  ASSUME NEW n \in Nat, NEW view \in Seq(0 .. n), NEW K,
         \A k : k \in K <=> k \in DOMAIN view /\ view[k] # 0
  PROVE  /\ Talk!Kept(view, K) \in Seq(0 .. n)
         /\ \A x : On(Talk!Kept(view, K), x) <=> On(view, x) /\ x # 0
         /\ \A i, j \in DOMAIN Talk!Kept(view, K) :
              Talk!Kept(view, K)[i] = Talk!Kept(view, K)[j] /\ i # j =>
                \E a, b \in DOMAIN view : /\ a # b /\ view[a] = view[b]
                                          /\ view[a] = Talk!Kept(view, K)[i]
<1> DEFINE list == Kept(view, K)
           at == Ascending(K)
           c == Cardinality(K)
<1>1. K \in SUBSET (DOMAIN view) /\ \A k \in DOMAIN view : k \in K <=> view[k] # 0
  OBVIOUS
<1>2. /\ IsFiniteSet(K) /\ K \in SUBSET Int
      /\ list \in Seq(0 .. n) /\ DOMAIN list = 1 .. c
      /\ \A k \in 1 .. c : at[k] \in K /\ list[k] = view[at[k]]
  BY <1>1, KeptIs
<1>3. /\ \A k, l \in 1 .. c : k < l => at[k] < at[l]
      /\ \A i \in K : \E k \in 1 .. c : at[k] = i
  BY <1>2, AscendingLists
<1>4. Talk!Kept(view, K) = list
  BY TalkKept
<1> HIDE DEF list, at
<1>5. c \in Nat
  BY <1>2, FS_CardinalityType
<1> HIDE DEF c
<1>6. \A x : On(list, x) <=> On(view, x) /\ x # 0
  <2>1. ASSUME NEW k \in 1 .. c
        PROVE  On(view, list[k]) /\ list[k] # 0
    BY <1>1, <1>2 DEF On
  <2>2. ASSUME NEW a \in DOMAIN view, view[a] # 0
        PROVE  On(list, view[a])
    <3>1. PICK k \in 1 .. c : at[k] = a
      BY <1>1, <1>3, <2>2
    <3>2. list[k] = view[a]
      BY <1>2, <3>1
    <3>3. QED
      BY <1>2, <3>2 DEF On
  <2>3. QED
    BY <1>2, <2>1, <2>2 DEF On
<1>7. ASSUME NEW i \in 1 .. c, NEW j \in 1 .. c, list[i] = list[j], i # j
      PROVE  \E a, b \in DOMAIN view : a # b /\ view[a] = view[b] /\ view[a] = list[i]
  <2>1. i < j \/ j < i
    BY <1>5, <1>7
  <2>2. at[i] < at[j] \/ at[j] < at[i]
    BY <1>3, <2>1
  <2>3. at[i] \in Int /\ at[j] \in Int
    BY <1>2
  <2>4. at[i] # at[j]
    BY <2>2, <2>3
  <2>5. QED
    BY <1>1, <1>2, <1>7, <2>4
<1>8. /\ list \in Seq(0 .. n)
      /\ \A x : On(list, x) <=> On(view, x) /\ x # 0
      /\ \A i, j \in DOMAIN list : list[i] = list[j] /\ i # j =>
           \E a, b \in DOMAIN view : a # b /\ view[a] = view[b] /\ view[a] = list[i]
  BY <1>2, <1>6, <1>7
<1>9. QED
  BY <1>4, <1>8

\* The request fails: the message shown is taken away.
LEMMA FailsStays ==
  ASSUME PagesInv, NEW u \in People, Talk!PostFails(u)
  PROVE  PagesInv'
<1> DEFINE n == Len(thread)
           id == post[u].id
           view == talkPage[u].view
           K == {k \in DOMAIN view : view[k] # 0}
           list == Talk!Kept(view, K)
           told(v) == id # 0 /\ ~On(talkPage[v].view, id) /\ (v = u \/ post[u].pc = "emit")
<1>1. /\ TalkShape /\ n \in Nat /\ n = Len(thread)
      /\ talkPage[u] \in Page(n) /\ Tells(u) /\ Once(u) /\ Events(u)
  BY PartsOf DEF PagesInv
<1>2. PICK p : p = [talkPage[u] EXCEPT !.view = list]
  OBVIOUS
<1>3. /\ post[u].pc # "idle"
      /\ post' = [post EXCEPT ![u] = Talk!NoPost]
      /\ talkPage' = [talkPage EXCEPT ![u] = p]
      /\ talkMissed' = [v \in People |->
                          IF told(v) THEN talkMissed[v] \cup {id} ELSE talkMissed[v]]
      /\ UNCHANGED <<thread, reply, older, socket, crossed>>
  BY <1>1, <1>2, OnTheList DEF Talk!PostFails, Talk!Pending, TalkShape
<1>4. view \in Seq(0 .. n) /\ id \in 0 .. n /\ (id # 0 => thread[id].from = u)
  BY <1>1, <1>3 DEF Page, TalkShape
<1>5. /\ list \in Seq(0 .. n)
      /\ \A x : On(list, x) <=> On(view, x) /\ x # 0
      /\ \A i, j \in DOMAIN list : list[i] = list[j] /\ i # j =>
           \E a, b \in DOMAIN view : a # b /\ view[a] = view[b] /\ view[a] = list[i]
  <2> HIDE DEF view
  <2>1. n \in Nat /\ view \in Seq(0 .. n)
    BY <1>1, <1>4
  <2>2. \A k : k \in K <=> k \in DOMAIN view /\ view[k] # 0
    OBVIOUS
  <2> HIDE DEF n, K
  <2>3. QED
    BY <2>1, <2>2, Dropped
<1> HIDE DEF list
<1>6. /\ p \in Page(n) /\ p.view = list /\ p.conv = talkPage[u].conv
      /\ p.ready = talkPage[u].ready /\ p.cursor = talkPage[u].cursor
  BY <1>1, <1>2, <1>5 DEF Page
<1>7. /\ talkPage' \in [People -> Page(n)] /\ talkPage'[u] = p
      /\ \A v \in People : v # u => talkPage'[v] = talkPage[v]
      /\ \A v \in People : talkPage'[v].ready = talkPage[v].ready
  BY <1>1, <1>3, <1>6 DEF TalkShape
<1>8. \A v \in People : told(v) <=>
        id # 0 /\ ~On(talkPage[v].view, id) /\ (v = u \/ post[u].pc = "emit")
  OBVIOUS
<1> HIDE DEF n, id, view, told, K
<1>9. /\ talkMissed' \in [People -> SUBSET Nat]
      /\ \A v \in People : talkMissed[v] \subseteq talkMissed'[v]
      /\ \A v \in People : told(v) => id \in talkMissed'[v]
  <2>1. id \in Nat
    BY <1>1, <1>4
  <2>2. QED
    BY <1>1, <1>3, <2>1 DEF TalkShape
<1>10. /\ post' \in [People -> Sending] /\ post'[u].id = 0 /\ post'[u].pc = "idle"
       /\ \A w \in People : w # u => post'[w] = post[w]
       /\ \A m \in 1 .. n : Talk!Unsaid(m)' => Talk!Unsaid(m)
       /\ \A v \in People : \A m \in 1 .. n :
            Free(v, m)' => Free(v, m) \/ (m = id /\ (v = u \/ post[u].pc = "emit"))
       /\ \A v \in People :
            IF post'[v].pc \in {"emit", "answer"}
              THEN post'[v].id \in 1 .. n /\ thread[post'[v].id].from = v
              ELSE post'[v].id = 0
  BY <1>1, <1>3, EndedSending DEF n, id
<1>11. TalkShape'
  BY <1>1, <1>3, <1>7, <1>9, <1>10 DEF TalkShape, n
<1>12. \A x \in 1 .. n : x # 0
  BY <1>1
<1>13. ASSUME NEW v \in People
       PROVE  \A m \in 1 .. n : On(talkPage'[v].view, m) <=> On(talkPage[v].view, m)
  <2>1. CASE v = u
    BY <1>5, <1>6, <1>7, <1>12, <2>1 DEF view
  <2>2. CASE v # u
    BY <1>7, <2>2
  <2>3. QED
    BY <2>1, <2>2
<1>14. ASSUME NEW v \in People
       PROVE  Tells(v)'
  <2>1. Tells(v)
    BY DEF PagesInv
  <2>2. talkPage'[v].conv = talkPage[v].conv /\ talkPage'[v].cursor = talkPage[v].cursor
    BY <1>6, <1>7
  <2> SUFFICES ASSUME NEW m \in 1 .. n, thread[m].conv = talkPage[v].conv, Free(v, m)'
               PROVE  /\ talkPage[v].ready /\ m >= talkPage[v].cursor => Has(v, m)'
                      /\ reply[v].state = "read" /\ m >= Talk!First(reply[v].ids)
                           => m \in reply[v].ids \/ Has(v, m)'
                      /\ older[v].state = "read" /\ m >= Talk!First(older[v].ids)
                           => m \in older[v].ids \/ Has(v, m)'
    BY <1>3, <1>7, <2>2 DEF Tells, n
  <2>3. CASE Free(v, m)
    <3>1. Has(v, m) => Has(v, m)'
      BY <1>3, <1>9, <1>13 DEF Has
    <3>2. QED
      BY <2>1, <2>3, <3>1 DEF Tells, n
  <2>4. CASE m = id /\ (v = u \/ post[u].pc = "emit")
    <3>1. On(talkPage[v].view, id) \/ told(v)
      BY <1>8, <1>12, <2>4
    <3>2. Has(v, m)'
      BY <1>9, <1>13, <2>4, <3>1 DEF Has
    <3>3. QED
      BY <3>2
  <2>5. QED
    BY <1>10, <2>3, <2>4
<1>15. Once(u)'
  <2>1. \A i, j \in DOMAIN list : list[i] = list[j] /\ i # j
                                    => list[i] # 0 /\ list[i] \in crossed[u]
    BY <1>1, <1>5 DEF Once, view
  <2>2. ~On(list, 0)
    BY <1>5
  <2>3. QED
    BY <1>3, <1>6, <1>7, <2>1, <2>2 DEF Once
<1>16. ASSUME NEW v \in People, v # u
       PROVE  Once(v)'
  <2>1. Once(v)
    BY DEF PagesInv
  <2>2. QED
    BY <1>3, <1>7, <1>10, <1>16, <2>1 DEF Once
<1>17. ASSUME NEW v \in People
       PROVE  Events(v)'
  <2>1. Events(v)
    BY DEF PagesInv
  <2>2. QED
    BY <1>3, <1>10, <1>13, <2>1 DEF Events, n
<1>18. QED
  BY <1>11, <1>14, <1>15, <1>16, <1>17 DEF PagesInv

\* Every step keeps the invariant of the pages.
LEMMA PagesInductive ==
  ASSUME PagesInv, [Talk!Next]_(Talk!vars)
  PROVE  PagesInv'
<1>1. CASE UNCHANGED <<thread, post, Talk!client, talkMissed, crossed>>
  <2>1. UNCHANGED <<thread, post, talkPage, reply, older, socket, talkMissed, crossed>>
    BY <1>1 DEF Talk!client
  <2>2. QED
    BY <2>1, PagesAtRest DEF PagesInv, TalkShape
<1>2. CASE UNCHANGED Talk!vars
  BY <1>1, <1>2 DEF Talk!vars, Talk!client
<1>3. ASSUME NEW u \in People,
             \/ Talk!OpenRead(u) \/ Talk!OpenPair(u) \/ Talk!OpenFails(u)
             \/ \E c \in Convs : Talk!OpenCreate(u, c)
      PROVE  PagesInv'
  BY <1>1, <1>3 DEF Talk!OpenRead, Talk!OpenPair, Talk!OpenFails, Talk!OpenCreate, Talk!history
<1>4. ASSUME NEW u \in People, NEW c \in Convs, Talk!PageOpens(u, c)
      PROVE  PagesInv'
  BY <1>4, PageOpensStays
<1>5. ASSUME NEW u \in People,
             \/ Talk!Refetch(u) \/ Talk!QueryRead(u) \/ Talk!QueryArrives(u)
             \/ Talk!QueryFails(u) \/ Talk!OlderRead(u) \/ Talk!OlderArrives(u)
      PROVE  PagesInv'
  BY <1>5, AskingStays, QueryReadStays, QueryArrivesStays, OlderReadStays, OlderArrivesStays
<1>6. ASSUME NEW u \in People,
             \/ Talk!Connect(u) \/ Talk!Reconnect(u) \/ Talk!Join(u) \/ Talk!MarkRead(u)
             \/ Talk!EventDropped(u) \/ Talk!PageCloses(u) \/ Talk!Disconnect(u)
             \/ Talk!Hear(u)
      PROVE  PagesInv'
  BY <1>6, SocketTurnsStays, MarkReadStays, DisconnectStays, HearStays
<1>7. ASSUME NEW u \in People,
             \/ Talk!Send(u) \/ Talk!PostInsert(u) \/ Talk!PostEmit(u)
             \/ Talk!PostAnswered(u) \/ Talk!PostFails(u)
      PROVE  PagesInv'
  BY <1>7, SendStays, InsertStays, EmitStays, AnsweredStays, FailsStays
<1>8. QED
  BY <1>2, <1>3, <1>4, <1>5, <1>6, <1>7 DEF Talk!Next

\* A page has every message from its first one on that was announced (or, for one's own,
\* answered), or the event is on its way, or its announcement was lost; and only a message
\* that a reply brought before its event is there twice.
LEMMA PagesTell ==
  ASSUME PagesInv
  PROVE  Talk!NothingMissed /\ Talk!ShownOnce
<1>1. Talk!NothingMissed
  <2> SUFFICES ASSUME NEW u \in People, NEW m \in 1 .. Len(thread),
                      talkPage[u].ready, Talk!Settled(u, m)
               PROVE  m \in Talk!ToSet(talkPage[u].view) \cup Talk!ToSet(socket[u].inbox)
                              \cup talkMissed[u]
    BY DEF Talk!NothingMissed
  <2>1. Free(u, m) /\ thread[m].conv = talkPage[u].conv /\ m >= talkPage[u].cursor
    BY DEF Talk!Settled, Free
  <2>2. Has(u, m)
    BY <2>1 DEF PagesInv, Tells
  <2>3. QED
    BY <2>2, OnTheList DEF Has
<1>2. Talk!ShownOnce
  <2> SUFFICES ASSUME NEW u \in People, NEW m \in Talk!Ids \ crossed[u]
               PROVE  Talk!Cardinality({i \in DOMAIN talkPage[u].view :
                                          talkPage[u].view[i] = m}) <= 1
    BY DEF Talk!ShownOnce
  <2> DEFINE at == {i \in DOMAIN talkPage[u].view : talkPage[u].view[i] = m}
  <2>1. \A i, j \in at : i = j
    BY DEF PagesInv, Once
  <2>2. Cardinality(at) <= 1
    <3> HIDE DEF at
    <3>1. CASE at = {}
      BY <3>1, FS_EmptySet
    <3>2. ASSUME NEW i \in at
          PROVE  Cardinality(at) = 1
      <4>1. at = {i}
        BY <2>1
      <4>2. QED
        BY <4>1, FS_Singleton
    <3>3. QED
      BY <3>1, <3>2
  <2>3. Talk!Cardinality(at) = Cardinality(at)
    BY DEF Talk!Cardinality, Cardinality
  <2>4. QED
    BY <2>2, <2>3
<1>3. QED
  BY <1>1, <1>2

-----------------------------------------------------------------------------
(* One conversation of a pair *)

\* Unless two requests to open the conversation overlapped there is one conversation at
\* most, and none yet while a request is under way: it began when the SELECT found none,
\* and those who come later find what it makes.
TalkInv ==
  /\ opening \in [People -> [pc : {"idle", "create", "pair"}, conv : Convs \cup {None}]]
  /\ twice \/ \A u \in People : opening[u].pc # "idle" =>
       /\ paired = {}
       /\ \A v \in People : opening[v].pc # "idle" => u = v
  /\ twice \/ \A c, d \in paired : c = d

\* The invariant of conversations holds to begin with.
LEMMA TalkInitially == Talk!Init => TalkInv
BY DEF Talk!Init, TalkInv

\* Every step keeps the invariant of conversations.
LEMMA TalkInductive ==
  ASSUME TalkInv, [Talk!Next]_(Talk!vars)
  PROVE  TalkInv'
<1> USE DEF TalkInv
<1>1. ASSUME NEW u \in People, Talk!OpenRead(u)
      PROVE  TalkInv'
  BY <1>1 DEF Talk!OpenRead
<1>2. ASSUME NEW u \in People, NEW c \in Convs, Talk!OpenCreate(u, c)
      PROVE  TalkInv'
  BY <1>2 DEF Talk!OpenCreate, Talk!history
<1>3. ASSUME NEW u \in People, Talk!OpenPair(u)
      PROVE  TalkInv'
  BY <1>3 DEF Talk!OpenPair, Talk!history
<1>4. ASSUME NEW u \in People, Talk!OpenFails(u)
      PROVE  TalkInv'
  BY <1>4 DEF Talk!OpenFails, Talk!history
<1>5. CASE UNCHANGED <<opening, paired, twice>>
  BY <1>5
<1>6. ASSUME NEW u \in People,
             \/ \E c \in Convs : Talk!PageOpens(u, c)
             \/ Talk!Refetch(u) \/ Talk!QueryRead(u) \/ Talk!QueryArrives(u)
             \/ Talk!QueryFails(u) \/ Talk!OlderRead(u) \/ Talk!OlderArrives(u)
             \/ Talk!Connect(u) \/ Talk!Reconnect(u) \/ Talk!Join(u)
             \/ Talk!MarkRead(u) \/ Talk!EventDropped(u) \/ Talk!Disconnect(u)
             \/ Talk!PageCloses(u) \/ Talk!Hear(u) \/ Talk!Send(u) \/ Talk!PostInsert(u)
             \/ Talk!PostEmit(u) \/ Talk!PostAnswered(u) \/ Talk!PostFails(u)
      PROVE  UNCHANGED <<opening, paired, twice>>
  BY <1>6 DEF Talk!PageOpens, Talk!Refetch, Talk!QueryRead, Talk!QueryArrives,
     Talk!QueryFails, Talk!OlderRead, Talk!OlderArrives, Talk!Connect, Talk!Reconnect,
     Talk!Join, Talk!MarkRead, Talk!EventDropped, Talk!PageCloses, Talk!Disconnect,
     Talk!Hear, Talk!Send,
     Talk!PostInsert, Talk!PostEmit, Talk!PostAnswered, Talk!PostFails, Talk!server,
     Talk!history
<1>7. CASE UNCHANGED Talk!vars
  BY <1>5, <1>7 DEF Talk!vars, Talk!server
<1>8. QED
  BY <1>1, <1>2, <1>3, <1>4, <1>5, <1>6, <1>7 DEF Talk!Next

\* The property of the conversations follows from their invariant.
LEMMA TalkTells ==
  ASSUME TalkInv
  PROVE  Talk!ThreadsMeet
<1>1. CASE \A c, d \in paired : c = d
  <2>1. Cardinality(paired) <= 1
    <3>1. CASE paired = {}
      BY <3>1, FS_EmptySet
    <3>2. ASSUME NEW c \in paired
          PROVE  Cardinality(paired) = 1
      <4>1. paired = {c}
        BY <1>1, <3>2
      <4>2. QED
        BY <4>1, FS_Singleton
    <3>3. QED
      BY <3>1, <3>2
  <2>2. Talk!Cardinality(paired) = Cardinality(paired)
    BY DEF Talk!Cardinality, Cardinality
  <2>3. QED
    BY <2>1, <2>2 DEF Talk!ThreadsMeet
<1>2. QED
  BY <1>1 DEF TalkInv, Talk!ThreadsMeet

\* A conversation that two are put into is one that was made.
TalkRows ==
  /\ made \subseteq Convs /\ paired \subseteq made
  /\ opening \in [People -> [pc : {"idle", "create", "pair"}, conv : Convs \cup {None}]]
  /\ \A u \in People : opening[u].pc = "pair" => opening[u].conv \in made

\* Messages have a conversation, and what is remembered of them is of messages.
TalkLogs ==
  /\ Len(thread) <= MaxMessages
  /\ \A i \in 1 .. Len(thread) : thread[i].conv \in Convs
  /\ \A u \in People : talkMissed[u] \subseteq 1 .. Len(thread)
                       /\ crossed[u] \subseteq 1 .. Len(thread)

\* The types of conversations hold to begin with.
LEMMA TalkTypesInitially == Talk!Init => TalkRows /\ TalkLogs
<1> SUFFICES ASSUME Talk!Init PROVE TalkRows /\ TalkLogs
  OBVIOUS
<1>1. CASE paired = {} /\ thread = <<>>
  <2>1. Len(thread) = 0
    BY <1>1
  <2>2. QED
    BY <1>1, <2>1, NumbersAssumption DEF Talk!Init, TalkRows, TalkLogs
<1>2. ASSUME NEW c \in Convs, NEW u \in People, paired = {c},
             thread = <<[conv |-> c, from |-> u, read |-> FALSE]>>
      PROVE  TalkRows /\ TalkLogs
  <2>1. Len(thread) = 1 /\ thread[1].conv = c
    BY <1>2
  <2>2. QED
    BY <1>2, <2>1, NumbersAssumption DEF Talk!Init, TalkRows, TalkLogs
<1>3. QED
  BY <1>1, <1>2 DEF Talk!Init

\* Every step keeps what the tables of conversations hold.
LEMMA RowsInductive ==
  ASSUME TalkRows, [Talk!Next]_(Talk!vars)
  PROVE  TalkRows'
<1> USE DEF TalkRows
<1>1. ASSUME NEW u \in People, Talk!OpenRead(u)
      PROVE  TalkRows'
  BY <1>1 DEF Talk!OpenRead
<1>2. ASSUME NEW u \in People, NEW c \in Convs, Talk!OpenCreate(u, c)
      PROVE  TalkRows'
  BY <1>2 DEF Talk!OpenCreate
<1>3. ASSUME NEW u \in People, Talk!OpenPair(u)
      PROVE  TalkRows'
  BY <1>3 DEF Talk!OpenPair
<1>4. ASSUME NEW u \in People, Talk!OpenFails(u)
      PROVE  TalkRows'
  BY <1>4 DEF Talk!OpenFails
<1>5. CASE UNCHANGED Talk!server
  BY <1>5 DEF Talk!server
<1>6. ASSUME NEW u \in People,
             \/ \E c \in Convs : Talk!PageOpens(u, c)
             \/ Talk!Refetch(u) \/ Talk!QueryRead(u) \/ Talk!QueryArrives(u)
             \/ Talk!QueryFails(u) \/ Talk!OlderRead(u) \/ Talk!OlderArrives(u)
             \/ Talk!Connect(u) \/ Talk!Reconnect(u) \/ Talk!Join(u)
             \/ Talk!MarkRead(u) \/ Talk!EventDropped(u) \/ Talk!Disconnect(u)
             \/ Talk!PageCloses(u) \/ Talk!Hear(u) \/ Talk!Send(u) \/ Talk!PostInsert(u)
             \/ Talk!PostEmit(u) \/ Talk!PostAnswered(u) \/ Talk!PostFails(u)
      PROVE  UNCHANGED Talk!server
  BY <1>6 DEF Talk!PageOpens, Talk!Refetch, Talk!QueryRead, Talk!QueryArrives,
     Talk!QueryFails, Talk!OlderRead, Talk!OlderArrives, Talk!Connect, Talk!Reconnect,
     Talk!Join, Talk!MarkRead, Talk!EventDropped, Talk!PageCloses, Talk!Disconnect,
     Talk!Hear, Talk!Send,
     Talk!PostInsert, Talk!PostEmit, Talk!PostAnswered, Talk!PostFails
<1>7. CASE UNCHANGED Talk!vars
  BY <1>5, <1>7 DEF Talk!vars
<1>8. QED
  BY <1>1, <1>2, <1>3, <1>4, <1>5, <1>6, <1>7 DEF Talk!Next

\* Messages are noted that are there.
LEMMA LogsGrow ==
  ASSUME TalkLogs, Len(thread') = Len(thread),
         \A i \in 1 .. Len(thread) : thread'[i].conv = thread[i].conv,
         \A u \in People : talkMissed'[u] \subseteq talkMissed[u] \cup 1 .. Len(thread),
         \A u \in People : crossed'[u] \subseteq crossed[u] \cup 1 .. Len(thread)
  PROVE  TalkLogs'
  BY DEF TalkLogs

\* Every step keeps what is noted of messages.
LEMMA LogsInductive ==
  ASSUME TalkShape, TalkRows, TalkLogs, [Talk!Next]_(Talk!vars)
  PROVE  TalkLogs'
<1> DEFINE n == Len(thread)
<1>1. /\ n \in Nat /\ DOMAIN thread = 1 .. n
      /\ \A u \in People :
           /\ Talk!ToSet(talkPage[u].view) \subseteq 0 .. n
           /\ Talk!ToSet(socket[u].inbox) \subseteq 1 .. n
           /\ reply[u].ids \subseteq 1 .. n /\ older[u].ids \subseteq 1 .. n
           /\ post[u].id \in 0 .. n
           /\ DOMAIN socket[u].inbox = 1 .. Len(socket[u].inbox)
  <2>1. n \in Nat /\ DOMAIN thread = 1 .. n
    BY LenProperties DEF TalkShape
  <2>2. ASSUME NEW u \in People
        PROVE  /\ Talk!ToSet(talkPage[u].view) \subseteq 0 .. n
               /\ Talk!ToSet(socket[u].inbox) \subseteq 1 .. n
               /\ reply[u].ids \subseteq 1 .. n /\ older[u].ids \subseteq 1 .. n
               /\ post[u].id \in 0 .. n
               /\ DOMAIN socket[u].inbox = 1 .. Len(socket[u].inbox)
    <3>1. talkPage[u].view \in Seq(0 .. n) /\ socket[u].inbox \in Seq(1 .. n)
      BY PartsOf DEF TalkShape, Page, Connection
    <3>2. \A k \in DOMAIN talkPage[u].view : talkPage[u].view[k] \in 0 .. n
      BY <3>1, LenProperties, ElementOfSeq
    <3>3. /\ \A k \in DOMAIN socket[u].inbox : socket[u].inbox[k] \in 1 .. n
          /\ DOMAIN socket[u].inbox = 1 .. Len(socket[u].inbox)
      BY <3>1, LenProperties, ElementOfSeq
    <3>4. reply[u].ids \subseteq 1 .. n /\ older[u].ids \subseteq 1 .. n
      BY DEF TalkShape, Reply
    <3>5. post[u].id \in 0 .. n
      BY <2>1 DEF TalkShape
    <3>6. QED
      BY <3>2, <3>3, <3>4, <3>5 DEF Talk!ToSet
  <2>3. QED
    BY <2>1, <2>2
<1>2. ASSUME NEW u \in People, NEW ids
      PROVE  Talk!Early(u, ids) \subseteq ids
  BY DEF Talk!Early
<1>3. talkMissed = [u \in People |-> talkMissed[u]] /\ crossed = [u \in People |-> crossed[u]]
  BY DEF TalkShape
<1>4. CASE UNCHANGED <<thread, talkMissed, crossed>>
  BY <1>4 DEF TalkLogs
<1>5. ASSUME NEW u \in People,
             \/ Talk!OpenRead(u) \/ Talk!OpenPair(u) \/ Talk!OpenFails(u)
             \/ \E c \in Convs : Talk!OpenCreate(u, c)
             \/ Talk!Refetch(u) \/ Talk!QueryRead(u) \/ Talk!QueryFails(u) \/ Talk!OlderRead(u)
             \/ Talk!Connect(u) \/ Talk!Reconnect(u) \/ Talk!Join(u) \/ Talk!EventDropped(u)
             \/ Talk!Send(u)
      PROVE  UNCHANGED <<thread, talkMissed, crossed>>
  BY <1>5 DEF Talk!OpenRead, Talk!OpenPair, Talk!OpenFails, Talk!OpenCreate, Talk!Refetch,
     Talk!QueryRead, Talk!QueryFails, Talk!OlderRead, Talk!Connect, Talk!Reconnect, Talk!Join,
     Talk!EventDropped, Talk!Send, Talk!history
<1>6. ASSUME NEW u \in People, NEW c \in Convs, Talk!PageOpens(u, c)
      PROVE  TalkLogs'
  <2>1. /\ thread' = thread
        /\ \/ talkMissed' = talkMissed /\ crossed' = crossed
           \/ /\ talkMissed' = [talkMissed EXCEPT ![u] = {}]
              /\ crossed' = [crossed EXCEPT ![u] = {}]
    BY <1>6 DEF Talk!PageOpens
  <2>2. QED
    BY <1>3, <2>1, LogsGrow
<1>7. ASSUME NEW u \in People, Talk!QueryArrives(u)
      PROVE  TalkLogs'
  <2>1. /\ thread' = thread
        /\ talkMissed' = [talkMissed EXCEPT ![u] =
             (@ \cup (Talk!ToSet(talkPage[u].view) \ {Talk!Pending})) \ reply[u].ids]
        /\ crossed' = [crossed EXCEPT ![u] = @ \cup Talk!Early(u, reply[u].ids)]
    BY <1>7 DEF Talk!QueryArrives
  <2>2. Talk!ToSet(talkPage[u].view) \ {Talk!Pending} \subseteq 1 .. n
    BY <1>1 DEF Talk!Pending
  <2>3. Talk!Early(u, reply[u].ids) \subseteq 1 .. n
    BY <1>1, <1>2
  <2>4. /\ \A v \in People : talkMissed'[v] \subseteq talkMissed[v] \cup 1 .. n
        /\ \A v \in People : crossed'[v] \subseteq crossed[v] \cup 1 .. n
    <3> HIDE DEF n
    <3> QED
      BY <1>3, <2>1, <2>2, <2>3
  <2>5. QED
    BY <2>1, <2>4, LogsGrow
<1>8. ASSUME NEW u \in People, Talk!OlderArrives(u)
      PROVE  TalkLogs'
  <2>1. /\ thread' = thread
        /\ talkMissed' = [talkMissed EXCEPT ![u] = @ \ older[u].ids]
        /\ crossed' = [crossed EXCEPT ![u] = @ \cup Talk!Early(u, older[u].ids)]
    BY <1>8 DEF Talk!OlderArrives
  <2>2. Talk!Early(u, older[u].ids) \subseteq 1 .. n
    BY <1>1, <1>2
  <2>3. /\ \A v \in People : talkMissed'[v] \subseteq talkMissed[v] \cup 1 .. n
        /\ \A v \in People : crossed'[v] \subseteq crossed[v] \cup 1 .. n
    <3> HIDE DEF n
    <3> QED
      BY <1>3, <2>1, <2>2
  <2>4. QED
    BY <2>1, <2>3, LogsGrow
<1>9. ASSUME NEW u \in People, Talk!MarkRead(u)
      PROVE  TalkLogs'
  <2>1. /\ thread' = [i \in DOMAIN thread |->
                        IF thread[i].conv = talkPage[u].conv /\ thread[i].from # u
                          THEN [thread[i] EXCEPT !.read = TRUE] ELSE thread[i]]
        /\ talkMissed' = talkMissed /\ crossed' = crossed
    BY <1>9 DEF Talk!MarkRead, Talk!history
  <2>2. \A i \in 1 .. n : thread[i] \in Message
    BY LenProperties, ElementOfSeq DEF TalkShape
  <2>3. \A i \in 1 .. n : thread'[i].conv = thread[i].conv
    BY <1>1, <2>1, <2>2 DEF Message
  <2>4. Len(thread') = n
    <3>1. DOMAIN thread' = 1 .. n /\ thread' \in Seq(Message)
      <4>1. \A i \in 1 .. n : [thread[i] EXCEPT !.read = TRUE] \in Message
        BY <2>2 DEF Message
      <4>2. \A i \in 1 .. n : (IF thread[i].conv = talkPage[u].conv /\ thread[i].from # u
                          THEN [thread[i] EXCEPT !.read = TRUE] ELSE thread[i]) \in Message
        BY <2>2, <4>1
      <4>3. QED
        BY <1>1, <2>1, <4>2, IsASeq
    <3>2. QED
      BY <1>1, <3>1, LenProperties
  <2>5. QED
    BY <2>1, <2>3, <2>4, LogsGrow
<1>10. ASSUME NEW u \in People, Talk!Disconnect(u) \/ Talk!PageCloses(u)
       PROVE  TalkLogs'
  <2>1. /\ thread' = thread /\ crossed' = crossed
        /\ talkMissed' = [talkMissed EXCEPT ![u] = @ \cup Talk!ToSet(socket[u].inbox)]
    BY <1>10 DEF Talk!Disconnect, Talk!PageCloses
  <2>2. \A v \in People : talkMissed'[v] \subseteq talkMissed[v] \cup 1 .. n
    <3> HIDE DEF n
    <3> QED
      BY <1>1, <1>3, <2>1
  <2>3. QED
    BY <2>1, <2>2, LogsGrow
<1>11. ASSUME NEW u \in People, Talk!Hear(u)
       PROVE  TalkLogs'
  <2>1. /\ thread' = thread /\ crossed' = crossed
        /\ \/ talkMissed' = talkMissed
           \/ talkMissed' = [talkMissed EXCEPT ![u] = @ \cup {Head(socket[u].inbox)}]
    BY <1>11 DEF Talk!Hear
  <2>2. Head(socket[u].inbox) \in 1 .. n
    <3>1. socket[u].inbox \in Seq(1 .. n) /\ socket[u].inbox # <<>>
      BY <1>11, PartsOf DEF Talk!Hear, TalkShape, Connection
    <3> HIDE DEF n
    <3>2. QED
      BY <3>1, HeadTailProperties
  <2>3. \A v \in People : talkMissed'[v] \subseteq talkMissed[v] \cup 1 .. n
    <3> HIDE DEF n
    <3> QED
      BY <1>3, <2>1, <2>2
  <2>4. QED
    BY <2>1, <2>3, LogsGrow
<1>12. ASSUME NEW u \in People, Talk!PostInsert(u)
       PROVE  TalkLogs'
  <2>1. /\ thread' = Append(thread, [conv |-> post[u].conv, from |-> u, read |-> FALSE])
        /\ n < MaxMessages /\ post[u].conv \in Convs
        /\ talkMissed' = talkMissed /\ crossed' = crossed
    BY <1>12 DEF Talk!PostInsert, Talk!history, TalkRows
  <2>2. /\ Len(thread') = n + 1 /\ thread'[n + 1].conv = post[u].conv
        /\ \A i \in 1 .. n : thread'[i] = thread[i]
    BY <2>1, AppendProperties DEF TalkShape
  <2> HIDE DEF n
  <2>3. n + 1 <= MaxMessages /\ \A i \in 1 .. n + 1 : thread'[i].conv \in Convs
    BY <1>1, <2>1, <2>2, NumbersAssumption DEF TalkLogs, n
  <2>4. 1 .. n \subseteq 1 .. n + 1
    BY <1>1
  <2>5. QED
    BY <2>1, <2>2, <2>3, <2>4 DEF TalkLogs, n
<1>13. ASSUME NEW u \in People, Talk!PostEmit(u) \/ Talk!PostAnswered(u) \/ Talk!PostFails(u)
       PROVE  TalkLogs'
  <2>1. /\ thread' = thread /\ crossed' = crossed
        /\ \A v \in People : talkMissed'[v] \subseteq talkMissed[v] \cup ({post[u].id} \ {0})
    <3>1. CASE Talk!PostEmit(u)
      <4>1. post[u].id # 0
        BY <1>1, <3>1 DEF Talk!PostEmit, TalkShape
      <4>2. QED
        BY <1>3, <3>1, <4>1 DEF Talk!PostEmit
    <3>2. CASE Talk!PostAnswered(u)
      <4>1. post[u].id # 0
        BY <1>1, <3>2 DEF Talk!PostAnswered, TalkShape
      <4>2. QED
        BY <1>3, <3>2, <4>1 DEF Talk!PostAnswered
    <3>3. CASE Talk!PostFails(u)
      BY <1>3, <3>3 DEF Talk!PostFails
    <3>4. QED
      BY <1>13, <3>1, <3>2, <3>3
  <2>2. {post[u].id} \ {0} \subseteq 1 .. n
    BY <1>1
  <2>3. \A v \in People : talkMissed'[v] \subseteq talkMissed[v] \cup 1 .. n
    <3> HIDE DEF n
    <3> QED
      BY <2>1, <2>2
  <2>4. QED
    BY <2>1, <2>3, LogsGrow
<1>14. CASE UNCHANGED Talk!vars
  BY <1>4, <1>14 DEF Talk!vars
<1>15. QED
  BY <1>4, <1>5, <1>6, <1>7, <1>8, <1>9, <1>10, <1>11, <1>12, <1>13, <1>14 DEF Talk!Next

\* Conversations have the types that a run checks.
LEMMA TalkHasTypes == TalkShape /\ TalkRows /\ TalkLogs => Talk!TypeOK
<1> SUFFICES ASSUME TalkShape, TalkRows, TalkLogs PROVE Talk!TypeOK
  OBVIOUS
<1> DEFINE n == Len(thread)
<1>1. n \in Nat /\ n <= MaxMessages /\ DOMAIN thread = 1 .. n
      /\ \A i \in 1 .. n : thread[i] \in Message
  BY LenProperties, ElementOfSeq DEF TalkShape, TalkLogs
<1>2. \A i \in 1 .. n : thread[i] \in [conv : Convs, from : People, read : BOOLEAN]
  <2> TAKE i \in 1 .. n
  <2>1. thread[i] \in [conv : Convs \cup {None}, from : People, read : BOOLEAN] /\ thread[i].conv \in Convs
    BY <1>1 DEF Message, TalkLogs
  <2>2. QED
    BY <2>1
<1>3. ASSUME NEW u \in People
      PROVE  /\ talkPage[u].conv \in Convs \cup {None} /\ talkPage[u].on \in BOOLEAN
             /\ Talk!ToSet(talkPage[u].view) \subseteq {Talk!Pending} \cup 1 .. n
             /\ post[u] \in [pc : {"idle", "insert", "emit", "answer"},
                             conv : Convs \cup {None}, id : 0 .. MaxMessages]
             /\ socket[u].todo \subseteq {"join", "read"}
  <2>1. /\ talkPage[u].conv \in Convs \cup {None} /\ talkPage[u].on \in BOOLEAN
        /\ socket[u].todo \subseteq {"join", "read"}
    BY PartsOf DEF TalkShape, Page, Connection
  <2>2. Talk!ToSet(talkPage[u].view) \subseteq {Talk!Pending} \cup 1 .. n
    <3>1. talkPage[u].view \in Seq(0 .. n)
      BY PartsOf DEF TalkShape, Page
    <3>2. \A k \in DOMAIN talkPage[u].view : talkPage[u].view[k] \in 0 .. n
      BY <3>1, LenProperties, ElementOfSeq
    <3>3. 0 .. n = {0} \cup 1 .. n
      BY <1>1
    <3>4. QED
      BY <3>2, <3>3 DEF Talk!ToSet, Talk!Pending
  <2>3. post[u] \in Sending /\ post[u].id \in 0 .. MaxMessages
    <3>1. post[u].id \in 0 .. n
      BY <1>1 DEF TalkShape
    <3> HIDE DEF n
    <3>2. 0 .. n \subseteq 0 .. MaxMessages
      BY <1>1, NumbersAssumption
    <3>3. QED
      BY <3>1, <3>2 DEF TalkShape
  <2>4. QED
    BY <2>1, <2>2, <2>3 DEF Sending
<1>4. QED
  BY <1>1, <1>2, <1>3 DEF Talk!TypeOK, TalkRows, TalkLogs

-----------------------------------------------------------------------------
(* The comments under a post or an itinerary *)

\* One comment on a screen, and what it shows of the like of its viewer.
Shown == [id : Comments, liked : BOOLEAN, likes : Int]
Seen(c, mine) == [id |-> c, liked |-> mine, likes |-> IF mine THEN 1 ELSE 0]

NewestFirst(list) == \A k, m \in DOMAIN list : k < m => list[m].id < list[k].id

\* The comment that was inserted and not answered yet, and those that are there besides.
Unanswered == IF add.pc = "inserted" THEN {add.id} ELSE {}
Known == threadRows \ Unanswered

\* The like as the screen has it: a like that is on its way counts already.
OnItsWay(l, c) == threadLikes[l].pc = "sent" /\ threadLikes[l].id = c
Fav(c) ==
  \/ \E l \in Likes : OnItsWay(l, c) /\ ~threadLikes[l].was
  \/ c \in liked /\ \A l \in Likes : ~OnItsWay(l, c)

Leaving(c) == deletes[c].pc \in {"waits", "sent"}

Adding   == [pc : {"idle", "sent", "inserted"}, id : Nat]
Liking   == [pc : {"idle", "sent", "done"}, id : Nat, was : BOOLEAN]
Deletion == [pc : {"idle", "waits", "sent", "done"}, prev : Seq(Shown)]
Listing  == [pc : {"idle", "asked", "read"}, reply : Seq(Shown)]

ThreadShape ==
  /\ kind \in {"post", "itinerary"}
  /\ threadRows \in SUBSET Comments /\ IsFiniteSet(threadRows)
  /\ threadScreen \in Seq(Shown)
  /\ threadCount \in Int
  /\ add \in Adding /\ (add.pc = "inserted" => add.id \in Comments)
  /\ threadLikes \in [Likes -> Liking]
  /\ deletes \in [Comments -> Deletion]
  /\ threadQuery \in Listing

\* What is inserted is the newest, and has no like; likes are of comments that are there,
\* one at a time; what is deleted is there, and the screen as it was has it.
RowsInv ==
  /\ liked \in SUBSET Known
  /\ add.pc = "inserted" => add.id \in threadRows /\ \A c \in Known : c < add.id
  /\ kind = "post" => /\ threadCount = Cardinality(Known)
                      /\ \A c \in Comments : deletes[c].pc = "idle"
  /\ kind = "itinerary" => liked = {} /\ \A l \in Likes : threadLikes[l].pc = "idle"
  /\ \A l \in Likes : threadLikes[l].pc # "idle" =>
       /\ threadLikes[l].id \in Known
       /\ threadLikes[l].pc = "sent" => (threadLikes[l].was <=> threadLikes[l].id \in liked)
       /\ \A m \in Likes : threadLikes[m].pc # "idle" /\ threadLikes[m].id = threadLikes[l].id
                             => m = l
  /\ \A c \in Comments : Leaving(c) =>
       /\ c \in Known
       /\ NewestFirst(deletes[c].prev) /\ On(deletes[c].prev, Seen(c, FALSE))
       /\ \A e : On(deletes[c].prev, e) => e = Seen(e.id, FALSE)

\* The screen shows comments that are there, and all of them but those that are leaving,
\* unless a query is to bring them.
ScreenInv ==
  /\ NewestFirst(threadScreen)
  /\ \A e : On(threadScreen, e) => e.id \in Known /\ e = Seen(e.id, Fav(e.id))
  /\ threadQuery.pc = "idle" =>
       \A c \in Known : Leaving(c) \/ On(threadScreen, Seen(c, Fav(c)))

\* Nothing crosses the reply.
ReplyInv ==
  threadQuery.pc = "read" =>
    /\ \A l \in Likes : threadLikes[l].pc = "idle"
    /\ NewestFirst(threadQuery.reply)
    /\ \A e : On(threadQuery.reply, e) <=> e.id \in Known /\ e = Seen(e.id, e.id \in liked)

ThreadInv == ThreadShape /\ (threadSlips = {} => RowsInv /\ ScreenInv /\ ReplyInv)

\* The operators of the module are those of Ordered.
LEMMA ThreadOrder ==
  ASSUME NEW S
  PROVE  Thread!Descending(S) = Descending(S)
<1>1. Thread!Cardinality(S) = Cardinality(S)
  BY DEF Thread!Cardinality, Cardinality
<1>2. Thread!Ascending(S) = Ascending(S)
  BY DEF Thread!Ascending, Ascending, Thread!Place, Place, Thread!Cardinality, Cardinality
<1>3. QED
  BY <1>1, <1>2 DEF Thread!Descending, Descending

LEMMA ThreadKept ==
  ASSUME NEW s, NEW P
  PROVE  Thread!Kept(s, P) = Kept(s, P)
<1>1. Thread!Cardinality(P) = Cardinality(P)
  BY DEF Thread!Cardinality, Cardinality
<1>2. Thread!Ascending(P) = Ascending(P)
  BY DEF Thread!Ascending, Ascending, Thread!Place, Place, Thread!Cardinality, Cardinality
<1>3. QED
  BY <1>1, <1>2 DEF Thread!Kept, Kept

\* What is seen of a comment.
LEMMA SeenIs ==
  ASSUME NEW c \in Comments
  PROVE  /\ \A mine : Seen(c, mine).id = c
         /\ \A mine : Seen(c, c \in mine) \in Shown
         /\ Seen(c, FALSE) \in Shown /\ Seen(c, TRUE) \in Shown
BY DEF Seen, Shown

\* Comments are finitely many numbers.
LEMMA SomeComments ==
  ASSUME NEW S \in SUBSET Comments
  PROVE  S \in SUBSET Int /\ \A c \in S : c \in Int
BY NumbersAssumption

\* The answer to the query has the comments once each, the newest first.
LEMMA ListedIs ==
  ASSUME NEW S \in SUBSET Comments, IsFiniteSet(S), NEW mine
  PROVE  /\ Thread!Listed(S, mine) \in Seq(Shown)
         /\ NewestFirst(Thread!Listed(S, mine))
         /\ \A e : On(Thread!Listed(S, mine), e)
                     <=> e.id \in S /\ e = Seen(e.id, e.id \in mine)
<1> DEFINE n == Cardinality(S)
           order == Descending(S)
           list == Thread!Listed(S, mine)
<1>1. n \in Nat /\ S \in SUBSET Int
  BY SomeComments, FS_CardinalityType
<1>2. /\ DOMAIN order = 1 .. n
      /\ \A k \in 1 .. n : order[k] \in S
      /\ \A k, m \in 1 .. n : k < m => order[m] < order[k]
      /\ \A i \in S : \E k \in 1 .. n : order[k] = i
  BY <1>1, DescendingLists
<1> HIDE DEF n, order
<1>3. list = [k \in 1 .. n |-> Seen(order[k], order[k] \in mine)]
  BY <1>2, ThreadOrder DEF Thread!Listed, Seen, order
<1> HIDE DEF list
<1>4. /\ DOMAIN list = 1 .. n
      /\ \A k \in 1 .. n : /\ list[k] = Seen(order[k], order[k] \in mine)
                           /\ list[k] \in Shown /\ list[k].id = order[k]
  <2>1. \A k \in 1 .. n : order[k] \in Comments
    BY <1>2
  <2>2. QED
    BY <1>3, <2>1, SeenIs
<1>5. list \in [1 .. n -> Shown]
  BY <1>3, <1>4
<1>6. list \in Seq(Shown)
  BY <1>1, <1>5, SeqDef
<1>7. NewestFirst(list)
  BY <1>2, <1>4 DEF NewestFirst
<1>8. ASSUME NEW e, On(list, e)
      PROVE  e.id \in S /\ e = Seen(e.id, e.id \in mine)
  BY <1>2, <1>4, <1>8 DEF On
<1>9. ASSUME NEW e, e.id \in S, e = Seen(e.id, e.id \in mine)
      PROVE  On(list, e)
  <2>1. PICK k \in 1 .. n : order[k] = e.id
    BY <1>2, <1>9
  <2>2. list[k] = e
    BY <1>4, <1>9, <2>1
  <2>3. QED
    BY <1>4, <2>2 DEF On
<1>10. QED
  BY <1>6, <1>7, <1>8, <1>9 DEF list

\* A list that has the comments, the newest first, is the answer to the query.
LEMMA ListedOnly ==
  ASSUME NEW S \in SUBSET Comments, IsFiniteSet(S), NEW mine, NEW list \in Seq(Shown),
         NewestFirst(list),
         \A e : On(list, e) <=> e.id \in S /\ e = Seen(e.id, e.id \in mine)
  PROVE  list = Thread!Listed(S, mine)
<1> DEFINE n == Len(list)
           s == [k \in 1 .. n |-> list[k].id]
           order == Descending(S)
<1>1. /\ n \in Nat /\ DOMAIN list = 1 .. n
      /\ S \in SUBSET Int
  BY SomeComments, LenProperties
<1> HIDE DEF n
<1>2. \A k \in 1 .. n : /\ s[k] = list[k].id /\ list[k].id \in S
                        /\ list[k] = Seen(list[k].id, list[k].id \in mine)
  BY <1>1 DEF On
<1>3. \A k, m \in 1 .. n : k < m => s[m] < s[k]
  BY <1>1, <1>2 DEF NewestFirst
<1>4. ASSUME NEW i \in S
      PROVE  \E k \in 1 .. n : s[k] = i
  <2>1. Seen(i, i \in mine).id = i
    BY SeenIs
  <2>2. On(list, Seen(i, i \in mine))
    BY <2>1
  <2>3. QED
    BY <1>1, <1>2, <2>1, <2>2 DEF On
<1> HIDE DEF s
<1>5. n = Cardinality(S) /\ \A k \in 1 .. n : s[k] = order[k]
  <2>1. n \in Nat /\ S \in SUBSET Int
    BY <1>1
  <2>2. \A k \in 1 .. n : s[k] \in S
    BY <1>2
  <2>3. \A k, m \in 1 .. n : k < m => s[m] < s[k]
    BY <1>3
  <2>4. \A i \in S : \E k \in 1 .. n : s[k] = i
    BY <1>4
  <2>5. QED
    BY <2>1, <2>2, <2>3, <2>4, DescendingOnly
<1>6. DOMAIN order = 1 .. n
  BY <1>1, <1>5, DescendingLists
<1> HIDE DEF order
<1>7. Thread!Listed(S, mine) = [k \in 1 .. n |-> Seen(order[k], order[k] \in mine)]
  BY <1>6, ThreadOrder DEF Thread!Listed, Seen, order
<1>8. \A k \in 1 .. n : list[k] = Seen(order[k], order[k] \in mine)
  BY <1>2, <1>5
<1>9. list = [k \in 1 .. n |-> list[k]]
  BY <1>1, SeqDef
<1>10. QED
  BY <1>7, <1>8, <1>9

\* A like on the screen, or taken back, is that of one comment.
LEMMA LikedIs ==
  ASSUME NEW list \in Seq(Shown), NEW c, NEW now \in BOOLEAN
  PROVE  /\ Thread!With(list, c, now) \in Seq(Shown)
         /\ DOMAIN Thread!With(list, c, now) = DOMAIN list
         /\ NewestFirst(list) => NewestFirst(Thread!With(list, c, now))
         /\ \A k \in DOMAIN list :
              /\ list[k].id # c => Thread!With(list, c, now)[k] = list[k]
              /\ list[k] = Seen(c, ~now) => Thread!With(list, c, now)[k] = Seen(c, now)
<1> DEFINE out == Thread!With(list, c, now)
           n == Len(list)
<1>1. n \in Nat /\ DOMAIN list = 1 .. n /\ \A k \in 1 .. n : list[k] \in Shown
  BY LenProperties, ElementOfSeq
<1>2. out = [k \in 1 .. n |->
               IF list[k].id = c
                 THEN [list[k] EXCEPT !.liked = now, !.likes = IF now THEN @ + 1 ELSE @ - 1]
                 ELSE list[k]]
  BY <1>1 DEF Thread!With
<1> HIDE DEF out, n
<1>3. ASSUME NEW k \in 1 .. n
      PROVE  /\ out[k] \in Shown /\ out[k].id = list[k].id
             /\ list[k].id # c => out[k] = list[k]
             /\ list[k] = Seen(c, ~now) => out[k] = Seen(c, now)
  <2>a. list[k] \in Shown /\ Seen(c, ~now).id = c
    BY <1>1 DEF Seen
  <2>1. CASE list[k].id # c
    <3>1. out[k] = list[k]
      BY <1>2, <2>1
    <3>2. QED
      BY <2>a, <2>1, <3>1
  <2>2. CASE list[k].id = c
    <3>1. PICK a \in Int : a = IF now THEN list[k].likes + 1 ELSE list[k].likes - 1
      BY <2>a DEF Shown
    <3>2. out[k] = [list[k] EXCEPT !.liked = now, !.likes = a]
      BY <1>2, <2>2, <3>1
    <3>3. out[k] \in Shown /\ out[k].id = list[k].id
      BY <2>a, <3>2 DEF Shown
    <3>4. out[k] = [id |-> list[k].id, liked |-> now, likes |-> a]
      BY <2>a, <3>2 DEF Shown
    <3>5. ASSUME list[k] = Seen(c, ~now)
          PROVE  out[k] = Seen(c, now)
      <4>1. CASE now = TRUE
        BY <2>2, <3>1, <3>4, <3>5, <4>1 DEF Seen
      <4>2. CASE now = FALSE
        BY <2>2, <3>1, <3>4, <3>5, <4>2 DEF Seen
      <4>3. QED
        BY <4>1, <4>2
    <3>6. QED
      BY <2>2, <3>3, <3>5
  <2>3. QED
    BY <2>1, <2>2
<1>4. DOMAIN out = 1 .. n
  BY <1>2
<1>5. out \in [1 .. n -> Shown]
  BY <1>2, <1>3, <1>4
<1>6. out \in Seq(Shown)
  BY <1>1, <1>5, SeqDef
<1>7. NewestFirst(list) => NewestFirst(out)
  BY <1>1, <1>3, <1>4 DEF NewestFirst
<1>8. QED
  BY <1>1, <1>3, <1>4, <1>6, <1>7 DEF out

\* A comment is taken off the screen.
LEMMA WithoutIs ==
  ASSUME NEW list \in Seq(Shown), NEW c
  PROVE  /\ Thread!Without(list, c) \in Seq(Shown)
         /\ NewestFirst(list) => NewestFirst(Thread!Without(list, c))
         /\ \A e : On(Thread!Without(list, c), e) <=> On(list, e) /\ e.id # c
<1> DEFINE K == {k \in DOMAIN list : list[k].id # c}
           at == Ascending(K)
           n == Cardinality(K)
           out == Thread!Without(list, c)
<1>1. out = Kept(list, K)
  BY ThreadKept DEF Thread!Without
<1>2. K \in SUBSET (DOMAIN list) /\ \A k \in DOMAIN list : k \in K <=> list[k].id # c
  OBVIOUS
<1> HIDE DEF K
<1>3. /\ IsFiniteSet(K) /\ K \in SUBSET Int
      /\ Kept(list, K) \in Seq(Shown) /\ DOMAIN Kept(list, K) = 1 .. n
      /\ \A k \in 1 .. n : at[k] \in K /\ Kept(list, K)[k] = list[at[k]]
  BY <1>2, KeptIs
<1>4. /\ \A k, m \in 1 .. n : k < m => at[k] < at[m]
      /\ \A i \in K : \E k \in 1 .. n : at[k] = i
  BY <1>3, AscendingLists
<1> HIDE DEF at, n, out
<1>5. /\ DOMAIN out = 1 .. n /\ out \in Seq(Shown)
      /\ \A k \in 1 .. n : at[k] \in K /\ at[k] \in DOMAIN list /\ out[k] = list[at[k]]
  BY <1>1, <1>2, <1>3
<1>6. NewestFirst(list) => NewestFirst(out)
  BY <1>4, <1>5 DEF NewestFirst
<1>7. ASSUME NEW e, On(out, e)
      PROVE  On(list, e) /\ e.id # c
  BY <1>2, <1>5, <1>7 DEF On
<1>8. ASSUME NEW e, On(list, e), e.id # c
      PROVE  On(out, e)
  <2>1. PICK i \in DOMAIN list : list[i] = e
    BY <1>8 DEF On
  <2>2. PICK k \in 1 .. n : at[k] = i
    BY <1>2, <1>4, <1>8, <2>1
  <2>3. QED
    BY <1>5, <2>1, <2>2 DEF On
<1>9. QED
  BY <1>5, <1>6, <1>7, <1>8 DEF out

\* A new comment goes first.
LEMMA FirstIs ==
  ASSUME NEW list \in Seq(Shown), NEW e \in Shown
  PROVE  /\ <<e>> \o list \in Seq(Shown)
         /\ \A x : On(<<e>> \o list, x) <=> x = e \/ On(list, x)
         /\ NewestFirst(list) /\ (\A x : On(list, x) => x.id < e.id)
              => NewestFirst(<<e>> \o list)
<1> DEFINE out == <<e>> \o list
           n == Len(list)
<1>1. /\ n \in Nat /\ DOMAIN list = 1 .. n
      /\ <<e>> \in Seq(Shown) /\ Len(<<e>>) = 1 /\ <<e>>[1] = e
  BY LenProperties
<1>2. /\ out \in Seq(Shown) /\ Len(out) = 1 + n
      /\ \A i \in 1 .. 1 + n : out[i] = IF i <= 1 THEN <<e>>[i] ELSE list[i - 1]
  BY <1>1, ConcatProperties
<1>3. DOMAIN out = 1 .. n + 1
  BY <1>1, <1>2, LenProperties
<1> HIDE DEF out, n
<1>4. out[1] = e /\ \A i \in 1 .. n : out[i + 1] = list[i]
  BY <1>1, <1>2
<1>5. ASSUME NEW k \in DOMAIN out
      PROVE  k = 1 \/ (k - 1 \in DOMAIN list /\ out[k] = list[k - 1])
  <2>1. k # 1 => k - 1 \in 1 .. n /\ k - 1 + 1 = k
    BY <1>1, <1>3
  <2>2. QED
    BY <1>1, <1>4, <2>1
<1>6. \A x : On(out, x) <=> x = e \/ On(list, x)
  <2>1. ASSUME NEW i \in DOMAIN list
        PROVE  i + 1 \in DOMAIN out /\ out[i + 1] = list[i]
    BY <1>1, <1>3, <1>4
  <2>2. 1 \in DOMAIN out
    BY <1>1, <1>3
  <2>3. QED
    BY <1>4, <1>5, <2>1, <2>2 DEF On
<1>7. ASSUME NewestFirst(list), \A x : On(list, x) => x.id < e.id
      PROVE  NewestFirst(out)
  <2> SUFFICES ASSUME NEW k \in DOMAIN out, NEW m \in DOMAIN out, k < m
               PROVE  out[m].id < out[k].id
    BY DEF NewestFirst
  <2>1. m # 1 /\ k \in Int /\ m \in Int
    BY <1>1, <1>3
  <2>2. m - 1 \in DOMAIN list /\ out[m] = list[m - 1] /\ On(list, out[m])
    BY <1>5, <2>1 DEF On
  <2>3. CASE k = 1
    BY <1>4, <1>7, <2>2, <2>3
  <2>4. CASE k # 1
    <3>1. k - 1 \in DOMAIN list /\ out[k] = list[k - 1] /\ k - 1 < m - 1
      BY <1>5, <2>1, <2>4
    <3>2. QED
      BY <1>7, <2>2, <3>1 DEF NewestFirst
  <2>5. QED
    BY <2>3, <2>4
<1>8. QED
  BY <1>2, <1>6, <1>7 DEF out

\* Numbers have a least one.
LEMMA LeastIs ==
  ASSUME NEW S \in SUBSET Nat, S # {}
  PROVE  \E i \in S : \A j \in S : i <= j
<1>1. PICK m \in S : TRUE
  OBVIOUS
<1> DEFINE T == {i \in S : i <= m}
<1>2. IsFiniteSet(0 .. m) /\ T \in SUBSET (0 .. m)
  <2>1. m \in Nat /\ 0 \in Int /\ m \in Int
    OBVIOUS
  <2>2. IsFiniteSet(0 .. m)
    BY <2>1, FS_Interval
  <2>3. \A i \in T : i \in Nat /\ i <= m
    OBVIOUS
  <2> HIDE DEF T
  <2>4. \A i \in T : i \in 0 .. m
    BY <2>1, <2>3
  <2>5. QED
    BY <2>2, <2>4
<1>3. T \in SUBSET Int /\ IsFiniteSet(T) /\ m \in T
  BY <1>2, FS_Subset
<1> HIDE DEF T
<1>4. /\ Cardinality(T) \in Nat /\ Cardinality(T) # 0
      /\ \A k \in 1 .. Cardinality(T) : Ascending(T)[k] \in T
      /\ \A k, n \in 1 .. Cardinality(T) : k < n => Ascending(T)[k] < Ascending(T)[n]
      /\ \A i \in T : \E k \in 1 .. Cardinality(T) : Ascending(T)[k] = i
  BY <1>3, AscendingLists, FS_CardinalityType, FS_EmptySet
<1>5. 1 \in 1 .. Cardinality(T) /\ Ascending(T)[1] \in T
  BY <1>4
<1>6. ASSUME NEW i \in T
      PROVE  Ascending(T)[1] <= i
  <2>1. PICK k \in 1 .. Cardinality(T) : Ascending(T)[k] = i
    BY <1>4
  <2>2. k = 1 \/ 1 < k
    BY <1>4
  <2>3. Ascending(T)[1] \in Int /\ i \in Int
    BY <1>3, <1>5
  <2>4. 1 < k => Ascending(T)[1] < i
    BY <1>4, <1>5, <2>1
  <2>5. QED
    BY <2>1, <2>2, <2>3, <2>4
<1>7. \A i \in S : i \in T \/ m < i
  BY DEF T
<1>8. Ascending(T)[1] \in S /\ Ascending(T)[1] <= m
  BY <1>5, <1>6, <1>3 DEF T
<1>9. ASSUME NEW i \in S
      PROVE  Ascending(T)[1] <= i
  <2>1. \A x \in S : x \in Int
    OBVIOUS
  <2>2. Ascending(T)[1] \in Int /\ m \in Int /\ i \in Int
    BY <1>8, <2>1
  <2>3. QED
    BY <1>6, <1>7, <1>8, <2>2
<1>10. QED
  BY <1>8, <1>9

\* What stands for nothing that is under way.
LEMMA NothingAdded == Thread!NoAdd \in Adding /\ Thread!NoAdd.pc = "idle"
BY DEF Thread!NoAdd, Adding

LEMMA NothingLiked == Thread!NoLike \in Liking /\ Thread!NoLike.pc = "idle"
BY DEF Thread!NoLike, Liking

LEMMA NoQueryYet ==
  /\ Thread!NoQuery \in Listing /\ Thread!NoQuery.pc = "idle"
  /\ [Thread!NoQuery EXCEPT !.pc = "asked"] \in Listing
  /\ [Thread!NoQuery EXCEPT !.pc = "asked"].pc = "asked"
<1>1. PICK none \in Seq(Shown) : Thread!NoQuery = [pc |-> "idle", reply |-> none]
  <2>1. << >> \in Seq(Shown)
    OBVIOUS
  <2>2. QED
    BY <2>1 DEF Thread!NoQuery
<1>2. QED
  BY <1>1 DEF Listing

\* What the screen shows are comments.
LEMMA OnScreen ==
  ASSUME ThreadShape
  PROVE  /\ Comments \in SUBSET Nat
         /\ \A k \in DOMAIN threadScreen :
              /\ threadScreen[k] \in Shown /\ On(threadScreen, threadScreen[k])
              /\ threadScreen[k].id \in Comments /\ threadScreen[k].id \in Nat
              /\ threadScreen[k].liked \in BOOLEAN
<1>1. Comments \in SUBSET Nat
  BY NumbersAssumption
<1>2. \A k \in DOMAIN threadScreen : threadScreen[k] \in Shown
  BY LenProperties, ElementOfSeq DEF ThreadShape
<1>3. QED
  BY <1>1, <1>2 DEF Shown, On

\* The next comment is the newest of them.
LEMMA NextComment ==
  ASSUME ThreadShape, NEW id, Thread!Unused # {},
         id = CHOOSE i \in Thread!Unused : \A j \in Thread!Unused : i <= j
  PROVE  /\ id \in Comments /\ id \in Nat /\ deletes[id].pc = "idle"
         /\ id \notin threadRows /\ \A c \in threadRows : c < id
         /\ IsFiniteSet(threadRows \cup {id})
<1>1. Thread!Unused \in SUBSET Nat /\ \A c \in threadRows : c \in Int
  <2>1. Thread!Unused \in SUBSET Comments
    BY DEF Thread!Unused
  <2>2. QED
    BY <2>1, NumbersAssumption DEF ThreadShape
<1>2. id \in Thread!Unused
  BY <1>1, LeastIs
<1>3. /\ id \in Comments /\ id \in Nat /\ deletes[id].pc = "idle"
      /\ \A c \in threadRows : id > c
  BY <1>1, <1>2 DEF Thread!Unused
<1>4. id \notin threadRows /\ \A c \in threadRows : c < id
  BY <1>1, <1>3
<1>5. QED
  BY <1>3, <1>4, FS_AddElement DEF ThreadShape

\* What stays when the comments and what is under way with them do.
LEMMA SameThread ==
  ASSUME ThreadShape, RowsInv, ScreenInv, ReplyInv, Known' = Known,
         UNCHANGED <<kind, liked, threadScreen, threadCount, threadLikes, threadQuery>>,
         \A c \in Comments : /\ deletes'[c].pc = "idle" <=> deletes[c].pc = "idle"
                             /\ Leaving(c)' <=> Leaving(c)
                             /\ deletes'[c].prev = deletes[c].prev,
         add'.pc = "inserted" => add'.id \in threadRows' /\ \A c \in Known : c < add'.id
  PROVE  RowsInv' /\ ScreenInv' /\ ReplyInv'
<1>1. \A c : Fav(c)' = Fav(c)
  BY DEF Fav, OnItsWay
<1>2. Known \in SUBSET Comments
  BY DEF ThreadShape, Known
<1>3. RowsInv'
  <2>1. \A c \in Comments : Leaving(c)' => Leaving(c) /\ deletes'[c].prev = deletes[c].prev
    OBVIOUS
  <2>2. QED
    BY <2>1 DEF RowsInv
<1>4. ScreenInv'
  BY <1>1, <1>2 DEF ScreenInv
<1>5. ReplyInv'
  BY DEF ReplyInv
<1>6. QED
  BY <1>3, <1>4, <1>5

\* A comment is sent, is written and waits for the answer, or fails before.
LEMMA WritingStays ==
  ASSUME ThreadInv, Thread!Send \/ Thread!Insert \/ Thread!SendFails \/ Thread!OtherComments
  PROVE  ThreadInv'
<1>1. CASE Thread!Send
  <2>1. PICK a : a = [add EXCEPT !.pc = "sent"]
    OBVIOUS
  <2>2. /\ add.pc = "idle" /\ add' = a
        /\ UNCHANGED <<kind, threadRows, liked, threadScreen, threadCount, threadLikes,
                       deletes, threadQuery, threadSlips>>
    BY <1>1, <2>1 DEF Thread!Send
  <2>3. a \in Adding /\ a.pc = "sent"
    BY <2>1 DEF ThreadInv, ThreadShape, Adding
  <2>4. ThreadShape'
    BY <2>2, <2>3 DEF ThreadInv, ThreadShape
  <2>5. Known' = Known
    BY <2>2, <2>3 DEF Known, Unanswered
  <2>6. QED
    BY <2>2, <2>3, <2>4, <2>5, SameThread DEF ThreadInv, Leaving
<1>2. CASE Thread!Insert
  <2>1. PICK id : id = CHOOSE i \in Thread!Unused : \A j \in Thread!Unused : i <= j
    OBVIOUS
  <2>2. PICK a : a = [pc |-> "inserted", id |-> id]
    OBVIOUS
  <2>3. /\ add.pc = "sent" /\ Thread!Unused # {} /\ add' = a
        /\ threadRows' = threadRows \cup {id}
        /\ UNCHANGED <<kind, liked, threadScreen, threadCount, threadLikes,
                       deletes, threadQuery, threadSlips>>
    BY <1>2, <2>1, <2>2 DEF Thread!Insert
  <2>4. /\ id \in Comments /\ id \in Nat /\ id \notin threadRows
        /\ \A c \in threadRows : c < id
        /\ IsFiniteSet(threadRows \cup {id})
    BY <2>1, <2>3, NextComment DEF ThreadInv
  <2>5. a \in Adding /\ a.pc = "inserted" /\ a.id = id
    BY <2>2, <2>4 DEF Adding
  <2>6. ThreadShape'
    BY <2>3, <2>4, <2>5 DEF ThreadInv, ThreadShape
  <2>7. Known' = Known /\ Known = threadRows
    BY <2>3, <2>4, <2>5 DEF Known, Unanswered
  <2>8. QED
    BY <2>3, <2>4, <2>5, <2>6, <2>7, SameThread DEF ThreadInv, Leaving
<1>3. CASE Thread!SendFails
  <2>1. /\ add' = Thread!NoAdd
        /\ threadSlips' = {} => threadSlips = {} /\ add.pc # "inserted"
        /\ UNCHANGED <<kind, threadRows, liked, threadScreen, threadCount, threadLikes,
                       deletes, threadQuery>>
    BY <1>3 DEF Thread!SendFails, Thread!Slip
  <2>2. ThreadShape'
    BY <2>1, NothingAdded DEF ThreadInv, ThreadShape
  <2>3. threadSlips' = {} => Known' = Known
    BY <2>1, NothingAdded DEF Known, Unanswered
  <2>4. QED
    BY <2>1, <2>2, <2>3, NothingAdded, SameThread DEF ThreadInv, Leaving
<1>4. CASE Thread!OtherComments
  <2>1. PICK id : id = CHOOSE i \in Thread!Unused : \A j \in Thread!Unused : i <= j
    OBVIOUS
  <2>2. /\ Thread!Unused # {} /\ threadRows' = threadRows \cup {id} /\ threadSlips' # {}
        /\ UNCHANGED <<kind, liked, threadScreen, threadCount, add, threadLikes,
                       deletes, threadQuery>>
    BY <1>4, <2>1 DEF Thread!OtherComments, Thread!Slip
  <2>3. id \in Comments /\ IsFiniteSet(threadRows \cup {id})
    BY <2>1, <2>2, NextComment DEF ThreadInv
  <2>4. QED
    BY <2>2, <2>3 DEF ThreadInv, ThreadShape
<1>5. QED
  BY <1>1, <1>2, <1>3, <1>4

\* The answer brings the comment.
LEMMA CommentStays ==
  ASSUME ThreadInv, Thread!Answered
  PROVE  ThreadInv'
<1> DEFINE id == add.id
           new == Seen(id, FALSE)
<1>1. /\ add.pc = "inserted"
      /\ threadScreen' = <<new>> \o threadScreen
      /\ threadCount' = threadCount + 1 /\ add' = Thread!NoAdd
      /\ threadSlips' = {} => threadSlips = {} /\ threadQuery.pc = "idle"
      /\ UNCHANGED <<kind, threadRows, liked, threadLikes, deletes, threadQuery>>
  BY DEF Thread!Answered, Thread!Slip, Seen
<1>2. ThreadShape
  BY DEF ThreadInv
<1>3. new.id = id
  BY DEF Seen
<1> HIDE DEF new
<1>4. ThreadShape'
  <2>1. new \in Shown
    BY <1>1, <1>2, SeenIs DEF ThreadShape, new
  <2>2. <<new>> \o threadScreen \in Seq(Shown)
    BY <1>2, <2>1, FirstIs DEF ThreadShape
  <2>3. threadScreen' \in Seq(Shown)
    BY <1>1, <2>2
  <2>4. threadCount + 1 \in Int
    BY <1>2 DEF ThreadShape
  <2>5. threadCount' \in Int
    BY <1>1, <2>4
  <2>6. /\ add' = Thread!NoAdd
        /\ UNCHANGED <<kind, threadRows, liked, threadLikes, deletes, threadQuery>>
    BY <1>1
  <2>7. QED
    BY <1>2, <2>3, <2>5, <2>6, NothingAdded DEF ThreadShape
<1> HIDE DEF id
<1>5. ASSUME threadSlips' = {}
      PROVE  RowsInv' /\ ScreenInv' /\ ReplyInv'
  <2>1. RowsInv /\ ScreenInv /\ ReplyInv /\ threadQuery.pc = "idle"
    BY <1>1, <1>5 DEF ThreadInv
  <2>2. /\ id \in threadRows /\ id \in Comments /\ \A c \in Known : c < id
        /\ Known = threadRows \ {id} /\ Known' = threadRows
    BY <1>1, <1>2, <2>1, NothingAdded DEF RowsInv, ThreadShape, Known, Unanswered, id
  <2>3. /\ id \notin Known /\ Known' = Known \cup {id}
        /\ Cardinality(Known') = Cardinality(Known) + 1
    <3>1. Known' = Known \cup {id} /\ id \notin Known
      BY <2>2
    <3>2. IsFiniteSet(Known)
      BY <1>2, <2>2, FS_RemoveElement DEF ThreadShape
    <3>3. QED
      BY <3>1, <3>2, FS_AddElement
  <2>4. /\ \A c : Fav(c)' = Fav(c)
        /\ Fav(id) = FALSE
    <3>1. \A l \in Likes : ~OnItsWay(l, id)
      BY <1>2, <2>1, <2>3 DEF RowsInv, OnItsWay
    <3>2. id \notin liked
      BY <2>1, <2>3 DEF RowsInv
    <3>3. QED
      BY <1>1, <3>1, <3>2 DEF Fav, OnItsWay
  <2>5. RowsInv'
    <3>1. \A c \in Comments : Leaving(c)' <=> Leaving(c)
      BY <1>1 DEF Leaving
    <3>2. Cardinality(Known) \in Nat
      BY <1>2, <2>2, FS_RemoveElement, FS_CardinalityType DEF ThreadShape
    <3>3. add'.pc # "inserted"
      BY <1>1, NothingAdded
    <3>4. QED
      BY <1>1, <2>1, <2>3, <3>1, <3>2, <3>3 DEF RowsInv
  <2>6. ScreenInv'
    <3>1. new \in Shown
      BY <2>2, SeenIs DEF new
    <3>2. \A x : On(threadScreen', x) <=> x = new \/ On(threadScreen, x)
      BY <1>1, <1>2, <3>1, FirstIs DEF ThreadShape
    <3>3. NewestFirst(threadScreen')
      <4>1. \A x : On(threadScreen, x) => x.id < new.id
        BY <1>3, <2>1, <2>2 DEF ScreenInv
      <4>2. QED
        BY <1>1, <1>2, <2>1, <3>1, <4>1, FirstIs DEF ThreadShape, ScreenInv
    <3>4. ASSUME NEW x, On(threadScreen', x)
          PROVE  x.id \in Known' /\ x = Seen(x.id, Fav(x.id)')
      <4>1. CASE x = new
        BY <1>3, <2>3, <2>4, <4>1 DEF new
      <4>2. CASE On(threadScreen, x)
        BY <2>1, <2>3, <2>4, <4>2 DEF ScreenInv
      <4>3. QED
        BY <3>2, <3>4, <4>1, <4>2
    <3>5. ASSUME NEW c \in Known'
          PROVE  Leaving(c)' \/ On(threadScreen', Seen(c, Fav(c)'))
      <4>1. CASE c = id
        BY <2>4, <3>2, <4>1 DEF new
      <4>2. CASE c \in Known
        BY <1>1, <2>1, <2>4, <3>2, <4>2 DEF ScreenInv, Leaving
      <4>3. QED
        BY <2>3, <4>1, <4>2
    <3>6. QED
      BY <3>3, <3>4, <3>5 DEF ScreenInv
  <2>7. ReplyInv'
    BY <1>1, <2>1 DEF ReplyInv
  <2>8. QED
    BY <2>5, <2>6, <2>7
<1>6. QED
  BY <1>4, <1>5 DEF ThreadInv

\* A like turned on the screen as it is turned for the viewer.
LEMMA TurnedScreen ==
  ASSUME ThreadShape, ScreenInv, NEW c, NEW now \in BOOLEAN,
         threadScreen' = Thread!With(threadScreen, c, now),
         Fav(c) = ~now, Fav(c)' = now, \A d : d # c => Fav(d)' = Fav(d),
         Known' = Known, UNCHANGED <<threadQuery, deletes>>
  PROVE  ScreenInv'
<1>1. PICK old : old = threadScreen
  OBVIOUS
<1>2. PICK out : out = Thread!With(old, c, now)
  OBVIOUS
<1>3. old \in Seq(Shown)
  BY <1>1 DEF ThreadShape
<1>4. /\ DOMAIN out = DOMAIN old
      /\ NewestFirst(old) => NewestFirst(out)
      /\ \A k \in DOMAIN old :
           /\ old[k].id # c => out[k] = old[k]
           /\ old[k] = Seen(c, ~now) => out[k] = Seen(c, now)
  BY <1>2, <1>3, LikedIs
<1>5. threadScreen' = out
  BY <1>1, <1>2
<1>6. ASSUME NEW k \in DOMAIN old
      PROVE  /\ old[k].id \in Known /\ old[k] = Seen(old[k].id, Fav(old[k].id))
             /\ out[k] = Seen(old[k].id, Fav(old[k].id)')
  <2>1. old[k].id \in Known /\ old[k] = Seen(old[k].id, Fav(old[k].id))
    BY <1>1 DEF ScreenInv, On
  <2>2. CASE old[k].id = c
    BY <1>4, <2>1, <2>2
  <2>3. CASE old[k].id # c
    <3>1. out[k] = old[k] /\ Fav(old[k].id)' = Fav(old[k].id)
      BY <1>4, <2>3
    <3>2. QED
      BY <2>1, <3>1
  <2>4. QED
    BY <2>1, <2>2, <2>3
<1>7. \A d, mine : Seen(d, mine).id = d
  BY DEF Seen
<1>8. ASSUME NEW e, On(out, e)
      PROVE  e.id \in Known /\ e = Seen(e.id, Fav(e.id)')
  <2>1. PICK k \in DOMAIN old : out[k] = e
    BY <1>4, <1>8 DEF On
  <2>2. e.id = old[k].id
    BY <1>6, <1>7, <2>1
  <2>3. QED
    BY <1>6, <2>1, <2>2
<1>9. ASSUME NEW d \in Known, On(old, Seen(d, Fav(d)))
      PROVE  On(out, Seen(d, Fav(d)'))
  <2>1. PICK k \in DOMAIN old : old[k] = Seen(d, Fav(d))
    BY <1>9 DEF On
  <2>2. old[k].id = d
    BY <1>7, <2>1
  <2>3. out[k] = Seen(d, Fav(d)')
    BY <1>6, <2>2
  <2>4. QED
    BY <1>4, <2>3 DEF On
<1>10. \A d : Leaving(d)' <=> Leaving(d)
  BY DEF Leaving
<1>11. QED
  BY <1>1, <1>4, <1>5, <1>8, <1>9, <1>10 DEF ScreenInv

\* A like is pressed.
LEMMA LikeStays ==
  ASSUME ThreadInv, NEW l \in Likes, NEW k \in DOMAIN threadScreen, Thread!Like(l, k)
  PROVE  ThreadInv'
<1>1. PICK c \in Comments, was \in BOOLEAN, now \in BOOLEAN :
        c = threadScreen[k].id /\ was = threadScreen[k].liked /\ now = ~was
  BY OnScreen DEF ThreadInv
<1>2. PICK r : r = [pc |-> "sent", id |-> c, was |-> was]
  OBVIOUS
<1>3. ThreadShape /\ c \in Nat /\ On(threadScreen, threadScreen[k])
  BY <1>1, OnScreen DEF ThreadInv
<1>4. /\ kind = "post" /\ threadLikes[l].pc = "idle"
      /\ threadLikes' = [threadLikes EXCEPT ![l] = r]
      /\ threadScreen' = Thread!With(threadScreen, c, now)
      /\ threadSlips' = {} => /\ threadSlips = {} /\ threadQuery.pc = "idle"
                              /\ \A m \in Likes : threadLikes[m].pc # "idle"
                                                    => threadLikes[m].id # c
      /\ UNCHANGED <<kind, threadRows, liked, threadCount, add, deletes, threadQuery>>
  BY <1>1, <1>2 DEF Thread!Like
<1>5. r \in Liking /\ r.pc = "sent" /\ r.id = c /\ (r.was <=> was)
  BY <1>2, <1>3 DEF Liking
<1>6. /\ threadLikes'[l] = r
      /\ \A m \in Likes : m # l => threadLikes'[m] = threadLikes[m]
      /\ threadLikes' \in [Likes -> Liking]
  BY <1>3, <1>4, <1>5 DEF ThreadShape
<1>7. ThreadShape'
  BY <1>3, <1>4, <1>6, LikedIs DEF ThreadShape
<1>8. ASSUME threadSlips' = {}
      PROVE  RowsInv' /\ ScreenInv' /\ ReplyInv'
  <2>1. /\ RowsInv /\ ScreenInv /\ ReplyInv /\ threadQuery.pc = "idle"
        /\ \A m \in Likes : threadLikes[m].pc # "idle" => threadLikes[m].id # c
        /\ \A m \in Likes : ~OnItsWay(m, c)
    BY <1>4, <1>8 DEF ThreadInv, OnItsWay
  <2>2. c \in Known /\ Known' = Known /\ was = Fav(c) /\ (was <=> c \in liked)
    <3>1. c \in Known /\ threadScreen[k] = Seen(c, Fav(c))
      BY <1>1, <1>3, <2>1 DEF ScreenInv
    <3>2. was = Fav(c)
      BY <1>1, <3>1 DEF Seen
    <3>3. Fav(c) <=> c \in liked
      BY <2>1 DEF Fav
    <3>4. Known' = Known
      BY <1>4 DEF Known, Unanswered
    <3>5. QED
      BY <3>1, <3>2, <3>3, <3>4
  <2>3. /\ OnItsWay(l, c)'
        /\ \A m \in Likes : OnItsWay(m, c)' => m = l
        /\ \A d : \A m \in Likes : d # c => (OnItsWay(m, d)' <=> OnItsWay(m, d))
    BY <1>4, <1>5, <1>6, <2>1 DEF OnItsWay
  <2>4. Fav(c)' = now
    BY <1>1, <1>5, <1>6, <2>3 DEF Fav
  <2>5. ASSUME NEW d, d # c
        PROVE  Fav(d)' = Fav(d)
    <3>1. \A m \in Likes : OnItsWay(m, d) => threadLikes'[m] = threadLikes[m]
      BY <1>4, <1>6 DEF OnItsWay
    <3>2. QED
      BY <1>4, <2>3, <2>5, <3>1 DEF Fav
  <2>6. RowsInv'
    BY <1>4, <1>5, <1>6, <2>1, <2>2 DEF RowsInv, Leaving
  <2>7. ScreenInv'
    BY <1>1, <1>3, <1>4, <2>1, <2>2, <2>4, <2>5, TurnedScreen
  <2>8. ReplyInv'
    BY <1>4, <2>1 DEF ReplyInv
  <2>9. QED
    BY <2>6, <2>7, <2>8
<1>9. QED
  BY <1>7, <1>8 DEF ThreadInv

\* What stays on the screen when the likes it shows do.
LEMMA SameScreen ==
  ASSUME ScreenInv, Known' = Known, \A c : Fav(c)' = Fav(c),
         UNCHANGED <<threadScreen, threadQuery, deletes>>
  PROVE  ScreenInv'
<1>1. \A c : Leaving(c)' <=> Leaving(c)
  BY DEF Leaving
<1>2. QED
  BY <1>1 DEF ScreenInv

\* What stays of the comments when the likes on their way are as they must be.
LEMMA SameRows ==
  ASSUME RowsInv, Known' = Known, UNCHANGED <<kind, threadRows, threadCount, add, deletes>>,
         liked' \in SUBSET Known,
         kind = "itinerary" => liked' = {} /\ \A m \in Likes : threadLikes'[m].pc = "idle",
         \A m \in Likes : threadLikes'[m].pc # "idle" =>
           /\ threadLikes'[m].id \in Known
           /\ threadLikes'[m].pc = "sent"
                => (threadLikes'[m].was <=> threadLikes'[m].id \in liked')
           /\ \A n \in Likes :
                threadLikes'[n].pc # "idle" /\ threadLikes'[n].id = threadLikes'[m].id => n = m
  PROVE  RowsInv'
<1>1. \A c : Leaving(c)' <=> Leaving(c)
  BY DEF Leaving
<1>2. QED
  BY <1>1 DEF RowsInv

\* A like is written.
LEMMA LikeHandledStays ==
  ASSUME ThreadInv, NEW l \in Likes, Thread!LikeHandled(l)
  PROVE  ThreadInv'
<1>1. PICK c, was, r : /\ c = threadLikes[l].id /\ was = threadLikes[l].was
                       /\ r = [threadLikes[l] EXCEPT !.pc = "done"]
  OBVIOUS
<1>2. /\ threadLikes[l].pc = "sent" /\ threadLikes' = [threadLikes EXCEPT ![l] = r]
      /\ liked' = IF was THEN liked \ {c} ELSE liked \cup {c}
      /\ UNCHANGED <<kind, threadRows, threadScreen, threadCount, add, deletes, threadQuery,
                     threadSlips>>
  BY <1>1 DEF Thread!LikeHandled
<1>3. ThreadShape
  BY DEF ThreadInv
<1>4. r \in Liking /\ r.pc = "done" /\ r.id = c
  BY <1>1, <1>3 DEF ThreadShape, Liking
<1>5. /\ threadLikes'[l] = r
      /\ \A m \in Likes : m # l => threadLikes'[m] = threadLikes[m]
      /\ threadLikes' \in [Likes -> Liking]
  BY <1>2, <1>3, <1>4 DEF ThreadShape
<1>6. ThreadShape'
  BY <1>2, <1>3, <1>5 DEF ThreadShape
<1>7. ASSUME threadSlips' = {}
      PROVE  RowsInv' /\ ScreenInv' /\ ReplyInv'
  <2>1. RowsInv /\ ScreenInv /\ ReplyInv
    BY <1>2, <1>7 DEF ThreadInv
  <2>2. /\ c \in Known /\ (was <=> c \in liked) /\ kind = "post" /\ Known' = Known
        /\ threadQuery.pc # "read"
        /\ \A m \in Likes : threadLikes[m].pc # "idle" /\ threadLikes[m].id = c => m = l
    BY <1>1, <1>2, <1>3, <2>1 DEF RowsInv, ReplyInv, ThreadShape, Known, Unanswered
  <2>3. /\ OnItsWay(l, c)
        /\ \A m \in Likes : ~OnItsWay(m, c)'
        /\ \A m \in Likes : OnItsWay(m, c) => m = l
        /\ \A d : \A m \in Likes : d # c => (OnItsWay(m, d)' <=> OnItsWay(m, d))
    BY <1>1, <1>2, <1>4, <1>5, <2>2 DEF OnItsWay
  <2>4. Fav(c)' = Fav(c)
    <3>1. Fav(c) <=> ~was
      BY <1>1, <2>3 DEF Fav
    <3>2. Fav(c)' <=> c \in liked'
      BY <2>3 DEF Fav
    <3>3. c \in liked' <=> ~was
      BY <1>2
    <3>4. Fav(c)' <=> Fav(c)
      BY <3>1, <3>2, <3>3
    <3>5. QED
      BY <3>4 DEF Fav
  <2>5. ASSUME NEW d, d # c
        PROVE  Fav(d)' = Fav(d)
    <3>1. \A m \in Likes : OnItsWay(m, d) => threadLikes'[m] = threadLikes[m]
      BY <1>1, <1>5, <2>5 DEF OnItsWay
    <3>2. d \in liked' <=> d \in liked
      BY <1>2, <2>5
    <3>3. QED
      BY <2>3, <2>5, <3>1, <3>2 DEF Fav
  <2>6. RowsInv'
    <3>1. liked' \in SUBSET Known /\ \A d : d # c => (d \in liked' <=> d \in liked)
      BY <1>2, <2>1, <2>2 DEF RowsInv
    <3>2. \A m \in Likes : /\ threadLikes'[m].id = threadLikes[m].id
                           /\ threadLikes'[m].pc # "idle" => threadLikes[m].pc # "idle"
      BY <1>1, <1>2, <1>4, <1>5
    <3>3. ASSUME NEW m \in Likes, threadLikes'[m].pc # "idle"
          PROVE  /\ threadLikes'[m].id \in Known
                 /\ \A n \in Likes :
                      threadLikes'[n].pc # "idle" /\ threadLikes'[n].id = threadLikes'[m].id => n = m
      BY <2>1, <3>2, <3>3 DEF RowsInv
    <3>4. ASSUME NEW m \in Likes, threadLikes'[m].pc = "sent"
          PROVE  threadLikes'[m].was <=> threadLikes'[m].id \in liked'
      <4>1. m # l
        BY <1>4, <1>5, <3>4
      <4>2. threadLikes'[m] = threadLikes[m]
        BY <1>5, <4>1
      <4>3. threadLikes[m].pc = "sent" /\ threadLikes[m].id # c
        BY <2>2, <3>4, <4>1, <4>2
      <4>4. threadLikes[m].was <=> threadLikes[m].id \in liked
        BY <2>1, <4>3 DEF RowsInv
      <4>5. QED
        BY <3>1, <4>2, <4>3, <4>4
    <3>5. QED
      BY <1>2, <2>1, <2>2, <3>1, <3>3, <3>4, SameRows
  <2>7. ScreenInv'
    BY <1>2, <2>1, <2>2, <2>4, <2>5, SameScreen
  <2>8. ReplyInv'
    BY <1>2, <2>2 DEF ReplyInv
  <2>9. QED
    BY <2>6, <2>7, <2>8
<1>8. QED
  BY <1>6, <1>7 DEF ThreadInv

\* The answer to a like comes, or the like fails and is taken back.
LEMMA LikeEndsStays ==
  ASSUME ThreadInv, NEW l \in Likes, Thread!LikeAnswered(l) \/ Thread!LikeFails(l)
  PROVE  ThreadInv'
<1>1. PICK c, was : c = threadLikes[l].id /\ was = threadLikes[l].was
  OBVIOUS
<1>2. /\ threadLikes[l].pc # "idle"
      /\ threadLikes' = [threadLikes EXCEPT ![l] = Thread!NoLike]
      /\ threadSlips' = {} => threadSlips = {} /\ threadQuery.pc = "idle"
      /\ \/ threadLikes[l].pc = "done" /\ UNCHANGED threadScreen
         \/ /\ threadScreen' = Thread!With(threadScreen, c, was)
            /\ threadSlips' = {} => threadLikes[l].pc # "done"
      /\ UNCHANGED <<kind, threadRows, liked, threadCount, add, deletes, threadQuery>>
  BY <1>1 DEF Thread!LikeAnswered, Thread!LikeFails, Thread!Slip
<1>3. ThreadShape
  BY DEF ThreadInv
<1>4. was \in BOOLEAN
  BY <1>1, <1>3 DEF ThreadShape, Liking
<1>5. /\ threadLikes'[l] = Thread!NoLike
      /\ \A m \in Likes : m # l => threadLikes'[m] = threadLikes[m]
      /\ threadLikes' \in [Likes -> Liking]
  BY <1>2, <1>3, NothingLiked DEF ThreadShape
<1>6. ThreadShape'
  BY <1>2, <1>3, <1>4, <1>5, LikedIs DEF ThreadShape
<1>7. ASSUME threadSlips' = {}
      PROVE  RowsInv' /\ ScreenInv' /\ ReplyInv'
  <2>1. RowsInv /\ ScreenInv /\ ReplyInv /\ threadQuery.pc = "idle"
    BY <1>2, <1>7 DEF ThreadInv
  <2>2. Known' = Known
    BY <1>2 DEF Known, Unanswered
  <2>3. RowsInv'
    <3>1. ASSUME NEW m \in Likes, threadLikes'[m].pc # "idle"
          PROVE  threadLikes'[m] = threadLikes[m]
      BY <1>5, <3>1, NothingLiked
    <3>2. ASSUME NEW m \in Likes, threadLikes'[m].pc # "idle"
          PROVE  /\ threadLikes'[m].id \in Known
                 /\ threadLikes'[m].pc = "sent"
                      => (threadLikes'[m].was <=> threadLikes'[m].id \in liked')
                 /\ \A n \in Likes :
                      threadLikes'[n].pc # "idle" /\ threadLikes'[n].id = threadLikes'[m].id => n = m
      BY <1>2, <2>1, <3>1, <3>2 DEF RowsInv
    <3>3. liked' \in SUBSET Known
      BY <1>2, <2>1 DEF RowsInv
    <3>4. kind = "itinerary" => liked' = {} /\ \A m \in Likes : threadLikes'[m].pc = "idle"
      BY <1>2, <2>1, <3>1 DEF RowsInv
    <3>5. QED
      BY <1>2, <2>1, <2>2, <3>2, <3>3, <3>4, SameRows
  <2>4. ReplyInv'
    BY <1>2, <2>1 DEF ReplyInv
  <2>5. /\ \A m \in Likes : OnItsWay(m, c) => m = l
        /\ \A d : ~OnItsWay(l, d)'
        /\ \A d : \A m \in Likes : m # l => (OnItsWay(m, d)' <=> OnItsWay(m, d))
    BY <1>1, <1>2, <1>5, <2>1, NothingLiked DEF RowsInv, OnItsWay
  <2>6. ASSUME NEW d, ~OnItsWay(l, d)
        PROVE  Fav(d)' = Fav(d)
    <3>1. \A m \in Likes : OnItsWay(m, d)' <=> OnItsWay(m, d)
      BY <2>5, <2>6
    <3>2. \A m \in Likes : OnItsWay(m, d) => threadLikes'[m] = threadLikes[m]
      BY <1>5, <2>6
    <3>3. QED
      BY <1>2, <3>1, <3>2 DEF Fav
  <2>7. CASE threadLikes[l].pc = "done" /\ UNCHANGED threadScreen
    <3>1. \A d : ~OnItsWay(l, d)
      BY <2>7 DEF OnItsWay
    <3>2. ScreenInv'
      BY <1>2, <2>1, <2>2, <2>6, <2>7, <3>1, SameScreen
    <3>3. QED
      BY <2>3, <2>4, <3>2
  <2>8. CASE /\ threadScreen' = Thread!With(threadScreen, c, was)
             /\ threadLikes[l].pc # "done"
    <3>1. threadLikes[l].pc = "sent"
      BY <1>2, <1>3, <2>8 DEF ThreadShape, Liking
    <3>2. OnItsWay(l, c) /\ \A d : OnItsWay(l, d) => d = c
      BY <1>1, <3>1 DEF OnItsWay
    <3>3. was <=> c \in liked
      BY <1>1, <2>1, <3>1 DEF RowsInv
    <3>4. Fav(c) <=> ~was
      BY <1>1, <2>5, <3>2 DEF Fav
    <3>5. Fav(c)' <=> was
      <4>1. \A m \in Likes : ~OnItsWay(m, c)'
        BY <2>5
      <4>2. QED
        BY <1>2, <3>3, <4>1 DEF Fav
    <3>6. Fav(c) = ~was /\ Fav(c)' = was
      <4>1. Fav(c) \in BOOLEAN /\ Fav(c)' \in BOOLEAN
        BY DEF Fav
      <4>2. QED
        BY <1>4, <3>4, <3>5, <4>1
    <3>7. \A d : d # c => Fav(d)' = Fav(d)
      BY <2>6, <3>2
    <3>8. ScreenInv'
      BY <1>2, <1>3, <1>4, <2>1, <2>2, <2>8, <3>6, <3>7, TurnedScreen
    <3>9. QED
      BY <2>3, <2>4, <3>8
  <2>9. QED
    BY <1>2, <1>7, <2>7, <2>8
<1>8. QED
  BY <1>6, <1>7 DEF ThreadInv

\* Under an itinerary there are no likes.
LEMMA NoLikes ==
  ASSUME RowsInv, kind = "itinerary"
  PROVE  \A c : Fav(c) = FALSE
<1>1. liked = {} /\ \A l \in Likes : threadLikes[l].pc # "sent"
  BY DEF RowsInv
<1>2. QED
  BY <1>1 DEF Fav, OnItsWay

\* What stays of the comments under an itinerary when the deletions are as they must be.
LEMMA DeletionsStay ==
  ASSUME RowsInv, kind = "itinerary", UNCHANGED <<kind, liked, threadLikes, add>>,
         Known' \in SUBSET Known, add.pc = "inserted" => add.id \in threadRows',
         \A c \in Comments : Leaving(c)' =>
           /\ c \in Known'
           /\ NewestFirst(deletes'[c].prev) /\ On(deletes'[c].prev, Seen(c, FALSE))
           /\ \A e : On(deletes'[c].prev, e) => e = Seen(e.id, FALSE)
  PROVE  RowsInv'
<1>1. liked' \in SUBSET Known'
  BY DEF RowsInv
<1>2. QED
  BY <1>1 DEF RowsInv

\* A comment is taken off the screen, to be deleted.
LEMMA DeleteStays ==
  ASSUME ThreadInv, NEW k \in DOMAIN threadScreen, Thread!Delete(k)
  PROVE  ThreadInv'
<1>1. PICK c \in Comments : c = threadScreen[k].id
  BY OnScreen DEF ThreadInv
<1>2. PICK was : was = threadScreen
  OBVIOUS
<1>3. PICK r : r = [pc |-> "waits", prev |-> was]
  OBVIOUS
<1>4. PICK out : out = Thread!Without(was, c)
  OBVIOUS
<1>5. /\ kind = "itinerary" /\ deletes[c].pc = "idle"
      /\ deletes' = [deletes EXCEPT ![c] = r] /\ threadScreen' = out
      /\ UNCHANGED <<kind, threadRows, liked, threadCount, add, threadLikes, threadQuery,
                     threadSlips>>
  BY <1>1, <1>2, <1>3, <1>4 DEF Thread!Delete
<1>6. ThreadShape /\ was \in Seq(Shown)
  BY <1>2 DEF ThreadInv, ThreadShape
<1>7. /\ out \in Seq(Shown)
      /\ NewestFirst(was) => NewestFirst(out)
      /\ \A e : On(out, e) <=> On(was, e) /\ e.id # c
  BY <1>4, <1>6, WithoutIs
<1>8. r \in Deletion /\ r.pc = "waits" /\ r.prev = was
  BY <1>3, <1>6 DEF Deletion
<1>9. /\ deletes'[c] = r /\ \A d \in Comments : d # c => deletes'[d] = deletes[d]
      /\ deletes' \in [Comments -> Deletion]
  BY <1>5, <1>6, <1>8 DEF ThreadShape
<1>10. ThreadShape'
  BY <1>5, <1>6, <1>7, <1>9 DEF ThreadShape
<1>11. ASSUME threadSlips' = {}
       PROVE  RowsInv' /\ ScreenInv' /\ ReplyInv'
  <2>1. RowsInv /\ ScreenInv /\ ReplyInv
    BY <1>5, <1>11 DEF ThreadInv
  <2>2. Known' = Known /\ Known \in SUBSET Comments
    BY <1>5, <1>6 DEF Known, Unanswered, ThreadShape
  <2>3. \A d : Fav(d) = FALSE
    BY <1>5, <2>1, NoLikes
  <2>4. /\ NewestFirst(was)
        /\ \A e : On(was, e) => e.id \in Known /\ e = Seen(e.id, FALSE)
        /\ threadQuery.pc = "idle" =>
             \A d \in Known : Leaving(d) \/ On(was, Seen(d, FALSE))
    BY <1>2, <2>1, <2>3 DEF ScreenInv
  <2>5. c \in Known /\ On(was, Seen(c, FALSE))
    <3>1. On(was, was[k]) /\ was[k].id = c
      BY <1>1, <1>2 DEF On
    <3>2. QED
      BY <2>4, <3>1
  <2>6. \A d \in Comments : Leaving(d)' <=> d = c \/ Leaving(d)
    BY <1>8, <1>9 DEF Leaving
  <2>7. RowsInv'
    <3>1. ASSUME NEW d \in Comments, Leaving(d)'
          PROVE  /\ d \in Known'
                 /\ NewestFirst(deletes'[d].prev) /\ On(deletes'[d].prev, Seen(d, FALSE))
                 /\ \A e : On(deletes'[d].prev, e) => e = Seen(e.id, FALSE)
      <4>1. CASE d = c
        BY <1>8, <1>9, <2>2, <2>4, <2>5, <4>1
      <4>2. CASE d # c
        BY <1>9, <2>1, <2>2, <2>6, <3>1, <4>2 DEF RowsInv
      <4>3. QED
        BY <4>1, <4>2
    <3>2. add.pc = "inserted" => add.id \in threadRows'
      BY <1>5, <2>1 DEF RowsInv
    <3>3. QED
      BY <1>5, <2>1, <2>2, <3>1, <3>2, DeletionsStay
  <2>8. \A d : Fav(d)' = FALSE
    <3>1. \A d : Fav(d)' = Fav(d)
      BY <1>5 DEF Fav, OnItsWay
    <3>2. QED
      BY <2>3, <3>1
  <2>9. ScreenInv'
    <3>1. \A e : On(out, e) => e.id \in Known /\ e = Seen(e.id, FALSE)
      BY <1>7, <2>4
    <3>2. ASSUME threadQuery.pc = "idle", NEW d \in Known
          PROVE  Leaving(d)' \/ On(out, Seen(d, FALSE))
      <4>1. Seen(d, FALSE).id = d
        BY DEF Seen
      <4>2. QED
        BY <1>7, <2>2, <2>4, <2>6, <3>2, <4>1
    <3>3. QED
      BY <1>5, <1>7, <2>2, <2>4, <2>8, <3>1, <3>2 DEF ScreenInv
  <2>10. ReplyInv'
    BY <1>5, <2>1, <2>2 DEF ReplyInv
  <2>11. QED
    BY <2>7, <2>9, <2>10
<1>12. QED
  BY <1>10, <1>11 DEF ThreadInv

\* A deletion is undone, or fails: the list as it was is put back.
LEMMA UndoStays ==
  ASSUME ThreadInv, NEW c \in Comments, Thread!Undo(c) \/ Thread!DeleteFails(c)
  PROVE  ThreadInv'
<1>1. PICK r : r = [deletes[c] EXCEPT !.pc = "idle"]
  OBVIOUS
<1>2. PICK prev, old : prev = deletes[c].prev /\ old = threadScreen
  OBVIOUS
<1>3. /\ Leaving(c) /\ deletes' = [deletes EXCEPT ![c] = r] /\ threadScreen' = prev
      /\ threadSlips' = {} =>
           /\ threadSlips = {}
           /\ \A k \in DOMAIN old : \E m \in DOMAIN prev : prev[m].id = old[k].id
           /\ \A m \in DOMAIN prev :
                prev[m].id # c => \E k \in DOMAIN old : old[k].id = prev[m].id
      /\ UNCHANGED <<kind, threadRows, liked, threadCount, add, threadLikes, threadQuery>>
  BY <1>1, <1>2 DEF Thread!Undo, Thread!DeleteFails, Thread!PutBack, Leaving
<1>4. ThreadShape
  BY DEF ThreadInv
<1>5. prev \in Seq(Shown) /\ r \in Deletion /\ r.pc = "idle"
  BY <1>1, <1>2, <1>4 DEF ThreadShape, Deletion
<1>6. /\ deletes'[c] = r /\ \A d \in Comments : d # c => deletes'[d] = deletes[d]
      /\ deletes' \in [Comments -> Deletion]
  BY <1>3, <1>4, <1>5 DEF ThreadShape
<1>7. ThreadShape'
  BY <1>3, <1>4, <1>5, <1>6 DEF ThreadShape
<1>8. ASSUME threadSlips' = {}
      PROVE  RowsInv' /\ ScreenInv' /\ ReplyInv'
  <2>1. RowsInv /\ ScreenInv /\ ReplyInv
    BY <1>3, <1>8 DEF ThreadInv
  <2>2. Known' = Known /\ Known \in SUBSET Comments
    BY <1>3, <1>4 DEF Known, Unanswered, ThreadShape
  <2>3. kind = "itinerary"
    BY <1>3, <1>4, <2>1 DEF RowsInv, Leaving, ThreadShape
  <2>4. \A d : Fav(d) = FALSE /\ Fav(d)' = FALSE
    <3>1. \A d : Fav(d) = FALSE
      BY <2>1, <2>3, NoLikes
    <3>2. \A d : Fav(d)' = Fav(d)
      BY <1>3 DEF Fav, OnItsWay
    <3>3. QED
      BY <3>1, <3>2
  <2>5. /\ \A k \in DOMAIN old : old[k].id \in Known /\ old[k] = Seen(old[k].id, FALSE)
        /\ threadQuery.pc = "idle" =>
             \A d \in Known : Leaving(d) \/ On(old, Seen(d, FALSE))
    BY <1>2, <2>1, <2>4 DEF ScreenInv, On
  <2>6. /\ c \in Known /\ NewestFirst(prev) /\ On(prev, Seen(c, FALSE))
        /\ \A e : On(prev, e) => e = Seen(e.id, FALSE)
    BY <1>2, <1>3, <2>1 DEF RowsInv
  <2>7. \A d \in Comments : Leaving(d)' <=> d # c /\ Leaving(d)
    BY <1>5, <1>6 DEF Leaving
  <2>8. RowsInv'
    <3>1. ASSUME NEW d \in Comments, Leaving(d)'
          PROVE  /\ d \in Known'
                 /\ NewestFirst(deletes'[d].prev) /\ On(deletes'[d].prev, Seen(d, FALSE))
                 /\ \A e : On(deletes'[d].prev, e) => e = Seen(e.id, FALSE)
      BY <1>6, <2>1, <2>2, <2>7, <3>1 DEF RowsInv
    <3>2. add.pc = "inserted" => add.id \in threadRows'
      BY <1>3, <2>1 DEF RowsInv
    <3>3. QED
      BY <1>3, <2>1, <2>2, <2>3, <3>1, <3>2, DeletionsStay
  <2>9. ScreenInv'
    <3>1. ASSUME NEW e, On(prev, e)
          PROVE  e.id \in Known /\ e = Seen(e.id, FALSE)
      <4>1. PICK m \in DOMAIN prev : prev[m] = e
        BY <3>1 DEF On
      <4>2. e.id # c => \E k \in DOMAIN old : old[k].id = e.id
        BY <1>3, <1>8, <4>1
      <4>3. e.id \in Known
        BY <2>5, <2>6, <4>2
      <4>4. QED
        BY <2>6, <3>1, <4>3
    <3>2. ASSUME threadQuery.pc = "idle", NEW d \in Known
          PROVE  Leaving(d)' \/ On(prev, Seen(d, FALSE))
      <4>1. CASE d = c
        BY <2>6, <4>1
      <4>2. CASE On(old, Seen(d, FALSE))
        <5>1. PICK k \in DOMAIN old : old[k] = Seen(d, FALSE)
          BY <4>2 DEF On
        <5>2. old[k].id = d
          BY <5>1 DEF Seen
        <5>3. PICK m \in DOMAIN prev : prev[m].id = d
          BY <1>3, <1>8, <5>2
        <5>4. QED
          BY <2>6, <5>3 DEF On
      <4>3. QED
        BY <2>2, <2>5, <2>7, <3>2, <4>1, <4>2
    <3>3. QED
      BY <1>3, <2>2, <2>4, <2>6, <3>1, <3>2 DEF ScreenInv
  <2>10. ReplyInv'
    BY <1>3, <2>1, <2>2 DEF ReplyInv
  <2>11. QED
    BY <2>8, <2>9, <2>10
<1>9. QED
  BY <1>7, <1>8 DEF ThreadInv

\* A deletion is sent.
LEMMA TimerEnds ==
  ASSUME ThreadInv, NEW c \in Comments, Thread!TimerFires(c)
  PROVE  ThreadInv'
<1>1. PICK r : r = [deletes[c] EXCEPT !.pc = "sent"]
  OBVIOUS
<1>2. /\ deletes[c].pc = "waits" /\ deletes' = [deletes EXCEPT ![c] = r]
      /\ UNCHANGED <<kind, threadRows, liked, threadScreen, threadCount, add, threadLikes,
                     threadQuery, threadSlips>>
  BY <1>1 DEF Thread!TimerFires
<1>3. ThreadShape
  BY DEF ThreadInv
<1>4. r \in Deletion /\ r.pc = "sent" /\ r.prev = deletes[c].prev
  BY <1>1, <1>3 DEF ThreadShape, Deletion
<1>5. /\ deletes'[c] = r /\ \A d \in Comments : d # c => deletes'[d] = deletes[d]
      /\ deletes' \in [Comments -> Deletion]
  BY <1>2, <1>3, <1>4 DEF ThreadShape
<1>6. ThreadShape'
  BY <1>2, <1>3, <1>5 DEF ThreadShape
<1>7. Known' = Known
  BY <1>2 DEF Known, Unanswered
<1>8. ASSUME NEW d \in Comments
      PROVE  /\ deletes'[d].pc = "idle" <=> deletes[d].pc = "idle"
             /\ Leaving(d)' <=> Leaving(d)
             /\ deletes'[d].prev = deletes[d].prev
  <2>1. CASE d = c
    BY <1>2, <1>4, <1>5, <2>1 DEF Leaving
  <2>2. CASE d # c
    BY <1>5, <2>2 DEF Leaving
  <2>3. QED
    BY <2>1, <2>2
<1>9. RowsInv => (add.pc = "inserted" => add.id \in threadRows /\ \A d \in Known : d < add.id)
  BY DEF RowsInv
<1>10. QED
  BY <1>2, <1>3, <1>6, <1>7, <1>8, <1>9, SameThread DEF ThreadInv

\* A comment is deleted: it is not on the screen, and no query is on its way.
LEMMA DeletedStays ==
  ASSUME ThreadInv, NEW c \in Comments, Thread!DeleteHandled(c)
  PROVE  ThreadInv'
<1>1. PICK r : r = [deletes[c] EXCEPT !.pc = "done"]
  OBVIOUS
<1>2. /\ deletes[c].pc = "sent" /\ deletes' = [deletes EXCEPT ![c] = r]
      /\ threadRows' = threadRows \ {c}
      /\ threadSlips' = {} =>
           /\ threadSlips = {} /\ threadQuery.pc = "idle"
           /\ \A k \in DOMAIN threadScreen : threadScreen[k].id # c
      /\ UNCHANGED <<kind, liked, threadScreen, threadCount, add, threadLikes, threadQuery>>
  BY <1>1 DEF Thread!DeleteHandled, Thread!Slip
<1>3. ThreadShape
  BY DEF ThreadInv
<1>4. r \in Deletion /\ r.pc = "done"
  BY <1>1, <1>3 DEF ThreadShape, Deletion
<1>5. /\ deletes'[c] = r /\ \A d \in Comments : d # c => deletes'[d] = deletes[d]
      /\ deletes' \in [Comments -> Deletion]
  BY <1>2, <1>3, <1>4 DEF ThreadShape
<1>6. ThreadShape'
  BY <1>2, <1>3, <1>5, FS_RemoveElement DEF ThreadShape
<1>7. ASSUME threadSlips' = {}
      PROVE  RowsInv' /\ ScreenInv' /\ ReplyInv'
  <2>1. RowsInv /\ ScreenInv /\ threadQuery.pc = "idle"
    BY <1>2, <1>7 DEF ThreadInv
  <2>2. Leaving(c) /\ c \in Known /\ kind = "itinerary"
    BY <1>2, <1>3, <2>1 DEF RowsInv, Leaving, ThreadShape
  <2>3. Known' = Known \ {c} /\ Known \in SUBSET Comments
    BY <1>2, <1>3, <2>2 DEF Known, Unanswered, ThreadShape
  <2>4. \A d \in Comments : Leaving(d)' <=> d # c /\ Leaving(d)
    BY <1>4, <1>5 DEF Leaving
  <2>5. RowsInv'
    <3>1. ASSUME NEW d \in Comments, Leaving(d)'
          PROVE  /\ d \in Known'
                 /\ NewestFirst(deletes'[d].prev) /\ On(deletes'[d].prev, Seen(d, FALSE))
                 /\ \A e : On(deletes'[d].prev, e) => e = Seen(e.id, FALSE)
      BY <1>5, <2>1, <2>3, <2>4, <3>1 DEF RowsInv
    <3>2. add.pc = "inserted" => add.id \in threadRows'
      BY <1>2, <2>1, <2>2 DEF RowsInv, Known, Unanswered
    <3>3. liked = {} /\ UNCHANGED <<kind, liked, threadLikes, add>> /\ Known' \in SUBSET Known
      BY <1>2, <2>1, <2>2, <2>3 DEF RowsInv
    <3>4. QED
      BY <2>1, <2>2, <3>1, <3>2, <3>3, DeletionsStay
  <2>6. \A d : Fav(d)' = Fav(d)
    BY <1>2 DEF Fav, OnItsWay
  <2>7. ScreenInv'
    <3>1. \A e : On(threadScreen, e) => e.id # c
      BY <1>2, <1>7 DEF On
    <3>2. QED
      BY <1>2, <2>1, <2>3, <2>4, <2>6, <3>1 DEF ScreenInv
  <2>8. ReplyInv'
    BY <1>2, <2>1 DEF ReplyInv
  <2>9. QED
    BY <2>5, <2>7, <2>8
<1>8. QED
  BY <1>6, <1>7 DEF ThreadInv

\* The comments are asked for, or read: all of them, for nothing is under way.
LEMMA AskingComments ==
  ASSUME ThreadInv, Thread!Refetch \/ Thread!QueryRead
  PROVE  ThreadInv'
<1>1. CASE Thread!Refetch
  <2>1. PICK q : q = [Thread!NoQuery EXCEPT !.pc = "asked"]
    OBVIOUS
  <2>2. /\ threadQuery' = q /\ threadQuery.pc = "idle"
        /\ threadSlips' = {} => threadSlips = {}
        /\ UNCHANGED <<kind, threadRows, liked, threadScreen, threadCount, add, threadLikes,
                       deletes>>
    BY <1>1, <2>1 DEF Thread!Refetch, Thread!Slip
  <2>3. q \in Listing /\ q.pc = "asked"
    BY <2>1, NoQueryYet
  <2>4. ThreadShape'
    BY <2>2, <2>3 DEF ThreadInv, ThreadShape
  <2>5. /\ Known' = Known /\ \A c : Fav(c)' = Fav(c)
        /\ \A c : Leaving(c)' <=> Leaving(c)
    BY <2>2 DEF Known, Unanswered, Fav, OnItsWay, Leaving
  <2>6. RowsInv => RowsInv'
    BY <2>2, <2>5 DEF RowsInv
  <2>7. ScreenInv => ScreenInv'
    BY <2>2, <2>3, <2>5 DEF ScreenInv
  <2>8. ReplyInv'
    BY <2>2, <2>3 DEF ReplyInv
  <2>9. QED
    BY <2>2, <2>4, <2>6, <2>7, <2>8 DEF ThreadInv
<1>2. CASE Thread!QueryRead
  <2>1. PICK list : list = Thread!Listed(threadRows, liked)
    OBVIOUS
  <2>2. PICK q : q = [pc |-> "read", reply |-> list]
    OBVIOUS
  <2>3. /\ threadQuery' = q /\ threadQuery.pc = "asked"
        /\ threadSlips' = {} =>
             threadSlips = {} /\ add.pc # "inserted" /\ \A l \in Likes : threadLikes[l].pc = "idle"
        /\ UNCHANGED <<kind, threadRows, liked, threadScreen, threadCount, add, threadLikes,
                       deletes>>
    BY <1>2, <2>1, <2>2 DEF Thread!QueryRead, Thread!Slip
  <2>4. ThreadShape
    BY DEF ThreadInv
  <2>5. /\ list \in Seq(Shown) /\ NewestFirst(list)
        /\ \A e : On(list, e) <=> e.id \in threadRows /\ e = Seen(e.id, e.id \in liked)
    BY <2>1, <2>4, ListedIs DEF ThreadShape
  <2>6. q \in Listing /\ q.pc = "read" /\ q.reply = list
    BY <2>2, <2>5 DEF Listing
  <2>7. ThreadShape'
    BY <2>3, <2>4, <2>6 DEF ThreadShape
  <2>8. /\ Known' = Known /\ \A c : Fav(c)' = Fav(c)
        /\ \A c : Leaving(c)' <=> Leaving(c)
    BY <2>3 DEF Known, Unanswered, Fav, OnItsWay, Leaving
  <2>9. RowsInv => RowsInv'
    BY <2>3, <2>8 DEF RowsInv
  <2>10. ScreenInv => ScreenInv'
    BY <2>3, <2>6, <2>8 DEF ScreenInv
  <2>11. ASSUME threadSlips' = {}
         PROVE  ReplyInv'
    <3>1. Known = threadRows
      BY <2>3, <2>11 DEF Known, Unanswered
    <3>2. QED
      BY <2>3, <2>5, <2>6, <2>8, <2>11, <3>1 DEF ReplyInv
  <2>12. QED
    BY <2>3, <2>7, <2>9, <2>10, <2>11 DEF ThreadInv
<1>3. QED
  BY <1>1, <1>2

\* The answer to the query takes the place of the list.
LEMMA CommentsArrive ==
  ASSUME ThreadInv, Thread!QueryArrives
  PROVE  ThreadInv'
<1>1. PICK list : list = threadQuery.reply
  OBVIOUS
<1>2. /\ threadQuery.pc = "read" /\ threadScreen' = list /\ threadQuery' = Thread!NoQuery
      /\ UNCHANGED <<kind, threadRows, liked, threadCount, add, threadLikes, deletes,
                     threadSlips>>
  BY <1>1 DEF Thread!QueryArrives
<1>3. ThreadShape
  BY DEF ThreadInv
<1>4. list \in Seq(Shown)
  BY <1>1, <1>3 DEF ThreadShape, Listing
<1>5. ThreadShape'
  BY <1>2, <1>3, <1>4, NoQueryYet DEF ThreadShape
<1>6. ASSUME threadSlips' = {}
      PROVE  RowsInv' /\ ScreenInv' /\ ReplyInv'
  <2>1. RowsInv /\ ReplyInv
    BY <1>2, <1>6 DEF ThreadInv
  <2>2. /\ \A l \in Likes : threadLikes[l].pc = "idle"
        /\ NewestFirst(list)
        /\ \A e : On(list, e) <=> e.id \in Known /\ e = Seen(e.id, e.id \in liked)
    BY <1>1, <1>2, <2>1 DEF ReplyInv
  <2>3. \A c : Fav(c) = (c \in liked)
    <3>1. \A l \in Likes : threadLikes[l].pc # "sent"
      BY <2>2
    <3>2. \A c : Fav(c) <=> c \in liked
      BY <3>1 DEF Fav, OnItsWay
    <3>3. \A c : Fav(c) \in BOOLEAN /\ (c \in liked) \in BOOLEAN
      BY DEF Fav
    <3>4. QED
      BY <3>2, <3>3
  <2>4. Known' = Known /\ \A c : Fav(c)' = Fav(c)
    BY <1>2 DEF Known, Unanswered, Fav, OnItsWay
  <2>5. \A c : Leaving(c)' <=> Leaving(c)
    BY <1>2 DEF Leaving
  <2>6. RowsInv'
    BY <1>2, <2>1, <2>4, <2>5 DEF RowsInv
  <2>7. ScreenInv'
    <3>1. \A e : On(list, e) => e.id \in Known /\ e = Seen(e.id, Fav(e.id)')
      BY <2>2, <2>3, <2>4
    <3>2. ASSUME NEW c \in Known
          PROVE  On(list, Seen(c, Fav(c)'))
      <4>1. Fav(c)' = (c \in liked)
        BY <2>3, <2>4
      <4>2. Seen(c, Fav(c)').id = c
        BY DEF Seen
      <4>3. QED
        BY <2>2, <4>1, <4>2
    <3>3. QED
      BY <1>2, <2>2, <2>4, <3>1, <3>2 DEF ScreenInv
  <2>8. ReplyInv'
    BY <1>2, NoQueryYet DEF ReplyInv
  <2>9. QED
    BY <2>6, <2>7, <2>8
<1>7. QED
  BY <1>5, <1>6 DEF ThreadInv

\* To begin with there is one comment, on the screen or asked for.
LEMMA ThreadInitially == Thread!Init => ThreadInv
<1> SUFFICES ASSUME Thread!Init
             PROVE  ThreadInv
  OBVIOUS
<1>1. PICK none \in Seq(Shown) : none = << >>
  <2>1. << >> \in Seq(Shown)
    OBVIOUS
  <2>2. QED
    BY <2>1
<1>2. PICK q, one : /\ q = [Thread!NoQuery EXCEPT !.pc = "asked"]
                      /\ one = Thread!Listed({1}, {})
  OBVIOUS
<1>3. PICK r : r = [pc |-> "idle", prev |-> none]
  OBVIOUS
<1>4. /\ kind \in {"post", "itinerary"} /\ threadRows = {1} /\ liked = {}
      /\ \/ threadScreen = one /\ threadQuery = Thread!NoQuery
         \/ threadScreen = none /\ threadQuery = q
      /\ threadCount = 1 /\ add = Thread!NoAdd
      /\ threadLikes = [l \in Likes |-> Thread!NoLike]
      /\ deletes = [c \in Comments |-> r]
  BY <1>1, <1>2, <1>3 DEF Thread!Init
<1>5. 1 \in Comments /\ Comments \in SUBSET Nat /\ {1} \in SUBSET Comments
  BY NumbersAssumption
<1>6. IsFiniteSet({1}) /\ Cardinality({1}) = 1
  BY FS_Singleton
<1>7. /\ one \in Seq(Shown) /\ NewestFirst(one)
      /\ \A e : On(one, e) <=> e.id = 1 /\ e = Seen(e.id, FALSE)
  <2>1. /\ one \in Seq(Shown) /\ NewestFirst(one)
        /\ \A e : On(one, e) <=> e.id \in {1} /\ e = Seen(e.id, e.id \in {})
    BY <1>2, <1>5, <1>6, ListedIs
  <2>2. \A e : (e.id \in {}) = FALSE
    OBVIOUS
  <2>3. QED
    BY <2>1, <2>2
<1>8. NewestFirst(none) /\ \A e : ~On(none, e)
  <2>1. DOMAIN none = {}
    BY <1>1
  <2>2. QED
    BY <2>1 DEF NewestFirst, On
<1>9. r \in Deletion /\ r.pc = "idle"
  BY <1>3 DEF Deletion
<1>10. /\ Thread!NoQuery \in Listing /\ Thread!NoQuery.pc = "idle"
       /\ q \in Listing /\ q.pc = "asked"
  BY <1>2, NoQueryYet
<1>11. ThreadShape
  BY <1>4, <1>5, <1>6, <1>7, <1>9, <1>10, NothingAdded, NothingLiked DEF ThreadShape
<1>12. /\ Known = {1} /\ \A c : ~Leaving(c) \/ c \notin Comments
       /\ \A c : Fav(c) = FALSE
  <2>1. Known = {1}
    BY <1>4, NothingAdded DEF Known, Unanswered
  <2>2. \A c \in Comments : ~Leaving(c)
    BY <1>4, <1>9 DEF Leaving
  <2>3. \A l \in Likes : \A c : ~OnItsWay(l, c)
    BY <1>4, NothingLiked DEF OnItsWay
  <2>4. \A c : Fav(c) = FALSE
    BY <1>4, <2>3 DEF Fav
  <2>5. QED
    BY <2>1, <2>2, <2>4
<1>13. RowsInv
  BY <1>4, <1>6, <1>9, <1>12, NothingAdded, NothingLiked DEF RowsInv
<1>14. ScreenInv
  <2>1. Seen(1, FALSE).id = 1
    BY DEF Seen
  <2>2. On(one, Seen(1, FALSE))
    BY <1>7, <2>1
  <2>3. QED
    BY <1>4, <1>7, <1>8, <1>10, <1>12, <2>2 DEF ScreenInv
<1>15. ReplyInv
  BY <1>4, <1>10 DEF ReplyInv
<1>16. QED
  BY <1>11, <1>13, <1>14, <1>15 DEF ThreadInv

\* Every step keeps the invariant of the comments.
LEMMA ThreadInductive ==
  ASSUME ThreadInv, [Thread!Next]_(Thread!vars)
  PROVE  ThreadInv'
<1>1. CASE UNCHANGED Thread!vars
  <2>1. UNCHANGED <<kind, threadRows, liked, threadScreen, threadCount, add, threadLikes,
                    deletes, threadQuery, threadSlips>>
    BY <1>1 DEF Thread!vars
  <2>2. /\ Known' = Known /\ \A c : Leaving(c)' <=> Leaving(c)
    BY <2>1 DEF Known, Unanswered, Leaving
  <2>3. ThreadShape'
    BY <2>1 DEF ThreadInv, ThreadShape
  <2>4. RowsInv => (add.pc = "inserted" => add.id \in threadRows /\ \A d \in Known : d < add.id)
    BY DEF RowsInv
  <2>5. QED
    BY <2>1, <2>2, <2>3, <2>4, SameThread DEF ThreadInv
<1>2. CASE \/ Thread!Send \/ Thread!Insert \/ Thread!SendFails \/ Thread!OtherComments
           \/ Thread!Answered \/ Thread!Refetch \/ Thread!QueryRead \/ Thread!QueryArrives
  BY <1>2, WritingStays, CommentStays, AskingComments, CommentsArrive
<1>3. ASSUME NEW l \in Likes,
             \/ Thread!LikeHandled(l) \/ Thread!LikeAnswered(l) \/ Thread!LikeFails(l)
             \/ \E k \in DOMAIN threadScreen : Thread!Like(l, k)
      PROVE  ThreadInv'
  BY <1>3, LikeHandledStays, LikeEndsStays, LikeStays
<1>4. CASE \E k \in DOMAIN threadScreen : Thread!Delete(k)
  BY <1>4, DeleteStays
<1>5. ASSUME NEW c \in Comments,
             \/ Thread!Undo(c) \/ Thread!TimerFires(c)
             \/ Thread!DeleteHandled(c) \/ Thread!DeleteFails(c)
      PROVE  ThreadInv'
  BY <1>5, UndoStays, TimerEnds, DeletedStays
<1>6. QED
  BY <1>1, <1>2, <1>3, <1>4, <1>5 DEF Thread!Next

\* With nothing under way, and nothing that makes the screen wrong, it is the thread.
LEMMA ThreadTells ==
  ASSUME ThreadInv
  PROVE  Thread!ScreenShowsThread
<1>1. ASSUME Thread!AtRest, threadSlips = {}
      PROVE  /\ threadScreen = Thread!Listed(threadRows, liked)
             /\ kind = "post" => threadCount = Thread!Cardinality(threadRows)
  <2>1. /\ add.pc = "idle" /\ threadQuery.pc = "idle"
        /\ \A l \in Likes : threadLikes[l].pc = "idle"
        /\ \A c \in Comments : ~Leaving(c)
    BY <1>1 DEF Thread!AtRest, Leaving
  <2>2. ThreadShape /\ RowsInv /\ ScreenInv
    BY <1>1 DEF ThreadInv
  <2>3. Known = threadRows
    BY <2>1 DEF Known, Unanswered
  <2>4. \A c : Fav(c) = (c \in liked)
    <3>1. \A c : Fav(c) <=> c \in liked
      BY <2>1 DEF Fav, OnItsWay
    <3>2. \A c : Fav(c) \in BOOLEAN /\ (c \in liked) \in BOOLEAN
      BY DEF Fav
    <3>3. QED
      BY <3>1, <3>2
  <2>5. NewestFirst(threadScreen)
    BY <2>2 DEF ScreenInv
  <2>6. ASSUME NEW e
        PROVE  On(threadScreen, e) <=> e.id \in threadRows /\ e = Seen(e.id, e.id \in liked)
    <3>1. On(threadScreen, e) => e.id \in threadRows /\ e = Seen(e.id, e.id \in liked)
      BY <2>2, <2>3, <2>4 DEF ScreenInv
    <3>2. \A c \in threadRows : On(threadScreen, Seen(c, c \in liked))
      BY <2>1, <2>2, <2>3, <2>4 DEF ScreenInv, ThreadShape
    <3>3. QED
      BY <3>1, <3>2
  <2>7. threadScreen = Thread!Listed(threadRows, liked)
    BY <2>2, <2>5, <2>6, ListedOnly DEF ThreadShape
  <2>8. Thread!Cardinality(threadRows) = Cardinality(threadRows)
    BY DEF Thread!Cardinality, Cardinality
  <2>9. QED
    BY <2>2, <2>3, <2>7, <2>8 DEF RowsInv
<1>2. QED
  BY <1>1 DEF Thread!ScreenShowsThread

\* Likes are of comments, and what makes a screen wrong has a name.
LikesTypes ==
  /\ liked \subseteq Comments
  /\ \A l \in Likes : threadLikes[l].pc # "idle" => threadLikes[l].id \in Comments
  /\ threadSlips \subseteq {"crossed", "lost", "others", "double", "restored"}

\* The types of likes hold to begin with, and every step keeps them.
LEMMA LikesTypesInitially == Thread!Init => LikesTypes
BY NothingLiked DEF Thread!Init, LikesTypes

\* Every step keeps the types of likes.
LEMMA LikesInductive ==
  ASSUME ThreadShape, LikesTypes, [Thread!Next]_(Thread!vars)
  PROVE  LikesTypes'
<1> USE DEF LikesTypes
<1>1. threadLikes = [l \in Likes |-> threadLikes[l]]
  BY DEF ThreadShape
<1>2. ASSUME UNCHANGED <<liked, threadLikes>>,
             \/ threadSlips' = threadSlips
             \/ \E what \in {"crossed", "lost", "others", "double", "restored"} :
                  threadSlips' \subseteq threadSlips \cup {what}
             \/ threadSlips' \subseteq threadSlips \cup {"others", "restored"}
      PROVE  LikesTypes'
  BY <1>2
<1>3. CASE Thread!Send \/ Thread!Insert \/ Thread!QueryArrives
  <2>1. UNCHANGED <<liked, threadLikes, threadSlips>>
    BY <1>3 DEF Thread!Send, Thread!Insert, Thread!QueryArrives
  <2>2. QED
    BY <1>2, <2>1
<1>4. CASE Thread!Answered \/ Thread!Refetch \/ Thread!QueryRead
  <2>1. UNCHANGED <<liked, threadLikes>> /\ threadSlips' \subseteq threadSlips \cup {"crossed"}
    BY <1>4 DEF Thread!Answered, Thread!Refetch, Thread!QueryRead, Thread!Slip
  <2>2. QED
    BY <1>2, <2>1
<1>5. CASE Thread!SendFails
  <2>1. UNCHANGED <<liked, threadLikes>> /\ threadSlips' \subseteq threadSlips \cup {"lost"}
    BY <1>5 DEF Thread!SendFails, Thread!Slip
  <2>2. QED
    BY <1>2, <2>1
<1>6. CASE Thread!OtherComments
  <2>1. UNCHANGED <<liked, threadLikes>> /\ threadSlips' \subseteq threadSlips \cup {"others"}
    BY <1>6 DEF Thread!OtherComments, Thread!Slip
  <2>2. QED
    BY <1>2, <2>1
<1>7. ASSUME NEW l \in Likes, NEW k \in DOMAIN threadScreen, Thread!Like(l, k)
      PROVE  LikesTypes'
  <2>1. threadScreen[k].id \in Comments
    BY OnScreen
  <2>2. /\ liked' = liked
        /\ threadLikes' = [threadLikes EXCEPT ![l] =
             [pc |-> "sent", id |-> threadScreen[k].id, was |-> threadScreen[k].liked]]
        /\ threadSlips' \subseteq threadSlips \cup {"double", "crossed"}
    BY <1>7 DEF Thread!Like
  <2>3. \A m \in Likes : m # l => threadLikes'[m] = threadLikes[m]
    BY <1>1, <2>2
  <2>4. threadLikes'[l].id = threadScreen[k].id
    BY <1>1, <2>2
  <2>5. QED
    BY <2>1, <2>2, <2>3, <2>4
<1>8. ASSUME NEW l \in Likes, Thread!LikeHandled(l)
      PROVE  LikesTypes'
  <2>1. /\ threadLikes[l].pc = "sent" /\ threadSlips' = threadSlips
        /\ liked' \subseteq liked \cup {threadLikes[l].id}
        /\ threadLikes' = [threadLikes EXCEPT ![l].pc = "done"]
    BY <1>8 DEF Thread!LikeHandled
  <2>2. \A m \in Likes : m # l => threadLikes'[m] = threadLikes[m]
    BY <1>1, <2>1
  <2>3. threadLikes'[l].id = threadLikes[l].id
    <3>1. threadLikes[l] \in Liking
      BY DEF ThreadShape
    <3>2. QED
      BY <1>1, <2>1, <3>1 DEF Liking
  <2>4. QED
    BY <2>1, <2>2, <2>3
<1>9. ASSUME NEW l \in Likes, Thread!LikeAnswered(l) \/ Thread!LikeFails(l)
      PROVE  LikesTypes'
  <2>1. /\ liked' = liked /\ threadLikes' = [threadLikes EXCEPT ![l] = Thread!NoLike]
        /\ threadSlips' \subseteq threadSlips \cup {"lost", "crossed"}
    BY <1>9 DEF Thread!LikeAnswered, Thread!LikeFails, Thread!Slip
  <2>2. \A m \in Likes : m # l => threadLikes'[m] = threadLikes[m]
    BY <1>1, <2>1
  <2>3. threadLikes'[l].pc = "idle"
    BY <1>1, <2>1, NothingLiked
  <2>4. QED
    BY <2>1, <2>2, <2>3
<1>10. ASSUME NEW k \in DOMAIN threadScreen, Thread!Delete(k)
       PROVE  LikesTypes'
  <2>1. UNCHANGED <<liked, threadLikes, threadSlips>>
    BY <1>10 DEF Thread!Delete
  <2>2. QED
    BY <1>2, <2>1
<1>11. ASSUME NEW c \in Comments,
              \/ Thread!Undo(c) \/ Thread!TimerFires(c)
              \/ Thread!DeleteHandled(c) \/ Thread!DeleteFails(c)
       PROVE  LikesTypes'
  <2>1. /\ UNCHANGED <<liked, threadLikes>>
        /\ \/ threadSlips' = threadSlips
           \/ threadSlips' \subseteq threadSlips \cup {"crossed"}
           \/ threadSlips' \subseteq threadSlips \cup {"others", "restored"}
    BY <1>11 DEF Thread!Undo, Thread!TimerFires, Thread!DeleteHandled, Thread!DeleteFails,
       Thread!PutBack, Thread!Slip
  <2>2. QED
    BY <1>2, <2>1
<1>12. CASE UNCHANGED Thread!vars
  <2>1. UNCHANGED <<liked, threadLikes, threadSlips>>
    BY <1>12 DEF Thread!vars
  <2>2. QED
    BY <1>2, <2>1
<1>13. QED
  BY <1>3, <1>4, <1>5, <1>6, <1>7, <1>8, <1>9, <1>10, <1>11, <1>12 DEF Thread!Next

\* Comments have the types that a run checks.
LEMMA ThreadHasTypes ==
  ASSUME ThreadInv, LikesTypes
  PROVE  Thread!TypeOK
<1>1. ThreadShape /\ \A k \in DOMAIN threadScreen : threadScreen[k] \in Shown
  BY OnScreen DEF ThreadInv
<1>2. QED
  BY <1>1 DEF LikesTypes, Thread!TypeOK, ThreadShape, Shown

=============================================================================
