------------------------------- MODULE Groups -------------------------------
(***************************************************************************)
(* A travel group of the MemoVoy API (routes/groups.js), and the           *)
(* publications shared to it (POST /posts).  Who owns it, who belongs to   *)
(* it and who is invited are three tables, which each handler reads in one *)
(* query and writes in another.                                            *)
(***************************************************************************)
EXTENDS Naturals

CONSTANTS
  Users,    \* accounts that exist initially
  Requests, \* slots for requests the server handles at the same time
  MaxAsks,  \* bounds the requests that are made
  None      \* "nobody"

ASSUME NoneAssumption == None \notin Users

ASSUME MaxAsksAssumption == MaxAsks \in Nat

VARIABLES
  users,   \* table users
  group,   \* the row of travel_groups
  members, \* table group_members
  invite,  \* table group_invites: the state of each user's invitation
  inviter, \* who sent it first, which sending it again does not change; else None
  posts,   \* authors of the posts with this group_id
  req,     \* the requests being handled
  asked,   \* how many requests were made
  let,     \* history: users whom an invitation has let in
  invited, \* history: users invited since they last asked to accept
  slips    \* history: what overlapped that should not have

tables  == <<users, group, members, invite, inviter, posts>>
history == <<let, invited, slips>>

vars == <<tables, req, asked, history>>

-----------------------------------------------------------------------------
(* Tables and requests *)

Group == [state   : {"none", "live", "gone"},
          owner   : Users \cup {None},
          private : BOOLEAN]

Live == group.state = "live"

\* The query a request will issue next.
PC == {"idle", "found", "update", "enter", "leave", "transferee", "transfer",
       "invitee", "invite", "accept", "accepted", "delete", "post"}

Request == [pc  : PC,
            by  : Users \cup {None},
            who : Users \cup {None},  \* whom it is about, or whose invitation it accepts
            set : BOOLEAN]            \* is_private, as it is to be set

Idle == [pc |-> "idle", by |-> None, who |-> None, set |-> FALSE]

At(r, p) == req[r].pc = p

Goto(r, p) == req' = [req EXCEPT ![r].pc = p]

Answer(r) == req' = [req EXCEPT ![r] = Idle]

Start(r, request) ==
  /\ At(r, "idle")
  /\ asked < MaxAsks
  /\ asked' = asked + 1
  /\ req' = [req EXCEPT ![r] = request]

Query(p, u, w) == [Idle EXCEPT !.pc = p, !.by = u, !.who = w]

\* Some request of user u, or about user w, is about to issue query p.
By(p, u)    == \E r \in Requests : At(r, p) /\ req[r].by = u
About(p, w) == \E r \in Requests : At(r, p) /\ req[r].who = w

\* The invitation that request r accepts is still there: an invitation goes with
\* whoever sent it, so that its inviter tells it from a later one, of another token.
Lasts(r) == req[r].who # None /\ inviter[req[r].by] = req[r].who

\* Some request accepts the invitation that u has.
Accepting(u) ==
  \E r \in Requests : req[r].pc \in {"accept", "accepted"} /\ req[r].by = u /\ Lasts(r)

\* INSERT INTO group_members ... ON CONFLICT DO NOTHING, whose foreign keys need
\* the group and the user; without them the handler fails.
CanEnter(u) == Live /\ u \in users

Init ==
  /\ users = Users
  /\ group = [state |-> "none", owner |-> None, private |-> FALSE]
  /\ members = {}
  /\ invite = [u \in Users |-> "none"]
  /\ inviter = [u \in Users |-> None]
  /\ posts = {}
  /\ req = [r \in Requests |-> Idle]
  /\ asked = 0
  /\ let = {}
  /\ invited = {}
  /\ slips = {}

-----------------------------------------------------------------------------
(* POST /groups, PATCH /groups/:id, DELETE /groups/:id *)

Create(r, u, private) ==
  /\ group.state = "none" /\ u \in users
  /\ group' = [state |-> "live", owner |-> u, private |-> private]
  /\ Start(r, Query("found", u, None))
  /\ UNCHANGED <<users, members, invite, inviter, posts, history>>

\* The owner joins in a query of its own.
Found(r) ==
  /\ At(r, "found")
  /\ members' = IF CanEnter(req[r].by) THEN members \cup {req[r].by} ELSE members
  /\ Answer(r)
  /\ UNCHANGED <<asked, users, group, invite, inviter, posts, history>>

UpdateRead(r, u, private) ==
  /\ Live /\ group.owner = u
  /\ Start(r, [Query("update", u, None) EXCEPT !.set = private])
  /\ UNCHANGED <<tables, history>>

Update(r) ==
  /\ At(r, "update")
  /\ group' = IF Live THEN [group EXCEPT !.private = req[r].set] ELSE group
  /\ Answer(r)
  /\ UNCHANGED <<asked, users, members, invite, inviter, posts, history>>

DeleteRead(r, u) ==
  /\ Live /\ group.owner = u
  /\ Start(r, Query("delete", u, None))
  /\ UNCHANGED <<tables, history>>

\* The group goes; members and invitations go by ON DELETE CASCADE and posts stay
\* without it (ON DELETE SET NULL).
Disband ==
  /\ group' = [state |-> "gone", owner |-> None, private |-> FALSE]
  /\ members' = {}
  /\ invite' = [u \in Users |-> "none"]
  /\ inviter' = [u \in Users |-> None]
  /\ posts' = {}
  /\ let' = {}
  /\ invited' = {}

Delete(r) ==
  /\ At(r, "delete")
  /\ IF Live THEN Disband /\ UNCHANGED slips
             ELSE UNCHANGED <<group, members, invite, inviter, posts, history>>
  /\ Answer(r)
  /\ UNCHANGED <<asked, users>>

-----------------------------------------------------------------------------
(* POST /groups/:id/join, DELETE /groups/:id/leave, PATCH /groups/:id/transfer *)

\* Mutant: is_private is not looked at.
JoinReadAny(r, u) ==
  /\ Live
  /\ Start(r, Query("enter", u, None))
  /\ UNCHANGED <<tables, history>>

\* Anybody signed in may join a group that is not private.
JoinRead(r, u) ==
  /\ Live /\ ~group.private
  /\ Start(r, Query("enter", u, None))
  /\ UNCHANGED <<tables, history>>

Join(r) ==
  /\ At(r, "enter")
  /\ members' = IF CanEnter(req[r].by) THEN members \cup {req[r].by} ELSE members
  /\ Answer(r)
  /\ UNCHANGED <<asked, users, group, invite, inviter, posts, history>>

\* Mutant: the owner may leave like anybody else.
LeaveReadAny(r, u) ==
  /\ Live
  /\ Start(r, Query("leave", u, None))
  /\ slips' = IF About("transferee", u) \/ About("transfer", u)
                THEN slips \cup {"owner"} ELSE slips
  /\ UNCHANGED <<tables, let, invited>>

\* The owner may not leave.
LeaveRead(r, u) ==
  /\ Live /\ group.owner # u
  /\ Start(r, Query("leave", u, None))
  /\ slips' = IF About("transferee", u) \/ About("transfer", u)
                THEN slips \cup {"owner"} ELSE slips
  /\ UNCHANGED <<tables, let, invited>>

Leave(r) ==
  /\ At(r, "leave")
  /\ members' = members \ {req[r].by}
  /\ Answer(r)
  /\ UNCHANGED <<asked, users, group, invite, inviter, posts, history>>

TransferRead(r, u, w) ==
  /\ Live /\ group.owner = u /\ w # u
  /\ Start(r, Query("transferee", u, w))
  /\ slips' = IF By("leave", w) THEN slips \cup {"owner"} ELSE slips
  /\ UNCHANGED <<tables, let, invited>>

\* The new owner must be a member.
TransferCheck(r) ==
  /\ At(r, "transferee")
  /\ IF req[r].who \in members THEN Goto(r, "transfer") ELSE Answer(r)
  /\ UNCHANGED <<asked, tables, history>>

\* UPDATE travel_groups SET owner_id, a foreign key.
Transfer(r) ==
  /\ At(r, "transfer")
  /\ group' = IF CanEnter(req[r].who) THEN [group EXCEPT !.owner = req[r].who] ELSE group
  /\ Answer(r)
  /\ UNCHANGED <<asked, users, members, invite, inviter, posts, history>>

-----------------------------------------------------------------------------
(* POST /groups/:id/invite, POST /groups/:id/join/:token *)

\* The inviter must be a member.
InviteRead(r, u, w) ==
  /\ Live /\ u \in members
  /\ Start(r, Query("invitee", u, w))
  /\ UNCHANGED <<tables, history>>

\* The invitee must not be one.
InviteCheck(r) ==
  /\ At(r, "invitee")
  /\ IF req[r].who \in members THEN Answer(r) ELSE Goto(r, "invite")
  /\ UNCHANGED <<asked, tables, history>>

\* INSERT ... ON CONFLICT DO UPDATE: a new invitation, or the one there was, with
\* the same token, pending again.
Invite(r) ==
  LET w == req[r].who IN
  /\ At(r, "invite")
  /\ IF CanEnter(w) /\ req[r].by \in users
       THEN /\ invite' = [invite EXCEPT ![w] = "pending"]
            /\ inviter' = [inviter EXCEPT ![w] = IF @ = None THEN req[r].by ELSE @]
            /\ invited' = invited \cup {w}
            /\ slips' = IF Accepting(w) THEN slips \cup {"invite"} ELSE slips
       ELSE UNCHANGED <<invite, inviter, invited, slips>>
  /\ Answer(r)
  /\ UNCHANGED <<asked, users, group, members, posts, let>>

\* The invitation must be u's, pending and not expired.
AcceptRead(r, u) ==
  /\ Live /\ invite[u] = "pending"
  /\ Start(r, Query("accept", u, inviter[u]))
  /\ invited' = invited \ {u}
  /\ UNCHANGED <<tables, let, slips>>

\* UPDATE group_invites by token, whatever the invitation is by then.
Mark(r) ==
  invite' = [invite EXCEPT ![req[r].by] = IF Lasts(r) THEN "accepted" ELSE @]

\* Mutant: the invitation is used up first, and the user let in afterwards.
AcceptUsedFirst(r) ==
  /\ At(r, "accept")
  /\ IF CanEnter(req[r].by)
       THEN Mark(r) /\ Goto(r, "enter")
       ELSE UNCHANGED invite /\ Answer(r)
  /\ UNCHANGED <<asked, users, group, members, inviter, posts, history>>

\* The user is let in first.
AcceptEnter(r) ==
  /\ At(r, "accept")
  /\ IF CanEnter(req[r].by)
       THEN /\ members' = members \cup {req[r].by}
            /\ let' = let \cup {req[r].by}
            /\ Goto(r, "accepted")
       ELSE UNCHANGED <<members, let>> /\ Answer(r)
  /\ UNCHANGED <<asked, users, group, invite, inviter, posts, invited, slips>>

AcceptMark(r) ==
  /\ At(r, "accepted")
  /\ Mark(r)
  /\ Answer(r)
  /\ UNCHANGED <<asked, users, group, members, inviter, posts, history>>

-----------------------------------------------------------------------------
(* POST /posts with a groupId *)

PostRead(r, u) ==
  /\ Live /\ u \in members
  /\ Start(r, Query("post", u, None))
  /\ UNCHANGED <<tables, history>>

Post(r) ==
  /\ At(r, "post")
  /\ posts' = IF CanEnter(req[r].by) THEN posts \cup {req[r].by} ELSE posts
  /\ Answer(r)
  /\ UNCHANGED <<asked, users, group, members, invite, inviter, history>>

-----------------------------------------------------------------------------
(* The environment *)

\* Seven days go by.
InviteExpires(u) ==
  /\ invite[u] = "pending"
  /\ invite' = [invite EXCEPT ![u] = "expired"]
  /\ UNCHANGED <<asked, users, group, members, inviter, posts, req, history>>

\* DELETE /users/me: what belongs to the user goes with the row, the invitations to
\* him and those he sent with it (both are ON DELETE CASCADE), and a group with its
\* owner.  An access token outlives its user by minutes, so u may go on asking.
DeleteUser(u) ==
  /\ u \in users
  /\ users' = users \ {u}
  /\ IF Live /\ group.owner = u
       THEN Disband /\ UNCHANGED slips
       ELSE /\ members' = members \ {u}
            /\ invite' = [w \in Users |-> IF w = u \/ inviter[w] = u THEN "none" ELSE invite[w]]
            /\ inviter' = [w \in Users |-> IF w = u \/ inviter[w] = u THEN None ELSE inviter[w]]
            /\ posts' = posts \ {u}
            /\ let' = let \ {u}
            /\ invited' = {w \in invited : w # u /\ inviter[w] # u}
            /\ UNCHANGED <<group, slips>>
  /\ UNCHANGED <<asked, req>>

\* A query fails, or the process dies: the handler stops where it is.  A founder
\* that has not joined is then an owner who is no member.
RequestFails(r) ==
  /\ ~At(r, "idle")
  /\ slips' = IF At(r, "found") THEN slips \cup {"owner"} ELSE slips
  /\ Answer(r)
  /\ UNCHANGED <<asked, tables, let, invited>>

-----------------------------------------------------------------------------
(* The specification *)

Ask(r) ==
  \E u \in Users :
    \/ \E private \in BOOLEAN : Create(r, u, private) \/ UpdateRead(r, u, private)
    \/ DeleteRead(r, u) \/ JoinRead(r, u) \/ LeaveRead(r, u)
    \/ \E w \in Users : TransferRead(r, u, w) \/ InviteRead(r, u, w)
    \/ AcceptRead(r, u) \/ PostRead(r, u)

Serve(r) ==
  \/ Found(r) \/ Update(r) \/ Delete(r) \/ Join(r) \/ Leave(r)
  \/ TransferCheck(r) \/ Transfer(r) \/ InviteCheck(r) \/ Invite(r)
  \/ AcceptEnter(r) \/ AcceptMark(r) \/ Post(r)

Next ==
  \/ \E r \in Requests : Ask(r) \/ Serve(r) \/ RequestFails(r)
  \/ \E u \in Users : InviteExpires(u) \/ DeleteUser(u)

Spec == Init /\ [][Next]_vars

-----------------------------------------------------------------------------
(* Properties *)

InviteState == {"none", "pending", "expired", "accepted"}

TypeOK ==
  /\ users \subseteq Users
  /\ group \in Group
  /\ Live <=> group.owner # None
  /\ members \subseteq Users
  /\ invite \in [Users -> InviteState]
  /\ inviter \in [Users -> users \cup {None}]
  /\ \A u \in Users : invite[u] = "none" <=> inviter[u] = None
  /\ posts \subseteq Users
  /\ req \in [Requests -> Request]
  /\ asked \in 0..MaxAsks
  /\ let \subseteq Users
  /\ invited \subseteq Users
  /\ slips \subseteq {"owner", "invite"}

\* A group in use has its owner among its members, so that somebody can run it
\* from the inside and post to it, unless the new owner was leaving while the
\* group was being handed over, or its creation was cut in two.  (groups.js:
\* leave and transfer both look first and write afterwards.)
OwnerIsMember ==
  Live /\ "owner" \notin slips =>
    group.owner \in members \/ By("found", group.owner)

\* An invitation is used up only by letting its user in, at whatever point the
\* handler stops.  (groups.js, /join/:token: the membership comes first.)
UsedInvitationLetIn ==
  \A u \in Users : invite[u] = "accepted" => u \in let

\* An invitation sent after the user last asked to accept one can still be
\* accepted (or has expired) as long as the account that sent it first exists, unless
\* it was sent again while the user was accepting.  (groups.js: the UPDATE goes by
\* the token, which the second invitation keeps, as it keeps the first inviter.)
InvitationStands ==
  "invite" \notin slips =>
    \A u \in invited : invite[u] \in {"pending", "expired"}

\* What invitations promise, used or sent.
InvitationsHold == UsedInvitationLetIn /\ InvitationStands

\* Once a group is private and the requests that found it open (or an invitation
\* good) are over, whoever is not invited stays outside.
Admitted(u) ==
  \/ group.state = "none" \/ ~group.private
  \/ invite[u] = "pending"
  \/ \E p \in {"found", "enter", "accept"} : By(p, u)

PrivateDoorHolds ==
  [][\A u \in Users : ~Admitted(u) /\ u \notin members =>
       /\ u \notin members'
       /\ \A p \in {"found", "enter", "accept"} : ~By(p, u)']_vars

\* Only members post to a group: once a user has left and the posts that were
\* being written are in, nothing of theirs appears there.
OnlyMembersPost ==
  [][\A u \in Users : u \notin members /\ ~By("post", u) =>
       /\ u \in posts' => u \in posts
       /\ ~By("post", u)']_vars
=============================================================================
