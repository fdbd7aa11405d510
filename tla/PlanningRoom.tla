---------------------------- MODULE PlanningRoom ----------------------------
(***************************************************************************)
(* The "Sala de Planeamento": how the page of an itinerary follows what    *)
(* others change in it.  The page (hooks/useSalaDoRoteiro.ts) asks to enter *)
(* a room of its socket connection; the server (services/socket.js) lets in *)
(* whoever may, and each edit (routes/itineraries.js) is announced to the  *)
(* room, but for the connection it came from.                              *)
(***************************************************************************)
EXTENDS Naturals, Sequences

CONSTANTS
  Budget,   \* RL_MAX, 10 events in ten seconds
  MaxEdits, \* bounds the edits made
  MaxActs   \* bounds what people and the network start

VARIABLES
  allowed,  \* the user owns the itinerary or collaborates on it
  edits,    \* edits the server has saved
  mounted,  \* the page is open
  page,     \* [known: edits in the copy shown, asked, reply]: the query of the page
  up,       \* the socket is connected
  buffer,   \* events emitted while it was not
  wire,     \* events on their way to the server, in order
  joining,  \* joins that wait for the database
  room,     \* the connection is in the room of the itinerary
  used,     \* events counted in the current window
  inbox,    \* announcements on their way to the page
  acts,     \* how many things were started
  slips,    \* history: why this connection may be in the wrong room
  unheard   \* history: edits whose announcement did not reach the page

net     == <<up, buffer, wire, joining, room, used>>
history == <<slips, unheard>>
vars    == <<allowed, edits, mounted, page, net, inbox, acts, history>>

-----------------------------------------------------------------------------
Act == acts < MaxActs /\ acts' = acts + 1

NoPage == [known |-> {}, loaded |-> FALSE, state |-> "none", reply |-> {}]

\* socket.emit: at once, or when the connection is back.
Emit(e) == IF up THEN wire' = Append(wire, e) /\ UNCHANGED buffer
                 ELSE buffer' = Append(buffer, e) /\ UNCHANGED wire

Init ==
  /\ allowed \in BOOLEAN
  /\ edits = {}
  /\ mounted = FALSE
  /\ page = NoPage
  /\ up = FALSE /\ buffer = <<>> /\ wire = <<>> /\ joining = 0
  /\ room = FALSE /\ used = 0
  /\ inbox = 0
  /\ acts = 0
  /\ slips = {} /\ unheard = {}

-----------------------------------------------------------------------------
(* The page *)

\* The page opens, asks for the itinerary and asks to enter the room.
Mount ==
  /\ ~mounted
  /\ Act
  /\ mounted' = TRUE
  /\ page' = [page EXCEPT !.state = "asked"]
  /\ Emit("join")
  /\ UNCHANGED <<allowed, edits, up, joining, room, used, inbox, history>>

\* Mutant: the page forgets to leave.
UnmountSilently ==
  /\ mounted
  /\ Act
  /\ mounted' = FALSE
  /\ page' = NoPage
  /\ UNCHANGED <<allowed, edits, net, inbox, history>>

Unmount ==
  /\ mounted
  /\ Act
  /\ mounted' = FALSE
  /\ page' = NoPage
  /\ Emit("leave")
  /\ UNCHANGED <<allowed, edits, up, joining, room, used, inbox, history>>

\* GET /itineraries/:id, and its reply, which replaces the copy.
QueryRead ==
  /\ page.state = "asked"
  /\ page' = [page EXCEPT !.state = "read", !.reply = edits]
  /\ UNCHANGED <<allowed, edits, mounted, net, inbox, acts, history>>

QueryArrives ==
  /\ page.state = "read"
  /\ page' = [known |-> page.reply, loaded |-> TRUE, state |-> "none", reply |-> {}]
  /\ unheard' = (unheard \cup (page.known \ page.reply)) \ page.reply
  /\ UNCHANGED <<allowed, edits, mounted, net, inbox, acts, slips>>

\* A query that fails leaves the copy as it is; nothing asks again.
QueryFails ==
  /\ page.state # "none"
  /\ Act
  /\ page' = [page EXCEPT !.state = "none"]
  /\ unheard' = edits \ page.known
  /\ UNCHANGED <<allowed, edits, mounted, net, inbox, slips>>

\* itinerary_changed: invalidateQueries, which starts the query over, unless it is
\* the first one of the page and still on its way.
Hear ==
  LET first == ~page.loaded /\ page.state # "none" IN
  /\ inbox > 0
  /\ inbox' = inbox - 1
  /\ page' = IF mounted /\ ~first THEN [page EXCEPT !.state = "asked", !.reply = {}]
                                  ELSE page
  /\ unheard' = IF first THEN edits \ page.reply ELSE unheard
  /\ UNCHANGED <<allowed, edits, mounted, net, acts, slips>>

\* The page saves an edit: the server announces it to all but this connection, and
\* the page puts it into its own copy.
OwnEdit(e) ==
  /\ e \notin edits /\ mounted /\ allowed /\ page.loaded
  /\ edits' = edits \cup {e}
  /\ page' = [page EXCEPT !.known = @ \cup {e}]
  /\ UNCHANGED <<allowed, mounted, net, inbox, acts, history>>

\* Somebody else's edit is announced to the room.
OthersEdit(e) ==
  /\ e \notin edits
  /\ edits' = edits \cup {e}
  /\ inbox' = IF room /\ up THEN inbox + 1 ELSE inbox
  /\ unheard' = IF room /\ up THEN unheard ELSE unheard \cup {e}
  /\ UNCHANGED <<allowed, mounted, page, net, acts, slips>>

-----------------------------------------------------------------------------
(* The connection *)

\* A new connection is in no room; what was emitted meanwhile goes first, and then
\* the page asks to enter again.
Connect ==
  /\ ~up
  /\ Act
  /\ up' = TRUE
  /\ wire' = IF mounted THEN Append(buffer, "join") ELSE buffer
  /\ buffer' = <<>> /\ joining' = 0 /\ room' = FALSE /\ used' = 0
  /\ slips' = {}
  /\ UNCHANGED <<allowed, edits, mounted, page, inbox, unheard>>

Disconnect ==
  /\ up
  /\ Act
  /\ up' = FALSE
  /\ wire' = <<>> /\ joining' = 0 /\ room' = FALSE
  /\ inbox' = 0
  /\ unheard' = IF inbox > 0 THEN edits \ page.known ELSE unheard
  /\ UNCHANGED <<allowed, edits, mounted, page, buffer, used, slips>>

\* throttled: an event over the budget of the window is dropped without an answer.
Throttled ==
  /\ wire # <<>> /\ used = Budget
  /\ wire' = Tail(wire)
  /\ slips' = slips \cup {"dropped"}
  /\ UNCHANGED <<allowed, edits, mounted, page, up, buffer, joining, room, used,
                 inbox, acts, unheard>>

NewWindow ==
  /\ used > 0
  /\ Act
  /\ used' = 0
  /\ UNCHANGED <<allowed, edits, mounted, page, up, buffer, wire, joining, room,
                 inbox, history>>

\* join_itinerary begins with a query.
ReceiveJoin ==
  /\ wire # <<>> /\ Head(wire) = "join" /\ used < Budget
  /\ wire' = Tail(wire)
  /\ used' = used + 1
  /\ joining' = joining + 1
  /\ UNCHANGED <<allowed, edits, mounted, page, up, buffer, room, inbox, acts, history>>

\* leave_itinerary is done at once: a join that still waits comes after it.
ReceiveLeave ==
  /\ wire # <<>> /\ Head(wire) = "leave" /\ used < Budget
  /\ wire' = Tail(wire)
  /\ used' = used + 1
  /\ room' = FALSE
  /\ slips' = IF joining > 0 THEN slips \cup {"overtaken"} ELSE slips
  /\ UNCHANGED <<allowed, edits, mounted, page, up, buffer, joining, inbox, acts, unheard>>

\* Owner or collaborator: in.  Anybody else is ignored.
Join ==
  /\ joining > 0
  /\ joining' = joining - 1
  /\ room' = (room \/ allowed)
  /\ UNCHANGED <<allowed, edits, mounted, page, up, buffer, wire, used, inbox, acts, history>>

JoinFails ==
  /\ joining > 0
  /\ Act
  /\ joining' = joining - 1
  /\ slips' = slips \cup {"dropped"}
  /\ UNCHANGED <<allowed, edits, mounted, page, up, buffer, wire, room, used, inbox, unheard>>

\* POST and DELETE /itineraries/:id/collaborators: the rooms are left as they are.
Collaborators ==
  /\ Act
  /\ allowed' = ~allowed
  /\ slips' = slips \cup {"changed"}
  /\ UNCHANGED <<edits, mounted, page, net, inbox, unheard>>

-----------------------------------------------------------------------------
Next ==
  \/ Mount \/ Unmount \/ QueryRead \/ QueryArrives \/ QueryFails \/ Hear
  \/ \E e \in 1..MaxEdits : OwnEdit(e) \/ OthersEdit(e)
  \/ Connect \/ Disconnect \/ Throttled \/ NewWindow
  \/ ReceiveJoin \/ ReceiveLeave \/ Join \/ JoinFails \/ Collaborators

Spec == Init /\ [][Next]_vars

-----------------------------------------------------------------------------
(* Properties *)

TypeOK ==
  /\ allowed \in BOOLEAN /\ mounted \in BOOLEAN /\ up \in BOOLEAN /\ room \in BOOLEAN
  /\ edits \subseteq 1..MaxEdits
  /\ page.state \in {"none", "asked", "read"}
  /\ page.known \subseteq edits /\ page.reply \subseteq edits
  /\ used \in 0..Budget
  /\ joining \in Nat /\ inbox \in Nat
  /\ slips \subseteq {"dropped", "overtaken", "changed"}
  /\ unheard \subseteq edits

\* Once everything that was emitted has been handled, a connection is in the room
\* exactly when the page is open and the user may enter, unless in this connection
\* an event was dropped, a leave overtook a join or the collaborators changed.
\* (socket.js: the join waits for a query, the leave does not, and both count
\* against one budget; useSalaDoRoteiro.ts: the room is asked for at every connect.)
RoomAsWished ==
  up /\ wire = <<>> /\ joining = 0 /\ slips = {}
    => (room <=> mounted /\ allowed)

\* What the page does not show and the server has saved is being fetched, or its
\* announcement is on the way, or the page could not hear it: it was out of the
\* room, its first query was already answered, a reply older than its own edit
\* replaced its copy, or a query failed.
FollowsEdits ==
  page.loaded /\ page.state = "none" /\ inbox = 0
    => edits \ page.known \subseteq unheard
=============================================================================
