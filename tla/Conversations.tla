---------------------------- MODULE Conversations ----------------------------
(***************************************************************************)
(* Two people of the MemoVoy network and what they write to each other:    *)
(* opening a conversation (routes/conversations.js), sending into it       *)
(* (routes/messages.js), the sockets that announce a message               *)
(* (services/socket.js) and the page that shows it (messages/[convId]).    *)
(* The page has three sources that know nothing of each other: replies to  *)
(* its query, events of its socket and the answers to its own messages;    *)
(* and a page that is closed leaves in a cache what it showed.             *)
(***************************************************************************)
EXTENDS Integers, Sequences, FiniteSets, SequencesExt, Ordered

CONSTANTS
  People,      \* the two of them
  Convs,       \* slots for conversations
  MaxMessages, \* bounds the messages sent
  PageSize,    \* how many messages a reply holds, 40 in the code
  MaxActs,     \* bounds what people, browsers and the network start
  NoConv       \* "no conversation"

VARIABLES
  made,    \* table conversations
  paired,  \* conversations with their rows in conversation_participants
  opening, \* [People -> the POST /conversations of each]
  thread,  \* table messages, in order of created_at
  post,    \* [People -> the POST /messages of each]
  page,    \* [People -> the conversation page of each, open or remembered]
  reply,   \* [People -> the query of the page]
  older,   \* [People -> the request for older messages]
  socket,  \* [People -> the connection of the page]
  acts,    \* how many things were started
  missed,  \* history: [People -> messages whose announcement was lost, and why not]
  crossed, \* history: [People -> messages fetched before their event came]
  twice    \* history: two requests to open the conversation overlapped

server == <<made, paired, opening>>
vars == <<server, thread, post, page, reply, older, socket, acts, missed, crossed, twice>>

-----------------------------------------------------------------------------
(* Helpers *)

Ids == 1..MaxMessages

Pending == 0  \* the message on the page that has no id yet

NoReply == [state |-> "none", ids |-> {}]
NoPost  == [pc |-> "idle", conv |-> NoConv, id |-> 0]
Asked   == [NoReply EXCEPT !.state = "asked"]
NoPage  == [conv |-> NoConv, on |-> FALSE, ready |-> FALSE, view |-> <<>>, cursor |-> 0]
Offline == [up |-> FALSE, room |-> FALSE, todo |-> {}, inbox |-> <<>>]

Act == acts < MaxActs /\ acts' = acts + 1

\* The messages of conversation c older than the given one.
Of(c, before) == {i \in DOMAIN thread : thread[i].conv = c /\ i < before}

\* SELECT ... ORDER BY created_at DESC LIMIT: the last of them.
LastOf(ids) == {i \in ids : Cardinality({j \in ids : j > i}) < PageSize}

Listening(u, c) == socket[u].up /\ socket[u].room /\ page[u].conv = c

\* Inserted, and not announced yet.
Unsaid(id) == \E u \in People : post[u].pc = "emit" /\ post[u].id = id

\* Of these messages, those whose event is still to come to u.
Early(u, ids) == {m \in ids : thread[m].from # u /\ (Unsaid(m) \/ m \in ToSet(socket[u].inbox))}

First(ids) == IF ids = {} THEN 0 ELSE Min(ids)

\* They have never talked, or one has written to the other.
Init ==
  /\ \/ paired = {} /\ thread = <<>>
     \/ \E c \in Convs, u \in People :
          paired = {c} /\ thread = <<[conv |-> c, from |-> u, read |-> FALSE]>>
  /\ made = paired
  /\ opening = [u \in People |-> [pc |-> "idle", conv |-> NoConv]]
  /\ post = [u \in People |-> NoPost]
  /\ page = [u \in People |-> NoPage]
  /\ reply = [u \in People |-> NoReply]
  /\ older = [u \in People |-> NoReply]
  /\ socket = [u \in People |-> Offline]
  /\ acts = 0
  /\ missed = [u \in People |-> {}]
  /\ crossed = [u \in People |-> {}]
  /\ twice = FALSE

client == <<page, reply, older, socket>>
history == <<missed, crossed, twice>>

-----------------------------------------------------------------------------
(* POST /conversations *)

\* Mutant: nobody looks for a conversation that exists.
OpenReadNothing(u) ==
  /\ opening[u].pc = "idle"
  /\ Act
  /\ opening' = [opening EXCEPT ![u].pc = "create"]
  /\ twice' = (twice \/ \E v \in People : opening[v].pc # "idle")
  /\ UNCHANGED <<made, paired, thread, post, client, missed, crossed>>

\* SELECT: one that exists is the answer, and nothing is written.
OpenRead(u) ==
  /\ opening[u].pc = "idle" /\ paired = {}
  /\ Act
  /\ opening' = [opening EXCEPT ![u].pc = "create"]
  /\ twice' = (twice \/ \E v \in People : opening[v].pc # "idle")
  /\ UNCHANGED <<made, paired, thread, post, client, missed, crossed>>

OpenCreate(u, c) ==
  /\ opening[u].pc = "create" /\ c \notin made
  /\ made' = made \cup {c}
  /\ opening' = [opening EXCEPT ![u] = [pc |-> "pair", conv |-> c]]
  /\ UNCHANGED <<paired, thread, post, client, acts, history>>

OpenPair(u) ==
  /\ opening[u].pc = "pair"
  /\ paired' = paired \cup {opening[u].conv}
  /\ opening' = [opening EXCEPT ![u] = [pc |-> "idle", conv |-> NoConv]]
  /\ UNCHANGED <<made, thread, post, client, acts, history>>

\* A query fails, or the process dies: a conversation of nobody may stay behind.
OpenFails(u) ==
  /\ opening[u].pc # "idle"
  /\ Act
  /\ opening' = [opening EXCEPT ![u] = [pc |-> "idle", conv |-> NoConv]]
  /\ UNCHANGED <<made, paired, thread, post, client, history>>

-----------------------------------------------------------------------------
(* The page: its query, GET /conversations/:id *)

\* The page opens with what it last showed, which is fetched again if it is half a minute
\* old or never came; or with nothing, after a while or in a new browser.  Bound: one
\* conversation is remembered at a time.
PageOpens(u, c) ==
  /\ ~page[u].on /\ c \in paired
  /\ Act
  /\ \/ /\ page[u].conv = c
        /\ page' = [page EXCEPT ![u].on = TRUE]
        /\ \/ page[u].ready /\ UNCHANGED reply
           \/ reply' = [reply EXCEPT ![u] = IF @ = NoReply THEN Asked ELSE @]
        /\ UNCHANGED <<older, missed, crossed>>
     \/ /\ page' = [page EXCEPT ![u] = [NoPage EXCEPT !.conv = c, !.on = TRUE]]
        /\ reply' = [reply EXCEPT ![u] = Asked]
        /\ older' = [older EXCEPT ![u] = NoReply]
        /\ missed' = [missed EXCEPT ![u] = {}]
        /\ crossed' = [crossed EXCEPT ![u] = {}]
  /\ UNCHANGED <<server, thread, post, socket, twice>>

\* It disconnects; what it shows stays in the cache, and so does what it asked for.
PageCloses(u) ==
  /\ page[u].on
  /\ Act
  /\ page' = [page EXCEPT ![u].on = FALSE]
  /\ socket' = [socket EXCEPT ![u] = Offline]
  /\ missed' = [missed EXCEPT ![u] = @ \cup ToSet(socket[u].inbox)]
  /\ UNCHANGED <<server, thread, post, reply, older, crossed, twice>>

\* Focus, or a network that is back, fetches what is on the page again.
Refetch(u) ==
  /\ page[u].on /\ page[u].ready /\ reply[u] = NoReply
  /\ Act
  /\ reply' = [reply EXCEPT ![u] = Asked]
  /\ UNCHANGED <<server, thread, post, page, older, socket, history>>

\* The server reads participation, the other person and the messages.
QueryRead(u) ==
  /\ reply[u].state = "asked"
  /\ reply' = [reply EXCEPT ![u] =
                 [state |-> "read", ids |-> LastOf(Of(page[u].conv, Len(thread) + 1))]]
  /\ UNCHANGED <<server, thread, post, page, older, socket, acts, history>>

\* The reply replaces everything on the page, the oldest message first.
QueryArrives(u) ==
  LET ids == reply[u].ids
      old == ToSet(page[u].view) \ {Pending} IN
  /\ reply[u].state = "read"
  /\ page' = [page EXCEPT ![u] =
                [@ EXCEPT !.ready = TRUE, !.view = Ascending(ids), !.cursor = First(ids)]]
  /\ reply' = [reply EXCEPT ![u] = NoReply]
  /\ missed' = [missed EXCEPT ![u] = (@ \cup old) \ ids]
  /\ crossed' = [crossed EXCEPT ![u] = @ \cup Early(u, ids)]
  /\ UNCHANGED <<server, thread, post, older, socket, acts, twice>>

QueryFails(u) ==
  /\ reply[u] # NoReply
  /\ Act
  /\ reply' = [reply EXCEPT ![u] = NoReply]
  /\ UNCHANGED <<server, thread, post, page, older, socket, history>>

\* handleLoadOlder: the messages before the oldest on the page.
OlderRead(u) ==
  /\ page[u].on /\ page[u].ready /\ page[u].cursor # 0 /\ older[u] = NoReply
  /\ Act
  /\ older' = [older EXCEPT ![u] =
       [state |-> "read", ids |-> LastOf(Of(page[u].conv, page[u].cursor))]]
  /\ UNCHANGED <<server, thread, post, page, reply, socket, history>>

\* They are put in front of those that are there, without repeating any.
OlderArrives(u) ==
  LET new == Ascending(older[u].ids \ ToSet(page[u].view)) IN
  /\ older[u].state = "read"
  /\ page' = IF page[u].ready
               THEN [page EXCEPT ![u].view = new \o @, ![u].cursor = First(older[u].ids)]
               ELSE page
  /\ older' = [older EXCEPT ![u] = NoReply]
  /\ missed' = [missed EXCEPT ![u] = @ \ older[u].ids]
  /\ crossed' = [crossed EXCEPT ![u] = @ \cup Early(u, older[u].ids)]
  /\ UNCHANGED <<server, thread, post, reply, socket, acts, twice>>

-----------------------------------------------------------------------------
(* The page: its socket *)

\* The effect of the page connects, joins the room and marks all as read.  It runs
\* again with every new access token.
Connect(u) ==
  /\ page[u].on /\ ~socket[u].up
  /\ Act
  /\ socket' = [socket EXCEPT ![u] = [Offline EXCEPT !.up = TRUE, !.todo = {"join", "read"}]]
  /\ UNCHANGED <<server, thread, post, page, reply, older, history>>

\* socket.io reconnects by itself, and nobody joins the room again.
Reconnect(u) ==
  /\ page[u].on /\ ~socket[u].up
  /\ Act
  /\ socket' = [socket EXCEPT ![u] = [Offline EXCEPT !.up = TRUE]]
  /\ UNCHANGED <<server, thread, post, page, reply, older, history>>

\* join_conversation: the membership is looked up, then the socket joins.
Join(u) ==
  /\ "join" \in socket[u].todo
  /\ socket' = [socket EXCEPT ![u].room = @ \/ page[u].conv \in paired,
                               ![u].todo = @ \ {"join"}]
  /\ UNCHANGED <<server, thread, post, page, reply, older, acts, history>>

\* mark_read: all that the other has written by now.
MarkRead(u) ==
  /\ "read" \in socket[u].todo
  /\ thread' = [i \in DOMAIN thread |->
                  IF thread[i].conv = page[u].conv /\ thread[i].from # u
                    THEN [thread[i] EXCEPT !.read = TRUE] ELSE thread[i]]
  /\ socket' = [socket EXCEPT ![u].todo = @ \ {"read"}]
  /\ UNCHANGED <<server, post, page, reply, older, acts, history>>

\* Over the budget of the connection, or its query fails.
EventDropped(u) ==
  /\ Act
  /\ \E e \in socket[u].todo : socket' = [socket EXCEPT ![u].todo = @ \ {e}]
  /\ UNCHANGED <<server, thread, post, page, reply, older, history>>

\* The network, or a new access token.
Disconnect(u) ==
  /\ socket[u].up
  /\ Act
  /\ missed' = [missed EXCEPT ![u] = @ \cup ToSet(socket[u].inbox)]
  /\ socket' = [socket EXCEPT ![u] = Offline]
  /\ UNCHANGED <<server, thread, post, page, reply, older, crossed, twice>>

\* new_message: appended, unless it is one's own; before the first reply there is
\* nothing to append to.
Hear(u) ==
  LET m == Head(socket[u].inbox) IN
  /\ socket[u].inbox # <<>>
  /\ IF thread[m].from = u
       THEN /\ socket' = [socket EXCEPT ![u].inbox = Tail(@)]
            /\ UNCHANGED <<page, missed>>
       ELSE /\ page' = IF page[u].ready THEN [page EXCEPT ![u].view = Append(@, m)] ELSE page
            /\ missed' = IF ~page[u].ready
                           THEN [missed EXCEPT ![u] = @ \cup {m}] ELSE missed
            /\ socket' = [socket EXCEPT ![u].inbox = Tail(@), ![u].todo = @ \cup {"read"}]
  /\ UNCHANGED <<server, thread, post, reply, older, acts, crossed, twice>>

-----------------------------------------------------------------------------
(* Sending: the mutation of the page and POST /messages *)

\* onMutate: the message is shown before it is sent.
Send(u) ==
  /\ page[u].on /\ page[u].ready /\ post[u] = NoPost
  /\ Len(thread) < MaxMessages
  /\ post' = [post EXCEPT ![u] = [NoPost EXCEPT !.pc = "insert", !.conv = page[u].conv]]
  /\ page' = [page EXCEPT ![u].view = Append(@, Pending)]
  /\ UNCHANGED <<server, thread, reply, older, socket, acts, history>>

\* The sender is a participant, and the row is inserted.
PostInsert(u) ==
  /\ post[u].pc = "insert" /\ post[u].conv \in paired
  /\ Len(thread) < MaxMessages
  /\ thread' = Append(thread, [conv |-> post[u].conv, from |-> u, read |-> FALSE])
  /\ post' = [post EXCEPT ![u].pc = "emit", ![u].id = Len(thread) + 1]
  /\ UNCHANGED <<server, page, reply, older, socket, acts, history>>

\* Mutant: the message is announced to the last room member only.
PostEmitOne(u) ==
  /\ post[u].pc = "emit"
  /\ post' = [post EXCEPT ![u].pc = "answer"]
  /\ socket' = [socket EXCEPT ![u].inbox = IF Listening(u, post[u].conv)
                                             THEN Append(@, post[u].id) ELSE @]
  /\ missed' = [v \in People |->
                  IF v = u \/ Listening(v, post[u].conv)
                    THEN missed[v] ELSE missed[v] \cup {post[u].id}]
  /\ UNCHANGED <<server, thread, page, reply, older, acts, crossed, twice>>

\* new_message goes to whoever is in the room.
PostEmit(u) ==
  /\ post[u].pc = "emit"
  /\ post' = [post EXCEPT ![u].pc = "answer"]
  /\ socket' = [v \in People |->
                  IF Listening(v, post[u].conv)
                    THEN [socket[v] EXCEPT !.inbox = Append(@, post[u].id)] ELSE socket[v]]
  /\ missed' = [v \in People |->
                  IF v = u \/ Listening(v, post[u].conv)
                           \/ post[u].id \in ToSet(page[v].view)
                    THEN missed[v] ELSE missed[v] \cup {post[u].id}]
  /\ UNCHANGED <<server, thread, page, reply, older, acts, crossed, twice>>

\* onSuccess: the row takes the place of the message shown, if it is still there.
PostAnswered(u) ==
  LET view == page[u].view IN
  /\ post[u].pc = "answer"
  /\ post' = [post EXCEPT ![u] = NoPost]
  /\ page' = [page EXCEPT ![u].view =
                [i \in DOMAIN view |-> IF view[i] = Pending THEN post[u].id ELSE view[i]]]
  /\ missed' = IF Pending \notin ToSet(view) /\ post[u].id \notin ToSet(view)
                 THEN [missed EXCEPT ![u] = @ \cup {post[u].id}] ELSE missed
  /\ UNCHANGED <<server, thread, reply, older, socket, acts, crossed, twice>>

\* onError: the message shown is taken away, whether or not the row was inserted
\* and announced before the failure.
PostFails(u) ==
  LET view == page[u].view IN
  /\ post[u].pc # "idle"
  /\ Act
  /\ post' = [post EXCEPT ![u] = NoPost]
  /\ page' = [page EXCEPT ![u].view = Kept(view, {k \in DOMAIN view : view[k] # Pending})]
  /\ missed' = [v \in People |->
                  IF post[u].id # 0 /\ post[u].id \notin ToSet(page[v].view)
                       /\ (v = u \/ post[u].pc = "emit")
                    THEN missed[v] \cup {post[u].id} ELSE missed[v]]
  /\ UNCHANGED <<server, thread, reply, older, socket, crossed, twice>>

-----------------------------------------------------------------------------
(* The specification *)

Next ==
  \E u \in People :
    \/ OpenRead(u) \/ OpenPair(u) \/ OpenFails(u)
    \/ \E c \in Convs : OpenCreate(u, c) \/ PageOpens(u, c)
    \/ Refetch(u) \/ QueryRead(u) \/ QueryArrives(u) \/ QueryFails(u)
    \/ OlderRead(u) \/ OlderArrives(u)
    \/ Connect(u) \/ Reconnect(u) \/ Join(u) \/ MarkRead(u) \/ EventDropped(u)
    \/ PageCloses(u) \/ Disconnect(u) \/ Hear(u)
    \/ Send(u) \/ PostInsert(u) \/ PostEmit(u) \/ PostAnswered(u) \/ PostFails(u)

Spec == Init /\ [][Next]_vars

-----------------------------------------------------------------------------
(* Properties *)

TypeOK ==
  /\ paired \subseteq made /\ made \subseteq Convs
  /\ opening \in [People -> [pc : {"idle", "create", "pair"}, conv : Convs \cup {NoConv}]]
  /\ Len(thread) <= MaxMessages
  /\ \A i \in DOMAIN thread :
       thread[i] \in [conv : Convs, from : People, read : BOOLEAN]
  /\ \A u \in People :
       /\ page[u].conv \in Convs \cup {NoConv}
       /\ page[u].on \in BOOLEAN
       /\ ToSet(page[u].view) \subseteq {Pending} \cup 1..Len(thread)
       /\ post[u] \in [pc : {"idle", "insert", "emit", "answer"},
                       conv : Convs \cup {NoConv}, id : 0..MaxMessages]
       /\ socket[u].todo \subseteq {"join", "read"}
       /\ missed[u] \subseteq 1..Len(thread)
       /\ crossed[u] \subseteq 1..Len(thread)

\* Who opens a conversation with somebody finds what that person wrote: unless two
\* requests to open it overlapped there is one conversation, whatever was cut in
\* two before.  (conversations.js: a SELECT and two INSERTs.)
ThreadsMeet ==
  twice \/ Cardinality(paired) <= 1

\* A message is on the page once, unless a reply brought it before its event came:
\* the event is appended without looking.  (messages/[convId], new_message.)
ShownOnce ==
  \A u \in People : \A m \in Ids \ crossed[u] :
    Cardinality({i \in DOMAIN page[u].view : page[u].view[i] = m}) <= 1

\* A page shows (or will, when it is opened again with what is remembered) every message
\* of its conversation from its oldest one on that was announced (or, for one's own,
\* answered), or its event is on the way, or the announcement was lost for one of the
\* reasons that missed records: nobody was in the room, as when the page was closed for
\* a while and shows again what it remembers, the page had no data, a reply older than
\* the message replaced it, or the request failed after it was inserted.
Settled(u, m) ==
  /\ thread[m].conv = page[u].conv
  /\ m >= page[u].cursor
  /\ ~\E v \in People : post[v].id = m /\ (v = u \/ post[v].pc = "emit")

NothingMissed ==
  \A u \in People : \A m \in 1..Len(thread) :
    page[u].ready /\ Settled(u, m) =>
      m \in ToSet(page[u].view) \cup ToSet(socket[u].inbox) \cup missed[u]
=============================================================================
