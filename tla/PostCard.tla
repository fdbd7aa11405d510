------------------------------ MODULE PostCard ------------------------------
(***************************************************************************)
(* The card of one's own post in a feed (components/feed/PostCard.tsx) and *)
(* the handlers behind it (routes/posts.js).  The card changes the cached  *)
(* page before the server does: a heart turns at once and goes back on an  *)
(* error, a deleted post disappears at once and is deleted five seconds    *)
(* later, unless it is brought back.  Each change keeps a copy of the page *)
(* as it was, to put back.                                                 *)
(***************************************************************************)
EXTENDS Naturals

CONSTANTS
  Mutations, \* slots for like requests on their way
  Timers,    \* slots for deletions
  MaxActs    \* bounds what is started

VARIABLES
  row,    \* [exists, liked]: the post and the like of the viewer
  cache,  \* [shown, liked]: the page in the cache
  likes,  \* [Mutations -> a like or unlike on its way]
  timers, \* [Timers -> a deletion]
  query,  \* the query of the feed
  acts,   \* how many things were started
  undone, \* history: the post was last brought back in time
  slips   \* history: why the card may be wrong

vars == <<row, cache, likes, timers, query, acts, undone, slips>>

-----------------------------------------------------------------------------
Page    == [shown : BOOLEAN, liked : BOOLEAN]
NoLike  == [pc |-> "idle", like |-> FALSE, prev |-> [shown |-> FALSE, liked |-> FALSE]]
NoTimer == [pc |-> "idle", prev |-> [shown |-> FALSE, liked |-> FALSE]]
NoQuery == [pc |-> "idle", reply |-> [shown |-> FALSE, liked |-> FALSE]]

Act == acts < MaxActs /\ acts' = acts + 1

Slip(cond, kind) == slips' = IF cond THEN slips \cup {kind} ELSE slips

\* Putting this page back hides something newer.
Stale(prev) == prev.liked # cache.liked \/ ~row.exists

Pending == {m \in Mutations : likes[m].pc # "idle"}

Init ==
  /\ row \in [exists : {TRUE}, liked : BOOLEAN]
  /\ cache = [shown |-> TRUE, liked |-> row.liked]
  /\ likes = [m \in Mutations |-> NoLike]
  /\ timers = [t \in Timers |-> NoTimer]
  /\ query = NoQuery
  /\ acts = 0
  /\ undone = FALSE
  /\ slips = {}

-----------------------------------------------------------------------------
(* The heart *)

\* Mutant: the query that is running is not cancelled.
ToggleUncancelled(m) ==
  /\ cache.shown /\ likes[m].pc = "idle"
  /\ Act
  /\ likes' = [likes EXCEPT ![m] = [pc |-> "sent", like |-> ~cache.liked, prev |-> cache]]
  /\ cache' = [cache EXCEPT !.liked = ~@]
  /\ Slip(Pending # {}, "double")
  /\ UNCHANGED <<row, timers, query, undone>>

\* onMutate: the query is cancelled, the page remembered and the heart turned; the
\* request says what the card showed when it was pressed.
Toggle(m) ==
  /\ cache.shown /\ likes[m].pc = "idle"
  /\ Act
  /\ likes' = [likes EXCEPT ![m] = [pc |-> "sent", like |-> ~cache.liked, prev |-> cache]]
  /\ cache' = [cache EXCEPT !.liked = ~@]
  /\ query' = NoQuery
  /\ Slip(Pending # {}, "double")
  /\ UNCHANGED <<row, timers, undone>>

\* POST or DELETE /posts/:id/like.  Requests may overtake each other.
LikeHandled(m) ==
  /\ likes[m].pc = "sent" /\ row.exists
  /\ row' = [row EXCEPT !.liked = likes[m].like]
  /\ likes' = [likes EXCEPT ![m].pc = "done"]
  /\ UNCHANGED <<cache, timers, query, acts, undone, slips>>

\* A success changes nothing any more.
LikeAnswered(m) ==
  /\ likes[m].pc = "done"
  /\ likes' = [likes EXCEPT ![m] = NoLike]
  /\ UNCHANGED <<row, cache, timers, query, acts, undone, slips>>

\* onError puts the page back; the request may have been handled all the same.
LikeFails(m) ==
  /\ likes[m].pc # "idle"
  /\ Act
  /\ cache' = likes[m].prev
  /\ likes' = [likes EXCEPT ![m] = NoLike]
  /\ slips' = slips \cup (IF likes[m].pc = "done" THEN {"lost"} ELSE {})
                    \cup (IF likes[m].prev.shown # cache.shown \/ ~row.exists
                            THEN {"restored"} ELSE {})
  /\ UNCHANGED <<row, timers, query, undone>>

-----------------------------------------------------------------------------
(* Deleting *)

\* The card disappears, and a timer of five seconds starts.  A card that came back
\* meanwhile has a timer of its own.
DeleteClick(t) ==
  /\ cache.shown /\ timers[t].pc = "idle"
  /\ Act
  /\ timers' = [timers EXCEPT ![t] = [pc |-> "waits", prev |-> cache]]
  /\ cache' = [cache EXCEPT !.shown = FALSE]
  /\ undone' = FALSE
  /\ UNCHANGED <<row, likes, query, slips>>

\* The toast's undo: the timer is cleared and the page put back.
Undo(t) ==
  /\ timers[t].pc = "waits"
  /\ Act
  /\ timers' = [timers EXCEPT ![t] = NoTimer]
  /\ cache' = timers[t].prev
  /\ undone' = (row.exists /\ \A s \in Timers \ {t} : timers[s].pc = "idle")
  /\ Slip(Stale(timers[t].prev), "restored")
  /\ UNCHANGED <<row, likes, query>>

\* The toast lasts as long as the timer: undo may come just too late.
UndoLate(t) ==
  /\ timers[t].pc \in {"sent", "done"}
  /\ Act
  /\ cache' = timers[t].prev
  /\ Slip(Stale(timers[t].prev), "restored")
  /\ UNCHANGED <<row, likes, timers, query, undone>>

TimerFires(t) ==
  /\ timers[t].pc = "waits"
  /\ timers' = [timers EXCEPT ![t].pc = "sent"]
  /\ UNCHANGED <<row, cache, likes, query, acts, undone, slips>>

\* DELETE /posts/:id; a post that is gone is a 404, an error to the card.
DeleteHandled(t) ==
  /\ timers[t].pc = "sent" /\ row.exists
  /\ row' = [exists |-> FALSE, liked |-> FALSE]
  /\ timers' = [timers EXCEPT ![t].pc = "done"]
  /\ UNCHANGED <<cache, likes, query, acts, undone, slips>>

\* Then the feed is fetched again.
DeleteAnswered(t) ==
  /\ timers[t].pc = "done"
  /\ timers' = [timers EXCEPT ![t] = NoTimer]
  /\ query' = [NoQuery EXCEPT !.pc = "asked"]
  /\ UNCHANGED <<row, cache, likes, acts, undone, slips>>

DeleteFails(t) ==
  /\ timers[t].pc \in {"sent", "done"}
  /\ Act
  /\ cache' = timers[t].prev
  /\ timers' = [timers EXCEPT ![t] = NoTimer]
  /\ slips' = slips \cup (IF timers[t].pc = "done" \/ ~row.exists THEN {"lost"} ELSE {})
                    \cup (IF Stale(timers[t].prev) THEN {"restored"} ELSE {})
  /\ UNCHANGED <<row, likes, query, undone>>

-----------------------------------------------------------------------------
(* The feed *)

Refetch ==
  /\ query.pc = "idle"
  /\ Act
  /\ query' = [NoQuery EXCEPT !.pc = "asked"]
  /\ UNCHANGED <<row, cache, likes, timers, undone, slips>>

QueryRead ==
  /\ query.pc = "asked"
  /\ query' = [pc |-> "read", reply |-> [shown |-> row.exists, liked |-> row.liked]]
  /\ Slip(\E m \in Mutations : likes[m].pc = "sent", "crossed")
  /\ UNCHANGED <<row, cache, likes, timers, acts, undone>>

\* The reply replaces the page, whatever is under way.
QueryArrives ==
  /\ query.pc = "read"
  /\ cache' = query.reply
  /\ query' = NoQuery
  /\ UNCHANGED <<row, likes, timers, acts, undone, slips>>

QueryFails ==
  /\ query.pc # "idle"
  /\ Act
  /\ query' = NoQuery
  /\ Slip(~row.exists, "lost")
  /\ UNCHANGED <<row, cache, likes, timers, undone>>

\* The tab is loaded anew: its timers never fire.
Reload ==
  /\ Act
  /\ cache' = [shown |-> row.exists, liked |-> row.liked]
  /\ timers' = [t \in Timers |-> NoTimer]
  /\ query' = NoQuery
  /\ Slip(Pending # {}, "crossed")
  /\ UNCHANGED <<row, likes, undone>>

-----------------------------------------------------------------------------
Next ==
  \/ \E m \in Mutations :
       Toggle(m) \/ LikeHandled(m) \/ LikeAnswered(m) \/ LikeFails(m)
  \/ \E t \in Timers :
       \/ DeleteClick(t) \/ Undo(t) \/ UndoLate(t) \/ TimerFires(t)
       \/ DeleteHandled(t) \/ DeleteAnswered(t) \/ DeleteFails(t)
  \/ Refetch \/ QueryRead \/ QueryArrives \/ QueryFails \/ Reload

Spec == Init /\ [][Next]_vars

-----------------------------------------------------------------------------
(* Properties *)

TypeOK ==
  /\ row \in [exists : BOOLEAN, liked : BOOLEAN]
  /\ cache \in Page
  /\ likes \in [Mutations -> [pc : {"idle", "sent", "done"}, like : BOOLEAN, prev : Page]]
  /\ timers \in [Timers -> [pc : {"idle", "waits", "sent", "done"}, prev : Page]]
  /\ query \in [pc : {"idle", "asked", "read"}, reply : Page]
  /\ slips \subseteq {"double", "crossed", "restored", "lost"}

\* With nothing under way the card shows the post as the server has it, unless two
\* presses overlapped, a reply came through a press or an answer was lost, or a
\* page was put back over something newer.  (PostCard.tsx: no success of a like
\* ever fetches the feed again, so what is wrong stays wrong.)
AtRest ==
  Pending = {} /\ query.pc = "idle" /\ \A t \in Timers : timers[t].pc = "idle"

CardTellsTruth ==
  AtRest /\ slips = {} =>
    /\ cache.shown <=> row.exists
    /\ row.exists => cache.liked = row.liked

\* A post that was brought back while it was there, and while nothing else was
\* deleting it, is not deleted.  (PostCard.tsx: each deletion has a timer of its own,
\* and the toast clears only its own.)
UndoneIsKept ==
  undone => row.exists
=============================================================================
