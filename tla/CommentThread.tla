--------------------------- MODULE CommentThread ---------------------------
(***************************************************************************)
(* The comments under a post (posts/[id]/PostDetailClient.tsx) and under   *)
(* an itinerary (ItineraryComments.tsx), on one viewer's screen, and the   *)
(* handlers behind them (routes/posts.js, routes/itinerariesSocial.js).  A *)
(* new comment is put first on the screen when the answer brings it; a     *)
(* like changes the screen at once and is taken back on an error; a        *)
(* comment under an itinerary disappears five seconds before it is         *)
(* deleted, and can be brought back.                                       *)
(***************************************************************************)
EXTENDS Integers, Sequences, FiniteSets, Ordered

CONSTANTS
  Comments,  \* ids, in the order in which they are created
  Likes,     \* slots for likes on their way
  MaxActs    \* bounds what is started and what fails

VARIABLES
  kind,    \* "post" or "itinerary"
  rows,    \* the comments there are
  liked,   \* the comments that have the viewer's like
  screen,  \* the cached list: a sequence of [id, liked, likes]
  count,   \* commentsCount of the post, against the number of rows it should be
  add,     \* POST on its way
  likes,   \* [Likes -> a like or its withdrawal on its way]
  deletes, \* [Comments -> a deletion]
  query,   \* GET on its way
  acts,
  slips    \* history: why the screen may be wrong

vars == <<kind, rows, liked, screen, count, add, likes, deletes, query, acts, slips>>

-----------------------------------------------------------------------------
\* The newest first; nobody else likes anything here.
Listed(ids, mine) ==
  LET order == Descending(ids)
  IN [k \in DOMAIN order |-> [id |-> order[k], liked |-> order[k] \in mine,
                              likes |-> IF order[k] \in mine THEN 1 ELSE 0]]

Without(list, id) == Kept(list, {k \in DOMAIN list : list[k].id # id})

With(list, id, now) ==
  [k \in DOMAIN list |->
     IF list[k].id = id
       THEN [list[k] EXCEPT !.liked = now, !.likes = IF now THEN @ + 1 ELSE @ - 1]
       ELSE list[k]]

Act == acts < MaxActs /\ acts' = acts + 1
Slip(cond, what) == slips' = IF cond THEN slips \cup {what} ELSE slips

NoLike  == [pc |-> "idle", id |-> 0, was |-> FALSE]
NoQuery == [pc |-> "idle", reply |-> <<>>]
NoAdd   == [pc |-> "idle", id |-> 0]

\* The comments may still be loading, next to the form.
Init ==
  /\ kind \in {"post", "itinerary"}
  /\ rows = {1}
  /\ liked = {}
  /\ \/ screen = Listed({1}, {}) /\ query = NoQuery
     \/ screen = <<>> /\ query = [NoQuery EXCEPT !.pc = "asked"]
  /\ count = 1
  /\ add = NoAdd
  /\ likes = [l \in Likes |-> NoLike]
  /\ deletes = [c \in Comments |-> [pc |-> "idle", prev |-> <<>>]]
  /\ acts = 0
  /\ slips = {}

\* Ids are never given twice.
Unused == {i \in Comments : deletes[i].pc = "idle" /\ \A j \in rows : i > j}

-----------------------------------------------------------------------------
(* Commenting *)

\* One at a time: the form waits for the answer.
Send ==
  /\ add.pc = "idle"
  /\ Act
  /\ add' = [add EXCEPT !.pc = "sent"]
  /\ UNCHANGED <<kind, rows, liked, screen, count, likes, deletes, query, slips>>

Insert ==
  /\ add.pc = "sent" /\ Unused # {}
  /\ LET id == CHOOSE i \in Unused : \A j \in Unused : i <= j
     IN rows' = rows \cup {id} /\ add' = [pc |-> "inserted", id |-> id]
  /\ UNCHANGED <<kind, liked, screen, count, likes, deletes, query, acts, slips>>

\* The author and, for a reply, the one replied to have been told: the answer brings
\* the comment, which goes first on the screen, without a look whether it is there.
Answered ==
  /\ add.pc = "inserted"
  /\ screen' = <<[id |-> add.id, liked |-> FALSE, likes |-> 0]>> \o screen
  /\ count' = count + 1
  /\ add' = NoAdd
  /\ Slip(query.pc # "idle", "crossed")
  /\ UNCHANGED <<kind, rows, liked, likes, deletes, query, acts>>

\* A notification that cannot be written makes the request fail, and the comment stays.
SendFails ==
  /\ add.pc # "idle"
  /\ Act
  /\ add' = NoAdd
  /\ Slip(add.pc = "inserted", "lost")
  /\ UNCHANGED <<kind, rows, liked, screen, count, likes, deletes, query>>

\* Somebody else comments, and this screen learns of it with the next query only.
OtherComments ==
  /\ Unused # {}
  /\ Act
  /\ rows' = rows \cup {CHOOSE i \in Unused : \A j \in Unused : i <= j}
  /\ Slip(TRUE, "others")
  /\ UNCHANGED <<kind, liked, screen, count, add, likes, deletes, query>>

-----------------------------------------------------------------------------
(* Likes, under posts *)

Like(l, k) ==
  /\ kind = "post" /\ likes[l].pc = "idle"
  /\ Act
  /\ likes' = [likes EXCEPT ![l] = [pc |-> "sent", id |-> screen[k].id, was |-> screen[k].liked]]
  /\ screen' = With(screen, screen[k].id, ~screen[k].liked)
  /\ slips' = slips \cup
       (IF \E m \in Likes : likes[m].pc # "idle" /\ likes[m].id = screen[k].id
          THEN {"double"} ELSE {}) \cup (IF query.pc # "idle" THEN {"crossed"} ELSE {})
  /\ UNCHANGED <<kind, rows, liked, count, add, deletes, query>>

\* INSERT ... ON CONFLICT DO NOTHING, or DELETE.
LikeHandled(l) ==
  /\ likes[l].pc = "sent"
  /\ liked' = IF likes[l].was THEN liked \ {likes[l].id} ELSE liked \cup {likes[l].id}
  /\ likes' = [likes EXCEPT ![l].pc = "done"]
  /\ UNCHANGED <<kind, rows, screen, count, add, deletes, query, acts, slips>>

LikeAnswered(l) ==
  /\ likes[l].pc = "done"
  /\ likes' = [likes EXCEPT ![l] = NoLike]
  /\ Slip(query.pc # "idle", "crossed")
  /\ UNCHANGED <<kind, rows, liked, screen, count, add, deletes, query, acts>>

\* Mutant: the list as it was is put back, and the number forgotten.
LikeFailsHalf(l) ==
  /\ likes[l].pc # "idle"
  /\ Act
  /\ screen' = [k \in DOMAIN screen |-> IF screen[k].id = likes[l].id
                  THEN [screen[k] EXCEPT !.liked = likes[l].was] ELSE screen[k]]
  /\ likes' = [likes EXCEPT ![l] = NoLike]
  /\ Slip(likes[l].pc = "done", "lost")
  /\ UNCHANGED <<kind, rows, liked, count, add, deletes, query>>

\* Only this comment is put back: what came meanwhile stays.
LikeFails(l) ==
  /\ likes[l].pc # "idle"
  /\ Act
  /\ screen' = With(screen, likes[l].id, likes[l].was)
  /\ likes' = [likes EXCEPT ![l] = NoLike]
  /\ slips' = slips \cup (IF likes[l].pc = "done" THEN {"lost"} ELSE {})
                    \cup (IF query.pc # "idle" THEN {"crossed"} ELSE {})
  /\ UNCHANGED <<kind, rows, liked, count, add, deletes, query>>

-----------------------------------------------------------------------------
(* Deleting one's own, under itineraries *)

Delete(k) ==
  /\ kind = "itinerary" /\ deletes[screen[k].id].pc = "idle"
  /\ Act
  /\ deletes' = [deletes EXCEPT ![screen[k].id] = [pc |-> "waits", prev |-> screen]]
  /\ screen' = Without(screen, screen[k].id)
  /\ UNCHANGED <<kind, rows, liked, count, add, likes, query, slips>>

\* The whole list of that moment is put back: what came since is not on it.
PutBack(c) ==
  /\ screen' = deletes[c].prev
  /\ slips' = slips \cup (IF \E k \in DOMAIN screen :
                               \A m \in DOMAIN deletes[c].prev : deletes[c].prev[m].id # screen[k].id
                            THEN {"others"} ELSE {})
                    \cup (IF \E m \in DOMAIN deletes[c].prev :
                               LET id == deletes[c].prev[m].id
                               IN id # c /\ \A k \in DOMAIN screen : screen[k].id # id
                            THEN {"restored"} ELSE {})

Undo(c) ==
  /\ deletes[c].pc = "waits"
  /\ deletes' = [deletes EXCEPT ![c].pc = "idle"]
  /\ PutBack(c)
  /\ UNCHANGED <<kind, rows, liked, count, add, likes, query, acts>>

TimerFires(c) ==
  /\ deletes[c].pc = "waits"
  /\ deletes' = [deletes EXCEPT ![c].pc = "sent"]
  /\ UNCHANGED <<kind, rows, liked, screen, count, add, likes, query, acts, slips>>

\* Deleted: nothing else happens on the screen.
DeleteHandled(c) ==
  /\ deletes[c].pc = "sent" /\ c \in rows
  /\ rows' = rows \ {c}
  /\ deletes' = [deletes EXCEPT ![c].pc = "done"]
  /\ Slip(query.pc # "idle" \/ \E k \in DOMAIN screen : screen[k].id = c, "crossed")
  /\ UNCHANGED <<kind, liked, screen, count, add, likes, query, acts>>

DeleteFails(c) ==
  /\ deletes[c].pc = "sent"
  /\ Act
  /\ deletes' = [deletes EXCEPT ![c].pc = "idle"]
  /\ PutBack(c)
  /\ UNCHANGED <<kind, rows, liked, count, add, likes, query>>

-----------------------------------------------------------------------------
(* The query *)

\* The window is looked at again, or the page loads.
Refetch ==
  /\ query.pc = "idle"
  /\ Act
  /\ query' = [NoQuery EXCEPT !.pc = "asked"]
  /\ Slip(\E c \in Comments : deletes[c].pc \in {"waits", "sent"}, "crossed")
  /\ UNCHANGED <<kind, rows, liked, screen, count, add, likes, deletes>>

QueryRead ==
  /\ query.pc = "asked"
  /\ query' = [pc |-> "read", reply |-> Listed(rows, liked)]
  /\ Slip(\/ add.pc = "inserted"
          \/ \E l \in Likes : likes[l].pc # "idle"
          \/ \E c \in Comments : deletes[c].pc \in {"waits", "sent"}, "crossed")
  /\ UNCHANGED <<kind, rows, liked, screen, count, add, likes, deletes, acts>>

QueryArrives ==
  /\ query.pc = "read"
  /\ screen' = query.reply
  /\ query' = NoQuery
  /\ UNCHANGED <<kind, rows, liked, count, add, likes, deletes, acts, slips>>

-----------------------------------------------------------------------------
Next ==
  \/ Send \/ Insert \/ Answered \/ SendFails \/ OtherComments
  \/ \E l \in Likes :
       LikeHandled(l) \/ LikeAnswered(l) \/ LikeFails(l) \/ \E k \in DOMAIN screen : Like(l, k)
  \/ \E k \in DOMAIN screen : Delete(k)
  \/ \E c \in Comments : Undo(c) \/ TimerFires(c) \/ DeleteHandled(c) \/ DeleteFails(c)
  \/ Refetch \/ QueryRead \/ QueryArrives

Spec == Init /\ [][Next]_vars

-----------------------------------------------------------------------------
(* Properties *)

TypeOK ==
  /\ rows \subseteq Comments /\ liked \subseteq Comments
  /\ \A k \in DOMAIN screen : screen[k] \in [id : Comments, liked : BOOLEAN, likes : Int]
  /\ slips \subseteq {"crossed", "lost", "others", "double", "restored"}

AtRest ==
  /\ add.pc = "idle" /\ query.pc = "idle"
  /\ \A l \in Likes : likes[l].pc = "idle"
  /\ \A c \in Comments : deletes[c].pc \in {"idle", "done"}

\* With nothing under way the screen shows the thread: every comment once, the newest
\* first, with its likes, unless a query crossed something, an answer was lost,
\* somebody else wrote, a like was pressed twice at once, or a comment was brought
\* back together with one that was being deleted.
ScreenShowsThread ==
  AtRest /\ slips = {} =>
    /\ screen = Listed(rows, liked)
    /\ kind = "post" => count = Cardinality(rows)
=============================================================================
