------------------------------ MODULE Compose ------------------------------
(***************************************************************************)
(* Publishing a post: the window in which it is written                    *)
(* (CreatePostModal.tsx), the uploads (routes/uploads.js) and the handlers *)
(* of routes/posts.js with the destination that a model finds in the first *)
(* photo after the post is there.  What goes out is what stood in the      *)
(* window when it was pressed: the photos are uploaded one after another   *)
(* first, and meanwhile everything in the window can still be changed, and *)
(* the window be closed.                                                   *)
(***************************************************************************)
EXTENDS Naturals, Sequences, SequencesExt, FiniteSets

CONSTANTS
  Photos,
  Posts,     \* ids, in the order in which they are created
  MaxActs    \* bounds what the author does and what fails

NoDest == ""
Pieces == 2    \* of a caption as the model streams it

VARIABLES
  window,   \* number of the window that is open, 0 when none is
  photos,   \* previews: a sequence of photos
  caption,  \* a sequence of what was typed (0) and of pieces that were streamed
  dest,     \* "", "typed" or "detected"
  stream,   \* pieces of a suggestion still to come; 0 when none is
  detect,   \* the photo whose place is looked for, or no photo: <<>>
  send,     \* the mutation: [pc, window, photos, caption, dest, up]
  row,      \* [Posts -> [here, photos, caption, dest, window]]
  tag,      \* [Posts -> background search for the destination under way]
  edit,     \* PATCH of a post on its way: [pc, post, dest]
  acts,
  kept,     \* history: [Posts -> the destination the author last gave, if any]
  slips     \* history: why a post may be there twice or not be whole

vars == <<window, photos, caption, dest, stream, detect, send, row, tag, edit, acts, kept, slips>>

form == <<photos, caption, dest>>

-----------------------------------------------------------------------------
NoSend == [pc |-> "idle", window |-> 0, photos |-> <<>>, caption |-> <<>>, dest |-> NoDest, up |-> 0]
NoRow  == [here |-> FALSE, photos |-> <<>>, caption |-> <<>>, dest |-> NoDest, window |-> 0]
NoEdit == [pc |-> "idle", post |-> 0, dest |-> NoDest]

Act == acts < MaxActs /\ acts' = acts + 1

Init ==
  /\ window = 1
  /\ photos = <<>> /\ caption = <<>> /\ dest = NoDest
  /\ stream = 0 /\ detect = <<>>
  /\ send = NoSend
  /\ row = [p \in Posts |-> NoRow]
  /\ tag = [p \in Posts |-> FALSE]
  /\ edit = NoEdit
  /\ acts = 0
  /\ kept = [p \in Posts |-> NoDest]
  /\ slips = {}

-----------------------------------------------------------------------------
(* The window *)

\* What is changed while the post goes out does not go out.
Late == IF send.pc # "idle" /\ send.window = window THEN {"late"} ELSE {}

AddPhoto(p) ==
  /\ window # 0 /\ ~Contains(photos, p)
  /\ Act
  /\ photos' = Append(photos, p)
  /\ slips' = slips \cup Late
  /\ UNCHANGED <<window, caption, dest, stream, detect, send, row, tag, edit, kept>>

RemovePhoto(k) ==
  /\ window # 0
  /\ Act
  /\ photos' = RemoveAt(photos, k)
  /\ slips' = slips \cup Late
  /\ UNCHANGED <<window, caption, dest, stream, detect, send, row, tag, edit, kept>>

TypeCaption ==
  /\ window # 0
  /\ Act
  /\ caption' = Append(caption, 0)
  /\ slips' = slips \cup Late \cup (IF stream # 0 THEN {"mixed"} ELSE {})
  /\ UNCHANGED <<window, photos, dest, stream, detect, send, row, tag, edit, kept>>

TypeDest ==
  /\ window # 0
  /\ Act
  /\ dest' = "typed"
  /\ slips' = slips \cup Late
  /\ UNCHANGED <<window, photos, caption, stream, detect, send, row, tag, edit, kept>>

\* A suggestion begins with an empty caption and adds its pieces to whatever is there.
Suggest ==
  /\ window # 0 /\ stream = 0 /\ dest # NoDest
  /\ Act
  /\ caption' = <<>> /\ stream' = Pieces
  /\ slips' = slips \cup Late
  /\ UNCHANGED <<window, photos, dest, detect, send, row, tag, edit, kept>>

Piece ==
  /\ window # 0 /\ stream > 0
  /\ caption' = Append(caption, Pieces - stream + 1)
  /\ stream' = stream - 1
  /\ UNCHANGED <<window, photos, dest, detect, send, row, tag, edit, acts, kept, slips>>

\* The stream breaks, or the model stops in the middle: what came stays.
StreamFails ==
  /\ stream > 0
  /\ Act
  /\ stream' = 0
  /\ slips' = slips \cup {"cut"}
  /\ UNCHANGED <<window, form, detect, send, row, tag, edit, kept>>

Detect ==
  /\ window # 0 /\ detect = <<>> /\ photos # <<>>
  /\ Act
  /\ detect' = <<photos[1]>>
  /\ UNCHANGED <<window, form, stream, send, row, tag, edit, kept, slips>>

\* What is found is put over what was typed meanwhile.
Detected ==
  /\ detect # <<>>
  /\ detect' = <<>>
  /\ \/ UNCHANGED dest
     \/ window # 0 /\ dest' = "detected"
  /\ UNCHANGED <<window, photos, caption, stream, send, row, tag, edit, acts, kept, slips>>

\* The window is closed, also while the post goes out; another one is empty.
Close ==
  /\ window # 0
  /\ Act
  /\ window' = 0
  /\ photos' = <<>> /\ caption' = <<>> /\ dest' = NoDest /\ stream' = 0 /\ detect' = <<>>
  /\ UNCHANGED <<send, row, tag, edit, kept, slips>>

\* Bound: another window is opened when the last post has gone out.
Open ==
  /\ window = 0 /\ send.pc = "idle"
  /\ Act
  /\ window' = Cardinality({p \in Posts : row[p].here}) + 2
  /\ UNCHANGED <<form, stream, detect, send, row, tag, edit, kept, slips>>

-----------------------------------------------------------------------------
(* Going out *)

Publish ==
  /\ window # 0 /\ send.pc = "idle"
  /\ photos # <<>> \/ caption # <<>>
  /\ Act
  /\ send' = [pc |-> "upload", window |-> window, photos |-> photos, caption |-> caption,
              dest |-> dest, up |-> 0]
  /\ slips' = slips \cup (IF stream # 0 THEN {"cut"} ELSE {})
  /\ UNCHANGED <<window, form, stream, detect, row, tag, edit, kept>>

\* POST /uploads/presign and the PUT, for one photo after another.
Upload ==
  /\ send.pc = "upload"
  /\ send' = IF send.up < Len(send.photos) THEN [send EXCEPT !.up = @ + 1]
             ELSE [send EXCEPT !.pc = "post"]
  /\ UNCHANGED <<window, form, stream, detect, row, tag, edit, acts, kept, slips>>

NextPost(p) == ~row[p].here /\ \A q \in Posts : q < p => row[q].here

\* POST /posts: the row, and the search in the background when no destination is given.
Insert(p) ==
  /\ send.pc = "post" /\ NextPost(p)
  /\ row' = [row EXCEPT ![p] = [here |-> TRUE, photos |-> send.photos, caption |-> send.caption,
                                dest |-> send.dest, window |-> send.window]]
  /\ tag' = [tag EXCEPT ![p] = send.dest = NoDest /\ send.photos # <<>>]
  /\ kept' = [kept EXCEPT ![p] = send.dest]
  /\ send' = [send EXCEPT !.pc = "done"]
  /\ UNCHANGED <<window, form, stream, detect, edit, acts, slips>>

\* The window closes, if it is still the one.
Published ==
  /\ send.pc = "done"
  /\ send' = NoSend
  /\ IF window = send.window
       THEN /\ window' = 0
            /\ photos' = <<>> /\ caption' = <<>> /\ dest' = NoDest /\ stream' = 0 /\ detect' = <<>>
       ELSE UNCHANGED <<window, form, stream, detect>>
  /\ UNCHANGED <<row, tag, edit, acts, kept, slips>>

\* An upload or the request fails, or its answer is lost: the window stays, to try again
\* with every photo.
PublishFails ==
  /\ send.pc # "idle"
  /\ Act
  /\ send' = NoSend
  /\ slips' = slips \cup (IF send.pc = "done" THEN {"lost"} ELSE {})
  /\ UNCHANGED <<window, form, stream, detect, row, tag, edit, kept>>

-----------------------------------------------------------------------------
(* Afterwards *)

\* PATCH /posts/:id by its author, which may also clear the destination.
EditPost(p, d) ==
  /\ row[p].here /\ edit.pc = "idle"
  /\ Act
  /\ edit' = [pc |-> "sent", post |-> p, dest |-> d]
  /\ UNCHANGED <<window, form, stream, detect, send, row, tag, kept, slips>>

EditWrite ==
  /\ edit.pc = "sent"
  /\ row' = [row EXCEPT ![edit.post].dest = edit.dest]
  /\ kept' = [kept EXCEPT ![edit.post] = edit.dest]
  /\ edit' = NoEdit
  /\ UNCHANGED <<window, form, stream, detect, send, tag, acts, slips>>

\* Mutant: the place that was found is written whatever the post says by now.
TagWriteAnyway(p) ==
  /\ tag[p]
  /\ tag' = [tag EXCEPT ![p] = FALSE]
  /\ row' = [row EXCEPT ![p].dest = "found"]
  /\ UNCHANGED <<window, form, stream, detect, send, edit, acts, kept, slips>>

\* UPDATE ... WHERE destination IS NULL.
TagWrite(p) ==
  /\ tag[p]
  /\ tag' = [tag EXCEPT ![p] = FALSE]
  /\ row' = IF row[p].dest = NoDest THEN [row EXCEPT ![p].dest = "found"] ELSE row
  /\ UNCHANGED <<window, form, stream, detect, send, edit, acts, kept, slips>>

\* The model fails, is not sure or the process ends.
TagFails(p) ==
  /\ tag[p]
  /\ tag' = [tag EXCEPT ![p] = FALSE]
  /\ UNCHANGED <<window, form, stream, detect, send, row, edit, acts, kept, slips>>

-----------------------------------------------------------------------------
Next ==
  \/ \E p \in Photos : AddPhoto(p)
  \/ \E k \in DOMAIN photos : RemovePhoto(k)
  \/ TypeCaption \/ TypeDest \/ Suggest \/ Piece \/ StreamFails \/ Detect \/ Detected
  \/ Close \/ Open \/ Publish \/ Upload \/ Published \/ PublishFails \/ EditWrite
  \/ \E p \in Posts : \/ Insert(p) \/ TagWrite(p) \/ TagFails(p)
                     \/ \E d \in {"edited", NoDest} : EditPost(p, d)

Spec == Init /\ [][Next]_vars

-----------------------------------------------------------------------------
(* Properties *)

TypeOK ==
  /\ stream \in 0 .. Pieces
  /\ send.pc \in {"idle", "upload", "post", "done"} /\ send.up <= Len(send.photos)
  /\ \A p \in Posts : row[p].dest \in {NoDest, "typed", "detected", "edited", "found"}
  /\ slips \subseteq {"late", "mixed", "cut", "lost"}

\* One window brings one post, unless the answer that it is there got lost.
OnePostAWindow ==
  "lost" \notin slips =>
    \A p, q \in Posts : row[p].here /\ row[q].here /\ p # q => row[p].window # row[q].window

\* A post has the place its author last gave it, in the window or in an edit, however
\* late the answer of the model is.  Only one that has none from its author, whether it
\* was never given or was cleared, may have the place that was found in a photo: a place
\* that is cleared before the search is over is filled again.
AuthorsPlaceStays ==
  \A p \in Posts :
    IF kept[p] # NoDest THEN row[p].dest = kept[p] ELSE row[p].dest \in {NoDest, "found"}
=============================================================================
