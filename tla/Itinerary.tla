------------------------------ MODULE Itinerary ------------------------------
(***************************************************************************)
(* The life of one itinerary: generation, review, confirmation, editing    *)
(* and deletion (routes/itineraries.js), with the browser tabs of its      *)
(* owner (RevisaoDoRoteiro.tsx, ItineraryClient.tsx) and the moderator     *)
(* (routes/admin.js).                                                      *)
(*                                                                         *)
(* The days of an itinerary are one JSONB value.  Every edit reads all of  *)
(* it, changes it in JavaScript and writes all of it back, so what matters *)
(* about a value is which edits it has taken in: a document is modelled as *)
(* the set of the edits whose effect it shows.  A writer starts from a     *)
(* copy: the row its SELECT returned, the list a tab was showing when the  *)
(* user dropped an activity, or the data the generator left in memory.     *)
(* Only the owner edits; a handler answers anybody else 403.               *)
(***************************************************************************)
EXTENDS Naturals

CONSTANTS
  Edits,     \* the edits of the days that are made, each at most once
  Fill,      \* the effect of preencherCoordenadas, and its copy of the data
  Tabs,      \* browser tabs of the owner
  Requests,  \* slots for requests the server handles at the same time
  None,
  Solo,      \* TRUE: the owner waits for every answer before going on
  MaxMishaps \* bounds failures, lost replies, closed tabs and crashes

Effects == Edits \cup {Fill}

\* Whoever may hold a copy of the days: a request, what a tab shows, the list a
\* tab is about to send, and the background fill.
View(t) == <<t, "view">>
Drag(t) == <<t, "drag">>

Holders == Requests \cup {Fill} \cup {View(t) : t \in Tabs} \cup {Drag(t) : t \in Tabs}

Copy == SUBSET Effects

ASSUME ConstantsAssumption ==
  /\ Fill \notin Edits
  /\ None \notin Edits \cup Tabs
  /\ \A c \in Copy : None # c
  /\ Solo \in BOOLEAN
  /\ MaxMishaps \in Nat

ASSUME HoldersAssumption ==
  /\ Fill \notin Requests
  /\ \A t \in Tabs : {View(t), Drag(t)} \cap (Requests \cup {Fill}) = {}

VARIABLES
  row,        \* the row of table itineraries: "unborn", "here" or "gone"
  confirmado, \* its columns
  is_public,
  data,       \* the effects its days show
  copy,       \* the copy each holder has, or None
  pending,    \* the reordering each tab has yet to send (500 ms timer), or None
  req,        \* the requests being handled
  used,       \* history: edits begun
  written,    \* history: edits an UPDATE has put into the row
  exposed,    \* history: edits somebody may undo who had the days without them
  hidden,     \* history: the owner has made the confirmed roteiro private
  mishaps

table   == <<row, confirmado, is_public, data>>
history == <<used, written, exposed, hidden>>

vars == <<table, copy, pending, req, history, mishaps>>

-----------------------------------------------------------------------------
(* Copies *)

Held(h) == copy[h] # None

\* Who has the days without edit e.
Lacking(e) == {h \in Holders : Held(h) /\ e \notin copy[h]}

-----------------------------------------------------------------------------
(* Requests *)

\* Where a request is: the query it will issue next, or the answer it will give.
PC == {"idle", "write", "answer", "show", "confirm", "patch", "delete"}

Request == [pc     : PC,
            tab    : Tabs \cup {None},
            edit   : Edits \cup {None},
            public : BOOLEAN]            \* isPublic or is_public of the body

Idle == [pc |-> "idle", tab |-> None, edit |-> None, public |-> FALSE]

At(r, p) == req[r].pc = p

Start(r, request) ==
  /\ At(r, "idle")
  /\ req' = [req EXCEPT ![r] = request]

End(r) == req' = [req EXCEPT ![r] = Idle]

Forget(r) == copy' = [copy EXCEPT ![r] = None]

Mishap ==
  /\ mishaps < MaxMishaps
  /\ mishaps' = mishaps + 1

\* The saved edit whose answer its tab waits for and does not show yet.
Unseen(r) ==
  IF At(r, "answer") /\ req[r].edit \notin copy[View(req[r].tab)] THEN {req[r].edit} ELSE {}

\* The owner may act: with Solo, nothing he asked for is still to be answered.
Ready ==
  Solo => (\A r \in Requests : At(r, "idle")) /\ (\A t \in Tabs : pending[t] = None)

Init ==
  /\ row = "unborn"
  /\ confirmado = FALSE
  /\ is_public = FALSE
  /\ data = {}
  /\ copy = [h \in Holders |-> None]
  /\ pending = [t \in Tabs |-> None]
  /\ req = [r \in Requests |-> Idle]
  /\ used = {}
  /\ written = {}
  /\ exposed = {}
  /\ hidden = FALSE
  /\ mishaps = 0

-----------------------------------------------------------------------------
(* Creation: one INSERT, after the calls to the model in the generated ones *)

\* POST /itineraries: both columns take their defaults.
CreateManual ==
  /\ row = "unborn"
  /\ row' = "here"
  /\ confirmado' = TRUE
  /\ is_public' = TRUE
  /\ UNCHANGED <<data, copy, pending, req, history, mishaps>>

\* POST /generate: a draft, and no coordinates.
Generate ==
  /\ row = "unborn"
  /\ row' = "here"
  /\ UNCHANGED <<confirmado, is_public, data, copy, pending, req, history, mishaps>>

\* POST /generate-stream: a draft; the background starts on the data in memory,
\* and tab t shows the days it has received.
GenerateStream(t) ==
  /\ row = "unborn"
  /\ row' = "here"
  /\ copy' = [copy EXCEPT ![Fill] = data, ![View(t)] = data]
  /\ UNCHANGED <<confirmado, is_public, data, pending, req, history, mishaps>>

\* preencherCoordenadas is done and its then() writes the data it was given.
FillWrite ==
  /\ Held(Fill)
  /\ data' = IF row = "here" THEN copy[Fill] \cup {Fill} ELSE data
  /\ copy' = [copy EXCEPT ![Fill] = None]
  /\ UNCHANGED <<row, confirmado, is_public, pending, req, history, mishaps>>

\* It fails half-way; that is only logged.
FillFails ==
  /\ Held(Fill)
  /\ copy' = [copy EXCEPT ![Fill] = None]
  /\ Mishap
  /\ UNCHANGED <<table, pending, req, history>>

-----------------------------------------------------------------------------
(* Reading *)

\* GET /itineraries/:id, asked on opening the page, by the review screen while it
\* waits for coordinates, and after itinerary_changed.
Fetch(r, t) ==
  /\ row = "here"
  /\ Ready
  /\ Start(r, [Idle EXCEPT !.pc = "show", !.tab = t])
  /\ copy' = [copy EXCEPT ![r] = data]
  /\ UNCHANGED <<table, pending, history, mishaps>>

\* The answer replaces what the tab shows.
Show(r) ==
  /\ At(r, "show")
  /\ copy' = [copy EXCEPT ![View(req[r].tab)] = copy[r], ![r] = None]
  /\ End(r)
  /\ UNCHANGED <<table, pending, history, mishaps>>

-----------------------------------------------------------------------------
(* Editing: activity (PATCH, POST, DELETE), refine and reorder *)

\* SELECT data; an index the row does not have is answered 400.
EditStart(r, t, e) ==
  /\ row = "here"
  /\ Ready
  /\ Held(View(t))
  /\ e \in Edits \ used
  /\ Start(r, [Idle EXCEPT !.pc = "write", !.tab = t, !.edit = e])
  /\ used' = used \cup {e}
  /\ copy' = [copy EXCEPT ![r] = data]
  /\ UNCHANGED <<table, pending, written, exposed, hidden, mishaps>>

\* An activity is dropped: the tab shows the new order at once and restarts its
\* timer with the list as it is now.
Drop(t, e) ==
  LET shown == copy[View(t)] \cup {e} IN
  /\ Held(View(t))
  /\ IF pending[t] = None THEN Ready /\ e \in Edits \ used ELSE e = pending[t]
  /\ pending' = [pending EXCEPT ![t] = e]
  /\ used' = used \cup {e}
  /\ exposed' = exposed \cup UNION {Unseen(r) : r \in {q \in Requests : req[q].tab = t}}
  /\ copy' = [copy EXCEPT ![View(t)] = shown, ![Drag(t)] = shown]
  /\ UNCHANGED <<table, req, written, hidden, mishaps>>

\* Mutant: the timer has fired and keeps its list.
SendOrderTwice(r, t) ==
  /\ pending[t] # None
  /\ IF row = "here"
       THEN /\ Start(r, [Idle EXCEPT !.pc = "write", !.tab = t, !.edit = pending[t]])
            /\ copy' = [copy EXCEPT ![r] = copy[Drag(t)]]
       ELSE /\ copy' = [copy EXCEPT ![Drag(t)] = None]
            /\ UNCHANGED req
  /\ pending' = [pending EXCEPT ![t] = None]
  /\ UNCHANGED <<table, history, mishaps>>

\* The timer fires: PATCH /reorder with that list, which takes the place of the
\* day's activities.  Its SELECT only finds the row, 404 when it is gone.
SendOrder(r, t) ==
  /\ pending[t] # None
  /\ IF row = "here"
       THEN /\ Start(r, [Idle EXCEPT !.pc = "write", !.tab = t, !.edit = pending[t]])
            /\ copy' = [copy EXCEPT ![r] = copy[Drag(t)], ![Drag(t)] = None]
       ELSE /\ copy' = [copy EXCEPT ![Drag(t)] = None]
            /\ UNCHANGED req
  /\ pending' = [pending EXCEPT ![t] = None]
  /\ UNCHANGED <<table, history, mishaps>>

\* UPDATE, which touches nothing when the row is gone, and the broadcast.
Write(r) ==
  LET e == req[r].edit IN
  /\ At(r, "write")
  /\ IF row = "here"
       THEN /\ data' = copy[r] \cup {e}
            /\ written' = written \cup {e}
            /\ exposed' = IF Lacking(e) \subseteq {r, View(req[r].tab)}
                            THEN exposed ELSE exposed \cup {e}
            /\ copy' = [copy EXCEPT ![r] = @ \cup {e}]
       ELSE UNCHANGED <<data, copy, written, exposed>>
  /\ req' = [req EXCEPT ![r].pc = "answer"]
  /\ UNCHANGED <<row, confirmado, is_public, pending, used, hidden, mishaps>>

\* Mutant: the tab goes on showing the days as they were.
AnswerUnseen(r) ==
  /\ At(r, "answer")
  /\ Forget(r)
  /\ End(r)
  /\ UNCHANGED <<table, pending, history, mishaps>>

\* The tab applies the edit to what it shows, or shows the days of the answer.
Answer(r) ==
  LET v == View(req[r].tab) IN
  /\ At(r, "answer")
  /\ copy' \in {[copy EXCEPT ![r] = None, ![v] = copy[r]],
                [copy EXCEPT ![r] = None, ![v] = @ \cup {req[r].edit}]}
  /\ End(r)
  /\ UNCHANGED <<table, pending, history, mishaps>>

-----------------------------------------------------------------------------
(* Publication *)

\* Mutant: a second confirmation is carried out like the first.
ConfirmAgain(r, public) ==
  /\ row = "here"
  /\ Ready
  /\ Start(r, [Idle EXCEPT !.pc = "confirm", !.public = public])
  /\ UNCHANGED <<table, copy, pending, history, mishaps>>

\* POST /confirm: SELECT confirmado; when it is already set there is nothing to do.
ConfirmStart(r, public) ==
  /\ row = "here"
  /\ Ready
  /\ ~confirmado
  /\ Start(r, [Idle EXCEPT !.pc = "confirm", !.public = public])
  /\ UNCHANGED <<table, copy, pending, history, mishaps>>

\* UPDATE itineraries SET confirmado = TRUE, is_public = $2.
Confirm(r) ==
  /\ At(r, "confirm")
  /\ IF row = "here" THEN confirmado' = TRUE /\ is_public' = req[r].public
                     ELSE UNCHANGED <<confirmado, is_public>>
  /\ End(r)
  /\ UNCHANGED <<row, data, copy, pending, history, mishaps>>

\* PATCH /itineraries/:id with is_public: SELECT user_id; confirmado is not read.
PatchStart(r, public) ==
  /\ row = "here"
  /\ Ready
  /\ Start(r, [Idle EXCEPT !.pc = "patch", !.public = public])
  /\ UNCHANGED <<table, copy, pending, history, mishaps>>

Patch(r) ==
  /\ At(r, "patch")
  /\ IF row = "here"
       THEN is_public' = req[r].public /\ hidden' = (confirmado /\ ~req[r].public)
       ELSE UNCHANGED <<is_public, hidden>>
  /\ End(r)
  /\ UNCHANGED <<row, confirmado, data, copy, pending, used, written, exposed, mishaps>>

\* POST /admin/reports/resolve with "removed" takes an itinerary out of sight.
Moderate ==
  /\ row = "here"
  /\ is_public' = FALSE
  /\ UNCHANGED <<row, confirmado, data, copy, pending, req, history, mishaps>>

-----------------------------------------------------------------------------
(* DELETE /itineraries/:id, also what discarding a draft does *)

DeleteStart(r) ==
  /\ row = "here"
  /\ Ready
  /\ Start(r, [Idle EXCEPT !.pc = "delete"])
  /\ UNCHANGED <<table, copy, pending, history, mishaps>>

Delete(r) ==
  /\ At(r, "delete")
  /\ row' = "gone"
  /\ End(r)
  /\ UNCHANGED <<confirmado, is_public, data, copy, pending, history, mishaps>>

-----------------------------------------------------------------------------
(* Failures *)

\* A query or the model fails, or the reply is lost: the handler is over and the
\* tab learns nothing.
RequestFails(r) ==
  /\ ~At(r, "idle")
  /\ End(r)
  /\ Forget(r)
  /\ exposed' = exposed \cup Unseen(r)
  /\ Mishap
  /\ UNCHANGED <<table, pending, used, written, hidden>>

\* A closed tab takes its timer with it.  (An answer it did not wait for is lost:
\* RequestFails.)
CloseTab(t) ==
  /\ Held(View(t))
  /\ \A r \in Requests : req[r].tab # t
  /\ copy' = [copy EXCEPT ![View(t)] = None, ![Drag(t)] = None]
  /\ pending' = [pending EXCEPT ![t] = None]
  /\ Mishap
  /\ UNCHANGED <<table, req, history>>

\* The process dies, with the requests and the background fill.
Crash ==
  /\ req' = [r \in Requests |-> Idle]
  /\ copy' = [h \in Holders |-> IF h \in Requests \cup {Fill} THEN None ELSE copy[h]]
  /\ exposed' = exposed \cup UNION {Unseen(r) : r \in Requests}
  /\ Mishap
  /\ UNCHANGED <<table, pending, used, written, hidden>>

-----------------------------------------------------------------------------
Serve(r) ==
  \/ Show(r) \/ Write(r) \/ Answer(r)
  \/ Confirm(r) \/ Patch(r) \/ Delete(r)

Arrive(r) ==
  \/ \E t \in Tabs : Fetch(r, t) \/ SendOrder(r, t)
  \/ \E t \in Tabs, e \in Edits : EditStart(r, t, e)
  \/ \E public \in BOOLEAN : ConfirmStart(r, public) \/ PatchStart(r, public)
  \/ DeleteStart(r)

Next ==
  \/ CreateManual \/ Generate \/ FillWrite \/ FillFails \/ Moderate \/ Crash
  \/ \E t \in Tabs : GenerateStream(t) \/ CloseTab(t)
  \/ \E t \in Tabs, e \in Edits : Drop(t, e)
  \/ \E r \in Requests : Serve(r) \/ Arrive(r) \/ RequestFails(r)

Spec == Init /\ [][Next]_vars

-----------------------------------------------------------------------------
(* Properties *)

\* A request has what its next query needs, and a copy while it carries days.
Equipped(r) ==
  /\ req[r].pc \in {"write", "answer"} =>
       req[r].edit \in Edits /\ Held(View(req[r].tab))
  /\ req[r].pc \in {"write", "answer", "show"} <=> Held(r)
  /\ Held(r) => req[r].tab \in Tabs

TypeOK ==
  /\ row \in {"unborn", "here", "gone"}
  /\ confirmado \in BOOLEAN
  /\ is_public \in BOOLEAN
  /\ data \subseteq Effects
  /\ copy \in [Holders -> Copy \cup {None}]
  /\ pending \in [Tabs -> Edits \cup {None}]
  /\ \A t \in Tabs : /\ pending[t] # None <=> Held(Drag(t))
                     /\ Held(Drag(t)) => Held(View(t))
  /\ req \in [Requests -> Request]
  /\ \A r \in Requests : Equipped(r)
  /\ used \subseteq Edits
  /\ written \subseteq Edits
  /\ exposed \subseteq Edits
  /\ hidden \in BOOLEAN
  /\ mishaps \in 0..MaxMishaps

\* A saved edit stays in the days, through the edits, drags and re-reads of every tab
\* that come after it, unless it was exposed: when it was written somebody else had the
\* days without it (another request or tab, the fill, an order about to be sent), or
\* its tab dragged before the answer came, or the answer never came.
\* (itineraries.js, the UPDATEs of data; ItineraryClient.tsx, handleReorder.)
QuietEditsStay == written \ exposed \subseteq data

\* Once a roteiro is confirmed and private, no confirmation makes it public: that
\* takes a PATCH of the owner, unless a confirmation had read the row before.
\* (itineraries.js, POST /:id/confirm: a second click "nao pode voltar a mexer no
\* is_public de um roteiro que o dono ja tornou privado depois".)
Publishing == \E r \in Requests : req[r].public /\ req[r].pc \in {"confirm", "patch"}

StaleConfirm == \E r \in Requests : At(r, "confirm")

PrivateStaysPrivate ==
  [][confirmado /\ ~is_public /\ ~StaleConfirm =>
       /\ ~StaleConfirm'
       /\ confirmado'
       /\ is_public' => Publishing]_vars

\* RevisaoDoRoteiro.tsx, "As alteracoes gravam a medida": an edit that was saved
\* shows in the days of the roteiro.
SavedEditsStay == written \subseteq data

\* POST /:id/confirm, "nao pode voltar a mexer no is_public de um roteiro que o dono ja
\* tornou privado depois": what the owner made private after confirming becomes
\* public only by a PATCH of his.
ConfirmKeepsPrivate ==
  [][hidden /\ ~is_public /\ is_public' =>
       \E r \in Requests : At(r, "patch") /\ req[r].public]_vars
=============================================================================
