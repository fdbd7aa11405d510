------------------------------ MODULE Expenses ------------------------------
(***************************************************************************)
(* The expenses of an itinerary: the panel                                 *)
(* (components/itinerary/ExpensesPanel.tsx) and the handlers behind it     *)
(* (routes/expenses.js), which answer its owner only.  One form serves for *)
(* adding and for editing, and sends all of its fields; nothing is changed *)
(* on the screen before the server.  The sums that come with the list are  *)
(* of the rows it shows, and the exchange rates are of another page; both  *)
(* are left out.                                                           *)
(***************************************************************************)
EXTENDS Naturals, FiniteSets

CONSTANTS
  Ids,       \* naturals, in the order in which they are given
  Values,    \* of a field, other than 0, which is none
  MaxActs    \* bounds what is opened and deleted, and what fails

Fields == {"amount", "category"}

VARIABLES
  rows,      \* [id -> [Fields -> Values]], the table
  given,     \* the id that was given last
  screen,    \* the cached list
  form,      \* what is being filled in
  req,       \* POST or PATCH on its way: the buttons of both wait for either
  removing,  \* DELETE on its way
  query,     \* GET on its way
  acts,
  meant,     \* history: the list as the owner meant it
  forms,     \* history: how often "Adicionar" was pressed
  slips      \* history: why it may have come out otherwise

vars == <<rows, given, screen, form, req, removing, query, acts, meant, forms, slips>>

-----------------------------------------------------------------------------
Blank    == [f \in Fields |-> 0]
NoForm   == [open |-> FALSE, id |-> 0, has |-> Blank, typed |-> {}]
NoReq    == [pc |-> "idle", id |-> 0, has |-> Blank, typed |-> {}]
NoRemove == [pc |-> "idle", id |-> 0]
NoQuery  == [pc |-> "idle", reply |-> <<>>]
Asked    == [NoQuery EXCEPT !.pc = "asked"]

Act == acts < MaxActs /\ acts' = acts + 1

AtRest == req.pc = "idle" /\ removing.pc = "idle" /\ query.pc = "idle"

With(table, i, row) == [j \in DOMAIN table \cup {i} |-> IF j = i THEN row ELSE table[j]]

\* One expense to begin with.
Init ==
  /\ \E v \in Values : rows = [i \in {1} |-> [f \in Fields |-> v]]
  /\ given = 1
  /\ screen = rows
  /\ form = NoForm
  /\ req = NoReq
  /\ removing = NoRemove
  /\ query = NoQuery
  /\ acts = 0
  /\ meant = rows
  /\ forms = 0
  /\ slips = {}

-----------------------------------------------------------------------------
(* The form *)

\* openAdd: an amount has to be given, the category has a default.
OpenAdd ==
  /\ Act
  /\ \E v \in Values : form' = [NoForm EXCEPT !.open = TRUE, !.has["category"] = v]
  /\ forms' = forms + 1
  /\ UNCHANGED <<rows, given, screen, req, removing, query, meant, slips>>

\* openEdit: the fields are those of the row on the screen.
OpenEdit(i) ==
  /\ Act
  /\ form' = [NoForm EXCEPT !.open = TRUE, !.id = i, !.has = screen[i]]
  /\ slips' = slips \cup (IF AtRest THEN {} ELSE {"early"})
  /\ UNCHANGED <<rows, given, screen, req, removing, query, meant, forms>>

\* Each field is changed once at most.
Type(f) ==
  /\ form.open /\ f \notin form.typed
  /\ \E v \in Values : form' = [form EXCEPT !.has[f] = v, !.typed = @ \cup {f}]
  /\ UNCHANGED <<rows, given, screen, req, removing, query, acts, meant, forms, slips>>

\* The cross and "Cancelar" work while the request is on its way, too.
Close ==
  /\ form.open
  /\ form' = NoForm
  /\ UNCHANGED <<rows, given, screen, req, removing, query, acts, meant, forms, slips>>

\* handleSubmit; the button waits for both requests.
Submit ==
  /\ form.open /\ req.pc = "idle" /\ form.has["amount"] # 0
  /\ req' = [pc |-> "sent", id |-> form.id, has |-> form.has, typed |-> form.typed]
  /\ UNCHANGED <<rows, given, screen, form, removing, query, acts, meant, forms, slips>>

-----------------------------------------------------------------------------
(* The requests *)

Insert ==
  /\ req.pc = "sent" /\ req.id = 0
  /\ given + 1 \in Ids
  /\ given' = given + 1
  /\ rows' = With(rows, given', req.has)
  /\ meant' = With(meant, given', req.has)
  /\ req' = [req EXCEPT !.pc = "done"]
  /\ UNCHANGED <<screen, form, removing, query, acts, forms, slips>>

\* PATCH: every field is written; what the owner meant are those that were typed.
Update ==
  /\ req.pc = "sent" /\ req.id \in DOMAIN rows
  /\ rows' = [rows EXCEPT ![req.id] = req.has]
  /\ meant' = [meant EXCEPT ![req.id] =
                 [f \in Fields |-> IF f \in req.typed THEN req.has[f] ELSE @[f]]]
  /\ req' = [req EXCEPT !.pc = "done"]
  /\ UNCHANGED <<given, screen, form, removing, query, acts, forms, slips>>

\* onSuccess: the list is fetched anew, and the form closed, whatever it is open for.
Answered ==
  /\ req.pc = "done"
  /\ req' = NoReq
  /\ query' = Asked
  /\ form' = NoForm
  /\ UNCHANGED <<rows, given, screen, removing, acts, meant, forms, slips>>

\* A 404 for a row that is gone, an error, or an answer that is lost: a message in the
\* form, which stays open.
Failed ==
  /\ req.pc # "idle"
  /\ req.id \in {0} \cup DOMAIN rows => Act
  /\ req.id \notin {0} \cup DOMAIN rows => UNCHANGED acts
  /\ req' = NoReq
  /\ slips' = slips \cup (IF req.pc = "done" THEN {"lost"} ELSE {})
  /\ UNCHANGED <<rows, given, screen, form, removing, query, meant, forms>>

\* Bound: one deletion at a time.
Remove(i) ==
  /\ removing.pc = "idle"
  /\ Act
  /\ removing' = [pc |-> "sent", id |-> i]
  /\ UNCHANGED <<rows, given, screen, form, req, query, meant, forms, slips>>

RemoveHandled ==
  /\ removing.pc = "sent" /\ removing.id \in DOMAIN rows
  /\ rows' = [j \in DOMAIN rows \ {removing.id} |-> rows[j]]
  /\ meant' = [j \in DOMAIN meant \ {removing.id} |-> meant[j]]
  /\ removing' = [removing EXCEPT !.pc = "done"]
  /\ UNCHANGED <<given, screen, form, req, query, acts, forms, slips>>

RemoveAnswered ==
  /\ removing.pc = "done"
  /\ removing' = NoRemove
  /\ query' = Asked
  /\ UNCHANGED <<rows, given, screen, form, req, acts, meant, forms, slips>>

RemoveFails ==
  /\ removing.pc # "idle"
  /\ removing.id \in DOMAIN rows \/ removing.pc = "done" => Act
  /\ removing.id \notin DOMAIN rows /\ removing.pc = "sent" => UNCHANGED acts
  /\ removing' = NoRemove
  /\ slips' = slips \cup (IF removing.pc = "done" THEN {"lost"} ELSE {})
  /\ UNCHANGED <<rows, given, screen, form, req, query, meant, forms>>

QueryRead ==
  /\ query.pc = "asked"
  /\ query' = [pc |-> "read", reply |-> rows]
  /\ UNCHANGED <<rows, given, screen, form, req, removing, acts, meant, forms, slips>>

QueryArrives ==
  /\ query.pc = "read"
  /\ screen' = query.reply
  /\ query' = NoQuery
  /\ UNCHANGED <<rows, given, form, req, removing, acts, meant, forms, slips>>

QueryFails ==
  /\ query.pc # "idle"
  /\ Act
  /\ query' = NoQuery
  /\ slips' = slips \cup {"lost"}
  /\ UNCHANGED <<rows, given, screen, form, req, removing, meant, forms>>

-----------------------------------------------------------------------------
Next ==
  \/ OpenAdd \/ Close \/ Submit \/ Insert \/ Update \/ Answered \/ Failed
  \/ \E i \in DOMAIN screen : OpenEdit(i) \/ Remove(i)
  \/ \E f \in Fields : Type(f)
  \/ RemoveHandled \/ RemoveAnswered \/ RemoveFails
  \/ QueryRead \/ QueryArrives \/ QueryFails

Spec == Init /\ [][Next]_vars

-----------------------------------------------------------------------------
(* Properties *)

TypeOK ==
  /\ DOMAIN rows \subseteq Ids /\ DOMAIN screen \subseteq Ids
  /\ \A i \in DOMAIN rows : rows[i] \in [Fields -> Values]
  /\ form.id \in {0} \cup Ids
  /\ slips \subseteq {"early", "lost"}

\* With nothing under way the panel shows the table, unless an answer was lost.
PanelShowsExpenses == AtRest /\ "lost" \notin slips => screen = rows

\* A field that nobody touched keeps its value although every field is sent, unless the
\* form was opened while something was still on its way or an answer was lost: the row it
\* is filled from is then an old one.
OnlyWhatWasTyped == slips \cap {"early", "lost"} = {} => rows = meant

\* A form adds one expense at most, whatever is pressed while its request is under way,
\* unless the answer was lost and the form, still open, was sent again.
OneAForm == "lost" \notin slips => given - 1 <= forms
=============================================================================
