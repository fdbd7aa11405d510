---------------------------- MODULE PackingList ----------------------------
(***************************************************************************)
(* The packing list of an itinerary: the panel                             *)
(* (components/itinerary/PackingPanel.tsx) and the handlers behind it      *)
(* (routes/packing.js), which answer its owner only.  Ticking an item and  *)
(* dragging it change the screen before the server; adding and deleting    *)
(* fetch the list anew.  Labels are left out: an item is its id.           *)
(***************************************************************************)
EXTENDS Naturals, Sequences, FiniteSets, SequencesExt

CONSTANTS
  Items,     \* ids, in the order in which they are created
  Toggles,   \* slots for ticks on their way
  MaxActs    \* bounds what is started and what fails

Adders == {"form", "ai"}

VARIABLES
  rows,      \* [id -> [packed, order]], the table
  screen,    \* the cached list: a sequence of [id, packed]
  adders,    \* [Adders -> POST on its way: the form's, the loop's of the suggestions]
  toggles,   \* [Toggles -> PATCH on its way]
  reorder,   \* POST .../reorder on its way
  removing,  \* DELETE on its way
  query,     \* GET on its way
  acts,
  newest,    \* history: the item that was added last, unless the order was changed since
  slips      \* history: why the list may be wrong

vars == <<rows, screen, adders, toggles, reorder, removing, query, acts, newest, slips>>

-----------------------------------------------------------------------------
Before(table, i, j) ==
  table[i].order < table[j].order \/ (table[i].order = table[j].order /\ i < j)

\* ORDER BY sort_order, created_at: the place of an item is how many are not after it.
Place(table, i) == Cardinality({j \in DOMAIN table : j = i \/ Before(table, j, i)})

Listed(table) ==
  [k \in 1 .. Cardinality(DOMAIN table) |->
     LET id == CHOOSE i \in DOMAIN table : Place(table, i) = k
     IN  [id |-> id, packed |-> table[id].packed]]

Ids(list) == [k \in DOMAIN list |-> list[k].id]

NoAdd    == [pc |-> "idle", count |-> 0]
NoToggle == [pc |-> "idle", id |-> 0, packed |-> FALSE, prev |-> <<>>]
NoIds    == [pc |-> "idle", ids |-> <<>>]
NoQuery  == [pc |-> "idle", reply |-> <<>>]
Asked    == [NoQuery EXCEPT !.pc = "asked"]

Act == acts < MaxActs /\ acts' = acts + 1

\* Two items to begin with.
Init ==
  /\ rows = [i \in {1, 2} |-> [packed |-> FALSE, order |-> i - 1]]
  /\ screen = Listed(rows)
  /\ adders = [a \in Adders |-> NoAdd]
  /\ toggles = [t \in Toggles |-> NoToggle]
  /\ reorder = NoIds
  /\ removing = [pc |-> "idle", id |-> 0]
  /\ query = NoQuery
  /\ acts = 0
  /\ newest = 2
  /\ slips = {}

-----------------------------------------------------------------------------
(* Adding *)

Add(a) ==
  /\ adders[a].pc = "idle"
  /\ Act
  /\ adders' = [adders EXCEPT ![a].pc = "sent"]
  /\ UNCHANGED <<rows, screen, toggles, reorder, removing, query, newest, slips>>

\* The new order is the number of rows.
AddCount(a) ==
  /\ adders[a].pc = "sent"
  /\ adders' = [adders EXCEPT ![a] = [pc |-> "counted", count |-> Cardinality(DOMAIN rows)]]
  /\ UNCHANGED <<rows, screen, toggles, reorder, removing, query, acts, newest, slips>>

AddInsert(a) ==
  /\ adders[a].pc = "counted"
  /\ \E i \in Items :
       /\ \A j \in Items : j < i <=> j <= newest \/ j \in DOMAIN rows
       /\ rows' = [j \in DOMAIN rows \cup {i} |->
                     IF j = i THEN [packed |-> FALSE, order |-> adders[a].count] ELSE rows[j]]
       /\ newest' = i
  /\ adders' = [adders EXCEPT ![a].pc = "done"]
  /\ slips' = slips \cup (IF adders[a].count # Cardinality(DOMAIN rows) THEN {"raced"} ELSE {})
  /\ UNCHANGED <<screen, toggles, reorder, removing, query, acts>>

\* The list is fetched anew; what was suggested is added one after the other, and
\* fetched at the end.
AddAnswered(a) ==
  /\ adders[a].pc = "done"
  /\ adders' = [adders EXCEPT ![a] = NoAdd]
  /\ query' = Asked
  /\ UNCHANGED <<rows, screen, toggles, reorder, removing, acts, newest, slips>>

\* An error is swallowed; when it is the answer that got lost, the item is there.
AddFails(a) ==
  /\ adders[a].pc # "idle"
  /\ Act
  /\ adders' = [adders EXCEPT ![a] = NoAdd]
  /\ slips' = slips \cup (IF adders[a].pc = "done" THEN {"lost"} ELSE {})
  /\ UNCHANGED <<rows, screen, toggles, reorder, removing, query, newest>>

-----------------------------------------------------------------------------
(* Ticking *)

\* onMutate: the query is cancelled, the list remembered and changed.
Toggle(t, k) ==
  /\ toggles[t].pc = "idle"
  /\ Act
  /\ toggles' = [toggles EXCEPT ![t] = [pc |-> "sent", id |-> screen[k].id,
                                        packed |-> ~screen[k].packed, prev |-> screen]]
  /\ screen' = [screen EXCEPT ![k].packed = ~@]
  /\ query' = NoQuery
  /\ UNCHANGED <<rows, adders, reorder, removing, newest, slips>>

\* PATCH: a 404, an error, when the item is gone.
ToggleHandled(t) ==
  /\ toggles[t].pc = "sent" /\ toggles[t].id \in DOMAIN rows
  /\ rows' = [rows EXCEPT ![toggles[t].id].packed = toggles[t].packed]
  /\ toggles' = [toggles EXCEPT ![t].pc = "done"]
  /\ UNCHANGED <<screen, adders, reorder, removing, query, acts, newest, slips>>

\* Mutant: a failure is put right on the screen only.
ToggleSettledQuietly(t) ==
  \/ /\ toggles[t].pc = "done"
     /\ toggles' = [toggles EXCEPT ![t] = NoToggle]
     /\ query' = Asked
     /\ UNCHANGED <<rows, screen, adders, reorder, removing, acts, newest, slips>>
  \/ /\ toggles[t].pc # "idle"
     /\ Act
     /\ screen' = toggles[t].prev
     /\ toggles' = [toggles EXCEPT ![t] = NoToggle]
     /\ UNCHANGED <<rows, adders, reorder, removing, query, newest, slips>>

\* onError puts the whole list back, onSettled fetches it anew in both cases.
ToggleSettled(t) ==
  \/ /\ toggles[t].pc = "done"
     /\ toggles' = [toggles EXCEPT ![t] = NoToggle]
     /\ query' = Asked
     /\ UNCHANGED <<rows, screen, adders, reorder, removing, acts, newest, slips>>
  \/ /\ toggles[t].pc # "idle"
     /\ Act
     /\ screen' = toggles[t].prev
     /\ toggles' = [toggles EXCEPT ![t] = NoToggle]
     /\ query' = Asked
     /\ UNCHANGED <<rows, adders, reorder, removing, newest, slips>>

-----------------------------------------------------------------------------
(* Dragging and deleting *)

\* The screen is changed and sent; the query that may be running is not cancelled.
\* Bound: one order and one deletion are on their way at a time.
Drag(k, l) ==
  /\ reorder.pc = "idle" /\ k # l
  /\ Act
  /\ screen' = InsertAt(RemoveAt(screen, k), l, screen[k])
  /\ reorder' = [pc |-> "sent", ids |-> Ids(screen')]
  /\ slips' = slips \cup (IF query.pc # "idle" THEN {"crossed"} ELSE {})
  /\ UNCHANGED <<rows, adders, toggles, removing, query, newest>>

\* The rows that are named get their place; the others keep theirs.  Nothing is
\* fetched, so that what the screen did not show stays wrong on it.
Reordered ==
  /\ reorder.pc = "sent"
  /\ rows' = [i \in DOMAIN rows |->
                IF \E m \in DOMAIN reorder.ids : reorder.ids[m] = i
                  THEN [rows[i] EXCEPT !.order =
                          (CHOOSE m \in DOMAIN reorder.ids : reorder.ids[m] = i) - 1]
                  ELSE rows[i]]
  /\ reorder' = NoIds
  /\ slips' = slips \cup {"reordered"}
                    \cup (IF query.pc # "idle" \/ Ids(screen) # reorder.ids
                            THEN {"crossed"} ELSE {})
  /\ UNCHANGED <<screen, adders, toggles, removing, query, acts, newest>>

\* Nothing is put back.
ReorderFails ==
  /\ reorder.pc = "sent"
  /\ Act
  /\ reorder' = NoIds
  /\ slips' = slips \cup {"not saved"}
  /\ UNCHANGED <<rows, screen, adders, toggles, removing, query, newest>>

RemoveItem(k) ==
  /\ removing.pc = "idle"
  /\ Act
  /\ removing' = [pc |-> "sent", id |-> screen[k].id]
  /\ UNCHANGED <<rows, screen, adders, toggles, reorder, query, newest, slips>>

RemoveHandled ==
  /\ removing.pc = "sent" /\ removing.id \in DOMAIN rows
  /\ rows' = [i \in DOMAIN rows \ {removing.id} |-> rows[i]]
  /\ removing' = [removing EXCEPT !.pc = "done"]
  /\ slips' = slips \cup {"deleted"}
  /\ UNCHANGED <<screen, adders, toggles, reorder, query, acts, newest>>

RemoveAnswered ==
  /\ removing.pc = "done"
  /\ removing' = [pc |-> "idle", id |-> 0]
  /\ query' = Asked
  /\ UNCHANGED <<rows, screen, adders, toggles, reorder, acts, newest, slips>>

RemoveFails ==
  /\ removing.pc # "idle"
  /\ Act
  /\ removing' = [pc |-> "idle", id |-> 0]
  /\ slips' = slips \cup (IF removing.pc = "done" THEN {"lost"} ELSE {})
  /\ UNCHANGED <<rows, screen, adders, toggles, reorder, query, newest>>

-----------------------------------------------------------------------------
(* The query *)

QueryRead ==
  /\ query.pc = "asked"
  /\ query' = [pc |-> "read", reply |-> Listed(rows)]
  /\ UNCHANGED <<rows, screen, adders, toggles, reorder, removing, acts, newest, slips>>

QueryArrives ==
  /\ query.pc = "read"
  /\ screen' = query.reply
  /\ query' = NoQuery
  /\ UNCHANGED <<rows, adders, toggles, reorder, removing, acts, newest, slips>>

QueryFails ==
  /\ query.pc # "idle"
  /\ Act
  /\ query' = NoQuery
  /\ slips' = slips \cup {"lost"}
  /\ UNCHANGED <<rows, screen, adders, toggles, reorder, removing, newest>>

-----------------------------------------------------------------------------
Next ==
  \/ \E a \in Adders : Add(a) \/ AddCount(a) \/ AddInsert(a) \/ AddAnswered(a) \/ AddFails(a)
  \/ \E t \in Toggles :
       ToggleHandled(t) \/ ToggleSettled(t) \/ \E k \in DOMAIN screen : Toggle(t, k)
  \/ \E k, l \in DOMAIN screen : Drag(k, l)
  \/ \E k \in DOMAIN screen : RemoveItem(k)
  \/ Reordered \/ ReorderFails \/ RemoveHandled \/ RemoveAnswered \/ RemoveFails
  \/ QueryRead \/ QueryArrives \/ QueryFails

Spec == Init /\ [][Next]_vars

-----------------------------------------------------------------------------
(* Properties *)

TypeOK ==
  /\ DOMAIN rows \subseteq Items
  /\ \A i \in DOMAIN rows : rows[i] \in [packed : BOOLEAN, order : Nat]
  /\ \A k \in DOMAIN screen : screen[k] \in [id : Items, packed : BOOLEAN]
  /\ slips \subseteq {"raced", "lost", "crossed", "reordered", "not saved", "deleted"}

AtRest ==
  /\ \A a \in Adders : adders[a].pc = "idle"
  /\ \A t \in Toggles : toggles[t].pc = "idle"
  /\ reorder.pc = "idle" /\ removing.pc = "idle" /\ query.pc = "idle"

\* With nothing under way the panel shows the list as it is kept, ticks and order,
\* unless an order was not saved or crossed something else, or an answer was lost:
\* a tick that failed, or two at once, put themselves right.
PanelShowsList ==
  AtRest /\ slips \cap {"lost", "crossed", "not saved"} = {} => screen = Listed(rows)

\* The item added last is the last of the list, unless one was deleted (the number of
\* rows is then the order of one that is there), two were added at once or somebody
\* dragged.  (packing.js: sort_order is the number of rows.)
NewestIsLast ==
  newest \in DOMAIN rows /\ slips \cap {"deleted", "raced", "reordered"} = {} =>
    \A i \in DOMAIN rows \ {newest} : Before(rows, i, newest)
=============================================================================
