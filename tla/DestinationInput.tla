-------------------------- MODULE DestinationInput --------------------------
(***************************************************************************)
(* The field in which a destination is typed or chosen (DestinationInput   *)
(* of app/(app)/itineraries/new/page.tsx).  350 ms after the last change   *)
(* Nominatim is asked for what was typed; a request that has been sent is  *)
(* not called back, so that replies come in any order.                     *)
(***************************************************************************)
EXTENDS Naturals, Sequences

CONSTANTS
  Short,     \* texts of fewer than two characters
  Long,      \* texts that Nominatim is asked for
  Suggest,   \* [Long -> the names it answers, formatted, without repetitions]
  Requests,  \* slots for requests on their way
  MaxActs    \* bounds what is typed, chosen and left, and what fails

VARIABLES
  text,      \* in the field, and in the form around it
  names,     \* suggestions
  open,      \* the list is open, should there be anything in it
  active,    \* activeIdx, counted from 1; 0 is none
  timer,     \* the text it will ask for, or NoText
  requests,  \* [Requests -> the text it is about, or NoText]
  loading,
  leaving,   \* the field lost the focus: the list closes in 150 ms
  acts,
  late,      \* history: the last reply was not about what is in the field
  cut        \* history: the list was replaced by one that ends before the cursor

vars == <<text, names, open, active, timer, requests, loading, leaving, acts, late, cut>>

-----------------------------------------------------------------------------
NoText    == "none"
Undefined == "undefined"

Act == acts < MaxActs /\ acts' = acts + 1

Init ==
  /\ text \in Short
  /\ names = <<>> /\ open = FALSE /\ active = 0
  /\ timer = NoText
  /\ requests = [r \in Requests |-> NoText]
  /\ loading = FALSE /\ leaving = FALSE
  /\ acts = 0 /\ late = FALSE /\ cut = FALSE

\* handleChange: the names stay until others come, unless the text is too short.
Type(t) ==
  /\ t # text
  /\ Act
  /\ text' = t /\ active' = 0 /\ open' = TRUE /\ cut' = FALSE
  /\ timer' = IF t \in Short THEN NoText ELSE t
  /\ names' = IF t \in Short THEN <<>> ELSE names
  /\ UNCHANGED <<requests, loading, leaving, late>>

TimerFires ==
  /\ timer # NoText
  /\ \E r \in Requests :
       requests[r] = NoText /\ requests' = [requests EXCEPT ![r] = timer]
  /\ timer' = NoText
  /\ loading' = TRUE
  /\ UNCHANGED <<text, names, open, active, leaving, acts, late, cut>>

\* The names are replaced; the cursor stays where it was.
Replace(new, r) ==
  /\ names' = new
  /\ requests' = [requests EXCEPT ![r] = NoText]
  /\ loading' = FALSE
  /\ cut' = (cut \/ active > Len(new))
  /\ UNCHANGED <<text, open, active, timer, leaving>>

Arrives(r) ==
  /\ requests[r] # NoText
  /\ Replace(Suggest[requests[r]], r)
  /\ late' = (requests[r] # text)
  /\ UNCHANGED acts

Fails(r) ==
  /\ requests[r] # NoText
  /\ Act
  /\ Replace(<<>>, r)
  /\ late' = FALSE

\* select: the timer goes on, and asks for what is no longer in the field.
Select(name) ==
  /\ text' = name
  /\ names' = <<>> /\ open' = FALSE /\ active' = 0
  /\ cut' = (cut /\ name = Undefined)
  /\ UNCHANGED <<timer, requests, loading, leaving, late>>

\* A name is clicked: only while the list is shown.
Shown == open /\ ~loading /\ names # <<>>

Click(k) ==
  /\ Shown
  /\ Act
  /\ Select(names[k])

\* The arrows work on an open list, shown or not.
Down ==
  /\ open /\ active # Len(names)
  /\ active' = IF active < Len(names) THEN active + 1 ELSE Len(names)
  /\ cut' = FALSE
  /\ UNCHANGED <<text, names, open, timer, requests, loading, leaving, acts, late>>

Hover(k) ==
  /\ Shown /\ active # k
  /\ active' = k
  /\ cut' = FALSE
  /\ UNCHANGED <<text, names, open, timer, requests, loading, leaving, acts, late>>

Up ==
  /\ open /\ active > 0
  /\ active' = active - 1
  /\ cut' = (cut /\ active' > Len(names))
  /\ UNCHANGED <<text, names, open, timer, requests, loading, leaving, acts, late>>

\* suggestions[activeIdx]: of a list that ends before the cursor this is undefined.
Enter ==
  /\ open /\ active > 0
  /\ Act
  /\ Select(IF active <= Len(names) THEN names[active] ELSE Undefined)

Escape ==
  /\ open
  /\ Act
  /\ open' = FALSE /\ names' = <<>>
  /\ cut' = (active > 0)
  /\ UNCHANGED <<text, active, timer, requests, loading, leaving, late>>

Blur ==
  /\ ~leaving
  /\ Act
  /\ leaving' = TRUE
  /\ UNCHANGED <<text, names, open, active, timer, requests, loading, late, cut>>

\* The focus may have come back: the list closes all the same.
Left ==
  /\ leaving
  /\ leaving' = FALSE /\ open' = FALSE
  /\ UNCHANGED <<text, names, active, timer, requests, loading, acts, late, cut>>

Focus ==
  /\ ~open /\ names # <<>>
  /\ open' = TRUE
  /\ UNCHANGED <<text, names, active, timer, requests, loading, leaving, acts, late, cut>>

-----------------------------------------------------------------------------
\* The page around the field does not survive an undefined destination: whether the next
\* step may be taken is decided by trimming it.
Next ==
  /\ text # Undefined
  /\ \/ \E t \in Short \cup Long : Type(t)
     \/ TimerFires
     \/ \E r \in Requests : Arrives(r) \/ Fails(r)
     \/ \E k \in DOMAIN names : Click(k) \/ Hover(k)
     \/ Down \/ Up \/ Enter \/ Escape \/ Blur \/ Left \/ Focus

Spec == Init /\ [][Next]_vars

-----------------------------------------------------------------------------
(* Properties *)

Names == UNION {{Suggest[t][k] : k \in DOMAIN Suggest[t]} : t \in Long}

TypeOK ==
  /\ text \in Short \cup Long \cup Names \cup {Undefined}
  /\ timer \in Long \cup {NoText}
  /\ \A k \in DOMAIN names : names[k] \in Names
  /\ active \in Nat

\* When nothing is under way the names that are shown are those of what is in the field,
\* unless a reply came late: one that was overtaken, or asked for before a name was chosen.
OffersWhatIsTyped ==
  Shown /\ timer = NoText /\ (\A r \in Requests : requests[r] = NoText) /\ ~late =>
    text \in Long /\ names = Suggest[text]

\* What is chosen was a name, unless the list was replaced under the cursor by a shorter
\* one: the form around the field then gets an undefined destination.
ChosenIsAName == text = Undefined => cut
=============================================================================
