----------------------------- MODULE Generation -----------------------------
(***************************************************************************)
(* Generating an itinerary: the wizard (itineraries/new/page.tsx) reads a  *)
(* stream of events, the handler behind it (POST /generate-stream) calls   *)
(* the language model three times, or a fourth when days came back with    *)
(* gaps, and each call climbs a ladder of retries, a request without a     *)
(* schema and another model (services/aiAgent.js, callOpenAI).  The        *)
(* answers are cached.  The days come one by one before the                *)
(* row is inserted; what is shown for review is what came.  A page that is *)
(* left or a connection that is lost does not stop the handler.            *)
(***************************************************************************)
EXTENDS Naturals, Sequences, FiniteSets, FiniteSetsExt

CONSTANTS
  Jobs,      \* generations
  NoJob,
  NumDays,   \* days of the trip
  MaxActs    \* bounds what fails and what the user gives up

TENTATIVAS_MAX == 3

Stages == {"validate", "days", "mend", "tips"}
Status == {"limit", "server"}           \* 429 and 5xx
Errors == Status \cup {"format", "schema", "net", "gone", "other"}

VARIABLES
  phase,     \* of the page: "form", "generating", "review"
  listening, \* the job whose stream is read
  shown,     \* generatingDays: a sequence of <<job, day>>
  reviewed,  \* generatedId
  draft,     \* the browser remembers what was filled in
  job,       \* [Jobs -> [pc, stage, tries, sent]]
  wire,      \* [Jobs -> events on their way]
  rows,      \* [Jobs -> "none", "draft", "deleted"]
  count,     \* contadores: calls, failures, retries; and, as history, calls answered
  acts,
  slips      \* history: why a row may be left that nobody looks at

vars == <<phase, listening, shown, reviewed, draft, job, wire, rows, count, acts, slips>>

page == <<phase, listening, shown, reviewed, draft>>

-----------------------------------------------------------------------------
Act == acts < MaxActs /\ acts' = acts + 1

Enter(p, stage) == [pc |-> p, stage |-> stage, tries |-> 0, sent |-> 0]

IdleJob == Enter("idle", "validate")

Init ==
  /\ phase = "form" /\ listening = NoJob /\ shown = <<>> /\ reviewed = NoJob
  /\ draft = TRUE
  /\ job = [j \in Jobs |-> IdleJob]
  /\ wire = [j \in Jobs |-> <<>>]
  /\ rows = [j \in Jobs |-> "none"]
  /\ count = [chamadas |-> 0, falhas |-> 0, retentativas |-> 0, answered |-> 0]
  /\ acts = 0
  /\ slips = {}

\* The page forgets what an earlier try brought and starts to read.
Generate(j) ==
  /\ phase = "form" /\ job[j].pc = "idle"
  /\ phase' = "generating" /\ listening' = j /\ shown' = <<>>
  /\ job' = [job EXCEPT ![j].pc = "begin"]
  /\ UNCHANGED <<reviewed, draft, wire, rows, count, acts, slips>>

-----------------------------------------------------------------------------
(* The handler *)

Send(j, event) == wire' = [wire EXCEPT ![j] = Append(@, event)]

\* What follows an answer.
After(stage) ==
  CASE stage = "validate"        -> Enter("begin", "days")
    [] stage \in {"days", "mend"} -> Enter("reveal", "days")
    [] stage = "tips"            -> [Enter("insert", "tips") EXCEPT !.sent = NumDays]

\* The answer is in the cache; days are cached with their gaps filled.
Cached(j) ==
  /\ job[j].pc = "begin" /\ job[j].stage # "mend"
  /\ job' = [job EXCEPT ![j] = After(job[j].stage)]
  /\ UNCHANGED <<page, wire, rows, count, acts, slips>>

Call(j) ==
  /\ job[j].pc = "begin"
  /\ job' = [job EXCEPT ![j].pc = "asked", ![j].tries = 1]
  /\ count' = [count EXCEPT !.chamadas = @ + 1]
  /\ UNCHANGED <<page, wire, rows, acts, slips>>

Running == {"asked", "plain", "fallback"}

\* Days with gaps are sent back to the model, once.
Answers(j) ==
  /\ job[j].pc \in Running
  /\ \/ job' = [job EXCEPT ![j] = After(job[j].stage)]
     \/ job[j].stage = "days" /\ job' = [job EXCEPT ![j] = Enter("begin", "mend")]
  /\ count' = [count EXCEPT !.answered = @ + 1]
  /\ UNCHANGED <<page, wire, rows, acts, slips>>

EndWithError(j) ==
  /\ job' = [job EXCEPT ![j].pc = "end"]
  /\ Send(j, [kind |-> "error"])

\* A call that fails ends the job, except the one for the gaps: the days stay as they were.
CallFails(j) ==
  IF job[j].stage = "mend"
    THEN job' = [job EXCEPT ![j] = After("mend")] /\ UNCHANGED wire
    ELSE EndWithError(j)

\* The model does not know the place.
Unknown(j) ==
  /\ job[j].pc \in Running /\ job[j].stage = "validate"
  /\ EndWithError(j)
  /\ count' = [count EXCEPT !.answered = @ + 1]
  /\ UNCHANGED <<page, rows, acts, slips>>

\* The first rungs: another try after a while, for what may pass.
Retry(j, err) ==
  /\ job[j].pc = "asked" /\ err \in Status \cup {"format", "net"}
  /\ job[j].tries < TENTATIVAS_MAX
  /\ Act
  /\ job' = [job EXCEPT ![j].pc = "waiting"]
  /\ count' = [count EXCEPT !.retentativas = @ + 1]
  /\ UNCHANGED <<page, wire, rows, slips>>

WaitOver(j) ==
  /\ job[j].pc = "waiting"
  /\ job' = [job EXCEPT ![j].pc = "asked", ![j].tries = @ + 1]
  /\ UNCHANGED <<page, wire, rows, count, acts, slips>>

\* A provider that does not know schemas is asked without one, once.
WithoutSchema(j) ==
  /\ job[j].pc = "asked"
  /\ Act
  /\ job' = [job EXCEPT ![j].pc = "plain"]
  /\ UNCHANGED <<page, wire, rows, count, slips>>

Exhausted(j) == job[j].tries = TENTATIVAS_MAX

\* Another model, when this one seems not to be there.
Fallback(j, err) ==
  /\ job[j].pc = "asked"
  /\ (err \in Status /\ Exhausted(j)) \/ err = "gone"
  /\ Act
  /\ job' = [job EXCEPT ![j].pc = "fallback"]
  /\ UNCHANGED <<page, wire, rows, count, slips>>

\* Mutant: the last error of the ladder leaves without being counted.
GiveUpUncounted(j, err) ==
  /\ \/ job[j].pc = "asked" /\ err \in {"format", "net"} /\ Exhausted(j)
     \/ job[j].pc = "asked" /\ err = "other"
     \/ job[j].pc = "fallback" /\ err = "server"
  /\ Act
  /\ CallFails(j)
  /\ UNCHANGED <<page, rows, count, slips>>

GiveUp(j, err) ==
  /\ \/ job[j].pc = "asked" /\ err \in {"format", "net"} /\ Exhausted(j)
     \/ job[j].pc = "asked" /\ err = "other"
     \/ job[j].pc = "fallback" /\ err = "server"
  /\ Act
  /\ CallFails(j)
  /\ count' = [count EXCEPT !.falhas = @ + 1]
  /\ UNCHANGED <<page, rows, slips>>

\* The request without a schema is made where an error was caught: its own error goes
\* past the ladder and past the counter.
PlainFails(j) ==
  /\ job[j].pc = "plain"
  /\ Act
  /\ CallFails(j)
  /\ slips' = slips \cup {"uncounted"}
  /\ UNCHANGED <<page, rows, count>>

Reveal(j) ==
  /\ job[j].pc = "reveal"
  /\ IF job[j].sent < NumDays
       THEN /\ job' = [job EXCEPT ![j].sent = @ + 1]
            /\ Send(j, [kind |-> "day", day |-> job[j].sent + 1])
       ELSE /\ job' = [job EXCEPT ![j].pc = "begin", ![j].stage = "tips"]
            /\ UNCHANGED wire
  /\ UNCHANGED <<page, rows, count, acts, slips>>

\* INSERT, not confirmed and not public, then the last event.
Insert(j) ==
  /\ job[j].pc = "insert"
  /\ rows' = [rows EXCEPT ![j] = "draft"]
  /\ Send(j, [kind |-> "done"])
  /\ job' = [job EXCEPT ![j].pc = "end"]
  /\ UNCHANGED <<page, count, acts, slips>>

InsertFails(j) ==
  /\ job[j].pc = "insert"
  /\ Act
  /\ EndWithError(j)
  /\ UNCHANGED <<page, rows, count, slips>>

-----------------------------------------------------------------------------
(* The page *)

Receive(j) ==
  /\ listening = j /\ wire[j] # <<>>
  /\ LET event == Head(wire[j]) IN
       /\ shown' = IF event.kind = "day" THEN Append(shown, <<j, event.day>>) ELSE shown
       /\ phase' = CASE event.kind = "day" -> phase [] event.kind = "done" -> "review" [] OTHER -> "form"
       /\ reviewed' = IF event.kind = "done" THEN j ELSE reviewed
       /\ draft' = (draft /\ event.kind # "done")
       /\ listening' = IF event.kind = "day" THEN j ELSE NoJob
  /\ wire' = [wire EXCEPT ![j] = Tail(@)]
  /\ UNCHANGED <<job, rows, count, acts, slips>>

\* The connection breaks: the page says so and shows the form again.
Broken ==
  /\ listening # NoJob
  /\ Act
  /\ phase' = "form" /\ listening' = NoJob
  /\ slips' = slips \cup {"broken"}
  /\ UNCHANGED <<shown, reviewed, draft, job, wire, rows, count>>

\* The stream is closed before its last event: the loop ends, and the page keeps waiting.
ClosedEarly ==
  /\ listening # NoJob
  /\ Act
  /\ listening' = NoJob
  /\ slips' = slips \cup {"closed"}
  /\ UNCHANGED <<phase, shown, reviewed, draft, job, wire, rows, count>>

\* The page is left and opened again: the form is filled from the draft.
Leave ==
  /\ phase # "form"
  /\ Act
  /\ phase' = "form" /\ listening' = NoJob /\ shown' = <<>> /\ reviewed' = NoJob
  /\ slips' = slips \cup {"left"}
  /\ UNCHANGED <<draft, job, wire, rows, count>>

\* DELETE; its failure is swallowed.
Discard ==
  /\ phase = "review"
  /\ \/ rows' = [rows EXCEPT ![reviewed] = "deleted"] /\ UNCHANGED <<acts, slips>>
     \/ Act /\ slips' = slips \cup {"not deleted"} /\ UNCHANGED rows
  /\ phase' = "form" /\ reviewed' = NoJob /\ shown' = <<>>
  /\ UNCHANGED <<listening, draft, job, wire, count>>

-----------------------------------------------------------------------------
Next ==
  \/ \E j \in Jobs :
       \/ Generate(j) \/ Cached(j) \/ Call(j) \/ Answers(j) \/ Unknown(j) \/ WaitOver(j)
       \/ WithoutSchema(j) \/ PlainFails(j) \/ Reveal(j) \/ Insert(j) \/ InsertFails(j)
       \/ Receive(j)
       \/ \E err \in Errors : Retry(j, err) \/ Fallback(j, err) \/ GiveUp(j, err)
  \/ Broken \/ ClosedEarly \/ Leave \/ Discard

Spec == Init /\ [][Next]_vars

-----------------------------------------------------------------------------
(* Properties *)

TypeOK ==
  /\ phase \in {"form", "generating", "review"}
  /\ {listening, reviewed} \subseteq Jobs \cup {NoJob}
  /\ \A j \in Jobs : /\ job[j].pc \in Running \cup {"idle", "begin", "waiting", "reveal", "insert", "end"}
                     /\ job[j].stage \in Stages /\ job[j].tries \in 0 .. TENTATIVAS_MAX
                     /\ rows[j] \in {"none", "draft", "deleted"}
  /\ slips \subseteq {"uncounted", "broken", "closed", "left", "not deleted"}

\* What is reviewed is what was inserted: the days on the page are the days of the row it
\* will confirm or discard, all of them and of no other try.
ReviewShowsTheRow ==
  phase = "review" =>
    rows[reviewed] = "draft" /\ shown = [k \in 1 .. NumDays |-> <<reviewed, k>>]

\* No row is left that nobody will confirm or discard, in a session in which no connection
\* was lost, no stream was closed early, no page was left and no deletion failed: each of
\* these may leave one.
NoRowForgotten ==
  slips \subseteq {"uncounted"} =>
    \A j \in Jobs : rows[j] = "draft" => j \in {reviewed, listening}

\* Every call is counted once as answered, failed or under way, whatever became of its job
\* or of its page, until a request without a schema fails: the code counts that call
\* nowhere.  (GET /health shows the counters.)
LedgerBalances ==
  "uncounted" \notin slips =>
    count.chamadas = count.answered + count.falhas +
                     Quantify(Jobs, LAMBDA j : job[j].pc \in Running \cup {"waiting"})
=============================================================================
