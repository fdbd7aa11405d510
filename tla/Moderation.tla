----------------------------- MODULE Moderation -----------------------------
(***************************************************************************)
(* Reports about one post or itinerary (routes/reports.js, the modal that  *)
(* sends them), their classification after the answer, and the queue in    *)
(* which administrators decide (routes/admin.js, admin/reports/page.tsx).  *)
(* Every query is a step of its own; a cut is a failed query, which leaves *)
(* what came before it done.                                               *)
(***************************************************************************)
EXTENDS Naturals, FiniteSets

CONSTANTS
  Reporters,
  Admins,
  MaxDecisions,  \* bounds the decisions sent
  MaxCuts        \* bounds the failed queries and republications

VARIABLES
  target,    \* [kind, up]: the content, and whether it is there for others to see
  reports,   \* [Reporters -> the status or resolution of the report]
  severity,  \* the reporters whose report has been given a severity
  reporting, \* [Reporters -> what POST /reports is doing]
  jobs,      \* the reports whose classification is under way
  admins,    \* [Admins -> the page and the decision on its way]
  taken,     \* history: who took the content down and has it on record
  budget     \* [decisions, cuts] left

vars == <<target, reports, severity, reporting, jobs, admins, taken, budget>>

-----------------------------------------------------------------------------
Resolutions == {"dismissed", "removed"}

PendingReports == {r \in Reporters : reports[r] = "pending"}

NoDecision == [pc |-> "idle", listed |-> FALSE, removable |-> FALSE, resolution |-> "none"]

\* An itinerary can be public again; a post that was deleted is gone.
Init ==
  /\ target \in [kind : {"post", "itinerary"}, up : {TRUE}]
  /\ reports = [r \in Reporters |-> "none"]
  /\ severity = {}
  /\ reporting = [r \in Reporters |-> "idle"]
  /\ jobs = {}
  /\ admins = [a \in Admins |-> NoDecision]
  /\ taken = FALSE
  /\ budget = [decisions |-> MaxDecisions, cuts |-> MaxCuts]

Cut == budget.cuts > 0 /\ budget' = [budget EXCEPT !.cuts = @ - 1]

-----------------------------------------------------------------------------
(* Reporting *)

\* Mutant: the classification starts beside the insertion.
ReportClassified(r) ==
  /\ reporting[r] = "idle"
  /\ target.kind = "itinerary" \/ target.up
  /\ reporting' = [reporting EXCEPT ![r] = "insert"]
  /\ jobs' = jobs \cup {r}
  /\ UNCHANGED <<target, reports, severity, admins, taken, budget>>

\* The modal sends what was chosen; a 404 unless the row is there.  An itinerary
\* that is no longer public is still a row.
Report(r) ==
  /\ reporting[r] = "idle"
  /\ target.kind = "itinerary" \/ target.up
  /\ reporting' = [reporting EXCEPT ![r] = "insert"]
  /\ UNCHANGED <<target, reports, severity, jobs, admins, taken, budget>>

\* ON CONFLICT DO NOTHING: who has reported this before, decided or not, is
\* answered 201 and nothing happens.  A new report is classified in the background.
Insert(r) ==
  /\ reporting[r] = "insert"
  /\ reporting' = [reporting EXCEPT ![r] = "idle"]
  /\ IF reports[r] = "none"
       THEN reports' = [reports EXCEPT ![r] = "pending"] /\ jobs' = jobs \cup {r}
       ELSE UNCHANGED <<reports, jobs>>
  /\ UNCHANGED <<target, severity, admins, taken, budget>>

\* The catch around the insertion: also answered 201.
InsertFails(r) ==
  /\ reporting[r] = "insert"
  /\ Cut
  /\ reporting' = [reporting EXCEPT ![r] = "idle"]
  /\ UNCHANGED <<target, reports, severity, jobs, admins, taken>>

\* The UPDATE does not look at the status.
Classified(r) ==
  /\ r \in jobs
  /\ severity' = severity \cup {r}
  /\ jobs' = jobs \ {r}
  /\ UNCHANGED <<target, reports, reporting, admins, taken, budget>>

\* No answer of the model, or one without a severity: emSegundoPlano swallows it.
NotClassified(r) ==
  /\ r \in jobs
  /\ Cut
  /\ jobs' = jobs \ {r}
  /\ UNCHANGED <<target, reports, severity, reporting, admins, taken>>

-----------------------------------------------------------------------------
(* The queue *)

\* GET /admin/reports: the target is listed while a report is pending, and can be
\* removed from the page while its row exists (d.existe).
List(a) ==
  /\ admins[a].pc = "idle"
  /\ admins' = [admins EXCEPT ![a].listed = PendingReports # {},
                              ![a].removable = target.kind = "itinerary" \/ target.up]
  /\ admins' # admins
  /\ UNCHANGED <<target, reports, severity, reporting, jobs, taken, budget>>

\* One decision at a time from a page: both buttons are disabled meanwhile.
Decide(a, resolution) ==
  /\ admins[a].pc = "idle" /\ admins[a].listed
  /\ resolution = "removed" => admins[a].removable
  /\ budget.decisions > 0
  /\ budget' = [budget EXCEPT !.decisions = @ - 1]
  /\ admins' = [admins EXCEPT ![a].pc = "check", ![a].resolution = resolution]
  /\ UNCHANGED <<target, reports, severity, reporting, jobs, taken>>

\* 404 when nothing is pending any more: the page says so and does not list anew.
ResolveCheck(a) ==
  /\ admins[a].pc = "check"
  /\ admins' = [admins EXCEPT ![a].pc = IF PendingReports = {} THEN "idle" ELSE "content"]
  /\ UNCHANGED <<target, reports, severity, reporting, jobs, taken, budget>>

\* Mutant: the reports are marked without waiting for the content to go.
ResolveContentUnawaited(a) ==
  /\ admins[a].pc = "content"
  /\ admins' = [admins EXCEPT ![a].pc = "mark"]
  /\ UNCHANGED <<target, taken, reports, severity, reporting, jobs, budget>>

\* A post is deleted, an itinerary made private; a dismissal touches nothing.
ResolveContent(a) ==
  /\ admins[a].pc = "content"
  /\ IF admins[a].resolution = "removed"
       THEN target' = [target EXCEPT !.up = FALSE] /\ taken' = TRUE
       ELSE UNCHANGED <<target, taken>>
  /\ admins' = [admins EXCEPT ![a].pc = "mark"]
  /\ UNCHANGED <<reports, severity, reporting, jobs, budget>>

\* Every report that is pending now is resolved, those too that came after the
\* check; then the queue is fetched again.
ResolveMark(a) ==
  /\ admins[a].pc = "mark"
  /\ reports' = [r \in Reporters |-> IF reports[r] = "pending" THEN admins[a].resolution
                                                               ELSE reports[r]]
  /\ admins' = [admins EXCEPT ![a] = NoDecision]
  /\ UNCHANGED <<target, severity, reporting, jobs, taken, budget>>

ResolveFails(a) ==
  /\ admins[a].pc \in {"check", "content", "mark"}
  /\ Cut
  /\ admins' = [admins EXCEPT ![a].pc = "idle"]
  /\ UNCHANGED <<target, reports, severity, reporting, jobs, taken>>

\* The author of an unpublished itinerary publishes it again; deleting is possible
\* to the author too, and the reports stay.
AuthorChanges ==
  /\ Cut
  /\ target' = [target EXCEPT !.up = target.kind = "itinerary" /\ ~@]
  /\ UNCHANGED <<reports, severity, reporting, jobs, admins, taken>>

-----------------------------------------------------------------------------
Next ==
  \/ \E r \in Reporters :
       Report(r) \/ Insert(r) \/ InsertFails(r) \/ Classified(r) \/ NotClassified(r)
  \/ \E a \in Admins :
       \/ List(a) \/ ResolveCheck(a) \/ ResolveContent(a) \/ ResolveMark(a) \/ ResolveFails(a)
       \/ \E resolution \in Resolutions : Decide(a, resolution)
  \/ AuthorChanges

Spec == Init /\ [][Next]_vars

-----------------------------------------------------------------------------
(* Properties *)

TypeOK ==
  /\ target \in [kind : {"post", "itinerary"}, up : BOOLEAN]
  /\ reports \in [Reporters -> {"none", "pending"} \cup Resolutions]
  /\ severity \subseteq {r \in Reporters : reports[r] # "none"}
  /\ reporting \in [Reporters -> {"idle", "insert"}]
  /\ jobs \subseteq Reporters
  /\ \A a \in Admins : admins[a].pc \in {"idle", "check", "content", "mark"}

\* Reports closed as "removed" are about content that was taken down: a decision
\* that is cut leaves them in the queue.  (admin.js: the content goes first, the
\* reports are marked last.)
RemovedMeansTaken == (\E r \in Reporters : reports[r] = "removed") => taken

\* What one administrator decided about a report no other decision, however it
\* crosses the first, changes.
DecisionsStand ==
  [][\A r \in Reporters : reports[r] \in Resolutions => reports'[r] = reports[r]]_vars
=============================================================================
