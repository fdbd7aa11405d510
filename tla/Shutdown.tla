------------------------------ MODULE Shutdown ------------------------------
(***************************************************************************)
(* Work that goes on after the answer (lib/emSegundoPlano.js) and the end  *)
(* of the server (server.js): on SIGTERM it stops taking requests, waits   *)
(* for those it has, waits in rounds for what they left in the background, *)
(* closes the pool and leaves; after ten seconds it leaves anyway.         *)
(***************************************************************************)
EXTENDS Naturals, FiniteSets

CONSTANTS
  Tasks,     \* a request and the work it leaves behind go under one name
  Rounds,    \* maxCiclos: ten in the code
  MaxChain   \* bounds how many tasks start one another

VARIABLES
  server,  \* "open", "closing", "draining", "ending" or how it left
  request, \* [Tasks -> "none", "handled" or "answered"]
  emVoo,   \* [Tasks -> how many writes are still registered or to be]
  waited,  \* the tasks this round waits for
  round,   \* rounds that are over
  lost     \* history: a write that met a closed pool or no process

vars == <<server, request, emVoo, waited, round, lost>>

-----------------------------------------------------------------------------
InFlight == {t \in Tasks : emVoo[t] > 0}

Init ==
  /\ server = "open"
  /\ request = [t \in Tasks |-> "none"]
  /\ emVoo = [t \in Tasks |-> 0]
  /\ waited = {}
  /\ round = 0
  /\ lost = FALSE

Arrives(t) ==
  /\ server = "open" /\ request[t] = "none"
  /\ request' = [request EXCEPT ![t] = "handled"]
  /\ UNCHANGED <<server, emVoo, waited, round, lost>>

\* The answer leaves first; what goes on is registered before the handler returns.
Answered(t) ==
  /\ server \in {"open", "closing"} /\ request[t] = "handled"
  /\ request' = [request EXCEPT ![t] = "answered"]
  /\ \E n \in 0 .. MaxChain : emVoo' = [emVoo EXCEPT ![t] = n]
  /\ UNCHANGED <<server, waited, round, lost>>

\* A write is over, well or badly; the next of its chain is registered before this
\* one is taken out, and no round that has begun waits for it.
Settles(t) ==
  /\ server \in {"open", "closing", "draining"} /\ emVoo[t] > 0
  /\ emVoo' = [emVoo EXCEPT ![t] = @ - 1]
  /\ waited' = waited \ {t}
  /\ UNCHANGED <<server, request, round, lost>>

\* Mutant: the background work is waited for before the requests.
SignalDrainsFirst ==
  /\ server = "open"
  /\ server' = "draining"
  /\ waited' = InFlight
  /\ UNCHANGED <<request, emVoo, round, lost>>

\* SIGTERM or SIGINT; a second one changes nothing.
Signal ==
  /\ server = "open"
  /\ server' = "closing"
  /\ UNCHANGED <<request, emVoo, waited, round, lost>>

\* app.close() has let the requests finish: the first round.
Closed ==
  /\ server = "closing" /\ \A t \in Tasks : request[t] # "handled"
  /\ server' = "draining"
  /\ waited' = InFlight
  /\ UNCHANGED <<request, emVoo, round, lost>>

\* Everything the round waited for has settled: another one, unless nothing is left
\* or this was the last.
RoundEnds ==
  /\ server = "draining" /\ waited = {}
  /\ IF InFlight = {} \/ round + 1 = Rounds
       THEN server' = "ending" /\ UNCHANGED waited
       ELSE server' = server /\ waited' = InFlight
  /\ round' = round + 1
  /\ UNCHANGED <<request, emVoo, lost>>

\* The pool is closed: "ficou trabalho por terminar" when something is left.
Ends ==
  /\ server = "ending"
  /\ server' = IF round >= Rounds /\ InFlight # {} THEN "gave up" ELSE "left"
  /\ lost' = (InFlight # {} \/ \E t \in Tasks : request[t] = "handled")
  /\ UNCHANGED <<request, emVoo, waited, round>>

\* The ten seconds are over.
Forced ==
  /\ server \in {"closing", "draining", "ending"}
  /\ server' = "forced"
  /\ lost' = (InFlight # {} \/ \E t \in Tasks : request[t] = "handled")
  /\ UNCHANGED <<request, emVoo, waited, round>>

-----------------------------------------------------------------------------
Next ==
  \/ \E t \in Tasks : Arrives(t) \/ Answered(t) \/ Settles(t)
  \/ Signal \/ Closed \/ RoundEnds \/ Ends \/ Forced

Spec == Init /\ [][Next]_vars

-----------------------------------------------------------------------------
(* Properties *)

TypeOK ==
  /\ server \in {"open", "closing", "draining", "ending", "left", "gave up", "forced"}
  /\ request \in [Tasks -> {"none", "handled", "answered"}]
  /\ emVoo \in [Tasks -> 0 .. MaxChain]
  /\ waited \subseteq InFlight
  /\ round \in 0 .. Rounds

\* A server that left by itself, and said nothing of unfinished work, lost no write:
\* neither of a request that was being handled nor of a task that another had
\* started.  (server.js: first the requests, then what they left behind, then the
\* pool; aguardarSegundoPlano: in rounds, because a task may start another.)
LeavesNothingBehind == server = "left" => ~lost
=============================================================================
