------------------------------- MODULE Consent -------------------------------
(***************************************************************************)
(* What the social graph promises: who may come to follow whom.  A pair    *)
(* <<fan, host>> starts to follow only when the host's account has been    *)
(* open, or when the host approved a request the fan had asked for.        *)
(***************************************************************************)
CONSTANTS
  Users,
  Pairs    \* <<fan, host>> pairs of different users

VARIABLES
  open,       \* hosts whose account has been public at some time
  asking,     \* pairs with a request that is not settled
  approved,   \* pairs whose request the host has accepted at some time
  following   \* pairs that follow

vars == <<open, asking, approved, following>>

Init ==
  /\ open \subseteq Users
  /\ asking = {}
  /\ approved = {}
  /\ following = {}

Open(u) ==
  /\ open' = open \cup {u}
  /\ UNCHANGED <<asking, approved, following>>

Ask(p) ==
  /\ asking' = asking \cup {p}
  /\ UNCHANGED <<open, approved, following>>

Approve(p) ==
  /\ p \in asking
  /\ approved' = approved \cup {p}
  /\ UNCHANGED <<open, asking, following>>

\* A request that led to the follow is settled by it, but for one asked again.
Enter(p) ==
  /\ p[2] \in open \/ p \in approved
  /\ following' = following \cup {p}
  /\ asking' \in {asking, asking \ {p}}
  /\ UNCHANGED <<open, approved>>

Leave(p) ==
  /\ following' = following \ {p}
  /\ UNCHANGED <<open, asking, approved>>

\* Requests are withdrawn, declined or lost.
Drop(S) ==
  /\ asking' = asking \ S
  /\ UNCHANGED <<open, approved, following>>

Next ==
  \/ \E u \in Users : Open(u)
  \/ \E p \in Pairs : Ask(p) \/ Approve(p) \/ Enter(p) \/ Leave(p)
  \/ \E S \in SUBSET Pairs : Drop(S)

Spec == Init /\ [][Next]_vars
=============================================================================
