--------------------------- MODULE MCCredentials ---------------------------
(* Instances of Credentials for TLC. *)
EXTENDS Credentials, TLC

\* Requests are interchangeable, and so are passwords and secrets; links are
\* not, because FreshLink chooses among them.
Symmetry == Permutations(Requests) \cup Permutations(Passwords) \cup Permutations(Secrets)
=============================================================================
