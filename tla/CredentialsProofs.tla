------------------------- MODULE CredentialsProofs -------------------------
(***************************************************************************)
(* Theorems about Credentials, for every number of requests, links,        *)
(* passwords and attempts: it is type correct, the password that works is  *)
(* the chosen one, enough wrong ones lock, the last link works, a dead one *)
(* does not, and a second factor that is on can be answered.               *)
(***************************************************************************)
EXTENDS Credentials, TLAPS

-----------------------------------------------------------------------------
(* What the slots and the draws do *)

LEMMA StartEffect ==
  ASSUME TypeOK, NEW r \in Requests, NEW q \in Request, Start(r, q)
  PROVE  /\ req' \in [Requests -> Request]
         /\ req[r].pc = "idle"
         /\ \A s \in Requests : req'[s] = IF s = r THEN q ELSE req[s]
         /\ asked' \in 0..MaxAsks
  BY BoundsAssumption DEF Start, TypeOK

LEMMA IdleIsRequest == Idle \in Request /\ Idle.pc = "idle" /\ Idle.id = 0
  BY BoundsAssumption DEF Idle, Request, PC

\* Requests of the kinds that read a password.
LEMMA RequestsWithPassword ==
  /\ \A p \in Passwords : [Idle EXCEPT !.pc = "insert", !.chosen = p] \in Request
  /\ \A p \in Passwords, pc \in {"welcome", "count"}, id \in 0..MaxAccounts, n \in Nat,
        old \in BOOLEAN :
        [Idle EXCEPT !.pc = pc, !.id = id, !.tries = n, !.old = old, !.chosen = p] \in Request
<1>1. \A p \in Passwords : [Idle EXCEPT !.pc = "insert", !.chosen = p] \in Request
  BY IdleIsRequest DEF Request, PC
<1>2. ASSUME NEW p \in Passwords, NEW pc \in {"welcome", "count"}, NEW id \in 0..MaxAccounts,
             NEW n \in Nat, NEW old \in BOOLEAN
      PROVE  [Idle EXCEPT !.pc = pc, !.id = id, !.tries = n, !.old = old, !.chosen = p]
               \in Request
  BY <1>2, IdleIsRequest DEF Request, PC
<1>3. QED
  BY <1>1, <1>2

LEMMA FinishEffect ==
  ASSUME TypeOK, NEW r \in Requests, NEW query, Finish(r, query)
  PROVE  /\ req' \in [Requests -> Request]
         /\ req[r].pc = query
         /\ \A s \in Requests : req'[s] = IF s = r THEN Idle ELSE req[s]
  BY IdleIsRequest DEF Finish, TypeOK

LEMMA FreshIsFresh == CanDraw => FreshLink \in Links /\ FreshLink \notin mailed
  BY DEF CanDraw, FreshLink

-----------------------------------------------------------------------------
(* Type correctness *)

\* What requests, rehashes and the row name is one account after the other; a
\* request that will write a password carries one.
Named ==
  /\ Exists => user.id = ids
  /\ ~Exists => /\ user = NoRow /\ chosen = None
                /\ latest = [reset |-> None, verification |-> None]
  /\ \A h \in rehash : h.id <= ids
  /\ \A r \in Requests :
       /\ req[r].id <= ids
       /\ req[r].pc \notin {"idle", "insert"} => req[r].id # 0
       /\ req[r].pc \in {"insert", "count", "welcome", "change", "reset"}
            => req[r].chosen \in Passwords
       /\ req[r].pc = "reset" => req[r].link \in mailed

Typed == TypeOK /\ Named

\* The rows an address starts with.
LEMMA FirstRows ==
  /\ NoRow \in Row /\ NoRow.id = 0 /\ NoRow.password = None
  /\ \A p \in Passwords : /\ Legacy(p) \in Row /\ Legacy(p).id = 1
                          /\ Legacy(p).password = p
<1>1. NoRow \in Row /\ NoRow.id = 0 /\ NoRow.password = None
  BY BoundsAssumption DEF NoRow, Row, Scheme
<1>2. ASSUME NEW p \in Passwords
      PROVE  Legacy(p) \in Row /\ Legacy(p).id = 1 /\ Legacy(p).password = p
  <2> DEFINE numbered == [NoRow EXCEPT !.id = 1]
             old  == [numbered EXCEPT !.password = p]
             aged == [old EXCEPT !.scheme = "bcrypt", !.verified = TRUE]
  <2>3. Legacy(p) = aged
    BY DEF Legacy
  <2>6. numbered \in Row
    <3>1. 1 \in 0..MaxAccounts
      BY BoundsAssumption
    <3>2. QED
      BY <1>1, <3>1 DEF Row
  <2> HIDE DEF numbered
  <2>1. old \in Row
    BY <2>6 DEF Row
  <2> HIDE DEF old
  <2>4. aged \in Row
    BY <2>1 DEF Row, Scheme
  <2>2. Legacy(p).id = 1 /\ Legacy(p).password = p
    BY DEF Legacy, NoRow
  <2>5. QED
    BY <2>2, <2>3, <2>4
<1>3. QED
  BY <1>1, <1>2

\* Every account starts with nothing sent, tried or set up.
LEMMA InitShape ==
  ASSUME Init
  PROVE  /\ ~user.enabled /\ user.reset = None /\ user.verification = None
         /\ user.attempts = 0 /\ chosen = user.password /\ wrong = 0
         /\ latest = [reset |-> None, verification |-> None]
         /\ \A l \in Links : resets[l] = 0
         /\ \A r \in Requests : req[r] = Idle
         /\ rehash = {}
<1>1. ~user.enabled /\ user.reset = None /\ user.verification = None /\ user.attempts = 0
  <2>1. CASE user = NoRow
    BY <2>1 DEF NoRow
  <2>2. ASSUME NEW p \in Passwords, user = Legacy(p)
        PROVE  /\ ~user.enabled /\ user.reset = None /\ user.verification = None
               /\ user.attempts = 0
    BY <2>2 DEF Legacy, NoRow
  <2>3. QED
    BY <2>1, <2>2 DEF Init
<1>2. QED
  BY <1>1 DEF Init

LEMMA InitTyped == Init => Typed
<1> SUFFICES ASSUME Init PROVE Typed
  OBVIOUS
<1>1. user \in Row /\ user.id \in 0..MaxAccounts /\ user.password \in Passwords \cup {None}
      /\ (Exists => user.id = 1) /\ (~Exists => user = NoRow)
  BY FirstRows, BoundsAssumption DEF Init, Exists
<1>2. user.id # 0 \/ user.password = None
  BY <1>1, FirstRows DEF Exists
<1>3. req \in [Requests -> Request] /\ \A r \in Requests : req[r] = Idle
  BY IdleIsRequest DEF Init
<1>4. TypeOK
  BY <1>1, <1>3, BoundsAssumption DEF Init, TypeOK
<1>5. Named
  BY <1>1, <1>2, <1>3, IdleIsRequest, BoundsAssumption DEF Init, Named, Exists
<1>6. QED
  BY <1>4, <1>5 DEF Typed

\* A request that arrives: the row it names is the one there is.
LEMMA AskTyped ==
  ASSUME Typed, NEW r \in Requests, Ask(r)
  PROVE  Typed'
<1> USE DEF Typed, outside, history
<1>t. /\ user.id \in 0..MaxAccounts /\ user.attempts \in Nat /\ ids \in 0..MaxAccounts
      /\ Exists => user.id <= ids
  BY DEF TypeOK, Named, Row
<1>a. ASSUME NEW q \in Request, Start(r, q), q.id <= ids,
             q.pc \notin {"idle", "insert"} => q.id # 0,
             q.pc \in {"insert", "count", "welcome", "change", "reset"} => q.chosen \in Passwords,
             q.pc = "reset" => q.link \in mailed,
             UNCHANGED <<user, rehash, outside, chosen, wrong, latest, resets>>,
             proved' \subseteq Secrets, overlaps' \subseteq {"login", "rehash", "link", "setup"}
      PROVE  Typed'
  <2>1. TypeOK'
    BY <1>a, StartEffect DEF TypeOK
  <2>2. Named'
    BY <1>a, StartEffect DEF Named, Exists
  <2>3. QED
    BY <2>1, <2>2
<1>o. ASSUME NEW queries, Overlap("login", queries)
      PROVE  overlaps' \subseteq {"login", "rehash", "link", "setup"}
  BY <1>o DEF TypeOK, Overlap
<1>1. ASSUME NEW p \in Passwords, RegisterRead(r, p)
      PROVE  Typed'
  <2> DEFINE q == [Idle EXCEPT !.pc = "insert", !.chosen = p]
  <2>1. q \in Request /\ q.pc = "insert" /\ q.id = 0 /\ q.chosen = p
    BY RequestsWithPassword DEF Idle
  <2>2. Start(r, q)
    BY <1>1 DEF RegisterRead
  <2> HIDE DEF q
  <2>3. QED
    BY <1>1, <1>a, <1>t, <2>1, <2>2 DEF RegisterRead, TypeOK
<1>2. ASSUME NEW p \in Passwords, LoginRead(r, p)
      PROVE  Typed'
  <2> DEFINE pc  == IF p = user.password THEN "welcome" ELSE "count"
             old == user.scheme = "bcrypt"
             q   == [Idle EXCEPT !.pc = pc, !.id = user.id, !.tries = user.attempts + 1,
                                 !.old = old, !.chosen = p]
  <2>a. q \in Request
    <3>1. pc \in {"welcome", "count"}
      OBVIOUS
    <3>2. old \in BOOLEAN
      OBVIOUS
    <3>3. user.id \in 0..MaxAccounts /\ user.attempts + 1 \in Nat
      BY <1>t
    <3> HIDE DEF pc, old
    <3>4. QED
      BY <3>1, <3>2, <3>3, RequestsWithPassword, Zenon
  <2>1. q \in Request /\ q.pc \in {"welcome", "count"} /\ q.id = user.id /\ q.chosen = p
    BY <2>a DEF Idle
  <2>2. Start(r, q)
    BY <1>2 DEF LoginRead
  <2> HIDE DEF q
  <2>3. QED
    BY <1>2, <1>a, <1>o, <1>t, <2>1, <2>2 DEF LoginRead, TypeOK, Exists
<1>3. ASSUME NEW p \in Passwords, NEW w \in Passwords, ChangeRead(r, p, w)
      PROVE  Typed'
  <2> DEFINE q == [Idle EXCEPT !.pc = "change", !.id = user.id, !.chosen = w]
  <2>1. q \in Request /\ q.pc = "change" /\ q.id = user.id /\ q.chosen = w
    BY <1>t DEF Idle, Request, PC
  <2>2. Start(r, q)
    BY <1>3 DEF ChangeRead
  <2> HIDE DEF q
  <2>3. QED
    BY <1>3, <1>a, <1>t, <2>1, <2>2 DEF ChangeRead, TypeOK, Exists
<1>4. ASSUME NEW p \in Passwords, NEW l \in Links, ResetRead(r, l, p)
      PROVE  Typed'
  <2> DEFINE q == [Idle EXCEPT !.pc = "reset", !.id = user.id, !.chosen = p, !.link = l]
  <2>1. q \in Request /\ q.pc = "reset" /\ q.id = user.id /\ q.chosen = p /\ q.link = l
    BY <1>t DEF Idle, Request, PC
  <2>2. Start(r, q)
    BY <1>4 DEF ResetRead
  <2> HIDE DEF q
  <2>3. QED
    BY <1>4, <1>a, <1>o, <1>t, <2>1, <2>2 DEF ResetRead, TypeOK, Exists
<1>5. ASSUME NEW pc \in {"link", "resend", "verify", "setup", "enable", "disable"}, Exists,
             Start(r, [Idle EXCEPT !.pc = pc, !.id = user.id]),
             UNCHANGED <<user, rehash, outside, chosen, wrong, latest, resets, overlaps>>,
             proved' \subseteq Secrets
      PROVE  Typed'
  <2> DEFINE q == [Idle EXCEPT !.pc = pc, !.id = user.id]
  <2>1. q \in Request /\ q.pc = pc /\ q.id = user.id
    BY <1>t DEF Idle, Request, PC
  <2>2. Start(r, q)
    BY <1>5
  <2> HIDE DEF q
  <2>3. QED
    BY <1>5, <1>a, <1>t, <2>1, <2>2 DEF TypeOK, Exists
<1>6. CASE ForgotRead(r) \/ ResendRead(r) \/ SetupRead(r)
  <2>1. proved' \subseteq Secrets
    BY <1>6 DEF ForgotRead, ResendRead, SetupRead, TypeOK
  <2>2. QED
    BY <1>5, <1>6, <2>1 DEF ForgotRead, ResendRead, SetupRead
<1>7. ASSUME NEW l \in Links, VerifyRead(r, l)
      PROVE  Typed'
  <2>1. proved' \subseteq Secrets
    BY <1>7 DEF VerifyRead, TypeOK
  <2>2. QED
    BY <1>5, <1>7, <2>1 DEF VerifyRead
<1>8. ASSUME NEW s \in Secrets, ConfirmRead(r, s) \/ DisableRead(r, s)
      PROVE  Typed'
  <2>1. proved' \subseteq Secrets
    BY <1>8 DEF ConfirmRead, DisableRead, TypeOK
  <2>2. QED
    BY <1>5, <1>8, <2>1 DEF ConfirmRead, DisableRead
<1>9. QED
  BY <1>1, <1>2, <1>3, <1>4, <1>6, <1>7, <1>8 DEF Ask

\* What the UPDATEs leave is a row, and the same one.
LEMMA WritesKeepRow ==
  ASSUME NEW row \in Row
  PROVE  /\ \A n \in Nat, b \in BOOLEAN :
               LET new == [row EXCEPT !.attempts = n, !.locked = b]
               IN  new \in Row /\ new.id = row.id
         /\ \A p \in Passwords :
               LET new == [row EXCEPT !.password = p, !.scheme = "argon2"]
               IN  new \in Row /\ new.id = row.id
         /\ \A l \in Links \cup {None} :
               LET new == [row EXCEPT !.reset = l]
               IN  new \in Row /\ new.id = row.id
         /\ \A l \in Links \cup {None} :
               LET new == [row EXCEPT !.verification = l]
               IN  new \in Row /\ new.id = row.id
         /\ LET new == [row EXCEPT !.verified = TRUE, !.verification = None]
            IN  new \in Row /\ new.id = row.id
         /\ \A s \in Secrets \cup {None} :
               LET new == [row EXCEPT !.secret = s, !.enabled = FALSE]
               IN  new \in Row /\ new.id = row.id
         /\ LET new == [row EXCEPT !.enabled = TRUE]
            IN  new \in Row /\ new.id = row.id
         /\ LET new == [row EXCEPT !.locked = FALSE]
            IN  new \in Row /\ new.id = row.id
         /\ \A p \in Passwords :
               LET new == [row EXCEPT !.password = p, !.scheme = "argon2", !.reset = None,
                                      !.attempts = 0, !.locked = FALSE]
               IN  new \in Row /\ new.id = row.id
<1>1. ASSUME NEW n \in Nat, NEW b \in BOOLEAN
      PROVE  LET new == [row EXCEPT !.attempts = n, !.locked = b]
             IN  new \in Row /\ new.id = row.id
  BY <1>1 DEF Row
<1>2. ASSUME NEW p \in Passwords
      PROVE  LET new == [row EXCEPT !.password = p, !.scheme = "argon2"]
             IN  new \in Row /\ new.id = row.id
  BY <1>2 DEF Row, Scheme
<1>3. ASSUME NEW l \in Links \cup {None}
      PROVE  LET new == [row EXCEPT !.reset = l]
             IN  new \in Row /\ new.id = row.id
  BY <1>3 DEF Row
<1>4. ASSUME NEW l \in Links \cup {None}
      PROVE  LET new == [row EXCEPT !.verification = l]
             IN  new \in Row /\ new.id = row.id
  BY <1>4 DEF Row
<1>5. LET new == [row EXCEPT !.verified = TRUE, !.verification = None]
      IN  new \in Row /\ new.id = row.id
  BY DEF Row
<1>6. ASSUME NEW s \in Secrets \cup {None}
      PROVE  LET new == [row EXCEPT !.secret = s, !.enabled = FALSE]
             IN  new \in Row /\ new.id = row.id
  BY <1>6 DEF Row
<1>7. /\ LET new == [row EXCEPT !.enabled = TRUE]
         IN  new \in Row /\ new.id = row.id
      /\ LET new == [row EXCEPT !.locked = FALSE]
         IN  new \in Row /\ new.id = row.id
  BY DEF Row
<1>8. ASSUME NEW p \in Passwords
      PROVE  LET new == [row EXCEPT !.password = p, !.scheme = "argon2", !.reset = None,
                                    !.attempts = 0, !.locked = FALSE]
             IN  new \in Row /\ new.id = row.id
  <2> DEFINE set      == [row EXCEPT !.password = p, !.scheme = "argon2"]
             spent    == [set EXCEPT !.reset = None]
             unlocked == [spent EXCEPT !.attempts = 0, !.locked = FALSE]
  <2>1. set \in Row /\ set.id = row.id
    BY <1>8 DEF Row, Scheme
  <2> HIDE DEF set
  <2>2. spent \in Row /\ spent.id = row.id
    BY <2>1 DEF Row
  <2> HIDE DEF spent
  <2>3. unlocked \in Row /\ unlocked.id = row.id
    BY <2>2 DEF Row
  <2>4. QED
    BY <2>3 DEF set, spent
<1>9. QED
  BY <1>1, <1>2, <1>3, <1>4, <1>5, <1>6, <1>7, <1>8

\* A query of a request, to the row it has read or to none.
LEMMA ServeTyped ==
  ASSUME Typed, NEW r \in Requests, Serve(r)
  PROVE  Typed'
<1> USE DEF Typed, outside, history
<1>t. /\ user \in Row /\ user.id \in 0..MaxAccounts /\ ids \in 0..MaxAccounts
      /\ mailed \subseteq Links /\ shown \subseteq Secrets
      /\ wrong \in Nat /\ resets \in [Links -> Nat] /\ proved \subseteq Secrets
      /\ chosen \in Passwords \cup {None}
      /\ latest \in [reset : Links \cup {None}, verification : Links \cup {None}]
      /\ rehash \subseteq [id : 1..MaxAccounts, password : Passwords]
      /\ overlaps \subseteq {"login", "rehash", "link", "setup"}
      /\ req[r] \in Request /\ req[r].tries \in Nat
  BY DEF TypeOK, Row, Request
<1>s. Same(r) /\ req[r].pc \notin {"idle", "insert"} => Exists
  BY DEF Named, Same, Exists
<1>w. ASSUME NEW query, Finish(r, query), user' \in Row, user'.id = user.id,
             ~Exists => UNCHANGED <<user, chosen, latest>>,
             ids' = ids, asked' = asked, mailed \subseteq mailed', mailed' \subseteq Links,
             shown' \subseteq Secrets,
             rehash' = rehash \/ (query = "welcome"
               /\ rehash' = rehash \cup {[id |-> req[r].id, password |-> req[r].chosen]}),
             chosen' \in Passwords \cup {None}, wrong' \in Nat,
             latest' \in [reset : Links \cup {None}, verification : Links \cup {None}],
             resets' \in [Links -> Nat], proved' = proved,
             overlaps' \subseteq {"login", "rehash", "link", "setup"}
      PROVE  Typed'
  <2>1. /\ req' \in [Requests -> Request] /\ req[r].pc = query
        /\ \A s \in Requests : req'[s] = IF s = r THEN Idle ELSE req[s]
    BY <1>w, FinishEffect
  <2>2. query = "welcome" => /\ req[r].id \in 1..MaxAccounts /\ req[r].id <= ids
                             /\ req[r].chosen \in Passwords
    BY <2>1, <1>t DEF Named, Request
  <2>3. /\ rehash' \subseteq [id : 1..MaxAccounts, password : Passwords]
        /\ \A h \in rehash' : h.id <= ids
    BY <1>w, <1>t, <2>2 DEF Named
  <2>4. TypeOK'
    BY <1>w, <2>1, <2>3 DEF TypeOK
  <2>5. Named'
    BY <1>w, <1>t, <2>1, <2>3, IdleIsRequest DEF Named, Exists
  <2>6. QED
    BY <2>4, <2>5
<1>o. ASSUME NEW kind \in {"link", "setup"}, NEW queries, Overlap(kind, queries)
      PROVE  overlaps' \subseteq {"login", "rehash", "link", "setup"}
  BY <1>o, <1>t DEF Overlap
<1>1. CASE RegisterInsert(r)
  <2>1. CASE Exists
    BY <1>1, <2>1, <1>w, <1>t DEF RegisterInsert
  <2>2. CASE ~Exists
    <3> DEFINE numbered == [NoRow EXCEPT !.id = ids + 1]
               owned    == [numbered EXCEPT !.password = req[r].chosen]
               new      == [owned EXCEPT !.verification = FreshLink]
    <3>1. /\ req' \in [Requests -> Request] /\ req[r].pc = "insert"
          /\ \A s \in Requests : req'[s] = IF s = r THEN Idle ELSE req[s]
      BY <1>1, FinishEffect DEF RegisterInsert
    <3>2. req[r].chosen \in Passwords /\ ids + 1 \in 1..MaxAccounts /\ FreshLink \in Links
      BY <1>1, <2>2, <3>1, <1>t, FreshIsFresh, BoundsAssumption DEF RegisterInsert, Named
    <3>3. user' = new
      BY <1>1, <2>2 DEF RegisterInsert
    <3>4. numbered \in Row /\ numbered.id = ids + 1
      BY <3>2, FirstRows DEF Row
    <3> HIDE DEF numbered
    <3>5. owned \in Row /\ owned.id = ids + 1
      BY <3>2, <3>4 DEF Row
    <3> HIDE DEF owned
    <3>6. new \in Row /\ new.id = ids + 1
      BY <3>2, <3>5 DEF Row
    <3> HIDE DEF new
    <3>7. TypeOK'
      BY <1>1, <2>2, <3>1, <3>2, <3>3, <3>6, <1>t DEF RegisterInsert, TypeOK
    <3>8. /\ ids' = ids + 1 /\ rehash' = rehash /\ mailed \subseteq mailed'
          /\ user'.id = ids' /\ Exists'
      BY <1>1, <2>2, <3>2, <3>3, <3>6, <1>t DEF RegisterInsert, Exists
    <3>10. (\A h \in rehash : h.id <= ids + 1) /\ (\A s \in Requests : req[s].id <= ids + 1)
      BY <1>t DEF Named, TypeOK, Request
    <3>11. Named'
      BY <3>1, <3>2, <3>8, <3>10, IdleIsRequest DEF Named
    <3>9. QED
      BY <3>7, <3>11
  <2>3. QED
    BY <2>1, <2>2
<1>2. CASE LoginCount(r)
  <2> DEFINE lock == user.locked \/ req[r].tries >= MaxAttempts
             new  == [user EXCEPT !.attempts = req[r].tries, !.locked = lock]
  <2>1. user' = IF Same(r) THEN new ELSE user
    BY <1>2 DEF LoginCount
  <2>4. lock \in BOOLEAN
    OBVIOUS
  <2> HIDE DEF lock
  <2>5. new \in Row /\ new.id = user.id
    BY <1>t, <2>4 DEF Row
  <2>2. user' \in Row /\ user'.id = user.id
    BY <1>t, <2>1, <2>5
  <2>3. QED
    BY <1>2, <1>s, <1>w, <1>t, <2>2, FinishEffect DEF LoginCount
<1>3. CASE LoginWelcome(r)
  <2>1. user' \in Row /\ user'.id = user.id
    BY <1>3, <1>t, WritesKeepRow DEF LoginWelcome
  <2>2. QED
    BY <1>3, <1>s, <1>w, <1>t, <2>1, FinishEffect DEF LoginWelcome
<1>4. CASE ChangeWrite(r)
  <2>1. req[r].chosen \in Passwords /\ req[r].pc = "change"
    BY <1>4, FinishEffect DEF ChangeWrite, Named
  <2> DEFINE new == [user EXCEPT !.password = req[r].chosen, !.scheme = "argon2"]
  <2>5. new \in Row /\ new.id = user.id
    BY <1>t, <2>1, WritesKeepRow, Zenon
  <2>6. user' = IF Same(r) THEN new ELSE user
    BY <1>4 DEF ChangeWrite
  <2>2. user' \in Row /\ user'.id = user.id
    BY <1>t, <2>5, <2>6
  <2>3. /\ chosen' \in Passwords \cup {None}
        /\ overlaps' \subseteq {"login", "rehash", "link", "setup"}
    BY <1>4, <1>t, <2>1 DEF ChangeWrite, Chosen
  <2>4. QED
    BY <1>4, <1>s, <1>w, <1>t, <2>1, <2>2, <2>3 DEF ChangeWrite
<1>5. CASE ResetWrite(r)
  <2>1. req[r].chosen \in Passwords /\ req[r].pc = "reset" /\ req[r].link \in Links
    BY <1>5, <1>t, FinishEffect DEF ResetWrite, Named
  <2> DEFINE new == [user EXCEPT !.password = req[r].chosen, !.scheme = "argon2",
                                 !.reset = None, !.attempts = 0, !.locked = FALSE]
  <2>6. new \in Row /\ new.id = user.id
    BY <1>t, <2>1, WritesKeepRow, Zenon
  <2>7. user' = IF Same(r) THEN new ELSE user
    BY <1>5 DEF ResetWrite
  <2>2. user' \in Row /\ user'.id = user.id
    BY <1>t, <2>6, <2>7
  <2>3. /\ chosen' \in Passwords \cup {None}
        /\ overlaps' \subseteq {"login", "rehash", "link", "setup"}
    BY <1>5, <1>t, <2>1 DEF ResetWrite, Chosen
  <2>4. resets' \in [Links -> Nat] /\ wrong' \in Nat
    BY <1>5, <1>t, <2>1 DEF ResetWrite
  <2>5. QED
    BY <1>5, <1>s, <1>w, <1>t, <2>1, <2>2, <2>3, <2>4 DEF ResetWrite
<1>6. CASE ForgotWrite(r) \/ ResendWrite(r)
  <2>1. FreshLink \in Links /\ req[r].pc \in {"link", "resend"}
    BY <1>6, FreshIsFresh, FinishEffect DEF ForgotWrite, ResendWrite
  <2> DEFINE reset        == [user EXCEPT !.reset = FreshLink]
             verification == [user EXCEPT !.verification = FreshLink]
  <2>6. reset \in Row /\ reset.id = user.id /\ verification \in Row /\ verification.id = user.id
    BY <1>t, <2>1, WritesKeepRow, Zenon
  <2>7. user' \in {user, reset, verification}
    BY <1>6 DEF ForgotWrite, ResendWrite
  <2>2. user' \in Row /\ user'.id = user.id
    BY <1>t, <2>6, <2>7
  <2>3. latest' \in [reset : Links \cup {None}, verification : Links \cup {None}]
    BY <1>6, <1>t, <2>1 DEF ForgotWrite, ResendWrite
  <2>4. overlaps' \subseteq {"login", "rehash", "link", "setup"}
    BY <1>6, <1>o, <1>t DEF ForgotWrite, ResendWrite
  <2>5. QED
    BY <1>6, <1>s, <1>w, <1>t, <2>1, <2>2, <2>3, <2>4 DEF ForgotWrite, ResendWrite
<1>7. CASE VerifyWrite(r)
  <2>1. user' \in Row /\ user'.id = user.id
    BY <1>7, <1>t, WritesKeepRow DEF VerifyWrite
  <2>2. QED
    BY <1>7, <1>s, <1>w, <1>t, <2>1, FinishEffect DEF VerifyWrite
<1>8. ASSUME NEW s \in Secrets, SetupWrite(r, s)
      PROVE  Typed'
  <2>1. user' \in Row /\ user'.id = user.id
    BY <1>8, <1>t, WritesKeepRow DEF SetupWrite
  <2>2. overlaps' \subseteq {"login", "rehash", "link", "setup"}
    BY <1>8, <1>o DEF SetupWrite
  <2>3. QED
    BY <1>8, <1>s, <1>w, <1>t, <2>1, <2>2, FinishEffect DEF SetupWrite
<1>9. CASE ConfirmWrite(r)
  <2>1. user' \in Row /\ user'.id = user.id
    BY <1>9, <1>t, WritesKeepRow DEF ConfirmWrite
  <2>2. QED
    BY <1>9, <1>s, <1>w, <1>t, <2>1, FinishEffect DEF ConfirmWrite
<1>10. CASE DisableWrite(r)
  <2>1. user' \in Row /\ user'.id = user.id
    BY <1>10, <1>t, WritesKeepRow DEF DisableWrite
  <2>2. overlaps' \subseteq {"login", "rehash", "link", "setup"}
    BY <1>10, <1>o DEF DisableWrite
  <2>3. QED
    BY <1>10, <1>s, <1>w, <1>t, <2>1, <2>2, FinishEffect DEF DisableWrite
<1>11. QED
  BY <1>1, <1>2, <1>3, <1>4, <1>5, <1>6, <1>7, <1>8, <1>9, <1>10 DEF Serve

\* Requests and rehashes that are given up leave everything else as it is.
Loss == \/ \E r \in Requests : RequestFails(r)
        \/ \E h \in rehash : RehashFails(h)
        \/ Crash
        \/ UNCHANGED vars

LEMMA LossEffect ==
  ASSUME TypeOK, Loss
  PROVE  /\ req' \in [Requests -> Request]
         /\ \A r \in Requests : req'[r] \in {req[r], Idle}
         /\ rehash' \subseteq rehash
         /\ UNCHANGED <<user, outside, asked, history>>
<1> USE IdleIsRequest DEF TypeOK
<1>1. ASSUME NEW r \in Requests, RequestFails(r)
      PROVE  /\ req' \in [Requests -> Request]
             /\ \A s \in Requests : req'[s] \in {req[s], Idle}
             /\ rehash' \subseteq rehash
             /\ UNCHANGED <<user, outside, asked, history>>
  BY <1>1 DEF RequestFails
<1>2. ASSUME NEW h \in rehash, RehashFails(h)
      PROVE  /\ req' = req /\ rehash' \subseteq rehash
             /\ UNCHANGED <<user, outside, asked, history>>
  BY <1>2 DEF RehashFails
<1>3. CASE Crash
  BY <1>3 DEF Crash
<1>4. CASE UNCHANGED vars
  BY <1>4 DEF vars
<1>5. QED
  BY <1>1, <1>2, <1>3, <1>4 DEF Loss

LEMMA LossTyped ==
  ASSUME Typed, Loss
  PROVE  Typed'
<1> USE DEF Typed, outside, history
<1>1. TypeOK'
  BY LossEffect DEF TypeOK
<1>2. Named'
  BY LossEffect, IdleIsRequest DEF Named, Exists, TypeOK
<1>3. QED
  BY <1>1, <1>2

\* What happens by itself, and the end of the account.
LEMMA RestTyped ==
  ASSUME Typed,
         (\E h \in rehash : RehashWrite(h)) \/ LockExpires \/ LinkExpires \/ DeleteAccount
  PROVE  Typed'
<1> USE DEF Typed, outside, history
<1>t. user \in Row
  BY DEF TypeOK
<1>1. ASSUME NEW h \in rehash, RehashWrite(h)
      PROVE  Typed'
  <2> DEFINE new == [user EXCEPT !.password = h.password, !.scheme = "argon2"]
  <2>1. h.password \in Passwords /\ h.id \in 1..MaxAccounts
    BY DEF TypeOK
  <2>2. new \in Row /\ new.id = user.id
    BY <1>t, <2>1, WritesKeepRow, Zenon
  <2>3. user' = IF user.id = h.id THEN new ELSE user
    BY <1>1 DEF RehashWrite
  <2> HIDE DEF new
  <2>4. TypeOK'
    BY <1>1, <2>2, <2>3 DEF RehashWrite, TypeOK
  <2>5. user'.id = user.id /\ (~Exists => user' = user)
    BY <2>1, <2>2, <2>3 DEF Exists
  <2>6. Named'
    BY <1>1, <2>5 DEF RehashWrite, Named, Exists
  <2>7. QED
    BY <2>4, <2>6
<1>2. CASE LockExpires
  <2>1. user' \in Row /\ user'.id = user.id
    BY <1>2, <1>t, WritesKeepRow, Zenon DEF LockExpires
  <2>2. TypeOK'
    BY <1>2, <2>1 DEF LockExpires, TypeOK
  <2>3. Exists
    BY <1>2 DEF LockExpires, Named, NoRow
  <2>4. Named'
    BY <1>2, <2>1, <2>3 DEF LockExpires, Named, Exists
  <2>5. QED
    BY <2>2, <2>4
<1>3. CASE LinkExpires
  <2> DEFINE reset        == [user EXCEPT !.reset = None]
             verification == [user EXCEPT !.verification = None]
  <2>6. reset \in Row /\ reset.id = user.id /\ verification \in Row /\ verification.id = user.id
    BY <1>t, WritesKeepRow, Zenon
  <2>7. user' \in {reset, verification}
    BY <1>3 DEF LinkExpires
  <2>1. user' \in Row /\ user'.id = user.id
    BY <2>6, <2>7
  <2>2. latest' \in [reset : Links \cup {None}, verification : Links \cup {None}]
    BY <1>3 DEF LinkExpires, TypeOK
  <2>3. TypeOK'
    BY <1>3, <2>1, <2>2 DEF LinkExpires, TypeOK
  <2>4. Exists
    BY <1>3 DEF LinkExpires, Named, NoRow
  <2>5. Named'
    BY <1>3, <2>1, <2>4 DEF LinkExpires, Named, Exists
  <2>8. QED
    BY <2>3, <2>5
<1>4. CASE DeleteAccount
  <2>1. TypeOK'
    BY <1>4, FirstRows, BoundsAssumption DEF DeleteAccount, TypeOK
  <2>2. Named'
    BY <1>4, FirstRows DEF DeleteAccount, Named, Exists
  <2>3. QED
    BY <2>1, <2>2
<1>5. QED
  BY <1>1, <1>2, <1>3, <1>4

LEMMA StepTyped ==
  ASSUME Typed, [Next]_vars
  PROVE  Typed'
  BY AskTyped, ServeTyped, RestTyped, LossTyped DEF Next, Loss

\* Every reachable state has the types that the row, the requests and what went
\* out to the user are declared with.
THEOREM TypeCorrect == Spec => []TypeOK
<1>1. Init => Typed
  BY InitTyped
<1>2. Typed /\ [Next]_vars => Typed'
  BY StepTyped
<1>3. Typed => TypeOK
  BY DEF Typed
<1>4. QED
  BY <1>1, <1>2, <1>3, PTL DEF Spec

-----------------------------------------------------------------------------
(* What a request has read *)

\* A request that arrives leaves the row alone, and says what it has read of it.
LEMMA AskEffect ==
  ASSUME Typed, NEW r \in Requests, Ask(r)
  PROVE  /\ req[r].pc = "idle"
         /\ \A s \in Requests \ {r} : req'[s] = req[s]
         /\ UNCHANGED <<user, rehash, outside, chosen, wrong, latest, resets>>
         /\ overlaps \subseteq overlaps' /\ proved \subseteq proved'
         /\ req'[r].pc = "enable" => user.secret \in proved'
         /\ req'[r].pc = "welcome" => req'[r].chosen = user.password
         /\ req'[r].pc = "reset" => req'[r].link = user.reset /\ user.reset \in Links
         /\ req'[r].pc = "count" => req'[r].tries = user.attempts + 1 /\ ~user.locked
         /\ req'[r].pc \in Counting /\ "login" \notin overlaps' => ~Busy(Counting)
<1> USE DEF outside, history
<1>a. \A q : Start(r, q) => /\ req[r].pc = "idle" /\ req'[r] = q
                            /\ \A s \in Requests \ {r} : req'[s] = req[s]
  BY DEF Start, Typed, TypeOK
<1>1. ASSUME NEW p \in Passwords, RegisterRead(r, p)
      PROVE  /\ UNCHANGED <<user, rehash, outside, history>>
             /\ req[r].pc = "idle" /\ req'[r].pc = "insert"
             /\ \A s \in Requests \ {r} : req'[s] = req[s]
  BY <1>1 DEF RegisterRead, Start, Idle, Typed, TypeOK
<1>2. ASSUME NEW p \in Passwords, LoginRead(r, p)
      PROVE  /\ UNCHANGED <<user, rehash, outside, chosen, wrong, latest, resets, proved>>
             /\ overlaps \subseteq overlaps' /\ ("login" \notin overlaps' => ~Busy(Counting))
             /\ ~user.locked
             /\ \E q : /\ Start(r, q) /\ q.pc \in {"count", "welcome"}
                       /\ q.tries = user.attempts + 1 /\ q.chosen = p
                       /\ q.pc = "welcome" => p = user.password
  <2> DEFINE pc  == IF p = user.password THEN "welcome" ELSE "count"
             old == user.scheme = "bcrypt"
             q   == [Idle EXCEPT !.pc = pc, !.id = user.id, !.tries = user.attempts + 1,
                                 !.old = old, !.chosen = p]
  <2>1. Start(r, q)
    BY <1>2 DEF LoginRead
  <2>2. pc \in {"count", "welcome"} /\ (pc = "welcome" => p = user.password)
    OBVIOUS
  <2> HIDE DEF pc, old
  <2>3. q.pc = pc /\ q.tries = user.attempts + 1 /\ q.chosen = p
    BY DEF Idle
  <2> HIDE DEF q
  <2>4. /\ UNCHANGED <<user, rehash, outside, chosen, wrong, latest, resets, proved>>
        /\ overlaps \subseteq overlaps' /\ ("login" \notin overlaps' => ~Busy(Counting))
        /\ ~user.locked
    BY <1>2 DEF LoginRead, Overlap
  <2>5. QED
    BY <2>1, <2>2, <2>3, <2>4
<1>3. ASSUME NEW p \in Passwords, NEW w \in Passwords, ChangeRead(r, p, w)
      PROVE  /\ UNCHANGED <<user, rehash, outside, history>>
             /\ req[r].pc = "idle" /\ req'[r].pc = "change"
             /\ \A s \in Requests \ {r} : req'[s] = req[s]
  BY <1>3 DEF ChangeRead, Start, Idle, Typed, TypeOK
<1>4. ASSUME NEW p \in Passwords, NEW l \in Links, ResetRead(r, l, p)
      PROVE  /\ UNCHANGED <<user, rehash, outside, chosen, wrong, latest, resets, proved>>
             /\ overlaps \subseteq overlaps' /\ ("login" \notin overlaps' => ~Busy(Counting))
             /\ \E q : /\ Start(r, q) /\ q.pc = "reset"
                       /\ q.link = user.reset /\ user.reset \in Links
  BY <1>4 DEF ResetRead, Overlap, Idle
<1>5. ASSUME ForgotRead(r) \/ ResendRead(r) \/ SetupRead(r) \/ (\E l \in Links : VerifyRead(r, l))
               \/ (\E s \in Secrets : DisableRead(r, s))
      PROVE  /\ UNCHANGED <<user, rehash, outside, history>>
             /\ req[r].pc = "idle"
             /\ req'[r].pc \in {"link", "resend", "verify", "setup", "disable"}
             /\ \A s \in Requests \ {r} : req'[s] = req[s]
  <2> DEFINE q(pc) == [Idle EXCEPT !.pc = pc, !.id = user.id]
  <2>1. ASSUME NEW pc, Start(r, q(pc))
        PROVE  /\ req[r].pc = "idle" /\ req'[r].pc = pc
               /\ \A s \in Requests \ {r} : req'[s] = req[s]
    BY <2>1 DEF Start, Idle, Typed, TypeOK
  <2>2. \E pc \in {"link", "resend", "verify", "setup", "disable"} : Start(r, q(pc))
    BY <1>5 DEF ForgotRead, ResendRead, SetupRead, VerifyRead, DisableRead
  <2>3. UNCHANGED <<user, rehash, outside, history>>
    BY <1>5 DEF ForgotRead, ResendRead, SetupRead, VerifyRead, DisableRead
  <2> HIDE DEF q
  <2>4. QED
    BY <2>1, <2>2, <2>3
<1>6. ASSUME NEW s \in Secrets, ConfirmRead(r, s)
      PROVE  /\ UNCHANGED <<user, rehash, outside, chosen, wrong, latest, resets, overlaps>>
             /\ proved' = proved \cup {s} /\ user.secret = s
             /\ req[r].pc = "idle" /\ req'[r].pc = "enable"
             /\ \A t \in Requests \ {r} : req'[t] = req[t]
  BY <1>6 DEF ConfirmRead, Start, Idle, Typed, TypeOK
<1>7. QED
  BY <1>a, <1>1, <1>2, <1>3, <1>4, <1>5, <1>6 DEF Ask, Counting

\* A query ends its request and leaves the others waiting.
LEMMA ServeEffect ==
  ASSUME TypeOK, NEW r \in Requests, Serve(r)
  PROVE  \A s \in Requests : req'[s] = IF s = r THEN Idle ELSE req[s]
  BY FinishEffect DEF Serve, RegisterInsert, LoginCount, LoginWelcome, ChangeWrite,
     ForgotWrite, ResetWrite, ResendWrite, VerifyWrite, SetupWrite, ConfirmWrite, DisableWrite

-----------------------------------------------------------------------------
(* The second factor *)

\* Unless a set-up crossed a confirmation, the secret of a factor that is on, or is
\* about to be put on, is one that was answered for.
FactorInv ==
  "setup" \notin overlaps =>
    /\ user.enabled => user.secret \in proved
    /\ \A r \in Requests : req[r].pc = "enable" /\ Same(r) => user.secret \in proved

LEMMA FactorStep ==
  ASSUME Typed, FactorInv, [Next]_vars
  PROVE  FactorInv'
<1> USE IdleIsRequest DEF outside, history
<1>q. ASSUME user'.enabled = user.enabled, user'.secret = user.secret, user'.id = user.id,
             overlaps \subseteq overlaps', proved \subseteq proved',
             \A s \in Requests : req'[s] \in {req[s], Idle}
      PROVE  FactorInv'
  BY <1>q DEF FactorInv, Same
<1>1. ASSUME NEW r \in Requests, Ask(r)
      PROVE  FactorInv'
  BY <1>1, AskEffect DEF FactorInv, Same
<1>2. ASSUME NEW r \in Requests, Serve(r)
      PROVE  FactorInv'
  <2>t. /\ \A s \in Requests : req'[s] = IF s = r THEN Idle ELSE req[s]
        /\ user \in Row /\ \A s \in Requests : req[s].id <= ids /\ req[s].id \in Nat
        /\ ids \in Nat
    BY <1>2, ServeEffect DEF Typed, TypeOK, Named, Request
  <2>1. CASE RegisterInsert(r)
    <3>1. CASE Exists
      BY <1>q, <2>1, <2>t, <3>1 DEF RegisterInsert
    <3>2. CASE ~Exists
      <4>1. user'.id = ids + 1 /\ ~user'.enabled
        BY <2>1, <3>2 DEF RegisterInsert, NoRow
      <4>2. QED
        BY <2>t, <4>1 DEF FactorInv, Same, Idle
    <3>3. QED
      BY <3>1, <3>2
  <2>2. CASE LoginCount(r) \/ LoginWelcome(r)
    BY <1>q, <2>2, <2>t DEF LoginCount, LoginWelcome, Row
  <2>3. CASE ChangeWrite(r) \/ ResetWrite(r)
    BY <1>q, <2>3, <2>t DEF ChangeWrite, ResetWrite, Chosen, Row
  <2>4. CASE ForgotWrite(r) \/ ResendWrite(r) \/ VerifyWrite(r)
    BY <1>q, <2>4, <2>t DEF ForgotWrite, ResendWrite, VerifyWrite, Overlap, Row
  <2>5. CASE (\E s \in Secrets : SetupWrite(r, s)) \/ DisableWrite(r)
    <3>1. /\ overlaps \subseteq overlaps' /\ proved' = proved
          /\ "setup" \notin overlaps' => \A s \in Requests : req[s].pc # "enable"
      BY <2>5 DEF SetupWrite, DisableWrite, Overlap, Busy
    <3>2. user' = user \/ ~user'.enabled
      BY <2>5, <2>t DEF SetupWrite, DisableWrite, Row
    <3>3. QED
      BY <2>t, <3>1, <3>2 DEF FactorInv
  <2>6. CASE ConfirmWrite(r)
    <3>1. Finish(r, "enable") /\ req[r].pc = "enable"
      BY <2>6 DEF ConfirmWrite, Finish
    <3>2. /\ user'.secret = user.secret /\ user'.id = user.id
          /\ user'.enabled => user.enabled \/ Same(r)
          /\ overlaps' = overlaps /\ proved' = proved
      BY <2>6, <2>t DEF ConfirmWrite, Row
    <3>3. QED
      BY <2>t, <3>1, <3>2 DEF FactorInv, Same
  <2>7. QED
    BY <1>2, <2>1, <2>2, <2>3, <2>4, <2>5, <2>6 DEF Serve
<1>3. CASE Loss
  BY <1>3, <1>q, LossEffect DEF Typed
<1>4. CASE (\E h \in rehash : RehashWrite(h)) \/ LockExpires \/ LinkExpires
  BY <1>4, <1>q DEF RehashWrite, LockExpires, LinkExpires, Typed, TypeOK, Row
<1>5. CASE DeleteAccount
  <2>1. user' = NoRow /\ req' = req
    BY <1>5 DEF DeleteAccount
  <2>2. QED
    BY <2>1 DEF FactorInv, Same, NoRow, Typed, Named
<1>6. QED
  BY <1>1, <1>2, <1>3, <1>4, <1>5 DEF Next, Loss

\* A second factor that is asked for is one the user has shown to be able to answer,
\* unless a set-up ran through its confirmation.
THEOREM FactorIsAnswerable == Spec => []AnswerableFactor
<1>1. Init => Typed /\ FactorInv
  <2>1. ASSUME Init PROVE FactorInv
    BY <2>1, InitShape, IdleIsRequest DEF FactorInv
  <2>2. QED
    BY <2>1, InitTyped
<1>2. Typed /\ FactorInv /\ [Next]_vars => (Typed /\ FactorInv)'
  BY StepTyped, FactorStep
<1>3. Typed /\ FactorInv => AnswerableFactor
  BY DEF FactorInv, AnswerableFactor
<1>4. QED
  BY <1>1, <1>2, <1>3, PTL DEF Spec

-----------------------------------------------------------------------------
(* The password *)

\* Unless a password was chosen while the hash of another was being replaced, what
\* every rehash writes, or will be asked to write, is the chosen password.
PasswordInv ==
  "rehash" \notin overlaps =>
    /\ user.password = chosen
    /\ \A h \in rehash : h.id = user.id => h.password = chosen
    /\ \A r \in Requests :
         req[r].pc = "welcome" /\ req[r].old /\ Same(r) => req[r].chosen = chosen

LEMMA PasswordStep ==
  ASSUME Typed, PasswordInv, [Next]_vars
  PROVE  PasswordInv'
<1> USE IdleIsRequest DEF outside, history
<1>q. ASSUME user'.password = user.password, user'.id = user.id, chosen' = chosen,
             overlaps \subseteq overlaps', rehash' \subseteq rehash,
             \A s \in Requests : req'[s] \in {req[s], Idle}
      PROVE  PasswordInv'
  BY <1>q DEF PasswordInv, Same
<1>1. ASSUME NEW r \in Requests, Ask(r)
      PROVE  PasswordInv'
  BY <1>1, AskEffect DEF PasswordInv, Same
<1>2. ASSUME NEW r \in Requests, Serve(r)
      PROVE  PasswordInv'
  <2>t. /\ \A s \in Requests : req'[s] = IF s = r THEN Idle ELSE req[s]
        /\ user \in Row /\ ids \in Nat
        /\ \A s \in Requests : req[s].id <= ids /\ req[s].id \in Nat
        /\ \A h \in rehash : h.id <= ids /\ h.id \in Nat
    BY <1>2, ServeEffect DEF Typed, TypeOK, Named, Request
  <2>1. CASE RegisterInsert(r)
    <3>1. CASE Exists
      BY <1>q, <2>1, <2>t, <3>1 DEF RegisterInsert
    <3>2. CASE ~Exists
      <4>1. /\ user'.id = ids + 1 /\ user'.password = req[r].chosen /\ chosen' = req[r].chosen
            /\ rehash' = rehash
        BY <2>1, <3>2 DEF RegisterInsert, NoRow
      <4>2. QED
        BY <2>t, <4>1 DEF PasswordInv, Same, Idle
    <3>3. QED
      BY <3>1, <3>2
  <2>2. CASE LoginCount(r)
    BY <1>q, <2>2, <2>t DEF LoginCount, Row
  <2>3. CASE LoginWelcome(r)
    <3>1. /\ user'.password = user.password /\ user'.id = user.id
          /\ chosen' = chosen /\ overlaps' = overlaps /\ req[r].pc = "welcome"
      BY <2>3, <2>t DEF LoginWelcome, Row, Finish
    <3>2. \A h \in rehash' \ rehash :
            req[r].old /\ h = [id |-> req[r].id, password |-> req[r].chosen]
      BY <2>3 DEF LoginWelcome
    <3>3. ASSUME "rehash" \notin overlaps, NEW h \in rehash', h.id = user.id
          PROVE  h.password = chosen
      BY <3>1, <3>2, <3>3 DEF PasswordInv, Same
    <3>4. QED
      BY <2>t, <3>1, <3>3 DEF PasswordInv, Same
  <2>4. CASE ChangeWrite(r) \/ ResetWrite(r)
    <3>1. CASE Same(r)
      <4>1. /\ user'.id = user.id /\ user'.password = req[r].chosen /\ chosen' = req[r].chosen
            /\ rehash' = rehash
        BY <2>4, <2>t, <3>1 DEF ChangeWrite, ResetWrite, Chosen, Row
      <4>2. "rehash" \notin overlaps' => ~Migrating
        BY <2>4, <3>1 DEF ChangeWrite, ResetWrite, Chosen
      <4>3. QED
        BY <2>t, <4>1, <4>2 DEF PasswordInv, Migrating, Same
    <3>2. CASE ~Same(r)
      BY <1>q, <2>4, <2>t, <3>2 DEF ChangeWrite, ResetWrite
    <3>3. QED
      BY <3>1, <3>2
  <2>5. CASE ForgotWrite(r) \/ ResendWrite(r) \/ VerifyWrite(r) \/ ConfirmWrite(r)
    BY <1>q, <2>5, <2>t DEF ForgotWrite, ResendWrite, VerifyWrite, ConfirmWrite, Overlap, Row
  <2>6. CASE (\E s \in Secrets : SetupWrite(r, s)) \/ DisableWrite(r)
    BY <1>q, <2>6, <2>t DEF SetupWrite, DisableWrite, Overlap, Row
  <2>7. QED
    BY <1>2, <2>1, <2>2, <2>3, <2>4, <2>5, <2>6 DEF Serve
<1>3. CASE Loss
  BY <1>3, <1>q, LossEffect DEF Typed
<1>4. ASSUME NEW h \in rehash, RehashWrite(h)
      PROVE  PasswordInv'
  <2>1. /\ user'.id = user.id /\ rehash' \subseteq rehash
        /\ user'.password = IF user.id = h.id THEN h.password ELSE user.password
        /\ UNCHANGED <<req, chosen, overlaps>>
    BY <1>4 DEF RehashWrite, Typed, TypeOK, Row
  <2>2. QED
    BY <2>1 DEF PasswordInv, Same
<1>5. CASE LockExpires \/ LinkExpires
  BY <1>5, <1>q DEF LockExpires, LinkExpires, Typed, TypeOK, Row
<1>6. CASE DeleteAccount
  <2>1. /\ user'.id = 0 /\ user'.password = None /\ chosen' = None
        /\ req' = req /\ rehash' = rehash
    BY <1>6 DEF DeleteAccount, NoRow
  <2>2. (\A h \in rehash : h.id # 0) /\ (\A s \in Requests : req[s].pc = "welcome" => req[s].id # 0)
    BY DEF Typed, TypeOK, Named
  <2>3. QED
    BY <2>1, <2>2 DEF PasswordInv, Same
<1>7. QED
  BY <1>1, <1>2, <1>3, <1>4, <1>5, <1>6 DEF Next, Loss

\* The password that works is the one chosen last, unless it was chosen while the
\* hash of another was being replaced.
THEOREM PasswordChosen == Spec => []PasswordIsChosen
<1>1. Init => Typed /\ PasswordInv
  BY InitTyped, InitShape, IdleIsRequest DEF PasswordInv
<1>2. Typed /\ PasswordInv /\ [Next]_vars => (Typed /\ PasswordInv)'
  BY StepTyped, PasswordStep
<1>3. Typed /\ PasswordInv => PasswordIsChosen
  BY DEF PasswordInv, PasswordIsChosen
<1>4. QED
  BY <1>1, <1>2, <1>3, PTL DEF Spec

-----------------------------------------------------------------------------
(* Links *)

\* The reset link in the row is the last one written and was never used; until a
\* link is sent while another is being used, a request that uses one uses the last.
LinkInv ==
  /\ \A l \in Links \ mailed : resets[l] = 0
  /\ user.reset # None =>
       user.reset \in mailed /\ latest.reset = user.reset /\ resets[user.reset] = 0
  /\ latest.verification # None /\ ~user.verified =>
       user.verification = latest.verification
  /\ "link" \notin overlaps =>
       /\ latest.reset # None /\ ~SpentReset => user.reset = latest.reset
       /\ \A r \in Requests :
            req[r].pc = "reset" /\ Same(r) => latest.reset \in {None, req[r].link}

LEMMA LinkStep ==
  ASSUME Typed, LinkInv, [Next]_vars
  PROVE  LinkInv'
<1> USE IdleIsRequest, NoneAssumption DEF outside, history
<1>q. ASSUME UNCHANGED <<mailed, latest, resets>>, user'.id = user.id,
             user'.reset = user.reset,
             \/ user'.verified = user.verified /\ user'.verification = user.verification
             \/ user'.verified = TRUE,
             overlaps \subseteq overlaps', \A s \in Requests : req'[s] \in {req[s], Idle}
      PROVE  LinkInv'
  BY <1>q DEF LinkInv, SpentReset, Same
<1>1. ASSUME NEW r \in Requests, Ask(r)
      PROVE  LinkInv'
  <2>1. /\ \A s \in Requests \ {r} : req'[s] = req[s]
        /\ UNCHANGED <<user, mailed, latest, resets>> /\ overlaps \subseteq overlaps'
        /\ req'[r].pc = "reset" => req'[r].link = user.reset /\ user.reset \in Links
    BY <1>1, AskEffect
  <2>2. QED
    BY <2>1 DEF LinkInv, SpentReset, Same
<1>2. ASSUME NEW r \in Requests, Serve(r)
      PROVE  LinkInv'
  <2>t. /\ \A s \in Requests : req'[s] = IF s = r THEN Idle ELSE req[s]
        /\ user \in Row /\ ids \in Nat /\ mailed \subseteq Links
        /\ latest \in [reset : Links \cup {None}, verification : Links \cup {None}]
        /\ resets \in [Links -> Nat]
        /\ \A s \in Requests : req[s].id <= ids /\ req[s].id \in Nat
    BY <1>2, ServeEffect DEF Typed, TypeOK, Named, Request
  <2>1. CASE RegisterInsert(r)
    <3>1. CASE Exists
      BY <1>q, <2>1, <2>t, <3>1 DEF RegisterInsert
    <3>2. CASE ~Exists
      <4>1. latest.reset = None
        BY <3>2 DEF Typed, Named
      <4>2. /\ user'.id = ids + 1 /\ user'.reset = None /\ user'.verification = FreshLink
            /\ resets' = resets /\ mailed' = mailed \cup {FreshLink}
        BY <2>1, <3>2 DEF RegisterInsert, NoRow
      <4>3. latest'.verification = FreshLink /\ latest'.reset = None
        BY <2>1, <2>t, <3>2, <4>1 DEF RegisterInsert
      <4>4. QED
        BY <2>t, <4>2, <4>3 DEF LinkInv, SpentReset, Same, Idle
    <3>3. QED
      BY <3>1, <3>2
  <2>2. CASE LoginCount(r) \/ LoginWelcome(r)
    BY <1>q, <2>2, <2>t DEF LoginCount, LoginWelcome, Row
  <2>3. CASE ChangeWrite(r)
    BY <1>q, <2>3, <2>t DEF ChangeWrite, Chosen, Row
  <2>4. CASE ForgotWrite(r)
    <3>1. FreshLink \in Links /\ FreshLink \notin mailed /\ resets[FreshLink] = 0
      BY <2>4, FreshIsFresh DEF ForgotWrite, LinkInv
    <3>2. /\ user'.id = user.id /\ user'.verified = user.verified
          /\ user'.verification = user.verification
          /\ user'.reset = IF Same(r) THEN FreshLink ELSE user.reset
          /\ latest'.reset = IF Same(r) THEN FreshLink ELSE latest.reset
          /\ latest'.verification = latest.verification
          /\ mailed' = mailed \cup {FreshLink} /\ resets' = resets
          /\ overlaps \subseteq overlaps'
          /\ "link" \notin overlaps' => \A s \in Requests : req[s].pc # "reset"
      BY <2>4, <2>t DEF ForgotWrite, Overlap, Busy, Row
    <3>3. QED
      BY <2>t, <3>1, <3>2 DEF LinkInv, SpentReset, Same
  <2>5. CASE ResetWrite(r)
    <3>1. CASE Same(r)
      <4>1. /\ req[r].pc = "reset" /\ req[r].link \in mailed
        BY <2>5 DEF ResetWrite, Finish, Typed, Named
      <4>2. /\ user'.id = user.id /\ user'.verified = user.verified
            /\ user'.verification = user.verification /\ user'.reset = None
        <5>1. user' = [user EXCEPT !.password = req[r].chosen, !.scheme = "argon2",
                                   !.reset = None, !.attempts = 0, !.locked = FALSE]
          BY <2>5, <3>1 DEF ResetWrite
        <5>2. QED
          BY <2>t, <5>1 DEF Row
      <4>5. /\ latest' = latest /\ mailed' = mailed /\ overlaps \subseteq overlaps'
            /\ resets' = [resets EXCEPT ![req[r].link] = @ + 1]
        BY <2>5, <3>1 DEF ResetWrite, Chosen
      <4>3. /\ resets'[req[r].link] > 0
            /\ \A l \in Links : l # req[r].link => resets'[l] = resets[l]
            /\ \A l \in Links : resets[l] > 0 => resets'[l] > 0
        BY <2>t, <4>1, <4>5
      <4>6. QED
        BY <2>t, <3>1, <4>1, <4>2, <4>3, <4>5 DEF LinkInv, SpentReset, Same
    <3>2. CASE ~Same(r)
      BY <1>q, <2>5, <2>t, <3>2 DEF ResetWrite
    <3>3. QED
      BY <3>1, <3>2
  <2>6. CASE ResendWrite(r)
    <3>1. FreshLink \in Links /\ FreshLink \notin mailed
      BY <2>6, FreshIsFresh DEF ResendWrite
    <3>2. /\ user'.id = user.id /\ user'.verified = user.verified /\ user'.reset = user.reset
          /\ user'.verification = IF Same(r) THEN FreshLink ELSE user.verification
          /\ latest'.verification = IF Same(r) THEN FreshLink ELSE latest.verification
          /\ latest'.reset = latest.reset
          /\ mailed' = mailed \cup {FreshLink} /\ UNCHANGED <<resets, overlaps>>
      BY <2>6, <2>t DEF ResendWrite, Row
    <3>3. QED
      BY <2>t, <3>1, <3>2 DEF LinkInv, SpentReset, Same
  <2>7. CASE VerifyWrite(r) \/ ConfirmWrite(r)
    BY <1>q, <2>7, <2>t DEF VerifyWrite, ConfirmWrite, Row
  <2>8. CASE (\E s \in Secrets : SetupWrite(r, s)) \/ DisableWrite(r)
    BY <1>q, <2>8, <2>t DEF SetupWrite, DisableWrite, Overlap, Row
  <2>9. QED
    BY <1>2, <2>1, <2>2, <2>3, <2>4, <2>5, <2>6, <2>7, <2>8 DEF Serve
<1>3. CASE Loss
  BY <1>3, <1>q, LossEffect DEF Typed
<1>4. CASE (\E h \in rehash : RehashWrite(h)) \/ LockExpires
  <2>1. /\ user'.id = user.id /\ user'.reset = user.reset
        /\ user'.verified = user.verified /\ user'.verification = user.verification
    <3>1. user \in Row
      BY DEF Typed, TypeOK
    <3>2. QED
      BY <1>4, <3>1 DEF RehashWrite, LockExpires, Row
  <2>2. UNCHANGED <<req, mailed, latest, resets, overlaps>>
    BY <1>4 DEF RehashWrite, LockExpires
  <2>3. QED
    BY <1>q, <2>1, <2>2
<1>5. CASE LinkExpires
  <2>1. /\ user'.id = user.id /\ user'.verified = user.verified
        /\ UNCHANGED <<req, mailed, resets, overlaps>>
        /\ \/ /\ user'.reset = None /\ latest'.reset = None
              /\ user'.verification = user.verification
              /\ latest'.verification = latest.verification
           \/ /\ user'.verification = None /\ latest'.verification = None
              /\ user'.reset = user.reset /\ latest'.reset = latest.reset
    BY <1>5 DEF LinkExpires, Typed, TypeOK, Row
  <2>2. QED
    BY <2>1 DEF LinkInv, SpentReset, Same
<1>6. CASE DeleteAccount
  <2>1. /\ user'.id = 0 /\ user'.reset = None /\ latest'.reset = None
        /\ latest'.verification = None /\ UNCHANGED <<req, mailed, resets, overlaps>>
    BY <1>6 DEF DeleteAccount, NoRow
  <2>2. QED
    BY <2>1 DEF LinkInv, Same
<1>7. QED
  BY <1>1, <1>2, <1>3, <1>4, <1>5, <1>6 DEF Next, Loss

LEMMA InitLinks == Init => Typed /\ LinkInv
  BY InitTyped, InitShape, IdleIsRequest DEF LinkInv, SpentReset

\* The last reset and the last verification link work until they are used or
\* expire, unless the former was sent while an older one was being used.
THEOREM LastLinkIsGood == Spec => []LastLinkWorks
<1>1. Typed /\ LinkInv /\ [Next]_vars => (Typed /\ LinkInv)'
  BY StepTyped, LinkStep
<1>2. Typed /\ LinkInv => LastLinkWorks
  BY DEF LinkInv, LastLinkWorks
<1>3. QED
  BY InitLinks, <1>1, <1>2, PTL DEF Spec

\* What becomes of the uses of link l in a step.
Undisturbed(l) == LookedUp(l) \/ (~LookedUp(l)' /\ resets'[l] = resets[l])

LEMMA OnlyGoodLinksUsed ==
  ASSUME Typed, LinkInv, [Next]_vars, NEW l \in mailed,
         l # latest.reset \/ resets[l] > 0
  PROVE  Undisturbed(l)
<1> USE IdleIsRequest DEF outside, history
<1>q. ASSUME resets' = resets, \A s \in Requests : req'[s] \in {req[s], Idle}
      PROVE  Undisturbed(l)
  BY <1>q DEF Undisturbed, LookedUp
<1>1. ASSUME NEW r \in Requests, Ask(r)
      PROVE  Undisturbed(l)
  <2>1. /\ \A s \in Requests \ {r} : req'[s] = req[s] /\ resets' = resets
        /\ req'[r].pc = "reset" => req'[r].link = user.reset /\ user.reset \in Links
    BY <1>1, AskEffect
  <2>2. resets' = resets
    BY <1>1, AskEffect
  <2>3. user.reset \in Links => user.reset = latest.reset /\ resets[user.reset] = 0
    BY NoneAssumption DEF LinkInv
  <2>4. l \in Links /\ resets[l] \in Nat
    BY DEF Typed, TypeOK
  <2>5. QED
    BY <2>1, <2>2, <2>3, <2>4 DEF Undisturbed, LookedUp
<1>2. ASSUME NEW r \in Requests, Serve(r)
      PROVE  Undisturbed(l)
  <2>t. \A s \in Requests : req'[s] = IF s = r THEN Idle ELSE req[s]
    BY <1>2, ServeEffect DEF Typed
  <2>1. CASE resets' = resets
    BY <1>q, <2>t, <2>1
  <2>2. CASE ResetWrite(r) /\ resets' # resets
    <3>1. req[r].pc = "reset" /\ resets' = [resets EXCEPT ![req[r].link] = @ + 1]
      BY <2>2 DEF ResetWrite, Finish
    <3>2. CASE req[r].link = l
      BY <3>1, <3>2 DEF Undisturbed, LookedUp
    <3>3. CASE req[r].link # l
      <4>1. resets'[l] = resets[l]
        BY <3>1, <3>3 DEF Typed, TypeOK
      <4>2. QED
        BY <2>t, <4>1 DEF Undisturbed, LookedUp
    <3>4. QED
      BY <3>2, <3>3
  <2>3. ResetWrite(r) \/ resets' = resets
    BY <1>2 DEF Serve, RegisterInsert, LoginCount, LoginWelcome, ChangeWrite, ForgotWrite,
       ResendWrite, VerifyWrite, SetupWrite, ConfirmWrite, DisableWrite
  <2>4. QED
    BY <2>1, <2>2, <2>3
<1>3. CASE Loss
  BY <1>3, <1>q, LossEffect DEF Typed
<1>4. CASE (\E h \in rehash : RehashWrite(h)) \/ LockExpires \/ LinkExpires \/ DeleteAccount
  BY <1>4, <1>q DEF RehashWrite, LockExpires, LinkExpires, DeleteAccount
<1>5. QED
  BY <1>1, <1>2, <1>3, <1>4 DEF Next, Loss

\* A link that was used, replaced or has expired sets no password any more, but for
\* the uses that had looked it up by then.
THEOREM DeadLinksStayDead == Spec => DeadLinkStaysDead
<1>1. Typed /\ LinkInv /\ [Next]_vars => (Typed /\ LinkInv)'
  BY StepTyped, LinkStep
<1>2. Typed /\ LinkInv /\ [Next]_vars =>
        \A l \in mailed : (l # latest.reset \/ resets[l] > 0) /\ ~LookedUp(l)
                            => ~LookedUp(l)' /\ resets'[l] = resets[l]
  BY OnlyGoodLinksUsed DEF Undisturbed
<1>3. QED
  BY InitLinks, <1>1, <1>2, PTL DEF Spec, DeadLinkStaysDead

-----------------------------------------------------------------------------
(* The lock *)

\* Until two handlers that write the counter overlap: there is one of them at most,
\* it has read the counter as it is, and the counter has seen every wrong password.
LockInv ==
  "login" \notin overlaps =>
    /\ \A r, s \in Requests : req[r].pc \in Counting /\ req[s].pc \in Counting => r = s
    /\ \A r \in Requests : req[r].pc = "count" /\ Same(r) =>
         req[r].tries = user.attempts + 1 /\ ~user.locked
    /\ wrong <= user.attempts
    /\ wrong > 0 /\ user.attempts >= MaxAttempts => user.locked
    /\ wrong <= MaxAttempts

LEMMA LockStep ==
  ASSUME Typed, LockInv, [Next]_vars
  PROVE  LockInv'
<1> USE IdleIsRequest, BoundsAssumption DEF outside, history
<1>t. /\ user \in Row /\ user.attempts \in Nat /\ wrong \in Nat /\ ids \in Nat
      /\ \A s \in Requests : req[s].id <= ids /\ req[s].id \in Nat
      /\ \A s \in Requests : req[s].tries \in Nat
  BY DEF Typed, TypeOK, Named, Request, Row
<1>q. ASSUME user'.attempts = user.attempts, user'.locked = user.locked, user'.id = user.id,
             wrong' = wrong, overlaps \subseteq overlaps',
             \A s \in Requests : req'[s] \in {req[s], Idle}
      PROVE  LockInv'
  BY <1>q DEF LockInv, Same, Counting
<1>1. ASSUME NEW r \in Requests, Ask(r)
      PROVE  LockInv'
  BY <1>1, AskEffect DEF LockInv, Same, Busy
<1>2. ASSUME NEW r \in Requests, Serve(r)
      PROVE  LockInv'
  <2>t. \A s \in Requests : req'[s] = IF s = r THEN Idle ELSE req[s]
    BY <1>2, ServeEffect DEF Typed
  <2>1. CASE RegisterInsert(r)
    <3>1. CASE Exists
      BY <1>q, <2>1, <2>t, <3>1 DEF RegisterInsert
    <3>2. CASE ~Exists
      <4>1. /\ user'.id = ids + 1 /\ user'.attempts = 0 /\ wrong' = 0 /\ overlaps' = overlaps
        BY <2>1, <3>2 DEF RegisterInsert, NoRow
      <4>2. QED
        BY <1>t, <2>t, <4>1 DEF LockInv, Same, Counting
    <3>3. QED
      BY <3>1, <3>2
  <2>2. CASE LoginCount(r)
    <3>1. CASE Same(r)
      <4>1. /\ req[r].pc = "count" /\ user'.id = user.id /\ user'.attempts = req[r].tries
            /\ user'.locked <=> user.locked \/ req[r].tries >= MaxAttempts
            /\ wrong' = wrong + 1 /\ overlaps' = overlaps
        BY <1>t, <2>2, <3>1 DEF LoginCount, Finish, Row
      <4>2. SUFFICES ASSUME "login" \notin overlaps PROVE LockInv'
        BY <4>1 DEF LockInv
      <4>3. req[r].tries = user.attempts + 1 /\ ~user.locked
        BY <3>1, <4>1, <4>2 DEF LockInv
      <4>4. \A s \in Requests : req'[s].pc \notin Counting
        BY <2>t, <4>1, <4>2 DEF LockInv, Counting
      <4>5. /\ wrong' <= user'.attempts /\ wrong' <= MaxAttempts
            /\ user'.attempts >= MaxAttempts => user'.locked
        BY <1>t, <4>1, <4>2, <4>3 DEF LockInv
      <4>6. QED
        BY <4>4, <4>5 DEF LockInv, Counting
    <3>2. CASE ~Same(r)
      BY <1>q, <2>2, <2>t, <3>2 DEF LoginCount
    <3>3. QED
      BY <3>1, <3>2
  <2>3. CASE LoginWelcome(r) \/ ResetWrite(r)
    <3>1. CASE Same(r)
      <4>5. user'.id = user.id /\ user'.attempts = 0
        BY <1>t, <2>3, <3>1 DEF LoginWelcome, ResetWrite, Row
      <4>1. /\ req[r].pc \in {"welcome", "reset"} /\ user'.id = user.id /\ user'.attempts = 0
            /\ wrong' = 0 /\ overlaps \subseteq overlaps'
        BY <2>3, <3>1, <4>5 DEF LoginWelcome, ResetWrite, Chosen, Finish
      <4>2. SUFFICES ASSUME "login" \notin overlaps PROVE LockInv'
        BY <4>1 DEF LockInv
      <4>3. \A s \in Requests : req'[s].pc \notin Counting
        BY <2>t, <4>1, <4>2 DEF LockInv, Counting
      <4>4. QED
        BY <4>1, <4>3 DEF LockInv, Counting
    <3>2. CASE ~Same(r)
      BY <1>q, <2>3, <2>t, <3>2 DEF LoginWelcome, ResetWrite
    <3>3. QED
      BY <3>1, <3>2
  <2>4. CASE ChangeWrite(r) \/ ForgotWrite(r) \/ ResendWrite(r) \/ VerifyWrite(r)
    <3>1. /\ user'.attempts = user.attempts /\ user'.locked = user.locked /\ user'.id = user.id
          /\ wrong' = wrong
      BY <1>t, <2>4 DEF ChangeWrite, ForgotWrite, ResendWrite, VerifyWrite, Row
    <3>2. overlaps \subseteq overlaps'
      BY <2>4 DEF ChangeWrite, ForgotWrite, ResendWrite, VerifyWrite, Chosen, Overlap
    <3>3. QED
      BY <1>q, <2>t, <3>1, <3>2
  <2>5. CASE (\E s \in Secrets : SetupWrite(r, s)) \/ ConfirmWrite(r) \/ DisableWrite(r)
    BY <1>q, <1>t, <2>5, <2>t DEF SetupWrite, ConfirmWrite, DisableWrite, Overlap, Row
  <2>6. QED
    BY <1>2, <2>1, <2>2, <2>3, <2>4, <2>5 DEF Serve
<1>3. CASE Loss
  BY <1>3, <1>q, LossEffect DEF Typed
<1>4. CASE (\E h \in rehash : RehashWrite(h)) \/ LinkExpires
  <2>1. /\ user'.attempts = user.attempts /\ user'.locked = user.locked /\ user'.id = user.id
    BY <1>4, <1>t DEF RehashWrite, LinkExpires, Row
  <2>2. UNCHANGED <<req, wrong, overlaps>>
    BY <1>4 DEF RehashWrite, LinkExpires
  <2>3. QED
    BY <1>q, <2>1, <2>2
<1>5. CASE LockExpires
  <2>1. /\ user'.attempts = user.attempts /\ user'.id = user.id /\ ~user'.locked
        /\ wrong' = 0 /\ UNCHANGED <<req, overlaps>>
    BY <1>5, <1>t DEF LockExpires, Row
  <2>2. QED
    BY <1>t, <2>1 DEF LockInv, Same
<1>6. CASE DeleteAccount
  <2>1. /\ user'.id = 0 /\ user'.attempts = 0 /\ wrong' = 0 /\ UNCHANGED <<req, overlaps>>
    BY <1>6 DEF DeleteAccount, NoRow
  <2>2. \A s \in Requests : req[s].pc = "count" => req[s].id # 0
    BY DEF Typed, Named
  <2>3. QED
    BY <2>1, <2>2 DEF LockInv, Same
<1>7. QED
  BY <1>1, <1>2, <1>3, <1>4, <1>5, <1>6 DEF Next, Loss

\* As many wrong passwords in a row as MAX_ATTEMPTS lock the account, as long as no
\* two handlers that write the counter overlap.
THEOREM WrongOnesLock == Spec => []WrongPasswordsLock
<1>1. Init => Typed /\ LockInv
  BY InitTyped, InitShape, IdleIsRequest, BoundsAssumption DEF LockInv, Counting
<1>2. Typed /\ LockInv /\ [Next]_vars => (Typed /\ LockInv)'
  BY StepTyped, LockStep
<1>3. Typed /\ LockInv => WrongPasswordsLock
  BY BoundsAssumption DEF LockInv, WrongPasswordsLock, Typed, TypeOK, Row
<1>4. QED
  BY <1>1, <1>2, <1>3, PTL DEF Spec
=============================================================================
