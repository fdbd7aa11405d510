--------------------------- MODULE SessionsProofs ---------------------------
(***************************************************************************)
(* What holds of Sessions for any number of users, browsers, requests and  *)
(* tokens: its types, and the three safety invariants the runs check.      *)
(***************************************************************************)
EXTENDS Sessions, TLAPS

\* makeTokens really draws a jti that nobody has.
LEMMA FreshJtiIsFresh ==
  ASSUME Minted # Jtis
  PROVE  FreshJti \in Jtis /\ owner[FreshJti] = None
<1>1. \E j \in Jtis : j \notin Minted
  BY DEF Minted
<1>2. FreshJti \in Jtis /\ FreshJti \notin Minted
  BY <1>1 DEF FreshJti
<1> QED
  BY <1>2 DEF Minted

LEMMA IdleIsRequest == Idle \in Request /\ Equipped(Idle)
  BY DEF Idle, Request, PC, Query, Equipped

\* However one of the two queries of a termination ends, the request and the
\* history of terminations stay well-typed.
LEMMA SettleType ==
  ASSUME TypeOK, NEW r \in Requests, NEW q \in Query, NEW ok \in BOOLEAN,
         Settle(r, q, ok)
  PROVE  /\ req[r].token \in Jtis
         /\ req' \in [Requests -> Request]
         /\ \A s \in Requests : Equipped(req'[s])
         /\ terminated' \subseteq Jtis
<1> USE IdleIsRequest DEF TypeOK, Equipped
<1> DEFINE left  == req[r].todo \ {q}
           clean == req[r].clean /\ ok
           next  == [req[r] EXCEPT !.todo = left, !.clean = clean]
<1>1. req[r].token \in Jtis
  BY DEF Settle, At
<1>2. next \in Request /\ Equipped(next)
  BY DEF Request
<1>3. Idle \in Request /\ Equipped(Idle)
  BY IdleIsRequest
<1>4. req' = [req EXCEPT ![r] = IF left = {} THEN Idle ELSE next]
  BY DEF Settle
<1>5. terminated' \subseteq Jtis
  BY <1>1 DEF Settle
<1> QED
  BY <1>1, <1>2, <1>3, <1>4, <1>5

\* TypeOK: every variable keeps its type (auth.js, users.js).
THEOREM TypeCorrect == Spec => []TypeOK
<1>1. Init => TypeOK
  BY MaxMishapsAssumption, IdleIsRequest DEF Init, TypeOK, Equipped, Idle
<1>2. TypeOK /\ [Next]_vars => TypeOK'
  <2> SUFFICES ASSUME TypeOK, [Next]_vars
               PROVE  TypeOK'
    OBVIOUS
  <2> USE IdleIsRequest, NoneAssumption DEF TypeOK, Equipped
  <2>1. ASSUME NEW r \in Requests, Serve(r)
        PROVE  TypeOK'
    <3>1. CASE RecordSession(r)
      BY <3>1 DEF RecordSession, At, Goto, Request, PC, tokens, history
    <3>2. CASE RecordFails(r)
      BY <3>2, MaxMishapsAssumption DEF RecordFails, At, Goto, Mishap, Request, PC, tables, tokens
    <3>3. CASE DeliverSession(r)
      BY <3>3 DEF DeliverSession, At, Answer, Request, PC, tables, tokens, history
    <3>4. CASE CheckRevoked(r)
      <4>1. CASE req[r].token \in revoked
        BY <3>4, <4>1 DEF CheckRevoked, At, Answer, tables, tokens, history
      <4>2. CASE req[r].token \notin revoked
        BY <3>4, <4>2, SMTT(30) DEF CheckRevoked, At, Goto, Request, PC, tables, tokens, history
      <4> QED
        BY <4>1, <4>2
    <3>5. CASE LoadUser(r)
      <4>1. CASE owner[req[r].token] \in account
        BY <3>5, <4>1 DEF LoadUser, At, Goto, Request, PC, tables, tokens, history
      <4>2. CASE owner[req[r].token] \notin account
        BY <3>5, <4>2 DEF LoadUser, At, Answer, tables, tokens, history
      <4> QED
        BY <4>1, <4>2
    <3>6. CASE Rotate(r)
      BY <3>6, FreshJtiIsFresh DEF Rotate, At, Mint, Request, PC, history
    <3>7. CASE LogoutRevoke(r)
      BY <3>7 DEF LogoutRevoke, At, Request, PC, tokens, history
    <3>8. CASE DeliverLogout(r)
      BY <3>8 DEF DeliverLogout, At, Answer, tables, tokens, history
    <3>9. CASE EraseRow(r)
      BY <3>9, SettleType DEF EraseRow, tokens, Query
    <3>10. CASE EraseToken(r)
      BY <3>10, SettleType DEF EraseToken, tokens, Query
    <3> QED
      BY <2>1, <3>1, <3>2, <3>3, <3>4, <3>5, <3>6, <3>7, <3>8, <3>9, <3>10 DEF Serve
  <2>2. ASSUME NEW r \in Requests, Fault(r)
        PROVE  TypeOK'
    <3>1. CASE LoseReply(r)
      BY <3>1, MaxMishapsAssumption DEF LoseReply, Answer, Mishap, tables, tokens, history
    <3>2. CASE QueryFails(r)
      BY <3>2, MaxMishapsAssumption DEF QueryFails, Answer, Mishap, tables, tokens, history
    <3>3. CASE LogoutRevokeFails(r)
      BY <3>3, MaxMishapsAssumption
         DEF LogoutRevokeFails, At, Mishap, Request, PC, tables, tokens, history
    <3>4. ASSUME NEW q \in Query, EraseFails(r, q)
          PROVE  TypeOK'
      <4>1. /\ req[r].token \in Jtis
            /\ req' \in [Requests -> Request]
            /\ \A s \in Requests : Equipped(req'[s])
            /\ terminated' \subseteq Jtis
        BY <3>4, SettleType DEF EraseFails
      <4> QED
        BY <3>4, <4>1, MaxMishapsAssumption DEF EraseFails, Mishap, tables, tokens
    <3> QED
      BY <2>2, <3>1, <3>2, <3>3, <3>4 DEF Fault
  <2>3. ASSUME NEW r \in Requests, Ask(r)
        PROVE  TypeOK'
    <3>1. ASSUME NEW d \in Devices, RefreshStart(r, d)
          PROVE  TypeOK'
      BY <3>1 DEF RefreshStart, Start, At, Idle, Request, PC, tables, tokens, history
    <3>2. ASSUME NEW d \in Devices, LogoutStart(r, d)
          PROVE  TypeOK'
      <4> DEFINE bare == [Idle EXCEPT !.pc = "clear", !.device = d]
                 full == [Idle EXCEPT !.pc = "logout", !.device = d, !.token = cookie[d]]
      <4>1. bare \in Request /\ Equipped(bare)
        BY DEF Idle, Request, PC, Query
      <4>2. cookie[d] # None => full \in Request /\ Equipped(full)
        BY DEF Idle, Request, PC, Query
      <4>3. \E q \in Request : Equipped(q) /\ req' = [req EXCEPT ![r] = q]
        <5>1. CASE cookie[d] \in {None} \cup expired
          BY <3>2, <4>1, <5>1 DEF LogoutStart, Start
        <5>2. CASE cookie[d] \notin {None} \cup expired
          BY <3>2, <4>2, <5>2 DEF LogoutStart, Start
        <5> QED
          BY <5>1, <5>2
      <4> QED
        BY <3>2, <4>3 DEF LogoutStart, tables, tokens, history
    <3>3. ASSUME NEW d \in Devices, NEW u \in Users, IssueSession(r, d, u)
          PROVE  TypeOK'
      BY <3>3, FreshJtiIsFresh
         DEF IssueSession, Mint, Start, At, Idle, Request, PC, tables, history
    <3>4. ASSUME NEW u \in Users, NEW j \in Jtis, TerminateStart(r, u, j)
          PROVE  TypeOK'
      BY <3>4 DEF TerminateStart, Start, At, Idle, Request, PC, Query, tables, tokens, history
    <3> QED
      BY <2>3, <3>1, <3>2, <3>3, <3>4 DEF Ask
  <2>4. ASSUME NEW j \in Jtis, Sweep(j) \/ SweepFails(j) \/ Expire(j)
        PROVE  TypeOK'
    BY <2>4, MaxMishapsAssumption
       DEF Sweep, SweepFails, Expire, Mishap, tables, tokens, history
  <2>5. ASSUME NEW r \in Requests, NEW u \in Users, NEW d \in Devices,
             DeleteAccount(r, u, d)
        PROVE  TypeOK'
    <3> DEFINE bare == [Idle EXCEPT !.pc = "clear", !.device = d]
    <3>1. bare \in Request /\ Equipped(bare)
      BY DEF Idle, Request, PC, Query
    <3>2. req' = [req EXCEPT ![r] = bare]
      BY <2>5 DEF DeleteAccount, Start
    <3>3. req' \in [Requests -> Request] /\ \A s \in Requests : Equipped(req'[s])
      <4> HIDE DEF bare
      <4> QED
        BY <3>1, <3>2
    <3> QED
      BY <2>5, <3>3, MaxMishapsAssumption DEF DeleteAccount, Mishap, tokens, history
  <2>6. CASE Crash
    <3>1. {req[r].token : r \in {s \in Requests : At(s, "erase")}} \subseteq Jtis
      BY DEF At
    <3> QED
      BY <2>6, <3>1, MaxMishapsAssumption DEF Crash, Mishap, tables, tokens
  <2>7. CASE UNCHANGED vars
    BY <2>7 DEF vars, tables, tokens, history
  <2> QED
    BY <2>1, <2>2, <2>3, <2>4, <2>5, <2>6, <2>7 DEF Next
<1> QED
  BY <1>1, <1>2, PTL DEF Spec

-----------------------------------------------------------------------------
(* The inductive invariant *)

\* The user finds j in the list of sessions, or a failed write is to blame, or
\* the row is on its way out together with the token.
Listed(j) == j \in rows \cup unlisted \/ BeingTerminated(j)

\* Every token some table, cookie or request names has been minted, so that a
\* fresh one is none of them.
NamesAreMinted ==
  /\ \A j \in Jtis : owner[j] = None => parent[j] = None
  /\ \A j \in rows \cup terminated : owner[j] # None
  /\ \A d \in Devices : cookie[d] # None => owner[cookie[d]] # None
  /\ \A r \in Requests :
       /\ req[r].pc \in {"record", "reply"} => owner[req[r].fresh] # None
       /\ At(r, "erase") => owner[req[r].token] # None

\* Until its row is written a token is known to one request only.  This is what
\* the await of recordSession buys.
RecordedBeforeUse ==
  \A r \in Requests : At(r, "record") =>
    LET f == req[r].fresh IN
      /\ f \notin rows \cup terminated
      /\ \A d \in Devices : cookie[d] # f
      /\ \A s \in Requests : At(s, "erase") => req[s].token # f
      /\ \A s \in Requests \ {r} : req[s].pc \in {"record", "reply"} => req[s].fresh # f

\* What a termination has done so far.
EraseProgress ==
  \A r \in Requests : At(r, "erase") =>
    LET q == req[r] IN
      /\ q.clean /\ "row" \notin q.todo => q.token \notin rows
      /\ q.clean /\ "token" \notin q.todo => q.token \in revoked
      /\ ~q.clean => q.token \in unlisted

RepliedIsListed ==
  \A r \in Requests : At(r, "reply") /\ Live(req[r].fresh) => Listed(req[r].fresh)

CookieIsListed ==
  \A d \in Devices : cookie[d] # None /\ Live(cookie[d]) => Listed(cookie[d])

IInv ==
  /\ TypeOK
  /\ ExchangedIsRevoked
  /\ TerminatedStaysDead
  /\ NamesAreMinted
  /\ RecordedBeforeUse
  /\ EraseProgress
  /\ sweep \subseteq revoked
  /\ RepliedIsListed
  /\ CookieIsListed

\* A step that issues nothing, ends no termination and removes no row keeps the
\* invariant: accounts only disappear and revocations only accumulate.
LEMMA QuietStep ==
  ASSUME IInv, TypeOK',
         account' \subseteq account, revoked \subseteq revoked',
         expired \subseteq expired', unlisted \subseteq unlisted',
         sweep' \subseteq sweep, UNCHANGED <<rows, owner, parent, terminated>>,
         \A d \in Devices : cookie'[d] \in {cookie[d], None},
         \A r \in Requests :
           \/ req'[r] = req[r]
           \/ ~At(r, "erase") /\ req'[r].pc \notin {"record", "reply", "erase"}
  PROVE  IInv'
<1> USE DEF IInv
<1>1. ExchangedIsRevoked' /\ TerminatedStaysDead' /\ (sweep \subseteq revoked)'
  BY DEF ExchangedIsRevoked, TerminatedStaysDead, TypeOK
<1>2. NamesAreMinted'
  BY DEF NamesAreMinted, At
<1>3. RecordedBeforeUse'
  BY NoneAssumption DEF RecordedBeforeUse, At, TypeOK, Equipped
<1>4. EraseProgress'
  BY DEF EraseProgress, At
<1>5. \A j \in Jtis : Live(j)' /\ Listed(j) => Live(j) /\ Listed(j)'
  BY DEF Live, Listed, BeingTerminated, At, TypeOK
<1>6. \A j \in Jtis : Live(j)' => Live(j)
  BY DEF Live, TypeOK
<1>7. RepliedIsListed'
  BY <1>5, <1>6 DEF RepliedIsListed, At, TypeOK, Equipped
<1>8. CookieIsListed'
  BY <1>5, <1>6 DEF CookieIsListed, TypeOK
<1> QED
  BY <1>1, <1>2, <1>3, <1>4, <1>7, <1>8

\* The invariant is inductive, given that types are.
LEMMA InductiveStep == IInv /\ TypeOK' /\ [Next]_vars => IInv'
<1> SUFFICES ASSUME IInv, TypeOK', [Next]_vars
             PROVE  IInv'
  OBVIOUS
<1> USE DEF IInv
<1>1. ASSUME NEW r \in Requests, Serve(r)
      PROVE  IInv'
  <2>1. CASE RecordSession(r)
    <3>1. ExchangedIsRevoked'
      BY <2>1
         DEF RecordSession, tables, tokens, history, At, Goto, TypeOK, Equipped, Request, ExchangedIsRevoked
    <3>2. TerminatedStaysDead'
      BY <2>1
         DEF RecordSession, tables, tokens, history, At, Goto, TypeOK, Equipped, Request, TerminatedStaysDead, RecordedBeforeUse
    <3>3. NamesAreMinted'
      BY <2>1
         DEF RecordSession, tables, tokens, history, At, Goto, TypeOK, Equipped, Request, NamesAreMinted
    <3>4. RecordedBeforeUse'
      BY <2>1
         DEF RecordSession, tables, tokens, history, At, Goto, TypeOK, Equipped, Request, RecordedBeforeUse
    <3>5. EraseProgress'
      BY <2>1
         DEF RecordSession, tables, tokens, history, At, Goto, TypeOK, Equipped, Request, EraseProgress, RecordedBeforeUse
    <3>6. (sweep \subseteq revoked)'
      BY <2>1
         DEF RecordSession, tables, tokens, history, At, Goto, TypeOK, Equipped, Request
    <3>7. RepliedIsListed'
      BY <2>1
         DEF RecordSession, tables, tokens, history, At, Goto, TypeOK, Equipped, Request, RepliedIsListed, Live, Listed, BeingTerminated
    <3>8. CookieIsListed'
      BY <2>1
         DEF RecordSession, tables, tokens, history, At, Goto, TypeOK, Equipped, Request, CookieIsListed, Live, Listed, BeingTerminated
    <3> QED
      BY <3>1, <3>2, <3>3, <3>4, <3>5, <3>6, <3>7, <3>8
  <2>2. CASE RecordFails(r)
    <3>1. ExchangedIsRevoked'
      BY <2>2
         DEF RecordFails, tables, tokens, history, At, Goto, TypeOK, Equipped, Request, ExchangedIsRevoked
    <3>2. TerminatedStaysDead'
      BY <2>2
         DEF RecordFails, tables, tokens, history, At, Goto, TypeOK, Equipped, Request, TerminatedStaysDead
    <3>3. NamesAreMinted'
      BY <2>2
         DEF RecordFails, tables, tokens, history, At, Goto, TypeOK, Equipped, Request, NamesAreMinted
    <3>4. RecordedBeforeUse'
      BY <2>2
         DEF RecordFails, tables, tokens, history, At, Goto, TypeOK, Equipped, Request, RecordedBeforeUse
    <3>5. EraseProgress'
      BY <2>2
         DEF RecordFails, tables, tokens, history, At, Goto, TypeOK, Equipped, Request, EraseProgress
    <3>6. (sweep \subseteq revoked)'
      BY <2>2
         DEF RecordFails, tables, tokens, history, At, Goto, TypeOK, Equipped, Request
    <3>7. RepliedIsListed'
      BY <2>2
         DEF RecordFails, tables, tokens, history, At, Goto, TypeOK, Equipped, Request, RepliedIsListed, Live, Listed, BeingTerminated
    <3>8. CookieIsListed'
      BY <2>2
         DEF RecordFails, tables, tokens, history, At, Goto, TypeOK, Equipped, Request, CookieIsListed, Live, Listed, BeingTerminated
    <3> QED
      BY <3>1, <3>2, <3>3, <3>4, <3>5, <3>6, <3>7, <3>8
  <2>3. CASE DeliverSession(r)
    <3>1. ExchangedIsRevoked'
      BY <2>3
         DEF DeliverSession, tables, tokens, history, At, Answer, Idle, TypeOK, Equipped, Request, ExchangedIsRevoked
    <3>2. TerminatedStaysDead'
      BY <2>3
         DEF DeliverSession, tables, tokens, history, At, Answer, Idle, TypeOK, Equipped, Request, TerminatedStaysDead
    <3>3. NamesAreMinted'
      BY <2>3
         DEF DeliverSession, tables, tokens, history, At, Answer, Idle, TypeOK, Equipped, Request, NamesAreMinted
    <3>4. RecordedBeforeUse'
      BY <2>3
         DEF DeliverSession, tables, tokens, history, At, Answer, Idle, TypeOK, Equipped, Request, RecordedBeforeUse
    <3>5. EraseProgress'
      BY <2>3
         DEF DeliverSession, tables, tokens, history, At, Answer, Idle, TypeOK, Equipped, Request, EraseProgress
    <3>6. (sweep \subseteq revoked)'
      BY <2>3
         DEF DeliverSession, tables, tokens, history, At, Answer, Idle, TypeOK, Equipped, Request
    <3>7. RepliedIsListed'
      BY <2>3
         DEF DeliverSession, tables, tokens, history, At, Answer, Idle, TypeOK, Equipped, Request, RepliedIsListed, Live, Listed, BeingTerminated
    <3>8. CookieIsListed'
      BY <2>3
         DEF DeliverSession, tables, tokens, history, At, Answer, Idle, TypeOK, Equipped, Request, CookieIsListed, RepliedIsListed, Live, Listed, BeingTerminated
    <3> QED
      BY <3>1, <3>2, <3>3, <3>4, <3>5, <3>6, <3>7, <3>8
  <2>4. CASE Rotate(r)
    <3>1. ExchangedIsRevoked'
      BY <2>4, FreshJtiIsFresh, NoneAssumption
         DEF Rotate, tables, tokens, history, At, Mint, TypeOK, Equipped, Request, ExchangedIsRevoked
    <3>2. TerminatedStaysDead'
      BY <2>4, FreshJtiIsFresh, NoneAssumption
         DEF Rotate, tables, tokens, history, At, Mint, TypeOK, Equipped, Request, TerminatedStaysDead
    <3>3. NamesAreMinted'
      BY <2>4, FreshJtiIsFresh, NoneAssumption
         DEF Rotate, tables, tokens, history, At, Mint, TypeOK, Equipped, Request, NamesAreMinted
    <3>4. RecordedBeforeUse'
      BY <2>4, FreshJtiIsFresh, NoneAssumption
         DEF Rotate, tables, tokens, history, At, Mint, TypeOK, Equipped, Request, RecordedBeforeUse, NamesAreMinted
    <3>5. EraseProgress'
      BY <2>4, FreshJtiIsFresh, NoneAssumption
         DEF Rotate, tables, tokens, history, At, Mint, TypeOK, Equipped, Request, EraseProgress
    <3>6. (sweep \subseteq revoked)'
      BY <2>4, FreshJtiIsFresh, NoneAssumption
         DEF Rotate, tables, tokens, history, At, Mint, TypeOK, Equipped, Request
    <3>7. RepliedIsListed'
      BY <2>4, FreshJtiIsFresh, NoneAssumption
         DEF Rotate, tables, tokens, history, At, Mint, TypeOK, Equipped, Request, RepliedIsListed, NamesAreMinted, Live, Listed, BeingTerminated
    <3>8. CookieIsListed'
      BY <2>4, FreshJtiIsFresh, NoneAssumption
         DEF Rotate, tables, tokens, history, At, Mint, TypeOK, Equipped, Request, CookieIsListed, NamesAreMinted, Live, Listed, BeingTerminated
    <3> QED
      BY <3>1, <3>2, <3>3, <3>4, <3>5, <3>6, <3>7, <3>8
  <2>5. CASE EraseRow(r)
    <3>1. ExchangedIsRevoked'
      BY <2>5
         DEF EraseRow, tables, tokens, history, At, Settle, Query, Idle, TypeOK, Equipped, Request, ExchangedIsRevoked
    <3>2. TerminatedStaysDead'
      BY <2>5
         DEF EraseRow, tables, tokens, history, At, Settle, Query, Idle, TypeOK, Equipped, Request, TerminatedStaysDead, EraseProgress
    <3>3. NamesAreMinted'
      BY <2>5
         DEF EraseRow, tables, tokens, history, At, Settle, Query, Idle, TypeOK, Equipped, Request, NamesAreMinted
    <3>4. RecordedBeforeUse'
      BY <2>5
         DEF EraseRow, tables, tokens, history, At, Settle, Query, Idle, TypeOK, Equipped, Request, RecordedBeforeUse
    <3>5. EraseProgress'
      BY <2>5
         DEF EraseRow, tables, tokens, history, At, Settle, Query, Idle, TypeOK, Equipped, Request, EraseProgress
    <3>6. (sweep \subseteq revoked)'
      BY <2>5
         DEF EraseRow, tables, tokens, history, At, Settle, Query, Idle, TypeOK, Equipped, Request
    <3>7. RepliedIsListed'
      BY <2>5
         DEF EraseRow, tables, tokens, history, At, Settle, Query, Idle, TypeOK, Equipped, Request, RepliedIsListed, EraseProgress, Live, Listed, BeingTerminated
    <3>8. CookieIsListed'
      BY <2>5
         DEF EraseRow, tables, tokens, history, At, Settle, Query, Idle, TypeOK, Equipped, Request, CookieIsListed, EraseProgress, Live, Listed, BeingTerminated
    <3> QED
      BY <3>1, <3>2, <3>3, <3>4, <3>5, <3>6, <3>7, <3>8
  <2>6. CASE EraseToken(r)
    <3>1. ExchangedIsRevoked'
      BY <2>6
         DEF EraseToken, tables, tokens, history, At, Settle, Query, Idle, TypeOK, Equipped, Request, ExchangedIsRevoked
    <3>2. TerminatedStaysDead'
      BY <2>6
         DEF EraseToken, tables, tokens, history, At, Settle, Query, Idle, TypeOK, Equipped, Request, TerminatedStaysDead, EraseProgress
    <3>3. NamesAreMinted'
      BY <2>6
         DEF EraseToken, tables, tokens, history, At, Settle, Query, Idle, TypeOK, Equipped, Request, NamesAreMinted
    <3>4. RecordedBeforeUse'
      BY <2>6
         DEF EraseToken, tables, tokens, history, At, Settle, Query, Idle, TypeOK, Equipped, Request, RecordedBeforeUse
    <3>5. EraseProgress'
      BY <2>6
         DEF EraseToken, tables, tokens, history, At, Settle, Query, Idle, TypeOK, Equipped, Request, EraseProgress
    <3>6. (sweep \subseteq revoked)'
      BY <2>6
         DEF EraseToken, tables, tokens, history, At, Settle, Query, Idle, TypeOK, Equipped, Request
    <3>7. RepliedIsListed'
      BY <2>6
         DEF EraseToken, tables, tokens, history, At, Settle, Query, Idle, TypeOK, Equipped, Request, RepliedIsListed, EraseProgress, Live, Listed, BeingTerminated
    <3>8. CookieIsListed'
      BY <2>6
         DEF EraseToken, tables, tokens, history, At, Settle, Query, Idle, TypeOK, Equipped, Request, CookieIsListed, EraseProgress, Live, Listed, BeingTerminated
    <3> QED
      BY <3>1, <3>2, <3>3, <3>4, <3>5, <3>6, <3>7, <3>8
  <2>7. CASE CheckRevoked(r)
    BY <2>7, QuietStep DEF CheckRevoked, At, Goto, Answer, Idle, TypeOK, Request, tables, tokens, history
  <2>8. CASE LoadUser(r)
    BY <2>8, QuietStep DEF LoadUser, At, Goto, Answer, Idle, TypeOK, Request, tables, tokens, history
  <2>9. CASE LogoutRevoke(r)
    BY <2>9, QuietStep DEF LogoutRevoke, At, TypeOK, Request, tokens, history
  <2>10. CASE DeliverLogout(r)
    BY <2>10, QuietStep DEF DeliverLogout, At, Answer, Idle, TypeOK, tables, tokens, history
  <2> QED
    BY <1>1, <2>1, <2>2, <2>3, <2>4, <2>5, <2>6, <2>7, <2>8, <2>9, <2>10 DEF Serve
<1>2. ASSUME NEW r \in Requests, Fault(r)
      PROVE  IInv'
  <2>1. CASE LoseReply(r) \/ QueryFails(r)
    BY <2>1, QuietStep
       DEF LoseReply, QueryFails, At, Answer, Idle, TypeOK, tables, tokens, history
  <2>3. CASE LogoutRevokeFails(r)
    BY <2>3, QuietStep DEF LogoutRevokeFails, At, TypeOK, Request, tables, tokens, history
  <2>2. ASSUME NEW q \in Query, EraseFails(r, q)
        PROVE  IInv'
    <3>1. ExchangedIsRevoked'
      BY <2>2
         DEF EraseFails, tables, tokens, history, At, Settle, Query, Idle, TypeOK, Equipped, Request, ExchangedIsRevoked
    <3>2. TerminatedStaysDead'
      BY <2>2
         DEF EraseFails, tables, tokens, history, At, Settle, Query, Idle, TypeOK, Equipped, Request, TerminatedStaysDead
    <3>3. NamesAreMinted'
      BY <2>2
         DEF EraseFails, tables, tokens, history, At, Settle, Query, Idle, TypeOK, Equipped, Request, NamesAreMinted
    <3>4. RecordedBeforeUse'
      BY <2>2
         DEF EraseFails, tables, tokens, history, At, Settle, Query, Idle, TypeOK, Equipped, Request, RecordedBeforeUse
    <3>5. EraseProgress'
      <4>1. CASE req[r].todo = {q}
        BY <2>2, <4>1 DEF EraseFails, tables, tokens, At, Settle, Idle, TypeOK, EraseProgress
      <4>2. CASE req[r].todo # {q}
        <5>1. req' = [req EXCEPT ![r].todo = @ \ {q}, ![r].clean = FALSE]
          BY <2>2, <4>2 DEF EraseFails, Settle, TypeOK, Request
        <5> QED
          BY <2>2, <5>1
             DEF EraseFails, tables, tokens, At, Settle, TypeOK, Equipped, Request,
                 EraseProgress
      <4> QED
        BY <4>1, <4>2
    <3>6. (sweep \subseteq revoked)'
      BY <2>2
         DEF EraseFails, tables, tokens, history, At, Settle, Query, Idle, TypeOK, Equipped, Request
    <3>7. RepliedIsListed'
      BY <2>2
         DEF EraseFails, tables, tokens, history, At, Settle, Query, Idle, TypeOK, Equipped, Request, RepliedIsListed, Live, Listed, BeingTerminated
    <3>8. CookieIsListed'
      BY <2>2
         DEF EraseFails, tables, tokens, history, At, Settle, Query, Idle, TypeOK, Equipped, Request, CookieIsListed, Live, Listed, BeingTerminated
    <3> QED
      BY <3>1, <3>2, <3>3, <3>4, <3>5, <3>6, <3>7, <3>8
  <2> QED
    BY <1>2, <2>1, <2>2, <2>3 DEF Fault
<1>3. ASSUME NEW r \in Requests, Ask(r)
      PROVE  IInv'
  <2>1. ASSUME NEW d \in Devices, RefreshStart(r, d) \/ LogoutStart(r, d)
        PROVE  IInv'
    <3>1. CASE RefreshStart(r, d)
      BY <3>1, QuietStep
         DEF RefreshStart, Start, At, Idle, TypeOK, tables, tokens, history
    <3>2. CASE LogoutStart(r, d)
      BY <3>2, QuietStep
         DEF LogoutStart, Start, At, Idle, TypeOK, tables, tokens, history
    <3> QED
      BY <2>1, <3>1, <3>2
  <2>2. ASSUME NEW d \in Devices, NEW u \in Users, IssueSession(r, d, u)
        PROVE  IInv'
    <3>1. ExchangedIsRevoked'
      BY <2>2, FreshJtiIsFresh, NoneAssumption
         DEF IssueSession, tables, tokens, history, At, Mint, Start, Idle, TypeOK, Equipped, Request, ExchangedIsRevoked
    <3>2. TerminatedStaysDead'
      BY <2>2, FreshJtiIsFresh, NoneAssumption
         DEF IssueSession, tables, tokens, history, At, Mint, Start, Idle, TypeOK, Equipped, Request, TerminatedStaysDead
    <3>3. NamesAreMinted'
      BY <2>2, FreshJtiIsFresh, NoneAssumption
         DEF IssueSession, tables, tokens, history, At, Mint, Start, Idle, TypeOK, Equipped, Request, NamesAreMinted
    <3>4. RecordedBeforeUse'
      BY <2>2, FreshJtiIsFresh, NoneAssumption
         DEF IssueSession, tables, tokens, history, At, Mint, Start, Idle, TypeOK, Equipped, Request, RecordedBeforeUse, NamesAreMinted
    <3>5. EraseProgress'
      BY <2>2, FreshJtiIsFresh, NoneAssumption
         DEF IssueSession, tables, tokens, history, At, Mint, Start, Idle, TypeOK, Equipped, Request, EraseProgress
    <3>6. (sweep \subseteq revoked)'
      BY <2>2, FreshJtiIsFresh, NoneAssumption
         DEF IssueSession, tables, tokens, history, At, Mint, Start, Idle, TypeOK, Equipped, Request
    <3>7. RepliedIsListed'
      BY <2>2, FreshJtiIsFresh, NoneAssumption
         DEF IssueSession, tables, tokens, history, At, Mint, Start, Idle, TypeOK, Equipped, Request, RepliedIsListed, NamesAreMinted, Live, Listed, BeingTerminated
    <3>8. CookieIsListed'
      BY <2>2, FreshJtiIsFresh, NoneAssumption
         DEF IssueSession, tables, tokens, history, At, Mint, Start, Idle, TypeOK, Equipped, Request, CookieIsListed, NamesAreMinted, Live, Listed, BeingTerminated
    <3> QED
      BY <3>1, <3>2, <3>3, <3>4, <3>5, <3>6, <3>7, <3>8
  <2>3. ASSUME NEW u \in Users, NEW j \in Jtis, TerminateStart(r, u, j)
        PROVE  IInv'
    <3>1. ExchangedIsRevoked'
      BY <2>3, NoneAssumption
         DEF TerminateStart, tables, tokens, history, At, Start, Idle, Query, TypeOK, Equipped, Request, ExchangedIsRevoked
    <3>2. TerminatedStaysDead'
      BY <2>3, NoneAssumption
         DEF TerminateStart, tables, tokens, history, At, Start, Idle, Query, TypeOK, Equipped, Request, TerminatedStaysDead
    <3>3. NamesAreMinted'
      BY <2>3, NoneAssumption
         DEF TerminateStart, tables, tokens, history, At, Start, Idle, Query, TypeOK, Equipped, Request, NamesAreMinted
    <3>4. RecordedBeforeUse'
      BY <2>3, NoneAssumption
         DEF TerminateStart, tables, tokens, history, At, Start, Idle, Query, TypeOK, Equipped, Request, RecordedBeforeUse
    <3>5. EraseProgress'
      BY <2>3, NoneAssumption
         DEF TerminateStart, tables, tokens, history, At, Start, Idle, Query, TypeOK, Equipped, Request, EraseProgress
    <3>6. (sweep \subseteq revoked)'
      BY <2>3, NoneAssumption
         DEF TerminateStart, tables, tokens, history, At, Start, Idle, Query, TypeOK, Equipped, Request
    <3>7. RepliedIsListed'
      BY <2>3, NoneAssumption
         DEF TerminateStart, tables, tokens, history, At, Start, Idle, Query, TypeOK, Equipped, Request, RepliedIsListed, Live, Listed, BeingTerminated
    <3>8. CookieIsListed'
      BY <2>3, NoneAssumption
         DEF TerminateStart, tables, tokens, history, At, Start, Idle, Query, TypeOK, Equipped, Request, CookieIsListed, Live, Listed, BeingTerminated
    <3> QED
      BY <3>1, <3>2, <3>3, <3>4, <3>5, <3>6, <3>7, <3>8
  <2> QED
    BY <1>3, <2>1, <2>2, <2>3 DEF Ask
<1>4. ASSUME NEW j \in Jtis, Sweep(j)
      PROVE  IInv'
  <2>1. ExchangedIsRevoked'
    BY <1>4
       DEF Sweep, tables, tokens, history, At, TypeOK, Equipped, Request, ExchangedIsRevoked
  <2>2. TerminatedStaysDead'
    BY <1>4
       DEF Sweep, tables, tokens, history, At, TypeOK, Equipped, Request, TerminatedStaysDead
  <2>3. NamesAreMinted'
    BY <1>4
       DEF Sweep, tables, tokens, history, At, TypeOK, Equipped, Request, NamesAreMinted
  <2>4. RecordedBeforeUse'
    BY <1>4
       DEF Sweep, tables, tokens, history, At, TypeOK, Equipped, Request, RecordedBeforeUse
  <2>5. EraseProgress'
    BY <1>4
       DEF Sweep, tables, tokens, history, At, TypeOK, Equipped, Request, EraseProgress
  <2>6. (sweep \subseteq revoked)'
    BY <1>4
       DEF Sweep, tables, tokens, history, At, TypeOK, Equipped, Request
  <2>7. RepliedIsListed'
    BY <1>4
       DEF Sweep, tables, tokens, history, At, TypeOK, Equipped, Request, RepliedIsListed, Live, Listed, BeingTerminated
  <2>8. CookieIsListed'
    BY <1>4
       DEF Sweep, tables, tokens, history, At, TypeOK, Equipped, Request, CookieIsListed, Live, Listed, BeingTerminated
  <2> QED
    BY <2>1, <2>2, <2>3, <2>4, <2>5, <2>6, <2>7, <2>8
<1>5. ASSUME NEW j \in Jtis, SweepFails(j) \/ Expire(j)
      PROVE  IInv'
  BY <1>5, QuietStep DEF SweepFails, Expire, tables, tokens, history
<1>6. ASSUME NEW r \in Requests, NEW u \in Users, NEW d \in Devices,
             DeleteAccount(r, u, d)
      PROVE  IInv'
  <2>1. ExchangedIsRevoked'
    BY <1>6
       DEF DeleteAccount, Start, Idle, tables, tokens, history, At, TypeOK, Equipped, Request, ExchangedIsRevoked
  <2>2. TerminatedStaysDead'
    BY <1>6
       DEF DeleteAccount, Start, Idle, tables, tokens, history, At, TypeOK, Equipped, Request, TerminatedStaysDead
  <2>3. NamesAreMinted'
    BY <1>6
       DEF DeleteAccount, Start, Idle, tables, tokens, history, At, TypeOK, Equipped, Request, NamesAreMinted
  <2>4. RecordedBeforeUse'
    BY <1>6
       DEF DeleteAccount, Start, Idle, tables, tokens, history, At, TypeOK, Equipped, Request, RecordedBeforeUse
  <2>5. EraseProgress'
    BY <1>6
       DEF DeleteAccount, Start, Idle, tables, tokens, history, At, TypeOK, Equipped, Request, EraseProgress
  <2>6. (sweep \subseteq revoked)'
    BY <1>6
       DEF DeleteAccount, Start, Idle, tables, tokens, history, At, TypeOK, Equipped, Request
  <2>7. RepliedIsListed'
    BY <1>6
       DEF DeleteAccount, Start, Idle, tables, tokens, history, At, TypeOK, Equipped, Request, RepliedIsListed, Live, Listed, BeingTerminated
  <2>8. CookieIsListed'
    BY <1>6
       DEF DeleteAccount, Start, Idle, tables, tokens, history, At, TypeOK, Equipped, Request, CookieIsListed, Live, Listed, BeingTerminated
  <2> QED
    BY <2>1, <2>2, <2>3, <2>4, <2>5, <2>6, <2>7, <2>8
<1>7. CASE Crash
  <2>1. ExchangedIsRevoked'
    BY <1>7
       DEF Crash, tables, tokens, history, At, Idle, TypeOK, Equipped, Request, ExchangedIsRevoked
  <2>2. TerminatedStaysDead'
    BY <1>7
       DEF Crash, tables, tokens, history, At, Idle, TypeOK, Equipped, Request, TerminatedStaysDead
  <2>3. NamesAreMinted'
    BY <1>7
       DEF Crash, tables, tokens, history, At, Idle, TypeOK, Equipped, Request, NamesAreMinted
  <2>4. RecordedBeforeUse'
    BY <1>7
       DEF Crash, tables, tokens, history, At, Idle, TypeOK, Equipped, Request, RecordedBeforeUse
  <2>5. EraseProgress'
    BY <1>7
       DEF Crash, tables, tokens, history, At, Idle, TypeOK, Equipped, Request, EraseProgress
  <2>6. (sweep \subseteq revoked)'
    BY <1>7
       DEF Crash, tables, tokens, history, At, Idle, TypeOK, Equipped, Request
  <2>7. RepliedIsListed'
    BY <1>7
       DEF Crash, tables, tokens, history, At, Idle, TypeOK, Equipped, Request, RepliedIsListed, Live, Listed, BeingTerminated
  <2>8. CookieIsListed'
    BY <1>7
       DEF Crash, tables, tokens, history, At, Idle, TypeOK, Equipped, Request, CookieIsListed, Live, Listed, BeingTerminated
  <2> QED
    BY <2>1, <2>2, <2>3, <2>4, <2>5, <2>6, <2>7, <2>8
<1>8. CASE UNCHANGED vars
  BY <1>8, QuietStep DEF vars, tables, tokens, history
<1> QED
  BY <1>1, <1>2, <1>3, <1>4, <1>5, <1>6, <1>7, <1>8 DEF Next

LEMMA InitialInvariant == Init => IInv
  BY MaxMishapsAssumption, IdleIsRequest, NoneAssumption
     DEF Init, IInv, TypeOK, Equipped, Idle, At, ExchangedIsRevoked, TerminatedStaysDead,
         NamesAreMinted, RecordedBeforeUse, EraseProgress, RepliedIsListed, CookieIsListed

LEMMA Invariance == Spec => []IInv
<1>1. Init => IInv
  BY InitialInvariant
<1>2. IInv /\ TypeOK /\ TypeOK' /\ [Next]_vars => IInv'
  BY InductiveStep
<1> QED
  BY <1>1, <1>2, TypeCorrect, PTL DEF Spec

\* Whatever was issued in exchange for a token, the token is revoked (auth.js,
\* /refresh).
THEOREM ExchangeRevokes == Spec => []ExchangedIsRevoked
<1>1. IInv => ExchangedIsRevoked
  BY DEF IInv
<1> QED
  BY <1>1, Invariance, PTL

\* A browser with a live token has a row in the user's list of sessions, up to
\* failed writes (auth.js, recordSession).
THEOREM HeldSessionsAreListed == Spec => []HeldIsListed
<1>1. IInv => HeldIsListed
  BY DEF IInv, CookieIsListed, Listed, HeldIsListed
<1> QED
  BY <1>1, Invariance, PTL

\* A session that was terminated stays so (users.js, DELETE /me/sessions/:jti).
THEOREM TerminationIsFinal == Spec => []TerminatedStaysDead
<1>1. IInv => TerminatedStaysDead
  BY DEF IInv
<1> QED
  BY <1>1, Invariance, PTL

\* When one query of a termination settles, that request stays in it or ends.
LEMMA SettleMoves ==
  ASSUME TypeOK, NEW r \in Requests, NEW q \in Query, NEW ok \in BOOLEAN,
         Settle(r, q, ok)
  PROVE  \A s \in Requests : req'[s] = req[s] \/ req'[s].pc \in {"idle", "erase"}
  BY DEF Settle, At, Idle, TypeOK, Request

\* Nothing is issued for a revoked token once the refreshes already past the
\* check are over (auth.js, /refresh, /logout; users.js, DELETE /me/sessions).
THEOREM RevocationIsFinal == Spec => NothingForRevoked
<1>1. ASSUME IInv, [Next]_vars, NEW j \in Jtis, j \in revoked, ~PastCheck(j)
      PROVE  ~PastCheck(j)' /\ Issued(j)' = Issued(j)
  <2> USE <1>1 DEF IInv
  <2> DEFINE Frame == /\ parent' = parent
                      /\ \A s \in Requests :
                           req'[s] = req[s] \/ req'[s].pc \notin {"load", "rotate"}
  <2>1. Frame => ~PastCheck(j)' /\ Issued(j)' = Issued(j)
    BY DEF PastCheck, Issued
  <2>2. ASSUME NEW r \in Requests, Serve(r)
        PROVE  ~PastCheck(j)' /\ Issued(j)' = Issued(j)
    <3>1. CASE RecordSession(r)
      BY <2>1, <3>1 DEF RecordSession, Goto, TypeOK, Request, tokens
    <3>2. CASE RecordFails(r)
      BY <2>1, <3>2 DEF RecordFails, Goto, TypeOK, Request, tokens
    <3>3. CASE DeliverSession(r)
      BY <2>1, <3>3 DEF DeliverSession, Answer, Idle, TypeOK, tokens
    <3>4. CASE CheckRevoked(r)
      <4>1. CASE req[r].token \in revoked
        BY <2>1, <3>4, <4>1 DEF CheckRevoked, Answer, Idle, TypeOK, tokens
      <4>2. CASE req[r].token \notin revoked
        BY <3>4, <4>2 DEF CheckRevoked, Goto, PastCheck, Issued, TypeOK, Request, tokens
      <4> QED
        BY <4>1, <4>2
    <3>5. CASE LoadUser(r)
      <4>1. At(r, "load") /\ req[r].token # j
        BY <3>5 DEF LoadUser, At, PastCheck
      <4>2. \A s \in Requests : req'[s] = req[s] \/ req'[s].token # j
        BY <3>5, <4>1, NoneAssumption DEF LoadUser, Goto, Answer, Idle, TypeOK, Request
      <4>3. parent' = parent
        BY <3>5 DEF LoadUser, tokens
      <4> QED
        BY <4>2, <4>3 DEF PastCheck, Issued
    <3>6. CASE Rotate(r)
      <4>1. At(r, "rotate") /\ req[r].token # j
        BY <3>6 DEF Rotate, At, PastCheck
      <4>2. \A s \in Requests : req'[s] = req[s] \/ req'[s].pc = "record"
        BY <3>6 DEF Rotate, TypeOK, Request
      <4>3. FreshJti \in Jtis /\ parent[FreshJti] = None
        BY <3>6, FreshJtiIsFresh DEF Rotate, Mint, NamesAreMinted
      <4>4. parent' = [parent EXCEPT ![FreshJti] = req[r].token]
        BY <3>6 DEF Rotate, Mint
      <4>5. Issued(j)' = Issued(j)
        BY <4>1, <4>3, <4>4, NoneAssumption DEF Issued, TypeOK
      <4> QED
        BY <4>2, <4>5 DEF PastCheck
    <3>7. CASE LogoutRevoke(r)
      BY <2>1, <3>7 DEF LogoutRevoke, TypeOK, Request, tokens
    <3>8. CASE DeliverLogout(r)
      BY <2>1, <3>8 DEF DeliverLogout, Answer, Idle, TypeOK, tokens
    <3>9. CASE EraseRow(r)
      BY <2>1, <3>9, SettleMoves DEF EraseRow, Query, tokens
    <3>10. CASE EraseToken(r)
      BY <2>1, <3>10, SettleMoves DEF EraseToken, Query, tokens
    <3> QED
      BY <2>2, <3>1, <3>2, <3>3, <3>4, <3>5, <3>6, <3>7, <3>8, <3>9, <3>10 DEF Serve
  <2>3. ASSUME NEW r \in Requests, Fault(r)
        PROVE  ~PastCheck(j)' /\ Issued(j)' = Issued(j)
    <3>1. CASE LoseReply(r) \/ QueryFails(r)
      BY <2>1, <3>1 DEF LoseReply, QueryFails, Answer, Idle, TypeOK, tokens
    <3>2. CASE LogoutRevokeFails(r)
      BY <2>1, <3>2 DEF LogoutRevokeFails, TypeOK, Request, tokens
    <3>3. ASSUME NEW q \in Query, EraseFails(r, q)
          PROVE  ~PastCheck(j)' /\ Issued(j)' = Issued(j)
      BY <2>1, <3>3, SettleMoves DEF EraseFails, tokens
    <3> QED
      BY <2>3, <3>1, <3>2, <3>3 DEF Fault
  <2>4. ASSUME NEW r \in Requests, Ask(r)
        PROVE  ~PastCheck(j)' /\ Issued(j)' = Issued(j)
    <3>1. ASSUME NEW d \in Devices, RefreshStart(r, d) \/ LogoutStart(r, d)
          PROVE  ~PastCheck(j)' /\ Issued(j)' = Issued(j)
      BY <2>1, <3>1 DEF RefreshStart, LogoutStart, Start, Idle, TypeOK, tokens
    <3>2. ASSUME NEW d \in Devices, NEW u \in Users, IssueSession(r, d, u)
          PROVE  ~PastCheck(j)' /\ Issued(j)' = Issued(j)
      <4>1. FreshJti \in Jtis /\ parent[FreshJti] = None
        BY <3>2, FreshJtiIsFresh DEF IssueSession, Mint, NamesAreMinted
      <4> QED
        BY <2>1, <3>2, <4>1 DEF IssueSession, Mint, Start, Idle, TypeOK
    <3>3. ASSUME NEW u \in Users, NEW k \in Jtis, TerminateStart(r, u, k)
          PROVE  ~PastCheck(j)' /\ Issued(j)' = Issued(j)
      BY <2>1, <3>3 DEF TerminateStart, Start, Idle, TypeOK, tokens
    <3> QED
      BY <2>4, <3>1, <3>2, <3>3 DEF Ask
  <2>5. ASSUME NEW k \in Jtis, Sweep(k) \/ SweepFails(k) \/ Expire(k)
        PROVE  ~PastCheck(j)' /\ Issued(j)' = Issued(j)
    BY <2>1, <2>5 DEF Sweep, SweepFails, Expire, tokens
  <2>6. ASSUME NEW r \in Requests, NEW u \in Users, NEW d \in Devices,
             DeleteAccount(r, u, d)
        PROVE  ~PastCheck(j)' /\ Issued(j)' = Issued(j)
    BY <2>1, <2>6 DEF DeleteAccount, Start, Idle, TypeOK, tokens
  <2>7. CASE Crash
    BY <2>1, <2>7 DEF Crash, Idle, tokens
  <2>8. CASE UNCHANGED vars
    BY <2>1, <2>8 DEF vars, tokens
  <2> QED
    BY <2>2, <2>3, <2>4, <2>5, <2>6, <2>7, <2>8 DEF Next
<1>2. IInv /\ [Next]_vars
        => [\A j \in Jtis : j \in revoked /\ ~PastCheck(j)
              => ~PastCheck(j)' /\ Issued(j)' = Issued(j)]_vars
  BY <1>1
<1> QED
  BY <1>2, Invariance, PTL DEF Spec, NothingForRevoked
=============================================================================
