-------------------------- MODULE Requests_proofs --------------------------
(***************************************************************************)
(* Proofs about what surrounds the S3 core: who a request comes from, how   *)
(* often it may come, and what an operator's scripts do beside it:         *)
(*   SessionsAreSafe  who is signed in proved it, with what it owes;       *)
(*   SignersAreKnown  a request counts as its key's owner only when the    *)
(*                    owner signed it, for now and for this operation;     *)
(*   LimitsAreKept    a client is allowed its bucket and what comes back,  *)
(*                    and is refused for nobody else's requests;           *)
(*   OperatorsAreSafe deploys, rollbacks, backups and restores.            *)
(* They share no variable, and each has an invariant of its own.           *)
(***************************************************************************)
EXTENDS Sessions, SignedRequests, RateLimits, Deployment, FiniteSetTheorems, SequenceTheorems, TLAPS

(***************************************************************************)
(* Sessions.                                                               *)
(***************************************************************************)

Gone == [kind |-> "gone"]
AccountRow == [known : BOOLEAN, active : BOOLEAN, enabled : BOOLEAN, secret : Nat, stored : BOOLEAN, confirmed : BOOLEAN,
               set : Nat, codes : SUBSET (1..RecoveryCodes)]
SessionRow == [user : Person, flow : State, claims : Claims, owed : BOOLEAN, pending : BOOLEAN, proved : BOOLEAN,
               live : BOOLEAN]
Flow == {NoFlow, Gone} \cup [kind : {"login"}, created : Nat] \cup [kind : {"link"}, created : Nat, user : Person]
Held == {Free} \cup [kind : {"exchange"}, flow : State]
        \cup [kind : {"ensure"}, flow : State, user : Person, claims : Claims, owed : BOOLEAN]
        \cup [kind : {"link"}, flow : State, user : Person]
        \cup [kind : {"mfa", "confirm", "disable", "renew"}, session : Nat, user : Person]
Spent == [kind : {"recovery"}, user : Person, set : Nat, code : 1..RecoveryCodes]

ClockInv == step \in 0..MaxStep /\ stops \in 0..MaxStops /\ flows \in [State -> Flow]

AccountsInv ==
    /\ account \in [Person -> AccountRow]
    /\ \A p \in Person : account[p].enabled = (account[p].stored /\ account[p].confirmed)

\* What a session owes is owed or proved, and it is of a flow of its own that
\* is over, for the account of its token.
Earned(s) ==
    /\ s.owed => s.pending \/ s.proved
    /\ flows[s.flow] = Gone
    /\ s.claims.sub = s.user /\ Genuine(s.claims)
    /\ s.claims.hd = Workspace \/ s.claims.email \in Invited
SignInsInv ==
    /\ sessions \in Seq(SessionRow) /\ Len(sessions) <= MaxSessions
    /\ \A s \in 1..Len(sessions) : Earned(sessions[s])
    /\ \A s, r \in 1..Len(sessions) : s # r => sessions[r].flow # sessions[s].flow

\* A handler that will establish a session has taken its flow, and is the only
\* one to have it.
Takes(q) == q.kind \in {"exchange", "ensure"}
HandlersInv ==
    /\ handler \in [Handler -> Held]
    /\ \A h \in Handler : Takes(handler[h]) =>
         /\ flows[handler[h].flow] = Gone
         /\ \A s \in 1..Len(sessions) : sessions[s].flow # handler[h].flow
         /\ \A g \in Handler : g # h /\ Takes(handler[g]) => handler[g].flow # handler[h].flow
    /\ \A h \in Handler : handler[h].kind = "ensure" =>
         handler[h].claims.sub = handler[h].user /\ VerifyIdToken(handler[h].claims)
    /\ \A h \in Handler : handler[h].kind \in {"mfa", "confirm", "disable", "renew"} => handler[h].session \in 1..Len(sessions)

\* A code that worked is not of a set still to come, and is not in its set.
CodesInv ==
    /\ worked \in Seq(Spent)
    /\ \A i \in 1..Len(worked) :
         LET c == worked[i]
         IN  c.set <= account[c.user].set /\ (c.set = account[c.user].set => c.code \notin account[c.user].codes)
    /\ \A i, j \in 1..Len(worked) : i # j => worked[i] # worked[j]
    /\ \A i, j \in 1..Len(worked) : i < j /\ worked[i].user = worked[j].user => worked[i].set <= worked[j].set

SessionInv == ClockInv /\ AccountsInv /\ SignInsInv /\ HandlersInv /\ CodesInv

LEMMA SessionInitInv == SessionInit => SessionInv
  <1> SUFFICES ASSUME SessionInit PROVE SessionInv
    OBVIOUS
  <1>1. ClockInv
    BY SessionAssumption DEF SessionInit, ClockInv, Flow
  <1>2. AccountsInv
    BY DEF SessionInit, AccountsInv, NewAccount, AccountRow
  <1>3. sessions = <<>> /\ worked = <<>> /\ sessions \in Seq(SessionRow) /\ worked \in Seq(Spent) /\ Len(sessions) = 0 /\ Len(worked) = 0
    BY EmptySeq DEF SessionInit
  <1>4. SignInsInv
    BY <1>3, SessionAssumption DEF SignInsInv
  <1>5. HandlersInv
    BY <1>3 DEF SessionInit, HandlersInv, Held, Free, Takes
  <1>6. CodesInv
    BY <1>3 DEF CodesInv
  <1>7. QED
    BY <1>1, <1>2, <1>4, <1>5, <1>6 DEF SessionInv

-----------------------------------------------------------------------------
\* Flows that are over stay over.
StayOver == \A f \in State : flows[f] = Gone => flows'[f] = Gone

LEMMA SignInsKept ==
  ASSUME SessionInv, StayOver, UNCHANGED sessions
  PROVE  SignInsInv'
  <1>1. Len(sessions) \in Nat /\ \A s \in 1..Len(sessions) : sessions[s] \in SessionRow
    BY DEF SessionInv, SignInsInv
  <1>2. ASSUME NEW s \in 1..Len(sessions) PROVE Earned(sessions[s])'
    <2>1. Earned(sessions[s]) /\ sessions[s].flow \in State
      BY <1>1 DEF SessionInv, SignInsInv, SessionRow
    <2>2. QED
      BY <2>1 DEF Earned, StayOver
  <1>3. QED
    BY <1>2 DEF SessionInv, SignInsInv

\* Handlers end, go on, or become one that establishes nothing, while the
\* sessions stay what they are of.
Harmless(q) == ~Takes(q) /\ (q.kind \in {"mfa", "confirm", "disable", "renew"} => q.session \in 1..Len(sessions))

LEMMA HandlersKept ==
  ASSUME SessionInv, StayOver, Len(sessions') = Len(sessions),
         \A s \in 1..Len(sessions) : sessions'[s].flow = sessions[s].flow,
         handler' \in [Handler -> Held],
         \A h \in Handler : handler'[h] = handler[h] \/ Harmless(handler'[h])
  PROVE  HandlersInv'
  <1>1. \A h \in Handler : Takes(handler'[h]) => handler'[h] = handler[h] /\ handler[h].flow \in State
    BY DEF Harmless, Takes, SessionInv, HandlersInv, Held, Free
  <1>2. ASSUME NEW h \in Handler, Takes(handler'[h])
        PROVE  /\ flows'[handler'[h].flow] = Gone
               /\ \A s \in 1..Len(sessions) : sessions'[s].flow # handler'[h].flow
               /\ \A g \in Handler : g # h /\ Takes(handler'[g]) => handler'[g].flow # handler'[h].flow
    BY <1>1, <1>2 DEF SessionInv, HandlersInv, StayOver
  <1>3. ASSUME NEW h \in Handler, handler'[h].kind = "ensure"
        PROVE  handler'[h].claims.sub = handler'[h].user /\ VerifyIdToken(handler'[h].claims)
    <2>1. Takes(handler'[h])
      BY <1>3 DEF Takes
    <2>2. QED
      BY <2>1, <1>1, <1>3 DEF SessionInv, HandlersInv
  <1>4. ASSUME NEW h \in Handler, handler'[h].kind \in {"mfa", "confirm", "disable", "renew"}
        PROVE  handler'[h].session \in 1..Len(sessions)
    BY <1>4 DEF SessionInv, HandlersInv, Harmless
  <1>5. QED
    BY <1>2, <1>3, <1>4 DEF HandlersInv, Takes, VerifyIdToken, Genuine

\* A handler has a flow that nothing else has.
LEMMA HandlerTakes ==
  ASSUME SessionInv, StayOver, UNCHANGED sessions, NEW h \in Handler, NEW new \in Held, handler' = [handler EXCEPT ![h] = new],
         Takes(new), flows'[new.flow] = Gone, \A s \in 1..Len(sessions) : sessions[s].flow # new.flow,
         \A g \in Handler : g # h /\ Takes(handler[g]) => handler[g].flow # new.flow,
         new.kind = "ensure" => new.claims.sub = new.user /\ VerifyIdToken(new.claims)
  PROVE  HandlersInv'
  <1>1. handler \in [Handler -> Held]
    BY DEF SessionInv, HandlersInv
  <1>2. handler' \in [Handler -> Held] /\ handler'[h] = new /\ \A g \in Handler : g # h => handler'[g] = handler[g]
    BY <1>1
  <1>3. ASSUME NEW g \in Handler, Takes(handler'[g])
        PROVE  /\ flows'[handler'[g].flow] = Gone
               /\ \A s \in 1..Len(sessions) : sessions'[s].flow # handler'[g].flow
               /\ \A i \in Handler : i # g /\ Takes(handler'[i]) => handler'[i].flow # handler'[g].flow
    <2>1. CASE g = h
      BY <1>2, <2>1
    <2>2. CASE g # h
      <3>1. handler'[g] = handler[g] /\ Takes(handler[g]) /\ handler[g].flow \in State /\ handler[g].flow # new.flow
        BY <1>1, <1>2, <1>3, <2>2 DEF Takes, Held, Free
      <3>2. flows'[handler[g].flow] = Gone /\ \A s \in 1..Len(sessions) : sessions'[s].flow # handler[g].flow
        BY <3>1 DEF StayOver, SessionInv, HandlersInv
      <3>3. \A i \in Handler : i # g /\ Takes(handler'[i]) => handler'[i].flow # handler[g].flow
        BY <1>2, <3>1 DEF SessionInv, HandlersInv
      <3>4. QED
        BY <3>1, <3>2, <3>3
    <2>3. QED
      BY <2>1, <2>2
  <1>4. ASSUME NEW g \in Handler
        PROVE  /\ handler'[g].kind = "ensure" => handler'[g].claims.sub = handler'[g].user /\ VerifyIdToken(handler'[g].claims)
               /\ handler'[g].kind \in {"mfa", "confirm", "disable", "renew"} => handler'[g].session \in 1..Len(sessions)
    BY <1>2 DEF SessionInv, HandlersInv, Takes
  <1>5. QED
    BY <1>2, <1>3, <1>4 DEF HandlersInv, Takes, VerifyIdToken, Genuine

\* A session that changes stays of its flow and its token.
LEMMA SessionChanges ==
  ASSUME SessionInv, UNCHANGED flows, NEW s \in 1..Len(sessions), NEW new \in SessionRow,
         sessions' = [sessions EXCEPT ![s] = new], new.flow = sessions[s].flow, new.claims = sessions[s].claims,
         new.user = sessions[s].user, new.owed => new.pending \/ new.proved
  PROVE  /\ SignInsInv' /\ Len(sessions') = Len(sessions)
         /\ \A r \in 1..Len(sessions) : sessions'[r].flow = sessions[r].flow
  <1>1. sessions \in Seq(SessionRow) /\ Len(sessions) \in Nat
    BY DEF SessionInv, SignInsInv
  <1>2. /\ sessions' \in Seq(SessionRow) /\ Len(sessions') = Len(sessions) /\ sessions'[s] = new
        /\ \A r \in 1..Len(sessions) : r # s => sessions'[r] = sessions[r]
    BY <1>1, ExceptSeq
  <1>3. \A r \in 1..Len(sessions) : sessions'[r].flow = sessions[r].flow
    BY <1>2
  <1>4. ASSUME NEW r \in 1..Len(sessions) PROVE Earned(sessions[r])'
    <2>1. Earned(sessions[r]) /\ Earned(sessions[s])
      BY DEF SessionInv, SignInsInv
    <2>2. CASE r = s
      <3>1. Earned(new)
        BY <2>1 DEF Earned
      <3>2. QED
        BY <3>1, <1>2, <2>2 DEF Earned
    <2>3. CASE r # s
      BY <2>1, <1>2, <2>3 DEF Earned
    <2>4. QED
      BY <2>2, <2>3
  <1>5. SignInsInv'
    BY <1>2, <1>3, <1>4 DEF SessionInv, SignInsInv
  <1>6. QED
    BY <1>2, <1>3, <1>5

LEMMA AccountsKept ==
  ASSUME SessionInv, UNCHANGED <<account, worked>>
  PROVE  AccountsInv' /\ CodesInv'
  BY DEF SessionInv, AccountsInv, CodesInv

\* A row of an account that changes: its set of codes is a later one, or what
\* is left of the one it had.
Lessens(row, new, gone) ==
    /\ new \in AccountRow /\ new.enabled = (new.stored /\ new.confirmed)
    /\ new.set >= row.set /\ (new.set = row.set => new.codes \subseteq row.codes \ gone)

LEMMA AccountChanges ==
  ASSUME SessionInv, NEW p \in Person, NEW new, account' = [account EXCEPT ![p] = new],
         Lessens(account[p], new, {}), UNCHANGED worked
  PROVE  AccountsInv' /\ CodesInv'
  <1>1. account \in [Person -> AccountRow] /\ new \in AccountRow
    BY DEF SessionInv, AccountsInv, Lessens
  <1>2. account' \in [Person -> AccountRow] /\ account'[p] = new /\ \A q \in Person : q # p => account'[q] = account[q]
    BY <1>1
  <1>3. AccountsInv'
    BY <1>2 DEF SessionInv, AccountsInv, Lessens
  <1>4. \A q \in Person : /\ account[q].set \in Nat /\ account'[q].set \in Nat
                          /\ account'[q].set >= account[q].set
                          /\ account'[q].set = account[q].set => account'[q].codes \subseteq account[q].codes
    BY <1>1, <1>2 DEF Lessens, AccountRow
  <1>5. ASSUME NEW i \in 1..Len(worked)
        PROVE  LET c == worked'[i]
               IN  c.set <= account'[c.user].set /\ (c.set = account'[c.user].set => c.code \notin account'[c.user].codes)
    <2> DEFINE c == worked[i]
    <2>1. c \in Spent /\ c.set <= account[c.user].set /\ (c.set = account[c.user].set => c.code \notin account[c.user].codes)
      BY DEF SessionInv, CodesInv
    <2>2. c.user \in Person /\ c.set \in Nat
      BY <2>1 DEF Spent
    <2> HIDE DEF c
    <2>3. c.set <= account'[c.user].set /\ (c.set = account'[c.user].set => c.code \notin account'[c.user].codes)
      BY <2>1, <2>2, <1>4
    <2>4. QED
      BY <2>3 DEF c
  <1>6. CodesInv'
    BY <1>5 DEF SessionInv, CodesInv
  <1>7. QED
    BY <1>3, <1>6

\* A code of the present set works, and is not in it any more.
LEMMA CodeWorks ==
  ASSUME SessionInv, NEW p \in Person, NEW new, NEW c \in Spent, account' = [account EXCEPT ![p] = new],
         c.user = p, c.set = account[p].set, c.code \in account[p].codes,
         Lessens(account[p], new, {c.code}), worked' = Append(worked, c)
  PROVE  AccountsInv' /\ CodesInv'
  <1> DEFINE n == Len(worked)
  <1>1. account \in [Person -> AccountRow] /\ new \in AccountRow /\ worked \in Seq(Spent) /\ n \in Nat
    BY DEF SessionInv, AccountsInv, CodesInv, Lessens
  <1>2. account' \in [Person -> AccountRow] /\ account'[p] = new /\ \A q \in Person : q # p => account'[q] = account[q]
    BY <1>1
  <1>3. AccountsInv'
    BY <1>2 DEF SessionInv, AccountsInv, Lessens
  <1>4. \A q \in Person : /\ account[q].set \in Nat /\ account'[q].set \in Nat
                          /\ account'[q].set >= account[q].set
                          /\ account'[q].set = account[q].set => account'[q].codes \subseteq account[q].codes
    BY <1>1, <1>2 DEF Lessens, AccountRow
  <1>5. worked' \in Seq(Spent) /\ Len(worked') = n + 1 /\ worked'[n + 1] = c /\ \A i \in 1..n : worked'[i] = worked[i]
    BY <1>1, AppendProperties
  <1>6. ASSUME NEW i \in 1..n
        PROVE  /\ worked[i] \in Spent /\ worked[i].user \in Person /\ worked[i].set \in Nat
               /\ worked[i].set <= account[worked[i].user].set
               /\ worked[i].set = account[worked[i].user].set => worked[i].code \notin account[worked[i].user].codes
    <2> DEFINE d == worked[i]
    <2>1. d \in Spent
      BY <1>1
    <2>2. d.set <= account[d.user].set /\ (d.set = account[d.user].set => d.code \notin account[d.user].codes)
      BY DEF SessionInv, CodesInv
    <2> HIDE DEF d
    <2>3. d.user \in Person /\ d.set \in Nat
      BY <2>1 DEF Spent
    <2>4. QED
      BY <2>1, <2>2, <2>3 DEF d
  <1>7. \A i \in 1..n : worked[i] # c /\ (worked[i].user = c.user => worked[i].set <= c.set)
    BY <1>6
  <1>8. \A i, j \in 1..n : (i # j => worked[i] # worked[j])
                           /\ (i < j /\ worked[i].user = worked[j].user => worked[i].set <= worked[j].set)
    BY DEF SessionInv, CodesInv
  <1>9. c.set <= account'[p].set /\ (c.set = account'[p].set => c.code \notin account'[p].codes)
    BY <1>1, <1>2 DEF Lessens, AccountRow
  <1>10. ASSUME NEW i \in 1..(n + 1)
         PROVE  LET d == worked'[i]
                IN  d.set <= account'[d.user].set /\ (d.set = account'[d.user].set => d.code \notin account'[d.user].codes)
    <2>1. CASE i = n + 1
      BY <1>5, <1>9, <2>1
    <2>2. CASE i # n + 1
      <3>1. i \in 1..n
        BY <1>1, <2>2
      <3>2. worked'[i] = worked[i]
        BY <1>5, <3>1
      <3> DEFINE d == worked[i]
      <3>3. /\ d.user \in Person /\ d.set \in Nat /\ d.set <= account[d.user].set
            /\ d.set = account[d.user].set => d.code \notin account[d.user].codes
        BY <1>6, <3>1
      <3> HIDE DEF d
      <3>4. d.set <= account'[d.user].set /\ (d.set = account'[d.user].set => d.code \notin account'[d.user].codes)
        BY <1>4, <3>3
      <3>5. QED
        BY <3>2, <3>4 DEF d
    <2>3. QED
      BY <2>1, <2>2
  <1>11. ASSUME NEW i \in 1..(n + 1), NEW j \in 1..(n + 1)
         PROVE  (i # j => worked'[i] # worked'[j])
                /\ (i < j /\ worked'[i].user = worked'[j].user => worked'[i].set <= worked'[j].set)
    <2>1. (i \in 1..n \/ i = n + 1) /\ (j \in 1..n \/ j = n + 1) /\ (i = n + 1 => ~(i < j))
      BY <1>1
    <2>2. CASE i \in 1..n /\ j \in 1..n
      BY <1>5, <1>8, <2>2
    <2>3. CASE i = n + 1 \/ j = n + 1
      BY <1>5, <1>7, <2>1, <2>3
    <2>4. QED
      BY <2>1, <2>2, <2>3
  <1>12. CodesInv'
    BY <1>5, <1>10, <1>11 DEF CodesInv
  <1>13. QED
    BY <1>3, <1>12

-----------------------------------------------------------------------------
\* What the actions do to the flows and the handlers in memory.

LEMMA BecomeKeeps ==
  ASSUME SessionInv, StayOver, UNCHANGED sessions, NEW h \in Handler, NEW new \in Held, Harmless(new), Become(h, new)
  PROVE  SignInsInv' /\ HandlersInv'
  <1>1. handler \in [Handler -> Held]
    BY DEF SessionInv, HandlersInv
  <1>2. handler' \in [Handler -> Held] /\ \A g \in Handler : handler'[g] = handler[g] \/ Harmless(handler'[g])
    BY <1>1 DEF Become, Harmless, Takes
  <1>3. QED
    BY <1>2, SignInsKept, HandlersKept

LEMMA FreeIsHarmless == Free \in Held /\ Harmless(Free) /\ ~Takes(Free)
  BY DEF Free, Held, Harmless, Takes

LEMMA QuietHandlers ==
  ASSUME SessionInv, StayOver, UNCHANGED <<sessions, handler>>
  PROVE  SignInsInv' /\ HandlersInv'
  <1>1. handler' \in [Handler -> Held]
    BY DEF SessionInv, HandlersInv
  <1>2. QED
    BY <1>1, SignInsKept, HandlersKept

LEMMA FlowBegins ==
  ASSUME SessionInv, NEW f \in State, flows[f] = NoFlow, NEW kind, NEW new \in Flow,
         flows' = [Pruned(kind) EXCEPT ![f] = new]
  PROVE  flows' \in [State -> Flow] /\ StayOver
  <1>1. flows \in [State -> Flow] /\ Gone \in Flow
    BY DEF SessionInv, ClockInv, Flow
  <1>2. Pruned(kind) \in [State -> Flow] /\ \A g \in State : flows[g] = Gone => Pruned(kind)[g] = Gone
    BY <1>1 DEF Pruned, Gone
  <1>3. NoFlow # Gone
    BY DEF NoFlow, Gone
  <1>4. QED
    BY <1>2, <1>3 DEF StayOver

LEMMA StartKeeps ==
  ASSUME SessionInv, NEW f \in State, HandleAuthStart(f)
  PROVE  SessionInv'
  <1>1. step \in Nat /\ [kind |-> "login", created |-> step] \in Flow
    BY SessionAssumption DEF SessionInv, ClockInv, Flow
  <1>2. flows' \in [State -> Flow] /\ StayOver
    BY <1>1, FlowBegins DEF HandleAuthStart
  <1>3. UNCHANGED <<step, sessions, account, handler, worked, stops>>
    BY DEF HandleAuthStart
  <1>4. ClockInv'
    BY <1>2, <1>3 DEF SessionInv, ClockInv
  <1>5. QED
    BY <1>2, <1>3, <1>4, AccountsKept, QuietHandlers DEF SessionInv

LEMMA LinkStartKeeps ==
  ASSUME SessionInv, NEW f \in State, NEW s \in DOMAIN sessions, HandleBackupLinkStart(f, s)
  PROVE  SessionInv'
  <1>1. sessions \in Seq(SessionRow)
    BY DEF SessionInv, SignInsInv
  <1>2. sessions[s] \in SessionRow
    BY <1>1
  <1>3. sessions[s].user \in Person
    BY <1>2 DEF SessionRow
  <1>4. step \in Nat /\ [kind |-> "link", created |-> step, user |-> sessions[s].user] \in Flow
    BY <1>3, SessionAssumption DEF SessionInv, ClockInv, Flow
  <1>5. flows' \in [State -> Flow] /\ StayOver
    BY <1>4, FlowBegins DEF HandleBackupLinkStart
  <1>6. UNCHANGED <<step, sessions, account, handler, worked, stops>>
    BY DEF HandleBackupLinkStart
  <1>7. ClockInv'
    BY <1>5, <1>6 DEF SessionInv, ClockInv
  <1>8. QED
    BY <1>5, <1>6, <1>7, AccountsKept, QuietHandlers DEF SessionInv

LEMMA CallbackKeeps ==
  ASSUME SessionInv, NEW h \in Handler, NEW f \in State, NEW denied \in BOOLEAN, HandleAuthCallback(h, f, denied)
  PROVE  SessionInv'
  <1>1. /\ flows \in [State -> Flow] /\ flows' = [flows EXCEPT ![f] = Gone] /\ flows[f].kind \in {"login", "link"}
        /\ UNCHANGED <<step, sessions, account, worked, stops>>
    BY DEF HandleAuthCallback, UsedUp, SessionInv, ClockInv, Gone
  <1>2. flows' \in [State -> Flow] /\ StayOver /\ flows'[f] = Gone /\ flows[f] # Gone
    BY <1>1 DEF StayOver, Flow, Gone
  <1>3. ClockInv'
    BY <1>1, <1>2 DEF SessionInv, ClockInv
  <1>4. AccountsInv' /\ CodesInv'
    BY <1>1, AccountsKept
  <1>5. SignInsInv' /\ HandlersInv'
    <2>1. CASE denied
      <3>1. Become(h, Free)
        BY <2>1 DEF HandleAuthCallback, Become
      <3>2. QED
        BY <1>1, <1>2, <3>1, BecomeKeeps, FreeIsHarmless
    <2>2. CASE ~denied /\ flows[f].kind = "login"
      <3> DEFINE new == [kind |-> "exchange", flow |-> f]
      <3>1. handler' = [handler EXCEPT ![h] = new]
        BY <2>2 DEF HandleAuthCallback
      <3>2. new \in Held /\ Takes(new) /\ new.flow = f /\ new.kind # "ensure"
        BY DEF Held, Takes
      <3>3. \A s \in 1..Len(sessions) : sessions[s].flow # f
        BY <1>2 DEF SessionInv, SignInsInv, Earned
      <3>4. \A g \in Handler : g # h /\ Takes(handler[g]) => handler[g].flow # f
        BY <1>2 DEF SessionInv, HandlersInv
      <3> HIDE DEF new
      <3>5. HandlersInv'
        BY <1>1, <1>2, <3>1, <3>2, <3>3, <3>4, HandlerTakes
      <3>6. QED
        BY <1>1, <1>2, <3>5, SignInsKept
    <2>3. CASE ~denied /\ flows[f].kind # "login"
      <3> DEFINE new == [kind |-> "link", flow |-> f, user |-> flows[f].user]
      <3>1. Become(h, new)
        BY <2>3 DEF HandleAuthCallback, Become
      <3>2. flows[f].user \in Person
        BY <1>1, <2>3 DEF Flow, NoFlow, Gone
      <3>3. new \in Held /\ Harmless(new)
        BY <3>2 DEF Held, Harmless, Takes
      <3> HIDE DEF new
      <3>4. QED
        BY <1>1, <1>2, <3>1, <3>3, BecomeKeeps
    <2>4. QED
      BY <2>1, <2>2, <2>3
  <1>6. QED
    BY <1>3, <1>4, <1>5 DEF SessionInv

LEMMA QuietClock ==
  ASSUME SessionInv, UNCHANGED <<step, flows, stops>>
  PROVE  ClockInv' /\ StayOver
  BY DEF SessionInv, ClockInv, StayOver

LEMMA ExchangedKeeps ==
  ASSUME SessionInv, NEW h \in Handler, NEW c \in Claims, Exchanged(h, c)
  PROVE  SessionInv'
  <1>1. UNCHANGED <<step, flows, sessions, worked, stops>> /\ handler[h].kind = "exchange"
    BY DEF Exchanged
  <1>2. ClockInv' /\ StayOver
    BY <1>1, QuietClock
  <1>3. CASE VerifyIdToken(c)
    <2> DEFINE p == c.sub
               row == [account[p] EXCEPT !.known = TRUE]
               new == [kind |-> "ensure", flow |-> handler[h].flow, user |-> p, claims |-> c, owed |-> account[p].enabled]
    <2>1. c.sub \in Person
      BY SessionAssumption
    <2>2. account[p] \in AccountRow /\ account[p].enabled = (account[p].stored /\ account[p].confirmed)
      BY <2>1 DEF SessionInv, AccountsInv
    <2>3. account' = [account EXCEPT ![p] = row] /\ handler' = [handler EXCEPT ![h] = new]
      BY <1>3 DEF Exchanged, Become
    <2>4. Lessens(account[p], row, {})
      <3> DEFINE a == account[p]
      <3>1. row \in AccountRow /\ row.enabled = a.enabled /\ row.stored = a.stored /\ row.confirmed = a.confirmed
            /\ row.set = a.set /\ row.codes = a.codes /\ a.set \in Nat
        BY <2>2 DEF AccountRow
      <3> HIDE DEF row
      <3>2. QED
        BY <2>2, <3>1 DEF Lessens
    <2>5. handler[h] \in Held /\ Takes(handler[h])
      BY <1>1 DEF SessionInv, HandlersInv, Takes
    <2>6. handler[h].flow \in State
      BY <2>5 DEF Held, Takes, Free
    <2>7. new \in Held /\ Takes(new) /\ new.flow = handler[h].flow /\ new.claims = c /\ new.user = c.sub
      BY <2>1, <2>2, <2>6 DEF Held, Takes, AccountRow
    <2>8. /\ flows'[handler[h].flow] = Gone
          /\ \A s \in 1..Len(sessions) : sessions[s].flow # handler[h].flow
          /\ \A g \in Handler : g # h /\ Takes(handler[g]) => handler[g].flow # handler[h].flow
      BY <1>1, <2>5 DEF SessionInv, HandlersInv
    <2> HIDE DEF new, row, p
    <2>9. new.claims.sub = new.user /\ VerifyIdToken(new.claims)
      BY <1>3, <2>7
    <2>10. /\ flows'[new.flow] = Gone
           /\ \A s \in 1..Len(sessions) : sessions[s].flow # new.flow
           /\ \A g \in Handler : g # h /\ Takes(handler[g]) => handler[g].flow # new.flow
      BY <2>7, <2>8
    <2>11. new \in Held /\ Takes(new) /\ handler' = [handler EXCEPT ![h] = new]
      BY <2>3, <2>7
    <2>12. HandlersInv'
      BY <1>1, <1>2, <2>9, <2>10, <2>11, HandlerTakes
    <2>13. p \in Person
      BY <2>1 DEF p
    <2>14. AccountsInv' /\ CodesInv'
      BY <1>1, <2>3, <2>4, <2>13, AccountChanges
    <2>15. QED
      BY <1>1, <1>2, <2>12, <2>14, SignInsKept DEF SessionInv
  <1>4. CASE ~VerifyIdToken(c)
    <2>1. UNCHANGED account /\ Become(h, Free)
      BY <1>4 DEF Exchanged
    <2>2. QED
      BY <1>1, <1>2, <2>1, AccountsKept, BecomeKeeps, FreeIsHarmless DEF SessionInv
  <1>5. QED
    BY <1>3, <1>4

-----------------------------------------------------------------------------
LEMMA EstablishedKeeps ==
  ASSUME SessionInv, NEW h \in Handler, Established(h)
  PROVE  SessionInv'
  <1> DEFINE n == Len(sessions)
             q == handler[h]
             new == Establish(h)
  <1>1. /\ UNCHANGED <<step, flows, account, worked, stops>> /\ q.kind = "ensure" /\ n < MaxSessions
        /\ sessions' = Append(sessions, new) /\ handler' = [handler EXCEPT ![h] = Free]
    BY DEF Established, Become
  <1>2. ClockInv' /\ StayOver /\ AccountsInv' /\ CodesInv'
    BY <1>1, QuietClock, AccountsKept
  <1>3. handler \in [Handler -> Held] /\ sessions \in Seq(SessionRow) /\ n \in Nat
    BY DEF SessionInv, HandlersInv, SignInsInv
  <1>4. q \in Held /\ Takes(q)
    BY <1>1, <1>3 DEF Takes
  <1>5. q.user \in Person /\ q.flow \in State /\ q.claims \in Claims /\ q.owed \in BOOLEAN
    BY <1>1, <1>4 DEF Held, Free
  <1>6. /\ flows[q.flow] = Gone /\ (\A s \in 1..n : sessions[s].flow # q.flow)
        /\ (\A g \in Handler : g # h /\ Takes(handler[g]) => handler[g].flow # q.flow)
        /\ q.claims.sub = q.user /\ VerifyIdToken(q.claims)
    BY <1>1, <1>4 DEF SessionInv, HandlersInv
  <1>7. new \in SessionRow /\ new.flow = q.flow /\ new.claims = q.claims /\ new.user = q.user /\ new.pending = new.owed
    BY <1>5 DEF Establish, SessionRow
  <1>8. Earned(new)
    BY <1>6, <1>7 DEF Earned, VerifyIdToken
  <1> HIDE DEF new, q
  <1>9. sessions' \in Seq(SessionRow) /\ Len(sessions') = n + 1 /\ sessions'[n + 1] = new /\ \A s \in 1..n : sessions'[s] = sessions[s]
    BY <1>1, <1>3, <1>7, AppendProperties
  <1>10. ASSUME NEW s \in 1..(n + 1) PROVE Earned(sessions[s])'
    <2>1. CASE s = n + 1
      BY <1>1, <1>8, <1>9, <2>1 DEF Earned
    <2>2. CASE s # n + 1
      <3>1. s \in 1..n
        BY <1>3, <2>2
      <3>2. Earned(sessions[s])
        BY <3>1 DEF SessionInv, SignInsInv
      <3>3. QED
        BY <1>1, <1>9, <3>1, <3>2 DEF Earned
    <2>3. QED
      BY <2>1, <2>2
  <1>11. ASSUME NEW s \in 1..(n + 1), NEW r \in 1..(n + 1), s # r PROVE sessions'[r].flow # sessions'[s].flow
    <2>1. (s \in 1..n \/ s = n + 1) /\ (r \in 1..n \/ r = n + 1)
      BY <1>3
    <2>2. \A i, j \in 1..n : i # j => sessions[j].flow # sessions[i].flow
      BY DEF SessionInv, SignInsInv
    <2>3. QED
      BY <1>6, <1>7, <1>9, <1>11, <2>1, <2>2
  <1>12. n + 1 <= MaxSessions
    BY <1>1, <1>3, SessionAssumption
  <1>13. SignInsInv'
    BY <1>9, <1>10, <1>11, <1>12 DEF SignInsInv
  <1>14. handler' \in [Handler -> Held] /\ handler'[h] = Free /\ \A g \in Handler : g # h => handler'[g] = handler[g]
    BY <1>1, <1>3, FreeIsHarmless
  <1>15. \A g \in Handler : handler'[g].kind # "none" => g # h /\ handler'[g] = handler[g]
    BY <1>14 DEF Free
  <1>16. ASSUME NEW g \in Handler, Takes(handler'[g])
         PROVE  /\ flows'[handler'[g].flow] = Gone
                /\ \A s \in 1..Len(sessions') : sessions'[s].flow # handler'[g].flow
                /\ \A i \in Handler : i # g /\ Takes(handler'[i]) => handler'[i].flow # handler'[g].flow
    <2>1. g # h /\ handler'[g] = handler[g]
      BY <1>15, <1>16 DEF Takes
    <2>2. /\ flows[handler[g].flow] = Gone /\ (\A s \in 1..n : sessions[s].flow # handler[g].flow)
          /\ \A i \in Handler : i # g /\ Takes(handler[i]) => handler[i].flow # handler[g].flow
      BY <1>16, <2>1 DEF SessionInv, HandlersInv
    <2>3. handler[g].flow # q.flow
      BY <1>6, <1>16, <2>1
    <2>4. ASSUME NEW s \in 1..Len(sessions') PROVE sessions'[s].flow # handler'[g].flow
      <3>1. s \in 1..n \/ s = n + 1
        BY <1>3, <1>9
      <3>2. QED
        BY <3>1, <1>7, <1>9, <2>1, <2>2, <2>3
    <2>5. ASSUME NEW i \in Handler, i # g, Takes(handler'[i]) PROVE handler'[i].flow # handler'[g].flow
      <3>1. handler'[i] = handler[i]
        BY <1>15, <2>5 DEF Takes
      <3>2. QED
        BY <2>1, <2>2, <2>5, <3>1
    <2>6. QED
      BY <1>1, <2>1, <2>2, <2>4, <2>5
  <1>17. ASSUME NEW g \in Handler
         PROVE  /\ handler'[g].kind = "ensure" => handler'[g].claims.sub = handler'[g].user /\ VerifyIdToken(handler'[g].claims)
                /\ handler'[g].kind \in {"mfa", "confirm", "disable", "renew"} => handler'[g].session \in 1..Len(sessions')
    <2>1. CASE handler'[g] = handler[g]
      <3>1. handler[g].kind \in {"mfa", "confirm", "disable", "renew"} => handler[g].session \in 1..n
        BY DEF SessionInv, HandlersInv
      <3>2. handler[g].kind \in {"mfa", "confirm", "disable", "renew"} => handler[g].session \in 1..(n + 1)
        BY <3>1, <1>3
      <3>3. QED
        BY <2>1, <3>2, <1>9 DEF SessionInv, HandlersInv
    <2>2. CASE handler'[g].kind = "none"
      BY <2>2
    <2>3. QED
      BY <2>1, <2>2, <1>15
  <1>18. HandlersInv'
    BY <1>14, <1>16, <1>17 DEF HandlersInv, Takes, VerifyIdToken, Genuine
  <1>19. QED
    BY <1>2, <1>13, <1>18 DEF SessionInv

LEMMA LinkKeeps ==
  ASSUME SessionInv, NEW h \in Handler, FinishBackupLink(h)
  PROVE  SessionInv'
  <1>1. UNCHANGED <<step, flows, sessions, account, worked, stops>> /\ Become(h, Free)
    BY DEF FinishBackupLink
  <1>2. QED
    BY <1>1, QuietClock, AccountsKept, BecomeKeeps, FreeIsHarmless DEF SessionInv

LEMMA SessionIsRow == ASSUME SessionInv, NEW s \in DOMAIN sessions PROVE s \in 1..Len(sessions) /\ sessions[s] \in SessionRow
                                                                      /\ sessions[s].user \in Person
  <1>1. sessions \in Seq(SessionRow)
    BY DEF SessionInv, SignInsInv
  <1>2. s \in 1..Len(sessions) /\ sessions[s] \in SessionRow
    BY <1>1
  <1>3. QED
    BY <1>2 DEF SessionRow

LEMMA BeginKeeps ==
  ASSUME SessionInv, NEW h \in Handler, NEW s \in DOMAIN sessions, NEW kind \in {"mfa", "confirm", "disable", "renew"},
         Begin(h, s, kind)
  PROVE  SessionInv'
  <1> DEFINE new == [kind |-> kind, session |-> s, user |-> sessions[s].user]
  <1>1. UNCHANGED <<step, flows, sessions, account, worked, stops>> /\ Become(h, new)
    BY DEF Begin
  <1>2. s \in 1..Len(sessions) /\ sessions[s].user \in Person
    BY SessionIsRow
  <1>3. Len(sessions) \in Nat
    BY DEF SessionInv, SignInsInv
  <1>4. s \in Nat
    BY <1>2, <1>3
  <1>5. new \in Held /\ Harmless(new)
    BY <1>2, <1>4 DEF Held, Harmless, Takes
  <1> HIDE DEF new
  <1>6. QED
    BY <1>1, <1>5, QuietClock, AccountsKept, BecomeKeeps DEF SessionInv

-----------------------------------------------------------------------------
\* What a code that was typed does to its account.

LEMMA RecoveriesAreSpent ==
  ASSUME NEW code \in Typed, code.kind = "recovery"
  PROVE  code \in Spent
  <1>1. code \in [kind : {"wrong"}] \/ (\E p \in Person, m \in 1..MaxSecrets, t \in 0..(MaxStep + 1) : code = TotpCode(p, m, t))
        \/ (\E p \in Person, m \in 1..MaxSets, i \in 1..RecoveryCodes : code = Recovery(p, m, i))
    BY DEF Typed, Codes
  <1>2. PICK p \in Person, m \in 1..MaxSets, i \in 1..RecoveryCodes : code = Recovery(p, m, i)
    BY <1>1 DEF TotpCode
  <1>3. m \in Nat
    BY <1>2, SessionAssumption
  <1>4. QED
    BY <1>2, <1>3 DEF Recovery, Spent

LEMMA HolderIsPerson ==
  ASSUME SessionInv, NEW h \in Handler, handler[h].kind \in {"mfa", "confirm", "disable", "renew"}
  PROVE  /\ handler[h].user \in Person /\ handler[h].session \in 1..Len(sessions)
         /\ account[handler[h].user] \in AccountRow
         /\ account[handler[h].user].enabled = (account[handler[h].user].stored /\ account[handler[h].user].confirmed)
  <1>1. handler[h] \in Held
    BY DEF SessionInv, HandlersInv
  <1>2. handler[h].user \in Person
    BY <1>1 DEF Held, Free
  <1>3. QED
    BY <1>2 DEF SessionInv, HandlersInv, AccountsInv

\* The row becomes new after the code was verified; a recovery code that was
\* used is not in what is left.
LEMMA CodeVerified ==
  ASSUME SessionInv, NEW p \in Person, NEW code \in Typed, NEW new, account' = [account EXCEPT ![p] = new], Works(p, code),
         Lessens(account[p], new, {}), FindUnused(p, code) /\ ~ByTotp(p, code) => Lessens(account[p], new, {code.code})
  PROVE  AccountsInv' /\ CodesInv'
  <1>1. CASE ~ByTotp(p, code) /\ FindUnused(p, code)
    <2>1. code \in Spent /\ code.user = p /\ code.set = account[p].set /\ code.code \in account[p].codes
      BY <1>1, RecoveriesAreSpent DEF FindUnused
    <2>2. worked' = Append(worked, code)
      BY <1>1 DEF Works
    <2>3. QED
      BY <1>1, <2>1, <2>2, CodeWorks
  <1>2. CASE ~(~ByTotp(p, code) /\ FindUnused(p, code))
    <2>1. UNCHANGED worked
      BY <1>2 DEF Works
    <2>2. QED
      BY <2>1, AccountChanges
  <1>3. QED
    BY <1>1, <1>2

\* Rows that lessen.
LEMMA LessensBy ==
  ASSUME NEW row, NEW new \in AccountRow, new.enabled = (new.stored /\ new.confirmed), NEW gone, new.set = row.set,
         \A c \in new.codes : c \in row.codes /\ c \notin gone
  PROVE  Lessens(row, new, gone)
  <1>1. new.set \in Nat
    BY DEF AccountRow
  <1>2. new.set >= row.set
    BY <1>1
  <1>3. new.codes \subseteq row.codes \ gone
    OBVIOUS
  <1>4. QED
    BY <1>2, <1>3 DEF Lessens

LEMMA RowStays ==
  ASSUME NEW row \in AccountRow, row.enabled = (row.stored /\ row.confirmed)
  PROVE  Lessens(row, row, {})
  BY DEF Lessens, AccountRow

LEMMA CodeLeaves ==
  ASSUME NEW row \in AccountRow, row.enabled = (row.stored /\ row.confirmed), NEW c
  PROVE  LET new == [row EXCEPT !.codes = @ \ {c}] IN Lessens(row, new, {}) /\ Lessens(row, new, {c})
  <1> DEFINE new == [row EXCEPT !.codes = @ \ {c}]
  <1>1. /\ new \in AccountRow /\ new.enabled = row.enabled /\ new.stored = row.stored /\ new.confirmed = row.confirmed
        /\ new.set = row.set /\ new.codes = row.codes \ {c} /\ row.set \in Nat
    BY DEF AccountRow
  <1> HIDE DEF new
  <1>2. Lessens(row, new, {}) /\ Lessens(row, new, {c})
    BY <1>1 DEF Lessens
  <1>3. QED
    BY <1>2 DEF new

\* A later set replaces all codes.
LEMMA SetReplaced ==
  ASSUME NEW row \in AccountRow, row.enabled = (row.stored /\ row.confirmed), NEW gone,
         NEW old \in Nat, row.set = old, NEW prior, prior.set = old
  PROVE  Lessens(prior, FreshCodes(row), gone)
  <1> DEFINE new == FreshCodes(row)
  <1>1. row.set + 1 \in Nat /\ 1..RecoveryCodes \in SUBSET (1..RecoveryCodes)
    BY DEF AccountRow
  <1>2. new \in AccountRow
    BY <1>1 DEF AccountRow, FreshCodes
  <1>3. new.enabled = row.enabled /\ new.stored = row.stored /\ new.confirmed = row.confirmed /\ new.set = old + 1
    BY DEF AccountRow, FreshCodes
  <1> HIDE DEF new
  <1>4. Lessens(prior, new, gone)
    BY <1>2, <1>3 DEF Lessens
  <1>5. QED
    BY <1>4 DEF new

-----------------------------------------------------------------------------
LEMMA VerifyKeeps ==
  ASSUME SessionInv, NEW h \in Handler, NEW code \in Typed, HandleMfaVerify(h, code)
  PROVE  SessionInv'
  <1> DEFINE p == handler[h].user
             s == handler[h].session
             row == Consumed(p, code)
             new == [sessions[s] EXCEPT !.pending = FALSE, !.proved = TRUE]
  <1>1. /\ handler[h].kind = "mfa" /\ account' = [account EXCEPT ![p] = row] /\ Works(p, code)
        /\ Become(h, Free) /\ UNCHANGED <<step, flows, stops>>
        /\ sessions' = [sessions EXCEPT ![s] = new] \/ UNCHANGED sessions
    BY DEF HandleMfaVerify
  <1>2. /\ p \in Person /\ s \in 1..Len(sessions) /\ account[p] \in AccountRow
        /\ account[p].enabled = (account[p].stored /\ account[p].confirmed)
    BY <1>1, HolderIsPerson
  <1>3. Lessens(account[p], row, {}) /\ (FindUnused(p, code) /\ ~ByTotp(p, code) => Lessens(account[p], row, {code.code}))
    <2>1. CASE ~ByTotp(p, code) /\ FindUnused(p, code)
      BY <1>2, <2>1, CodeLeaves DEF Consumed
    <2>2. CASE ~(~ByTotp(p, code) /\ FindUnused(p, code))
      BY <1>2, <2>2, RowStays DEF Consumed
    <2>3. QED
      BY <2>1, <2>2
  <1> HIDE DEF row, p
  <1>4. AccountsInv' /\ CodesInv'
    BY <1>1, <1>2, <1>3, CodeVerified
  <1>5. ClockInv' /\ StayOver
    BY <1>1, QuietClock
  <1>6. sessions[s] \in SessionRow
    BY <1>2 DEF SessionInv, SignInsInv
  <1>7. new \in SessionRow /\ new.flow = sessions[s].flow /\ new.claims = sessions[s].claims /\ new.user = sessions[s].user /\ new.proved
    BY <1>6 DEF SessionRow
  <1> HIDE DEF new, s
  <1>8. /\ SignInsInv' /\ Len(sessions') = Len(sessions)
        /\ \A r \in 1..Len(sessions) : sessions'[r].flow = sessions[r].flow
    <2>1. CASE sessions' = [sessions EXCEPT ![s] = new]
      BY <1>1, <1>2, <1>7, <2>1, SessionChanges
    <2>2. CASE UNCHANGED sessions
      BY <1>5, <2>2, SignInsKept
    <2>3. QED
      BY <1>1, <2>1, <2>2
  <1>9. handler' \in [Handler -> Held] /\ \A g \in Handler : handler'[g] = handler[g] \/ handler'[g] = Free
    BY <1>1, FreeIsHarmless DEF SessionInv, HandlersInv, Become
  <1>10. HandlersInv'
    BY <1>5, <1>8, <1>9, HandlersKept, FreeIsHarmless
  <1>11. QED
    BY <1>4, <1>5, <1>8, <1>10 DEF SessionInv

LEMMA ConfirmKeeps ==
  ASSUME SessionInv, NEW h \in Handler, NEW code \in Typed, NEW cut \in BOOLEAN, ConfirmSetup(h, code, cut)
  PROVE  SessionInv'
  <1> DEFINE p == handler[h].user
             on == [account[p] EXCEPT !.confirmed = TRUE, !.enabled = TRUE]
             ok == account[p].stored /\ ~account[p].confirmed /\ VerifyTotpCode(p, code)
             new == IF cut THEN on ELSE FreshCodes(on)
  <1>1. /\ handler[h].kind = "confirm" /\ UNCHANGED <<step, sessions, worked>>
        /\ cut => ok /\ stops < MaxStops
        /\ stops' = IF cut THEN stops + 1 ELSE stops
        /\ account' = IF ~ok THEN account ELSE [account EXCEPT ![p] = new]
    BY DEF ConfirmSetup
  <1>2. /\ p \in Person /\ account[p] \in AccountRow
        /\ account[p].enabled = (account[p].stored /\ account[p].confirmed)
    BY <1>1, HolderIsPerson
  <1>3. ok => Lessens(account[p], new, {})
    <2> SUFFICES ASSUME ok PROVE Lessens(account[p], new, {})
      OBVIOUS
    <2>1. on \in AccountRow /\ on.enabled /\ on.stored /\ on.confirmed /\ on.set = account[p].set /\ on.codes = account[p].codes
      BY <1>2 DEF AccountRow
    <2>2. on.set \in Nat /\ on.enabled = (on.stored /\ on.confirmed)
      BY <2>1 DEF AccountRow
    <2> HIDE DEF on, ok
    <2>3. Lessens(account[p], on, {})
      BY <2>1, <2>2, LessensBy
    <2>4. Lessens(account[p], FreshCodes(on), {})
      BY <2>1, <2>2, SetReplaced
    <2>5. QED
      BY <2>3, <2>4
  <1>4. cut => handler' = [i \in Handler |-> Free] /\ flows' = [f \in State |-> Gone]
    BY DEF ConfirmSetup, Gone
  <1>5. ~cut => Become(h, Free) /\ UNCHANGED flows
    BY DEF ConfirmSetup
  <1> HIDE DEF new, ok, p
  <1>6. AccountsInv' /\ CodesInv'
    <2>1. CASE ok
      BY <1>1, <1>2, <1>3, <2>1, AccountChanges
    <2>2. CASE ~ok
      BY <1>1, <2>2, AccountsKept
    <2>3. QED
      BY <2>1, <2>2
  <1>7. ClockInv' /\ StayOver
    <2>1. CASE cut
      <3>1. stops + 1 \in 0..MaxStops /\ stops' = stops + 1
        BY <1>1, <2>1, SessionAssumption DEF SessionInv, ClockInv
      <3>2. flows' \in [State -> Flow] /\ StayOver
        BY <1>4, <2>1 DEF Flow, StayOver
      <3>3. QED
        BY <1>1, <3>1, <3>2 DEF SessionInv, ClockInv
    <2>2. CASE ~cut
      BY <1>1, <1>5, <2>2, QuietClock
    <2>3. QED
      BY <2>1, <2>2
  <1>8. SignInsInv'
    BY <1>1, <1>7, SignInsKept
  <1>9. handler' \in [Handler -> Held] /\ \A g \in Handler : handler'[g] = handler[g] \/ handler'[g] = Free
    BY <1>4, <1>5, FreeIsHarmless DEF SessionInv, HandlersInv, Become
  <1>10. HandlersInv'
    BY <1>1, <1>7, <1>9, HandlersKept, FreeIsHarmless
  <1>11. QED
    BY <1>6, <1>7, <1>8, <1>10 DEF SessionInv

LEMMA DisableKeeps ==
  ASSUME SessionInv, NEW h \in Handler, NEW code \in Typed, Disable(h, code)
  PROVE  SessionInv'
  <1> DEFINE p == handler[h].user
             new == [account[p] EXCEPT !.stored = FALSE, !.confirmed = FALSE, !.enabled = FALSE, !.codes = {}]
  <1>1. handler[h].kind = "disable" /\ Become(h, Free) /\ UNCHANGED <<step, flows, sessions, stops>>
    BY DEF Disable
  <1>2. (account' = [account EXCEPT ![p] = new] /\ Works(p, code)) \/ UNCHANGED <<account, worked>>
    BY DEF Disable
  <1>3. p \in Person /\ account[p] \in AccountRow
    BY <1>1, HolderIsPerson
  <1>4. Lessens(account[p], new, {}) /\ Lessens(account[p], new, {code.code})
    <2>1. new \in AccountRow /\ new.set = account[p].set /\ new.codes = {} /\ new.enabled = FALSE /\ new.stored = FALSE
      BY <1>3 DEF AccountRow
    <2> HIDE DEF new
    <2>2. QED
      BY <2>1, LessensBy
  <1> HIDE DEF new, p
  <1>5. AccountsInv' /\ CodesInv'
    BY <1>2, <1>3, <1>4, CodeVerified, AccountsKept
  <1>6. QED
    BY <1>1, <1>5, QuietClock, BecomeKeeps, FreeIsHarmless DEF SessionInv

LEMMA RegenerateKeeps ==
  ASSUME SessionInv, NEW h \in Handler, NEW code \in Typed, RegenerateRecoveryCodes(h, code)
  PROVE  SessionInv'
  <1> DEFINE p == handler[h].user
             new == FreshCodes(account[p])
  <1>1. handler[h].kind = "renew" /\ Become(h, Free) /\ UNCHANGED <<step, flows, sessions, stops>>
    BY DEF RegenerateRecoveryCodes
  <1>2. (account' = [account EXCEPT ![p] = new] /\ Works(p, code)) \/ UNCHANGED <<account, worked>>
    BY DEF RegenerateRecoveryCodes
  <1>3. /\ p \in Person /\ account[p] \in AccountRow /\ account[p].enabled = (account[p].stored /\ account[p].confirmed)
        /\ account[p].set \in Nat
    BY <1>1, HolderIsPerson DEF AccountRow
  <1>4. Lessens(account[p], new, {}) /\ Lessens(account[p], new, {code.code})
    BY <1>3, SetReplaced
  <1> HIDE DEF new, p
  <1>5. AccountsInv' /\ CodesInv'
    BY <1>2, <1>3, <1>4, CodeVerified, AccountsKept
  <1>6. QED
    BY <1>1, <1>5, QuietClock, BecomeKeeps, FreeIsHarmless DEF SessionInv

LEMMA SetupKeeps ==
  ASSUME SessionInv, NEW s \in DOMAIN sessions, StartSetup(s)
  PROVE  SessionInv'
  <1> DEFINE p == sessions[s].user
             new == [account[p] EXCEPT !.secret = @ + 1, !.stored = TRUE, !.confirmed = FALSE]
  <1>1. /\ account' = [account EXCEPT ![p] = new] /\ ~account[p].enabled
        /\ UNCHANGED <<step, flows, sessions, handler, worked, stops>>
    BY DEF StartSetup, MayStart
  <1>2. p \in Person /\ account[p] \in AccountRow
    BY SessionIsRow DEF SessionInv, AccountsInv
  <1>3. Lessens(account[p], new, {})
    <2>1. account[p].enabled = FALSE /\ account[p].secret + 1 \in Nat
      BY <1>1, <1>2 DEF AccountRow
    <2>2. /\ new \in AccountRow /\ new.set = account[p].set /\ new.codes = account[p].codes
          /\ new.enabled = FALSE /\ new.confirmed = FALSE
      BY <1>2, <2>1 DEF AccountRow
    <2> HIDE DEF new
    <2>3. QED
      BY <2>2, LessensBy
  <1> HIDE DEF new, p
  <1>4. AccountsInv' /\ CodesInv'
    BY <1>1, <1>2, <1>3, AccountChanges
  <1>5. QED
    BY <1>1, <1>4, QuietClock, QuietHandlers DEF SessionInv

LEMMA SuspendKeeps ==
  ASSUME SessionInv, NEW p \in Person, SuspendAccount(p)
  PROVE  SessionInv'
  <1> DEFINE new == [account[p] EXCEPT !.active = FALSE]
  <1>1. /\ account' = [account EXCEPT ![p] = new] /\ stops < MaxStops /\ stops' = stops + 1
        /\ UNCHANGED <<step, flows, sessions, handler, worked>>
    BY DEF SuspendAccount
  <1>2. account[p] \in AccountRow /\ account[p].enabled = (account[p].stored /\ account[p].confirmed)
    BY DEF SessionInv, AccountsInv
  <1>3. Lessens(account[p], new, {})
    <2>1. /\ new \in AccountRow /\ new.set = account[p].set /\ new.codes = account[p].codes /\ new.enabled = account[p].enabled
          /\ new.stored = account[p].stored /\ new.confirmed = account[p].confirmed /\ new.set \in Nat
      BY <1>2 DEF AccountRow
    <2> HIDE DEF new
    <2>2. QED
      BY <1>2, <2>1 DEF Lessens
  <1> HIDE DEF new
  <1>4. AccountsInv' /\ CodesInv'
    BY <1>1, <1>3, AccountChanges
  <1>5. stops + 1 \in 0..MaxStops
    BY <1>1, SessionAssumption DEF SessionInv, ClockInv
  <1>6. ClockInv' /\ StayOver
    BY <1>1, <1>5 DEF SessionInv, ClockInv, StayOver
  <1>7. QED
    BY <1>1, <1>4, <1>6, QuietHandlers DEF SessionInv

LEMMA EndKeeps ==
  ASSUME SessionInv, NEW s \in DOMAIN sessions, EndSession(s)
  PROVE  SessionInv'
  <1> DEFINE new == [sessions[s] EXCEPT !.live = FALSE]
  <1>1. /\ sessions' = [sessions EXCEPT ![s] = new] /\ stops < MaxStops /\ stops' = stops + 1
        /\ UNCHANGED <<step, flows, account, handler, worked>>
    BY DEF EndSession
  <1>2. s \in 1..Len(sessions) /\ sessions[s] \in SessionRow
    BY SessionIsRow
  <1>3. Earned(sessions[s])
    BY <1>2 DEF SessionInv, SignInsInv
  <1>4. /\ new \in SessionRow /\ new.flow = sessions[s].flow /\ new.claims = sessions[s].claims /\ new.user = sessions[s].user
        /\ new.owed => new.pending \/ new.proved
    BY <1>2, <1>3 DEF SessionRow, Earned
  <1> HIDE DEF new
  <1>5. /\ SignInsInv' /\ Len(sessions') = Len(sessions)
        /\ \A r \in 1..Len(sessions) : sessions'[r].flow = sessions[r].flow
    BY <1>1, <1>2, <1>4, SessionChanges
  <1>6. stops + 1 \in 0..MaxStops
    BY <1>1, SessionAssumption DEF SessionInv, ClockInv
  <1>7. ClockInv' /\ StayOver
    BY <1>1, <1>6 DEF SessionInv, ClockInv, StayOver
  <1>8. handler' \in [Handler -> Held]
    BY <1>1 DEF SessionInv, HandlersInv
  <1>9. HandlersInv'
    BY <1>1, <1>5, <1>7, <1>8, HandlersKept
  <1>10. QED
    BY <1>1, <1>5, <1>7, <1>9, AccountsKept DEF SessionInv

LEMMA RestartKeeps ==
  ASSUME SessionInv, Restart
  PROVE  SessionInv'
  <1>1. /\ stops < MaxStops /\ stops' = stops + 1 /\ handler' = [h \in Handler |-> Free]
        /\ flows' = [f \in State |-> IF flows[f] = NoFlow THEN NoFlow ELSE Gone]
        /\ UNCHANGED <<step, sessions, account, worked>>
    BY DEF Restart, Gone
  <1>2. stops + 1 \in 0..MaxStops
    BY <1>1, SessionAssumption DEF SessionInv, ClockInv
  <1>3. ClockInv' /\ StayOver
    <2>1. flows' \in [State -> Flow]
      BY <1>1 DEF Flow
    <2>2. StayOver
      BY <1>1 DEF StayOver, Gone, NoFlow
    <2>3. QED
      BY <1>1, <1>2, <2>1, <2>2 DEF SessionInv, ClockInv
  <1>4. handler' \in [Handler -> Held] /\ \A g \in Handler : Harmless(handler'[g])
    BY <1>1, FreeIsHarmless
  <1>5. HandlersInv'
    BY <1>1, <1>3, <1>4, HandlersKept
  <1>6. QED
    BY <1>1, <1>3, <1>5, SignInsKept, AccountsKept DEF SessionInv

LEMMA StepKeeps ==
  ASSUME SessionInv, NextStep
  PROVE  SessionInv'
  <1>1. step + 1 \in 0..MaxStep /\ step' = step + 1 /\ UNCHANGED <<flows, sessions, account, handler, worked, stops>>
    BY SessionAssumption DEF NextStep, SessionInv, ClockInv
  <1>2. ClockInv' /\ StayOver
    BY <1>1 DEF SessionInv, ClockInv, StayOver
  <1>3. QED
    BY <1>1, <1>2, QuietHandlers, AccountsKept DEF SessionInv

-----------------------------------------------------------------------------
LEMMA SessionNextKeeps ==
  ASSUME SessionInv, [SessionNext]_sessionVars
  PROVE  SessionInv'
  <1>1. CASE NextStep
    BY <1>1, StepKeeps
  <1>2. CASE Restart
    BY <1>2, RestartKeeps
  <1>3. ASSUME NEW p \in Person, SuspendAccount(p) PROVE SessionInv'
    BY <1>3, SuspendKeeps
  <1>4. ASSUME NEW f \in State, HandleAuthStart(f) PROVE SessionInv'
    BY <1>4, StartKeeps
  <1>5. ASSUME NEW f \in State, NEW s \in DOMAIN sessions, HandleBackupLinkStart(f, s) PROVE SessionInv'
    BY <1>5, LinkStartKeeps
  <1>6. ASSUME NEW h \in Handler, NEW f \in State, NEW denied \in BOOLEAN, HandleAuthCallback(h, f, denied) PROVE SessionInv'
    BY <1>6, CallbackKeeps
  <1>7. ASSUME NEW h \in Handler, NEW c \in Claims, Exchanged(h, c) PROVE SessionInv'
    BY <1>7, ExchangedKeeps
  <1>8. ASSUME NEW h \in Handler, Established(h) PROVE SessionInv'
    BY <1>8, EstablishedKeeps
  <1>9. ASSUME NEW h \in Handler, FinishBackupLink(h) PROVE SessionInv'
    BY <1>9, LinkKeeps
  <1>10. ASSUME NEW h \in Handler, NEW s \in DOMAIN sessions, NEW kind \in {"mfa", "confirm", "disable", "renew"},
                Begin(h, s, kind)
         PROVE  SessionInv'
    BY <1>10, BeginKeeps
  <1>11. ASSUME NEW h \in Handler, NEW code \in Typed, HandleMfaVerify(h, code) PROVE SessionInv'
    BY <1>11, VerifyKeeps
  <1>12. ASSUME NEW h \in Handler, NEW code \in Typed, Disable(h, code) PROVE SessionInv'
    BY <1>12, DisableKeeps
  <1>13. ASSUME NEW h \in Handler, NEW code \in Typed, RegenerateRecoveryCodes(h, code) PROVE SessionInv'
    BY <1>13, RegenerateKeeps
  <1>14. ASSUME NEW h \in Handler, NEW code \in Typed, NEW cut \in BOOLEAN, ConfirmSetup(h, code, cut) PROVE SessionInv'
    BY <1>14, ConfirmKeeps
  <1>15. ASSUME NEW s \in DOMAIN sessions, StartSetup(s) PROVE SessionInv'
    BY <1>15, SetupKeeps
  <1>16. ASSUME NEW s \in DOMAIN sessions, EndSession(s) PROVE SessionInv'
    BY <1>16, EndKeeps
  <1>17. CASE UNCHANGED sessionVars
    BY <1>17 DEF sessionVars, SessionInv, ClockInv, AccountsInv, SignInsInv, HandlersInv, CodesInv, Earned, Takes, Genuine,
                 VerifyIdToken
  <1>18. QED
    BY <1>1, <1>2, <1>3, <1>4, <1>5, <1>6, <1>7, <1>8, <1>9, <1>10, <1>11, <1>12, <1>13, <1>14, <1>15, <1>16, <1>17
    DEF SessionNext

\* An enrolled secret is replaced by no setup, and by no code.
LEMMA SecretStaysStep ==
  ASSUME SessionInv, [SessionNext]_sessionVars, NEW p \in Person, account[p].enabled, account'[p].enabled
  PROVE  account'[p].secret = account[p].secret
  <1>1. account \in [Person -> AccountRow]
    BY DEF SessionInv, AccountsInv
  <1>2. ASSUME NEW q \in Person, NEW new, account' = [account EXCEPT ![q] = new], new.secret = account[q].secret
        PROVE  account'[p].secret = account[p].secret
    <2>1. account'[p] = IF p = q THEN new ELSE account[p]
      BY <1>1, <1>2
    <2>2. QED
      BY <1>2, <2>1
  <1>3. ASSUME NEW h \in Handler, NEW code, account' = [account EXCEPT ![handler[h].user] = Consumed(handler[h].user, code)],
               handler[h].kind = "mfa"
        PROVE  account'[p].secret = account[p].secret
    <2>1. handler[h].user \in Person /\ account[handler[h].user] \in AccountRow
      BY <1>3, HolderIsPerson
    <2>2. Consumed(handler[h].user, code).secret = account[handler[h].user].secret
      BY <2>1 DEF Consumed, AccountRow
    <2>3. QED
      BY <1>2, <1>3, <2>1, <2>2
  <1>4. ASSUME NEW h \in Handler, NEW c \in Claims, Exchanged(h, c) PROVE account'[p].secret = account[p].secret
    <2>1. CASE VerifyIdToken(c)
      <3>1. c.sub \in Person
        BY SessionAssumption
      <3>2. account' = [account EXCEPT ![c.sub] = [account[c.sub] EXCEPT !.known = TRUE]]
        BY <1>4, <2>1 DEF Exchanged
      <3>3. [account[c.sub] EXCEPT !.known = TRUE].secret = account[c.sub].secret
        BY <1>1, <3>1 DEF AccountRow
      <3>4. QED
        BY <1>2, <3>1, <3>2, <3>3
    <2>2. CASE ~VerifyIdToken(c)
      BY <1>4, <2>2 DEF Exchanged
    <2>3. QED
      BY <2>1, <2>2
  <1>5. ASSUME NEW h \in Handler, NEW code \in Typed, NEW cut \in BOOLEAN, ConfirmSetup(h, code, cut)
        PROVE  account'[p].secret = account[p].secret
    <2> DEFINE q == handler[h].user
               on == [account[q] EXCEPT !.confirmed = TRUE, !.enabled = TRUE]
               new == IF cut THEN on ELSE FreshCodes(on)
    <2>1. q \in Person /\ account[q] \in AccountRow
      BY <1>5, HolderIsPerson DEF ConfirmSetup
    <2>2. UNCHANGED account \/ account' = [account EXCEPT ![q] = new]
      BY <1>5 DEF ConfirmSetup
    <2>3. new.secret = account[q].secret
      BY <2>1 DEF AccountRow, FreshCodes
    <2> HIDE DEF new, q
    <2>4. QED
      BY <1>2, <2>1, <2>2, <2>3
  <1>6. ASSUME NEW h \in Handler, NEW code \in Typed, Disable(h, code) PROVE account'[p].secret = account[p].secret
    <2> DEFINE q == handler[h].user
               new == [account[q] EXCEPT !.stored = FALSE, !.confirmed = FALSE, !.enabled = FALSE, !.codes = {}]
    <2>1. q \in Person /\ account[q] \in AccountRow
      BY <1>6, HolderIsPerson DEF Disable
    <2>2. UNCHANGED account \/ account' = [account EXCEPT ![q] = new]
      BY <1>6 DEF Disable
    <2>3. new.secret = account[q].secret
      BY <2>1 DEF AccountRow
    <2> HIDE DEF new, q
    <2>4. QED
      BY <1>2, <2>1, <2>2, <2>3
  <1>7. ASSUME NEW h \in Handler, NEW code \in Typed, RegenerateRecoveryCodes(h, code) PROVE account'[p].secret = account[p].secret
    <2> DEFINE q == handler[h].user
               new == FreshCodes(account[q])
    <2>1. q \in Person /\ account[q] \in AccountRow
      BY <1>7, HolderIsPerson DEF RegenerateRecoveryCodes
    <2>2. UNCHANGED account \/ account' = [account EXCEPT ![q] = new]
      BY <1>7 DEF RegenerateRecoveryCodes
    <2>3. new.secret = account[q].secret
      BY <2>1 DEF AccountRow, FreshCodes
    <2> HIDE DEF new, q
    <2>4. QED
      BY <1>2, <2>1, <2>2, <2>3
  <1>8. ASSUME NEW s \in DOMAIN sessions, StartSetup(s) PROVE account'[p].secret = account[p].secret
    <2> DEFINE q == sessions[s].user
               new == [account[q] EXCEPT !.secret = @ + 1, !.stored = TRUE, !.confirmed = FALSE]
    <2>1. q \in Person /\ account' = [account EXCEPT ![q] = new] /\ ~account[q].enabled
      BY <1>8, SessionIsRow DEF StartSetup, MayStart
    <2> HIDE DEF new, q
    <2>2. p # q
      BY <2>1
    <2>3. QED
      BY <1>1, <2>1, <2>2
  <1>9. ASSUME NEW q \in Person, SuspendAccount(q) PROVE account'[p].secret = account[p].secret
    <2>1. account' = [account EXCEPT ![q] = [account[q] EXCEPT !.active = FALSE]]
      BY <1>9 DEF SuspendAccount
    <2>2. [account[q] EXCEPT !.active = FALSE].secret = account[q].secret
      BY <1>1 DEF AccountRow
    <2>3. QED
      BY <1>2, <2>1, <2>2
  <1>10. \/ UNCHANGED account
         \/ \E q \in Person : SuspendAccount(q)
         \/ \E h \in Handler : \/ \E c \in Claims : Exchanged(h, c)
                               \/ \E code \in Typed : \/ HandleMfaVerify(h, code) \/ Disable(h, code)
                                                      \/ RegenerateRecoveryCodes(h, code)
                                                      \/ \E cut \in BOOLEAN : ConfirmSetup(h, code, cut)
         \/ \E s \in DOMAIN sessions : StartSetup(s)
    BY DEF SessionNext, sessionVars, NextStep, Restart, HandleAuthStart, HandleBackupLinkStart, HandleAuthCallback, Established,
           FinishBackupLink, Begin, EndSession
  <1>11. ASSUME NEW h \in Handler, NEW code \in Typed, HandleMfaVerify(h, code) PROVE account'[p].secret = account[p].secret
    BY <1>3, <1>11 DEF HandleMfaVerify
  <1>12. QED
    BY <1>4, <1>5, <1>6, <1>7, <1>8, <1>9, <1>10, <1>11

LEMMA SessionsMeanIt ==
  ASSUME SessionInv
  PROVE  SessionTypeOK /\ FactorBeforeApi /\ OneSessionAFlow /\ CodesWorkOnce
  <1>1. sessions \in Seq(SessionRow) /\ DOMAIN sessions = 1..Len(sessions) /\ worked \in Seq(Spent) /\ DOMAIN worked = 1..Len(worked)
    BY DEF SessionInv, SignInsInv, CodesInv
  <1>2. \A s \in DOMAIN sessions : sessions[s] \in SessionRow /\ Earned(sessions[s])
    BY <1>1 DEF SessionInv, SignInsInv
  <1>3. SessionTypeOK
    <2>1. \A f \in State : flows[f].kind \in {"none", "login", "link", "gone"}
      BY DEF SessionInv, ClockInv, Flow, NoFlow, Gone
    <2>2. \A s \in DOMAIN sessions : sessions[s].user \in Person /\ {sessions[s].pending, sessions[s].live} \subseteq BOOLEAN
      BY <1>2 DEF SessionRow
    <2>3. \A p \in Person : /\ account[p].enabled = (account[p].stored /\ account[p].confirmed)
                            /\ account[p].codes \subseteq 1..RecoveryCodes
      BY DEF SessionInv, AccountsInv, AccountRow
    <2>4. \A h \in Handler : handler[h].kind \in {"none", "exchange", "ensure", "link", "mfa", "confirm", "disable", "renew"}
      BY DEF SessionInv, HandlersInv, Held, Free
    <2>5. QED
      BY <2>1, <2>2, <2>3, <2>4 DEF SessionTypeOK, SessionInv, ClockInv, SignInsInv
  <1>4. FactorBeforeApi
    BY <1>2 DEF FactorBeforeApi, Authenticate, Earned
  <1>5. OneSessionAFlow
    BY <1>1, <1>2 DEF OneSessionAFlow, SessionInv, SignInsInv, Earned, Gone
  <1>6. CodesWorkOnce
    BY <1>1 DEF CodesWorkOnce, SessionInv, CodesInv
  <1>7. QED
    BY <1>3, <1>4, <1>5, <1>6

\* Signing in keeps its promises for any people, tokens, flows and handlers:
\* the second factor is proved before the API is reached, whatever happens to
\* the factor in other sessions; a flow makes one session, for the account of
\* its token; a recovery code works once, across its handlers and sets; an
\* enrolled secret is replaced by no setup begun before (auth-service.ts,
\* mfa-service.ts).
THEOREM SessionsAreSafe == SessionSpec => SessionsSafe
  <1>1. SessionInit => SessionInv
    BY SessionInitInv
  <1>2. SessionInv /\ [SessionNext]_sessionVars => SessionInv'
    BY SessionNextKeeps
  <1>3. SessionInv => SessionTypeOK /\ FactorBeforeApi /\ OneSessionAFlow /\ CodesWorkOnce
    BY SessionsMeanIt
  <1>4. SessionInv /\ [SessionNext]_sessionVars =>
          [\A p \in Person : account[p].enabled /\ account'[p].enabled => account'[p].secret = account[p].secret]_sessionVars
    BY SecretStaysStep
  <1>5. QED
    BY <1>1, <1>2, <1>3, <1>4, PTL DEF SessionSpec, SessionsSafe, SecretStays

-----------------------------------------------------------------------------
(***************************************************************************)
(* Signed requests.                                                        *)
(***************************************************************************)

Scope == {"public", "anonymous", "failure"}

\* What arrives: its signature is the one it was sent with, or none.
Read == {"signature", "date", "expires", "signed", "form"}
CanArrive(m) ==
    /\ m.date \in Int /\ m.expires \in Int /\ m.signature \in {sent.signature, NoSignature}
    /\ m.signed => sent.signed /\ m.form = sent.form

\* What a client signed.
WellSigned(m) ==
    /\ m.signed /\ m.whole /\ m.key \in AccessKey /\ m.stamp = DayOf(m.date)
    /\ m.signature = [key |-> m.key, text |-> TextOf(m)]
    /\ "host" \in m.names /\ m.names \subseteq DOMAIN m.headers
    /\ m.form = "headerA" => "region" \in m.names /\ m.headers["region"] = m.region

SentInv ==
    \/ sent = NoRequest
    \/ /\ sent # NoRequest /\ Read \subseteq DOMAIN sent
       /\ sent.form \in Form /\ sent.date \in Int /\ sent.expires \in Int
       /\ IF sent.form = "bare" THEN ~sent.signed ELSE WellSigned(sent)

StoreInv ==
    /\ now \in 0..(Day + MaxTime) /\ suspended \subseteq Account
    /\ keys \in [AccessKey -> {"none", "active", "sealed", "revoked", "forgotten"}]
    /\ tokens \in [Scope -> Nat] /\ \A s \in Scope : tokens[s] <= Allowance[s]

AnswerInv ==
    /\ taken.who \in Account \cup {Nobody, "refused", "slowed", "nothing"}
    /\ ~Unanswered => sent # NoRequest
    /\ TakenForItsSigner /\ TakenInTime /\ SignedIsNeverAnonymous

SignInv == StoreInv /\ SentInv /\ AnswerInv

LEMMA NotAnAccount == {Nobody, "refused", "slowed", "nothing"} \cap Account = {} /\ Nobody \notin {"refused", "slowed", "nothing"}
  BY SignedAssumption DEF Account, AccessKey

LEMMA SignInitInv == SignInit => SignInv
  <1> SUFFICES ASSUME SignInit PROVE SignInv
    OBVIOUS
  <1>1. now \in 0..(Day + MaxTime)
    BY SignedAssumption DEF SignInit
  <1>2. keys \in [AccessKey -> {"none", "active", "sealed", "revoked", "forgotten"}]
    BY DEF SignInit
  <1>3. tokens \in [Scope -> Nat] /\ \A s \in Scope : tokens[s] <= Allowance[s]
    <2>1. PICK left \in {{}, {"public"}, DOMAIN Allowance} : tokens = [s \in DOMAIN Allowance |-> IF s \in left THEN Allowance[s] ELSE 0]
      BY DEF SignInit
    <2>2. DOMAIN Allowance = Scope /\ \A s \in Scope : Allowance[s] \in Nat
      BY SignedAssumption DEF Scope
    <2>3. QED
      BY <2>1, <2>2
  <1>4. StoreInv
    BY <1>1, <1>2, <1>3 DEF SignInit, StoreInv
  <1>5. SentInv
    BY DEF SignInit, SentInv
  <1>6. taken.who = "nothing"
    BY DEF SignInit
  <1>7. AnswerInv
    BY <1>6, NotAnAccount DEF AnswerInv, Unanswered, TakenForItsSigner, TakenInTime, SignedIsNeverAnonymous
  <1>8. QED
    BY <1>4, <1>5, <1>7 DEF SignInv

-----------------------------------------------------------------------------
\* What arrives is on the wire, and a signature is of the form it was sent in.
LEMMA WhatArrives ==
  ASSUME SentInv, sent # NoRequest, NEW m \in Changed(sent)
  PROVE  CanArrive(m)
  <1>1. /\ Read \subseteq DOMAIN sent /\ sent.date \in Int /\ sent.expires \in Int /\ (sent.form # "bare" => sent.signed)
    BY DEF SentInv, WellSigned
  <1>2. CanArrive(sent)
    BY <1>1 DEF CanArrive
  <1>3. ASSUME NEW f, NEW v, f \notin Read, m = [sent EXCEPT ![f] = v] PROVE CanArrive(m)
    <2>1. \A r \in Read : m[r] = sent[r]
      BY <1>1, <1>3
    <2>2. QED
      BY <1>2, <2>1 DEF CanArrive, Read
  <1>4. ASSUME NEW f \in {"date", "expires"}, NEW v \in Int, m = [sent EXCEPT ![f] = v] PROVE CanArrive(m)
    <2>1. (\A r \in Read : r # f => m[r] = sent[r]) /\ m[f] = v
      BY <1>1, <1>4 DEF Read
    <2>2. QED
      BY <1>2, <1>4, <2>1 DEF CanArrive, Read
  <1>5. ASSUME NEW v \in Int, NEW w, m = [sent EXCEPT !.date = v, !.stamp = w] PROVE CanArrive(m)
    <2>1. (\A r \in Read : r # "date" => m[r] = sent[r]) /\ m.date = v
      BY <1>1, <1>5 DEF Read
    <2>2. QED
      BY <1>2, <2>1 DEF CanArrive, Read
  <1>6. ASSUME m = [sent EXCEPT !.signature = NoSignature] PROVE CanArrive(m)
    <2>1. (\A r \in Read : r # "signature" => m[r] = sent[r]) /\ m.signature = NoSignature
      BY <1>1, <1>6 DEF Read
    <2>2. QED
      BY <1>2, <2>1 DEF CanArrive, Read
  <1>7. ASSUME NEW v, sent.form # "bare", m = [sent EXCEPT !.signed = v, !.whole = FALSE] PROVE CanArrive(m)
    <2>1. \A r \in Read : r # "signed" => m[r] = sent[r]
      BY <1>1, <1>7 DEF Read
    <2>2. QED
      BY <1>1, <1>2, <1>7, <2>1 DEF CanArrive, Read
  <1>8. ASSUME NEW v, m = [sent EXCEPT !.signed = FALSE, !.whole = FALSE, !.form = v] PROVE CanArrive(m)
    <2>1. (\A r \in {"signature", "date", "expires"} : m[r] = sent[r]) /\ m.signed = FALSE
      BY <1>1, <1>8 DEF Read
    <2>2. QED
      BY <1>2, <2>1 DEF CanArrive
  <1>9. sent.date + 1 \in Int /\ sent.date + Day \in Int /\ sent.expires + 1 \in Int
    <2>1. Day \in Nat
      BY SignedAssumption
    <2>2. QED
      BY <1>1, <2>1
  <1>10. {"method", "path", "params", "headers", "payload", "names", "whole", "stamp", "region", "key"} \cap Read = {}
    BY DEF Read
  <1>11. CASE \/ m = sent
              \/ m \in {[sent EXCEPT !.method = "PUT"], [sent EXCEPT !.path = "/b/other"], [sent EXCEPT !.params = {"versionId"}],
                        [sent EXCEPT !.payload = "STREAMING"], [sent EXCEPT !.names = @ \cup {"missing"}],
                        [sent EXCEPT !.names = {"other"}], [sent EXCEPT !.whole = FALSE]}
    BY <1>2, <1>3, <1>10, <1>11
  <1>12. CASE m \in {[sent EXCEPT !.headers.other = "w"], [sent EXCEPT !.headers.host = "elsewhere"],
                      [sent EXCEPT !.headers.region = "theirs"], [sent EXCEPT !.region = "theirs"]}
    BY <1>3, <1>10, <1>12
  <1>13. CASE m \in {[sent EXCEPT !.date = @ + 1], [sent EXCEPT !.date = @ + Day], [sent EXCEPT !.expires = @ + 1]}
    BY <1>4, <1>9, <1>13
  <1>14. CASE m \in {[sent EXCEPT !.stamp = @ + 1], [sent EXCEPT !.date = @ + Day, !.stamp = @ + 1]}
    BY <1>3, <1>5, <1>9, <1>10, <1>14
  <1>15. CASE \E k \in AccessKey : m = [sent EXCEPT !.key = k]
    BY <1>3, <1>10, <1>15
  <1>16. CASE sent.form # "bare" /\ m \in {[sent EXCEPT !.signature = NoSignature],
                [sent EXCEPT !.signed = ~InQuery(sent), !.whole = FALSE],
                [sent EXCEPT !.signed = FALSE, !.whole = FALSE, !.form = "bare"]}
    BY <1>6, <1>7, <1>8, <1>16
  <1>17. QED
    BY <1>11, <1>12, <1>13, <1>14, <1>15, <1>16 DEF Changed

\* A text is not nothing.
LEMMA TextIsSomething == ASSUME NEW m PROVE TextOf(m) # <<>>
  <1>1. "method" \in DOMAIN TextOf(m)
    BY DEF TextOf
  <1>2. DOMAIN <<>> = {}
    OBVIOUS
  <1>3. QED
    BY <1>1, <1>2

\* What verifies is what was signed: its signer's key, and of the request what
\* the signature is over.
LEMMA VerifiedWasSigned ==
  ASSUME SentInv, sent # NoRequest, NEW m \in Changed(sent), Verifies(m)
  PROVE  /\ sent.form # "bare" /\ WellSigned(sent) /\ m.date \in Int /\ m.form = sent.form /\ m.key = sent.key
         /\ m.date = sent.date /\ m.method = sent.method /\ m.path = sent.path /\ m.params = sent.params
         /\ InQuery(sent) => m.expires = sent.expires
         /\ InQuery(sent) \/ m.payload = sent.payload
         /\ \A n \in sent.names \cup {"host"} : m.headers[n] = sent.headers[n]
  <1>1. (sent.form # "bare" => WellSigned(sent)) /\ (sent.form = "bare" => ~sent.signed)
    BY DEF SentInv
  <1>2. m.date \in Int /\ m.signature \in {sent.signature, NoSignature} /\ (m.signed => sent.signed /\ m.form = sent.form)
    BY WhatArrives DEF CanArrive
  <1>3. sent.form # "bare" /\ m.form = sent.form /\ WellSigned(sent)
    BY <1>1, <1>2 DEF Verifies
  <1>4. m.signature = [key |-> m.key, text |-> TextOf(m)] /\ sent.signature = [key |-> sent.key, text |-> TextOf(sent)]
    BY <1>3 DEF Verifies, WellSigned
  <1>5. m.signature # NoSignature
    <2>1. m.signature.text # NoSignature.text
      BY <1>4, TextIsSomething DEF NoSignature
    <2>2. QED
      BY <2>1
  <1>6. m.signature = sent.signature
    BY <1>2, <1>5
  <1>7. m.key = sent.key /\ TextOf(m) = TextOf(sent)
    <2> DEFINE a == TextOf(m)
               b == TextOf(sent)
    <2>1. [key |-> m.key, text |-> a] = [key |-> sent.key, text |-> b]
      BY <1>4, <1>6
    <2> HIDE DEF a, b
    <2>2. m.key = sent.key /\ a = b
      BY <2>1
    <2>3. QED
      BY <2>2 DEF a, b
  <1>8. \A x : /\ TextOf(x).date = x.date /\ TextOf(x).method = x.method /\ TextOf(x).path = x.path
               /\ TextOf(x).query = QueryOf(x) /\ TextOf(x).headers = Canonical(x) /\ TextOf(x).names = x.names
               /\ TextOf(x).payload = PayloadOf(x)
    BY DEF TextOf
  <1>9. m.date = sent.date /\ m.method = sent.method /\ m.path = sent.path /\ m.names = sent.names
        /\ QueryOf(m) = QueryOf(sent) /\ Canonical(m) = Canonical(sent) /\ PayloadOf(m) = PayloadOf(sent)
    BY <1>7, <1>8
  <1>10. InQuery(m) = InQuery(sent)
    BY <1>3 DEF InQuery
  <1>11. m.params = sent.params /\ (InQuery(sent) => m.expires = sent.expires)
    BY <1>9, <1>10 DEF QueryOf
  <1>12. InQuery(sent) \/ m.payload = sent.payload
    BY <1>9, <1>10 DEF PayloadOf
  <1>13. "host" \in m.names /\ m.names \subseteq DOMAIN m.headers /\ sent.names \subseteq DOMAIN sent.headers
    BY <1>3 DEF Verifies, SignsEnough, WellSigned
  <1>14. ASSUME NEW n \in sent.names \cup {"host"} PROVE m.headers[n] = sent.headers[n]
    <2>1. n \in m.names \cap DOMAIN m.headers /\ n \in sent.names \cap DOMAIN sent.headers
      BY <1>9, <1>13
    <2>2. Canonical(m)[n] = m.headers[n] /\ Canonical(sent)[n] = sent.headers[n]
      BY <2>1 DEF Canonical
    <2>3. QED
      BY <1>9, <2>2
  <1>15. QED
    BY <1>2, <1>3, <1>7, <1>9, <1>11, <1>12, <1>14

-----------------------------------------------------------------------------
\* Until there is an answer there is nothing to say about it.
LEMMA NoAnswerYet ==
  ASSUME Unanswered
  PROVE  AnswerInv
  BY NotAnAccount DEF AnswerInv, Unanswered, TakenForItsSigner, TakenInTime, SignedIsNeverAnonymous

LEMMA NoAnswerStill == ASSUME Unanswered, UNCHANGED taken PROVE AnswerInv'
  BY NoAnswerYet, NotAnAccount DEF AnswerInv, Unanswered, TakenForItsSigner, TakenInTime, SignedIsNeverAnonymous

LEMMA SentStays == ASSUME SentInv, UNCHANGED sent PROVE SentInv'
  <1>1. TextOf(sent)' = TextOf(sent)
    BY DEF TextOf, Canonical, PayloadOf, QueryOf, InQuery, Asymmetric
  <1>2. WellSigned(sent)' <=> WellSigned(sent)
    BY <1>1 DEF WellSigned, DayOf
  <1>3. QED
    BY <1>2 DEF SentInv

LEMMA PassKeeps ==
  ASSUME SignInv, Pass
  PROVE  SignInv'
  <1>1. Unanswered /\ now' = now + 1 /\ now < Day - 1 + MaxTime /\ tokens' = Allowance /\ UNCHANGED <<keys, suspended, sent, taken>>
    BY DEF Pass
  <1>2. now' \in 0..(Day + MaxTime)
    BY <1>1, SignedAssumption DEF SignInv, StoreInv
  <1>3. Allowance \in [Scope -> Nat] /\ \A s \in Scope : Allowance[s] <= Allowance[s]
    BY SignedAssumption DEF Scope
  <1>4. StoreInv'
    BY <1>1, <1>2, <1>3 DEF SignInv, StoreInv
  <1>5. QED
    BY <1>1, <1>4, SentStays, NoAnswerStill DEF SignInv

LEMMA KeysKeep ==
  ASSUME SignInv, NEW new \in [AccessKey -> {"none", "active", "sealed", "revoked", "forgotten"}], KeysBecome(new)
  PROVE  SignInv'
  <1>1. Unanswered /\ keys' = new /\ UNCHANGED <<now, suspended, tokens, sent, taken>>
    BY DEF KeysBecome, KeyEvent
  <1>2. StoreInv'
    BY <1>1 DEF SignInv, StoreInv
  <1>3. QED
    BY <1>1, <1>2, SentStays, NoAnswerStill DEF SignInv

LEMMA OneKeyKeeps ==
  ASSUME SignInv, NEW k \in AccessKey, CreateKey(k) \/ RevokeActive(k) \/ DeleteRevoked(k)
  PROVE  SignInv'
  <1>1. PICK v \in {"active", "revoked", "forgotten"} : KeysBecome([keys EXCEPT ![k] = v])
    BY DEF CreateKey, RevokeActive, DeleteRevoked
  <1>2. [keys EXCEPT ![k] = v] \in [AccessKey -> {"none", "active", "sealed", "revoked", "forgotten"}]
    BY DEF SignInv, StoreInv
  <1>3. QED
    BY <1>1, <1>2, KeysKeep

LEMMA RotateKeeps ==
  ASSUME SignInv, NEW k \in AccessKey, NEW new \in AccessKey, RotateActive(k, new)
  PROVE  SignInv'
  <1>1. KeysBecome([keys EXCEPT ![k] = "revoked", ![new] = "active"])
    BY DEF RotateActive
  <1>2. [keys EXCEPT ![k] = "revoked", ![new] = "active"] \in [AccessKey -> {"none", "active", "sealed", "revoked", "forgotten"}]
    BY DEF SignInv, StoreInv
  <1>3. QED
    BY <1>1, <1>2, KeysKeep

LEMMA SuspendedKeeps ==
  ASSUME SignInv, NEW a \in Account, Suspend(a)
  PROVE  SignInv'
  <1>1. Unanswered /\ suspended' = suspended \cup {a} /\ UNCHANGED <<now, keys, tokens, sent, taken>>
    BY DEF Suspend, KeyEvent
  <1>2. StoreInv'
    BY <1>1 DEF SignInv, StoreInv
  <1>3. QED
    BY <1>1, <1>2, SentStays, NoAnswerStill DEF SignInv

LEMMA SendKeeps ==
  ASSUME SignInv, NEW form \in Form, NEW k \in AccessKey, NEW date \in Int, NEW expires \in Int, NEW payload, NEW region,
         Send(form, k, date, expires, payload, region)
  PROVE  SignInv'
  <1> DEFINE base == [Unsigned EXCEPT !.form = form, !.key = k, !.date = date, !.stamp = DayOf(date), !.region = region,
                                      !.expires = expires, !.payload = payload, !.signed = TRUE,
                                      !.headers = HeadersFor(form, region),
                                      !.names = IF form = "headerA" THEN {"host", "region"} ELSE {"host"}]
  <1>1. sent = NoRequest /\ UNCHANGED <<now, keys, suspended, tokens, taken>>
    BY DEF Send
  <1>2. Unanswered
    BY <1>1 DEF SignInv, AnswerInv
  <1>3. "method" \notin DOMAIN NoRequest
    BY DEF NoRequest
  <1>4. SentInv'
    <2>1. CASE form = "bare"
      <3>1. sent' = Unsigned
        BY <2>1 DEF Send
      <3>2. Read \subseteq DOMAIN Unsigned /\ Unsigned.form = "bare" /\ Unsigned.date = 0 /\ Unsigned.expires = 0
            /\ Unsigned.signed = FALSE /\ "method" \in DOMAIN Unsigned
        BY DEF Unsigned, Read
      <3>3. QED
        BY <1>3, <3>1, <3>2 DEF SentInv, Form
    <2>2. CASE form # "bare"
      <3>1. sent' = WithSignature(base, k)
        BY <2>2 DEF Send
      <3>2. /\ DOMAIN base = DOMAIN Unsigned /\ base.form = form /\ base.key = k /\ base.date = date /\ base.stamp = DayOf(date)
            /\ base.region = region /\ base.expires = expires /\ base.signed = TRUE
        BY DEF Unsigned
      <3>3. /\ base.headers = HeadersFor(form, region) /\ base.whole = TRUE
            /\ base.names = IF form = "headerA" THEN {"host", "region"} ELSE {"host"}
        BY DEF Unsigned
      <3>4. Read \cup {"method", "path", "params", "payload", "headers", "names", "key", "stamp", "region", "whole"} \subseteq DOMAIN Unsigned
        BY DEF Unsigned, Read
      <3> DEFINE full == [base EXCEPT !.signature = [key |-> k, text |-> TextOf(base)]]
      <3> HIDE DEF base
      <3>5. sent' = full
        BY <3>1 DEF WithSignature
      <3>6. /\ DOMAIN full = DOMAIN Unsigned /\ full.signature = [key |-> k, text |-> TextOf(base)]
             /\ \A f \in DOMAIN Unsigned : f # "signature" => full[f] = base[f]
        BY <3>2, <3>4 DEF Read
      <3> HIDE DEF full
      <3>7. TextOf(full) = TextOf(base)
        BY <3>4, <3>6 DEF TextOf, Canonical, PayloadOf, QueryOf, InQuery, Asymmetric, Read
      <3>8. /\ full.form = form /\ full.key = k /\ full.date = date /\ full.stamp = DayOf(date) /\ full.region = region
             /\ full.expires = expires /\ full.signed = TRUE /\ full.headers = HeadersFor(form, region) /\ full.whole = TRUE
             /\ full.names = IF form = "headerA" THEN {"host", "region"} ELSE {"host"}
        BY <3>2, <3>3, <3>4, <3>6 DEF Read
      <3>9. /\ "host" \in full.names /\ full.names \subseteq DOMAIN full.headers
            /\ full.form = "headerA" => "region" \in full.names /\ full.headers["region"] = full.region
        BY <3>8 DEF HeadersFor
      <3>10. WellSigned(full)
        BY <3>9, <3>6, <3>7, <3>8 DEF WellSigned
      <3>11. full # NoRequest
        BY <1>3, <3>4, <3>6
      <3>12. WellSigned(sent)'
        <4>1. TextOf(sent)' = TextOf(full)
          BY <3>5 DEF TextOf, Canonical, PayloadOf, QueryOf, InQuery, Asymmetric
        <4>2. QED
          BY <3>5, <3>10, <4>1 DEF WellSigned, DayOf
      <3>13. QED
        BY <2>2, <3>4, <3>11, <3>12, <3>5, <3>6, <3>8 DEF SentInv
    <2>3. QED
      BY <2>1, <2>2
  <1>5. StoreInv'
    BY <1>1 DEF SignInv, StoreInv
  <1>6. QED
    BY <1>1, <1>2, <1>4, <1>5, NoAnswerStill DEF SignInv

\* The answer is for an account only if the request verified.
LEMMA HandleKeeps ==
  ASSUME SignInv, sent # NoRequest, NEW m \in Changed(sent), HandleS3(m)
  PROVE  SignInv'
  <1>1. Unanswered /\ UNCHANGED <<now, keys, suspended, sent, keyEvents>>
    BY DEF HandleS3
  <1>2. StoreInv'
    <2>1. PICK scopes \in SUBSET Scope : Took(scopes)
      BY DEF HandleS3, Scope
    <2>2. tokens \in [Scope -> Nat] /\ \A s \in Scope : tokens[s] <= Allowance[s] /\ Allowance[s] \in Nat
      BY SignedAssumption DEF SignInv, StoreInv, Scope
    <2>3. tokens' = [s \in Scope |-> IF s \in scopes /\ tokens[s] > 0 THEN tokens[s] - 1 ELSE tokens[s]]
      BY <2>1, <2>2 DEF Took
    <2>4. tokens' \in [Scope -> Nat] /\ \A s \in Scope : tokens'[s] <= Allowance[s]
      BY <2>2, <2>3
    <2>5. QED
      BY <1>1, <2>4 DEF SignInv, StoreInv
  <1>3. PICK who : /\ taken' = [who |-> who, request |-> m]
                   /\ \/ Verifies(m) /\ who = Owner[m.key]
                      \/ AllowAnonymous /\ ~LooksSigned(m) /\ who = Nobody
                      \/ who \in {"refused", "slowed"}
    BY DEF HandleS3, Answer
  <1>4. taken'.who = who /\ taken'.request = m
    BY <1>3
  <1>5. CASE Verifies(m) /\ who = Owner[m.key]
    <2>1. SentInv
      BY DEF SignInv
    <2>2. /\ sent.form # "bare" /\ m.form = sent.form /\ m.key = sent.key /\ m.date \in Int
          /\ m.date = sent.date /\ m.method = sent.method /\ m.path = sent.path /\ m.params = sent.params
          /\ InQuery(sent) => m.expires = sent.expires
          /\ InQuery(sent) \/ m.payload = sent.payload
          /\ \A n \in sent.names \cup {"host"} : m.headers[n] = sent.headers[n]
      BY <1>5, <2>1, VerifiedWasSigned
    <2>3. m.key \in AccessKey /\ keys[m.key] = "active" /\ Owner[m.key] \notin suspended /\ InTime(m)
      BY <1>5 DEF Verifies, Usable
    <2>4. who \in Account /\ who \notin {Nobody, "refused", "slowed", "nothing"}
      BY <1>5, <2>3, NotAnAccount DEF Account
    <2>5. TakenForItsSigner'
      <3>1. /\ sent.form # "bare" /\ Owner[sent.key] = who /\ keys[sent.key] = "active" /\ who \notin suspended
        BY <1>5, <2>2, <2>3
      <3>2. QED
        BY <1>1, <1>4, <2>2, <3>1 DEF TakenForItsSigner, InQuery
    <2>6. TakenInTime'
      <3>1. CASE InQuery(sent)
        <4>1. m.expires \in MinExpires..MaxExpires /\ now <= m.date + m.expires
          BY <2>2, <2>3, <3>1 DEF InTime, InQuery
        <4>2. QED
          BY <1>1, <2>2, <3>1, <4>1 DEF TakenInTime, InQuery
      <3>2. CASE ~InQuery(sent)
        <4>1. m.date - now <= Skew /\ now - m.date <= Skew
          BY <2>2, <2>3, <3>2 DEF InTime, InQuery
        <4>2. now \in Int /\ Skew \in Int /\ sent.date \in Int
          BY <2>2, SignedAssumption DEF SignInv, StoreInv
        <4>3. now \in (sent.date - Skew)..(sent.date + Skew)
          BY <2>2, <4>1, <4>2
        <4>4. QED
          BY <1>1, <3>2, <4>3 DEF TakenInTime, InQuery
      <3>3. QED
        BY <3>1, <3>2
    <2>7. AnswerInv'
      BY <1>1, <1>4, <2>4, <2>5, <2>6 DEF AnswerInv, SignedIsNeverAnonymous
    <2>8. QED
      BY <1>1, <1>2, <2>1, <2>7, SentStays DEF SignInv
  <1>6. CASE ~Verifies(m) \/ who # Owner[m.key]
    <2>1. (AllowAnonymous /\ ~LooksSigned(m) /\ who = Nobody) \/ who \in {"refused", "slowed"}
      BY <1>3, <1>6
    <2>2. who \notin Account /\ (who = Nobody => AllowAnonymous /\ ~m.signed)
      BY <2>1, NotAnAccount DEF LooksSigned
    <2>3. AnswerInv'
      BY <1>1, <1>4, <2>1, <2>2 DEF AnswerInv, TakenForItsSigner, TakenInTime, SignedIsNeverAnonymous
    <2>4. QED
      BY <1>1, <1>2, <2>3, SentStays DEF SignInv
  <1>7. QED
    BY <1>5, <1>6

LEMMA SignNextKeeps ==
  ASSUME SignInv, [SignNext]_signVars
  PROVE  SignInv'
  <1>1. CASE Pass
    BY <1>1, PassKeeps
  <1>2. ASSUME NEW k \in AccessKey, CreateKey(k) \/ RevokeActive(k) \/ DeleteRevoked(k) PROVE SignInv'
    BY <1>2, OneKeyKeeps
  <1>3. ASSUME NEW k \in AccessKey, NEW new \in AccessKey, RotateActive(k, new) PROVE SignInv'
    BY <1>3, RotateKeeps
  <1>4. ASSUME NEW a \in Account, Suspend(a) PROVE SignInv'
    BY <1>4, SuspendedKeeps
  <1>5. ASSUME NEW form \in Form, NEW k \in AccessKey, NEW drift \in -MaxDrift..MaxDrift, NEW expires \in {MinExpires - 1, MaxExpires},
               NEW payload \in {"digest", "STREAMING"}, NEW region \in {"ours", "*"},
               Send(form, k, now + drift, expires, payload, region)
        PROVE  SignInv'
    <2>1. now \in Int /\ drift \in Int /\ expires \in Int
      BY SignedAssumption DEF SignInv, StoreInv
    <2>2. now + drift \in Int
      BY <2>1
    <2>3. QED
      BY <1>5, <2>1, <2>2, SendKeeps
  <1>6. ASSUME sent # NoRequest, NEW m \in Changed(sent), HandleS3(m) PROVE SignInv'
    BY <1>6, HandleKeeps
  <1>7. CASE UNCHANGED signVars
    <2>1. UNCHANGED <<now, keys, suspended, tokens, sent, taken>>
      BY <1>7 DEF signVars
    <2>2. SentInv'
      BY <2>1, SentStays DEF SignInv
    <2>3. AnswerInv'
      BY <2>1 DEF SignInv, AnswerInv, Unanswered, TakenForItsSigner, TakenInTime, SignedIsNeverAnonymous, InQuery
    <2>4. QED
      BY <2>1, <2>2, <2>3 DEF SignInv, StoreInv
  <1>8. QED
    BY <1>1, <1>2, <1>3, <1>4, <1>5, <1>6, <1>7 DEF SignNext

\* What is proper and as it was sent verifies.
LEMMA IntactVerifies ==
  ASSUME SignInv, sent # NoRequest, sent.form # "bare", Proper(sent)
  PROVE  Verifies(sent)
  <1>1. WellSigned(sent) /\ sent.form \in Form /\ sent.date \in Int
    BY DEF SignInv, SentInv
  <1>2. RegionMatches(sent)
    BY <1>1 DEF RegionMatches, RegionOf, WellSigned, Proper
  <1>3. InTime(sent)
    <2>1. CASE InQuery(sent)
      BY <2>1 DEF InTime, Proper
    <2>2. CASE ~InQuery(sent)
      <3>1. now \in Int /\ Skew \in Int /\ now \in (sent.date - Skew)..(sent.date + Skew)
        BY SignedAssumption DEF SignInv, StoreInv, Proper
      <3>2. sent.date - now <= Skew /\ now - sent.date <= Skew
        BY <1>1, <3>1
      <3>3. QED
        BY <2>2, <3>2 DEF InTime
    <2>3. QED
      BY <2>1, <2>2
  <1>4. SignsEnough(sent)
    BY <1>1 DEF SignsEnough, WellSigned
  <1>5. Asymmetric(sent) => PayloadOf(sent) # "STREAMING"
    BY DEF Asymmetric, PayloadOf, InQuery, Proper
  <1>6. QED
    BY <1>1, <1>2, <1>3, <1>4, <1>5 DEF Verifies, WellSigned, Proper

LEMMA IntactIsTakenStep ==
  ASSUME SignInv, [SignNext]_signVars, ~Unanswered', Unanswered, sent.form # "bare", taken'.request = sent, Proper(sent),
         tokens["public"] > 0
  PROVE  taken'.who = Owner[sent.key]
  <1>1. taken' # taken
    BY DEF Unanswered
  <1>2. PICK m \in Changed(sent) : sent # NoRequest /\ HandleS3(m)
    <2>1. ~Pass /\ ~UNCHANGED signVars
      BY <1>1 DEF Pass, signVars
    <2>2. ~\E k \in AccessKey : CreateKey(k) \/ RevokeActive(k) \/ DeleteRevoked(k)
      BY <1>1 DEF CreateKey, RevokeActive, DeleteRevoked, KeysBecome
    <2>3. ~\E k, new \in AccessKey : RotateActive(k, new)
      BY <1>1 DEF RotateActive, KeysBecome
    <2>4. ~\E a \in Account : Suspend(a)
      BY <1>1 DEF Suspend
    <2>5. \A form, k, date, expires, payload, region : ~Send(form, k, date, expires, payload, region)
      BY <1>1 DEF Send
    <2>6. QED
      BY <2>1, <2>2, <2>3, <2>4, <2>5 DEF SignNext
  <1>3. taken'.request = m
    BY <1>2 DEF HandleS3, Answer
  <1>4. Verifies(m)
    BY <1>2, <1>3, IntactVerifies
  <1>5. tokens["public"] # 0
    OBVIOUS
  <1>6. taken' = [who |-> Owner[m.key], request |-> m]
    BY <1>2, <1>4, <1>5 DEF HandleS3, Answer
  <1>7. QED
    BY <1>3, <1>6

LEMMA SignMeansIt ==
  ASSUME SignInv
  PROVE  SignTypeOK /\ TakenForItsSigner /\ TakenInTime /\ SignedIsNeverAnonymous
  <1>1. \A s \in DOMAIN tokens : tokens[s] \in 0..Allowance[s]
    BY SignedAssumption DEF SignInv, StoreInv, Scope
  <1>2. sent.form \in Form
    BY DEF SignInv, SentInv, NoRequest, Form
  <1>3. QED
    BY <1>1, <1>2 DEF SignInv, StoreInv, AnswerInv, SignTypeOK

\* A request is taken for an account only if an active key of it signed what
\* arrived, and in the time its signer allowed; one with a signature is never
\* an anonymous one; and what was signed properly and arrives as it was sent is
\* taken for its signer (sigv4.ts, sigv4a.ts, s3/router.ts), whatever keys,
\* clocks, limits and settings there are.
THEOREM SignersAreKnown == SignSpec => SignerKnown
  <1>1. SignInit => SignInv
    BY SignInitInv
  <1>2. SignInv /\ [SignNext]_signVars => SignInv'
    BY SignNextKeeps
  <1>3. SignInv => SignTypeOK /\ TakenForItsSigner /\ TakenInTime /\ SignedIsNeverAnonymous
    BY SignMeansIt
  <1>4. SignInv /\ [SignNext]_signVars =>
          [(/\ ~Unanswered' /\ Unanswered /\ sent.form # "bare" /\ taken'.request = sent
            /\ Proper(sent) /\ tokens["public"] > 0) => taken'.who = Owner[sent.key]]_signVars
    BY IntactIsTakenStep
  <1>5. QED
    BY <1>1, <1>2, <1>3, <1>4, PTL DEF SignSpec, SignerKnown, IntactIsTaken

-----------------------------------------------------------------------------
(***************************************************************************)
(* Rate limits.                                                            *)
(***************************************************************************)

Full == Capacity * Unit
Ask == [who : Client, at : Nat, allowed : BOOLEAN]
BucketRow == [parts : 0..Full, at : Nat]

RecencyInv == recency \in Seq(Client) /\ IsInjective(recency) /\ Len(recency) <= MaxKeys
BucketsInv ==
    /\ tick \in 0..MaxTicks /\ bucket \in [Client -> BucketRow]
    /\ \A c \in Client : bucket[c].at <= tick
AsksInv ==
    /\ asks \in Seq(Ask) /\ since \in [Client -> 0..Len(asks)]
    /\ \A i \in 1..Len(asks) : asks[i].at <= tick

\* Who is further back was asked longer ago.
OrderInv ==
    \A i, j \in 1..Len(recency) : i < j =>
       \E k \in 1..Len(asks) : asks[k].who = recency[j] /\ \A l \in k..Len(asks) : asks[l].who # recency[i]

\* What was allowed from any question on, and what could be allowed now.
SpendInv ==
    \A c \in Client : c \in Range(recency) => \A i \in (since[c] + 1)..Len(asks) :
       Unit * AllowedTo(c, i, Len(asks)) + Refilled(bucket[c]).parts <= Full + Refill * (tick - asks[i].at)

\* From the question on at which its bucket was last full, a client has all
\* that came back and was not spent.
SavedInv ==
    \A c \in Client : c \in Range(recency) => \E i \in 1..Len(asks) :
       /\ asks[i].who = c
       /\ Unit * AllowedTo(c, i, Len(asks)) + bucket[c].parts = Full + Refill * (bucket[c].at - asks[i].at)

LimitInv == RecencyInv /\ BucketsInv /\ AsksInv /\ OrderInv /\ SpendInv /\ SavedInv /\ BurstsAreBounded /\ RefusedForItsOwn

LEMMA FullIsNat == Full \in Nat /\ Full >= Unit
  BY LimitAssumption DEF Full

LEMMA UnitTimes ==
  ASSUME NEW a \in Int
  PROVE  Unit * a \in Int /\ Unit * (a + 1) = Unit * a + Unit
  BY LimitAssumption

LEMMA RefillTimes ==
  ASSUME NEW a \in Int
  PROVE  Refill * a \in Int /\ Refill * (a + 1) = Refill * a + Refill /\ (a >= 0 => Refill * a >= 0)
  BY LimitAssumption

LEMMA RefillSum ==
  ASSUME NEW a \in Int, NEW b \in Int
  PROVE  Refill * (a + b) = Refill * a + Refill * b
  BY LimitAssumption

LEMMA LimitInitInv == LimitInit => LimitInv
  <1> SUFFICES ASSUME LimitInit PROVE LimitInv
    OBVIOUS
  <1>1. recency = <<>> /\ asks = <<>> /\ Len(recency) = 0 /\ Len(asks) = 0 /\ recency \in Seq(Client) /\ asks \in Seq(Ask)
    BY EmptySeq DEF LimitInit
  <1>2. Range(recency) = {} /\ IsInjective(recency)
    BY <1>1 DEF Range, IsInjective
  <1>3. RecencyInv
    BY <1>1, <1>2, LimitAssumption DEF RecencyInv
  <1>4. BucketsInv
    BY FullIsNat, LimitAssumption DEF LimitInit, BucketsInv, BucketRow
  <1>5. AsksInv
    BY <1>1 DEF LimitInit, AsksInv
  <1>6. OrderInv /\ SpendInv /\ SavedInv /\ BurstsAreBounded /\ RefusedForItsOwn
    BY <1>1, <1>2 DEF OrderInv, SpendInv, SavedInv, BurstsAreBounded, RefusedForItsOwn
  <1>7. QED
    BY <1>3, <1>4, <1>5, <1>6 DEF LimitInv

-----------------------------------------------------------------------------
\* What was allowed, when one more question is asked.

LEMMA AllowedIsNat ==
  ASSUME NEW c, NEW i \in Int, NEW j \in Int
  PROVE  /\ {n \in i..j : asks[n].who = c /\ asks[n].allowed} \in SUBSET (i..j)
         /\ IsFiniteSet({n \in i..j : asks[n].who = c /\ asks[n].allowed}) /\ AllowedTo(c, i, j) \in Nat
  <1>1. IsFiniteSet(i..j)
    BY FS_Interval
  <1>2. IsFiniteSet({n \in i..j : asks[n].who = c /\ asks[n].allowed})
    BY <1>1, FS_Subset
  <1>3. QED
    BY <1>2, FS_CardinalityType DEF AllowedTo

LEMMA AllowedStays ==
  ASSUME AsksInv, NEW q \in Ask, asks' = Append(asks, q), NEW c, NEW i \in Nat, NEW j \in 1..Len(asks), i >= 1
  PROVE  AllowedTo(c, i, j)' = AllowedTo(c, i, j)
  <1>1. asks \in Seq(Ask) /\ Len(asks) \in Nat
    BY DEF AsksInv
  <1>2. \A n \in i..j : n \in 1..Len(asks)
    BY <1>1
  <1>3. \A n \in i..j : asks'[n] = asks[n]
    BY <1>1, <1>2, AppendProperties
  <1>4. {n \in i..j : asks'[n].who = c /\ asks'[n].allowed} = {n \in i..j : asks[n].who = c /\ asks[n].allowed}
    BY <1>3
  <1>5. QED
    BY <1>4 DEF AllowedTo

LEMMA AllowedAfter ==
  ASSUME AsksInv, NEW q \in Ask, asks' = Append(asks, q), NEW n \in Nat, n = Len(asks), NEW c, NEW i \in 1..(n + 1)
  PROVE  AllowedTo(c, i, n + 1)' = AllowedTo(c, i, n) + (IF q.who = c /\ q.allowed THEN 1 ELSE 0)
  <1> DEFINE S == {k \in i..n : asks[k].who = c /\ asks[k].allowed}
             T == {k \in i..(n + 1) : asks'[k].who = c /\ asks'[k].allowed}
  <1>1. asks \in Seq(Ask) /\ i \in Int /\ n \in Int
    BY DEF AsksInv
  <1>2. asks'[n + 1] = q /\ \A k \in 1..n : asks'[k] = asks[k] /\ k # n + 1
    BY <1>1, AppendProperties
  <1>3. \A k : k \in i..(n + 1) <=> (k \in i..n \/ k = n + 1)
    BY <1>1
  <1>4. \A k \in i..n : k \in 1..n
    BY <1>1
  <1>5. T = IF q.who = c /\ q.allowed THEN S \cup {n + 1} ELSE S
    BY <1>2, <1>3, <1>4
  <1>6. n + 1 \notin i..n
    BY <1>1
  <1>7. IsFiniteSet(S) /\ n + 1 \notin S
    BY <1>1, <1>6, AllowedIsNat
  <1> HIDE DEF S, T
  <1>8. Cardinality(S) \in Nat /\ Cardinality(S \cup {n + 1}) = Cardinality(S) + 1
    BY <1>7, FS_AddElement, FS_CardinalityType
  <1>9. Cardinality(T) = Cardinality(S) + (IF q.who = c /\ q.allowed THEN 1 ELSE 0)
    BY <1>5, <1>8
  <1>10. AllowedTo(c, i, n + 1)' = Cardinality(T) /\ AllowedTo(c, i, n) = Cardinality(S)
    BY DEF S, T, AllowedTo
  <1>11. QED
    BY <1>9, <1>10

-----------------------------------------------------------------------------
\* Who has a bucket, and in what order.

\* s names each client once, and those of t in the order of t.
Orderly(s, t) ==
    /\ s \in Seq(Client) /\ IsInjective(s) /\ Range(s) \subseteq Range(t)
    /\ \A i, j \in 1..Len(s) : i < j => \E a, b \in 1..Len(t) : a < b /\ t[a] = s[i] /\ t[b] = s[j]

LEMMA WithoutOrderly ==
  ASSUME NEW s \in Seq(Client), IsInjective(s), NEW c \in Range(s)
  PROVE  /\ Orderly(Without(s, c), s) /\ Len(Without(s, c)) = Len(s) - 1
         /\ Range(Without(s, c)) = Range(s) \ {c}
  <1> DEFINE w == Without(s, c)
             n == Len(s)
  <1>1. n \in Nat /\ DOMAIN s = 1..n /\ \A i \in 1..n : s[i] \in Client
    OBVIOUS
  <1>2. PICK p \in 1..n : s[p] = c
    BY <1>1 DEF Range
  <1>3. \A a, b \in 1..n : s[a] = s[b] => a = b
    BY <1>1 DEF IsInjective
  <1>4. n - 1 \in Nat /\ \A i \in 1..(n - 1) : i \in 1..n /\ i + 1 \in 1..n
    BY <1>1, <1>2
  <1>5. \A i \in 1..(n - 1) : (\E j \in 1..i : s[j] = c) <=> p <= i
    BY <1>1, <1>2, <1>3, <1>4
  <1>6. w = [i \in 1..(n - 1) |-> IF p <= i THEN s[i + 1] ELSE s[i]]
    BY <1>5 DEF Without
  <1> HIDE DEF w
  <1>7. w \in Seq(Client) /\ Len(w) = n - 1 /\ DOMAIN w = 1..(n - 1)
    <2>1. \A i \in 1..(n - 1) : w[i] \in Client
      BY <1>1, <1>4, <1>6
    <2>2. w \in [1..(n - 1) -> Client]
      BY <1>6, <2>1
    <2>3. QED
      BY <1>4, <2>2
  <1>8. \A i \in 1..(n - 1) : (w[i] = s[i] /\ i < p) \/ (w[i] = s[i + 1] /\ p < i + 1)
    BY <1>1, <1>2, <1>4, <1>6
  <1>9. IsInjective(w)
    <2>1. \A i, j \in 1..(n - 1) : w[i] = w[j] => i = j
      <3> SUFFICES ASSUME NEW i \in 1..(n - 1), NEW j \in 1..(n - 1), w[i] = w[j] PROVE i = j
        OBVIOUS
      <3>1. CASE w[i] = s[i] /\ i < p /\ w[j] = s[j]
        BY <1>3, <1>4, <3>1
      <3>2. CASE w[i] = s[i] /\ i < p /\ w[j] = s[j + 1] /\ p < j + 1
        <4>1. i = j + 1
          BY <1>3, <1>4, <3>2
        <4>2. QED
          BY <1>1, <1>2, <3>2, <4>1
      <3>3. CASE w[i] = s[i + 1] /\ p < i + 1 /\ w[j] = s[j] /\ j < p
        <4>1. i + 1 = j
          BY <1>3, <1>4, <3>3
        <4>2. QED
          BY <1>1, <1>2, <3>3, <4>1
      <3>4. CASE w[i] = s[i + 1] /\ w[j] = s[j + 1]
        <4>1. i + 1 = j + 1
          BY <1>3, <1>4, <3>4
        <4>2. QED
          BY <1>1, <4>1
      <3>5. QED
        BY <1>8, <3>1, <3>2, <3>3, <3>4
    <2>2. QED
      BY <1>7, <2>1 DEF IsInjective
  <1>10. Range(w) = Range(s) \ {c}
    <2>1. ASSUME NEW x \in Range(w) PROVE x \in Range(s) \ {c}
      <3>1. PICK i \in 1..(n - 1) : w[i] = x
        BY <1>7, <2>1 DEF Range
      <3>2. PICK a \in 1..n : a # p /\ s[a] = x
        BY <1>1, <1>2, <1>4, <1>8, <3>1
      <3>3. QED
        BY <1>1, <1>2, <1>3, <3>2 DEF Range
    <2>2. ASSUME NEW x \in Range(s), x # c PROVE x \in Range(w)
      <3>1. PICK a \in 1..n : s[a] = x
        BY <1>1, <2>2 DEF Range
      <3>2. CASE a < p
        <4>1. a \in 1..(n - 1) /\ ~(p <= a)
          BY <1>1, <1>2, <3>2
        <4>2. w[a] = s[a]
          BY <1>6, <4>1
        <4>3. QED
          BY <1>7, <3>1, <4>1, <4>2 DEF Range
      <3>3. CASE a > p
        <4>1. a - 1 \in 1..(n - 1) /\ p <= a - 1 /\ (a - 1) + 1 = a
          BY <1>1, <1>2, <3>3
        <4>2. w[a - 1] = s[a]
          BY <1>6, <4>1
        <4>3. QED
          BY <1>7, <3>1, <4>1, <4>2 DEF Range
      <3>4. QED
        BY <1>1, <1>2, <2>2, <3>1, <3>2, <3>3
    <2>3. QED
      BY <2>1, <2>2
  <1>11. ASSUME NEW i \in 1..Len(w), NEW j \in 1..Len(w), i < j
         PROVE  \E a, b \in 1..n : a < b /\ s[a] = w[i] /\ s[b] = w[j]
    <2>1. i \in 1..(n - 1) /\ j \in 1..(n - 1) /\ i \in Int /\ j \in Int /\ p \in Int
      BY <1>7
    <2>2. PICK a \in 1..n : s[a] = w[i] /\ (a = i \/ (a = i + 1 /\ p < a))
      BY <1>4, <1>8, <2>1
    <2>3. PICK b \in 1..n : s[b] = w[j] /\ (b = j + 1 \/ (b = j /\ b < p))
      BY <1>4, <1>8, <2>1
    <2>4. a < b
      BY <1>11, <2>1, <2>2, <2>3
    <2>5. QED
      BY <2>2, <2>3, <2>4
  <1>12. QED
    BY <1>7, <1>9, <1>10, <1>11 DEF Orderly, w

\* What room is made for c.
LEMMA RoomOrderly ==
  ASSUME RecencyInv, NEW c \in Client
  PROVE  /\ Orderly(Room(c), recency) /\ Len(Room(c)) < MaxKeys /\ c \notin Range(Room(c))
         /\ \A d \in Range(recency) : d \in Range(Room(c)) \/ d = c \/ (Len(recency) >= 1 /\ d = recency[1])
  <1>1. recency \in Seq(Client) /\ IsInjective(recency) /\ Len(recency) \in Nat /\ Len(recency) <= MaxKeys /\ MaxKeys \in Nat
        /\ DOMAIN recency = 1..Len(recency) /\ MaxKeys >= 1
    BY LimitAssumption DEF RecencyInv
  <1>2. CASE c \in Range(recency)
    <2>1. Room(c) = Without(recency, c)
      BY <1>2 DEF Room
    <2>2. QED
      BY <1>1, <1>2, <2>1, WithoutOrderly
  <1>3. CASE c \notin Range(recency) /\ Len(recency) >= MaxKeys
    <2> DEFINE t == Tail(recency)
    <2>1. Room(c) = t
      BY <1>3 DEF Room
    <2>2. recency # <<>>
      BY <1>1, <1>3
    <2>3. t \in Seq(Client) /\ Len(t) = Len(recency) - 1 /\ Len(t) \in Nat /\ DOMAIN t = 1..Len(t)
          /\ \A i \in 1..Len(t) : t[i] = recency[i + 1] /\ i + 1 \in 1..Len(recency) /\ i \in Int
      BY <1>1, <2>2, HeadTailProperties
    <2> HIDE DEF t
    <2>4. IsInjective(t)
      <3>1. ASSUME NEW i \in 1..Len(t), NEW j \in 1..Len(t), t[i] = t[j] PROVE i = j
        <4>1. recency[i + 1] = recency[j + 1] /\ i + 1 \in 1..Len(recency) /\ j + 1 \in 1..Len(recency)
          BY <2>3, <3>1
        <4>2. i + 1 = j + 1
          BY <1>1, <4>1 DEF IsInjective
        <4>3. QED
          BY <2>3, <4>2
      <3>2. QED
        BY <2>3, <3>1 DEF IsInjective
    <2>5. Range(t) \subseteq Range(recency)
      BY <1>1, <2>3 DEF Range
    <2>6. ASSUME NEW i \in 1..Len(t), NEW j \in 1..Len(t), i < j
          PROVE  \E a, b \in 1..Len(recency) : a < b /\ recency[a] = t[i] /\ recency[b] = t[j]
      <3>1. i + 1 < j + 1
        BY <2>6
      <3>2. QED
        BY <2>3, <3>1
    <2>7. ASSUME NEW d \in Range(recency) PROVE d \in Range(t) \/ d = recency[1]
      <3>1. PICK a \in 1..Len(recency) : recency[a] = d
        BY <1>1 DEF Range
      <3>2. CASE a # 1
        <4>1. a - 1 \in 1..Len(t) /\ (a - 1) + 1 = a
          BY <1>1, <2>3, <3>2
        <4>2. t[a - 1] = d
          BY <2>3, <3>1, <4>1
        <4>3. QED
          BY <2>3, <4>1, <4>2 DEF Range
      <3>3. QED
        BY <3>1, <3>2
    <2>8. QED
      BY <1>1, <1>3, <2>1, <2>3, <2>4, <2>5, <2>6, <2>7 DEF Orderly
  <1>4. CASE c \notin Range(recency) /\ ~(Len(recency) >= MaxKeys)
    <2>1. Room(c) = recency
      BY <1>4 DEF Room
    <2>2. Orderly(recency, recency)
      BY <1>1 DEF Orderly
    <2>3. QED
      BY <1>1, <1>4, <2>1, <2>2
  <1>5. QED
    BY <1>2, <1>3, <1>4

\* The order after c asked: those kept, and c.
LEMMA MovedSeq ==
  ASSUME RecencyInv, NEW c \in Client
  PROVE  /\ Moved(c) \in Seq(Client) /\ IsInjective(Moved(c)) /\ Len(Moved(c)) = Len(Room(c)) + 1 /\ Len(Moved(c)) <= MaxKeys
         /\ Len(Room(c)) \in Nat /\ Range(Moved(c)) = Range(Room(c)) \cup {c}
         /\ Moved(c)[Len(Room(c)) + 1] = c /\ \A i \in 1..Len(Room(c)) : Moved(c)[i] = Room(c)[i]
  <1> DEFINE r == Room(c)
             m == Moved(c)
  <1>1. r \in Seq(Client) /\ IsInjective(r) /\ Len(r) < MaxKeys /\ c \notin Range(r) /\ Len(r) \in Nat /\ DOMAIN r = 1..Len(r)
    BY RoomOrderly DEF Orderly
  <1>2. m = Append(r, c)
    BY DEF Moved
  <1> HIDE DEF r, m
  <1>3. m \in Seq(Client) /\ Len(m) = Len(r) + 1 /\ DOMAIN m = 1..(Len(r) + 1) /\ m[Len(r) + 1] = c /\ \A i \in 1..Len(r) : m[i] = r[i]
    BY <1>1, <1>2, AppendProperties
  <1>4. \A i \in 1..(Len(r) + 1) : i \in 1..Len(r) \/ i = Len(r) + 1
    BY <1>1
  <1>5. \A i \in 1..Len(r) : r[i] # c /\ i \in 1..(Len(r) + 1)
    BY <1>1 DEF Range
  <1>6. IsInjective(m)
    BY <1>1, <1>3, <1>4, <1>5 DEF IsInjective
  <1>7. Len(r) + 1 \in 1..(Len(r) + 1)
    BY <1>1
  <1>8. Range(m) = Range(r) \cup {c}
    BY <1>1, <1>3, <1>4, <1>5, <1>7 DEF Range
  <1>9. Len(m) <= MaxKeys
    BY <1>1, <1>3, LimitAssumption
  <1>10. QED
    BY <1>1, <1>3, <1>6, <1>8, <1>9 DEF r, m

-----------------------------------------------------------------------------
\* One question: what c holds when it asks, and what it is told.

Holding(c) == IF c \notin Range(recency) THEN [parts |-> Full, at |-> tick] ELSE Refilled(bucket[c])
Given(c) == Holding(c).parts >= Unit
AskedBy(c) == [who |-> c, at |-> tick, allowed |-> Given(c)]
Left(c) == Holding(c).parts - (IF Given(c) THEN Unit ELSE 0)

LEMMA RefilledFits ==
  ASSUME BucketsInv, NEW c \in Client
  PROVE  /\ Refilled(bucket[c]).parts \in 0..Full /\ Refilled(bucket[c]).at = tick
         /\ Refilled(bucket[c]).parts = Full \/ Refilled(bucket[c]).parts = bucket[c].parts + Refill * (tick - bucket[c].at)
         /\ Refilled(bucket[c]).parts <= bucket[c].parts + Refill * (tick - bucket[c].at)
  <1>1. bucket[c].parts \in 0..Full /\ bucket[c].at \in Nat /\ bucket[c].at <= tick /\ tick \in Nat
    BY LimitAssumption DEF BucketsInv, BucketRow
  <1>2. tick - bucket[c].at \in Int /\ tick - bucket[c].at >= 0
    BY <1>1
  <1>3. Refill * (tick - bucket[c].at) \in Int /\ Refill * (tick - bucket[c].at) >= 0
    BY <1>2, RefillTimes
  <1>4. Refilled(bucket[c]) = [parts |-> Least(Full, bucket[c].parts + Refill * (tick - bucket[c].at)), at |-> tick]
    BY DEF Refilled, Full
  <1> DEFINE x == Refill * (tick - bucket[c].at)
  <1> HIDE DEF x
  <1>5. Least(Full, bucket[c].parts + x) \in 0..Full /\ Least(Full, bucket[c].parts + x) <= bucket[c].parts + x
        /\ (Least(Full, bucket[c].parts + x) = Full \/ Least(Full, bucket[c].parts + x) = bucket[c].parts + x)
    BY <1>1, <1>3, FullIsNat DEF Least, x
  <1>6. QED
    BY <1>4, <1>5 DEF x

LEMMA HoldingFits ==
  ASSUME BucketsInv, NEW c \in Client
  PROVE  /\ Holding(c).parts \in 0..Full /\ Holding(c).at = tick /\ Left(c) \in 0..Full /\ Given(c) \in BOOLEAN
         /\ AskedBy(c) \in Ask
  <1>1. Holding(c).parts \in 0..Full /\ Holding(c).at = tick
    BY RefilledFits, FullIsNat DEF Holding
  <1>2. Given(c) \in BOOLEAN
    BY DEF Given
  <1>3. Left(c) \in 0..Full
    BY <1>1, FullIsNat, LimitAssumption DEF Given, Left
  <1>4. tick \in Nat
    BY LimitAssumption DEF BucketsInv
  <1>5. QED
    BY <1>1, <1>2, <1>3, <1>4 DEF AskedBy, Ask

LEMMA TakeStep ==
  ASSUME LimitInv, NEW c \in Client, LimiterTake(c), NEW n, n = Len(asks)
  PROVE  /\ n \in Nat /\ recency' = Moved(c) /\ tick' = tick
         /\ asks' = Append(asks, AskedBy(c)) /\ asks' \in Seq(Ask) /\ Len(asks') = n + 1
         /\ asks'[n + 1] = AskedBy(c) /\ \A i \in 1..n : asks'[i] = asks[i]
         /\ bucket' \in [Client -> BucketRow] /\ bucket'[c].parts = Left(c) /\ bucket'[c].at = tick
         /\ \A d \in Client : d # c => bucket'[d] = bucket[d] /\ since'[d] = since[d]
         /\ since' \in [Client -> 0..(n + 1)]
         /\ since'[c] = IF c \notin Range(recency) THEN n ELSE since[c]
  <1>1. BucketsInv /\ AsksInv /\ asks \in Seq(Ask) /\ n \in Nat /\ tick \in Nat /\ since \in [Client -> 0..n]
    BY LimitAssumption DEF LimitInv, AsksInv, BucketsInv
  <1>2. AskedBy(c) \in Ask /\ Holding(c).at = tick /\ Left(c) \in 0..Full
    BY <1>1, HoldingFits
  <1>3. recency' = Moved(c) /\ tick' = tick
    BY DEF LimiterTake
  <1>4. asks' = Append(asks, AskedBy(c))
    BY DEF LimiterTake, AskedBy, Given, Holding, Full
  <1>5. asks' \in Seq(Ask) /\ Len(asks') = n + 1 /\ asks'[n + 1] = AskedBy(c) /\ \A i \in 1..n : asks'[i] = asks[i]
    BY <1>1, <1>2, <1>4, AppendProperties
  <1>6. DOMAIN Holding(c) = {"parts", "at"} /\ Holding(c) = [parts |-> Holding(c).parts, at |-> Holding(c).at]
    BY DEF Holding, Refilled
  <1>7. [Holding(c) EXCEPT !.parts = IF Given(c) THEN @ - Unit ELSE @] = [parts |-> Left(c), at |-> tick]
    <2>1. Holding(c).parts \in Int
      BY <1>1, HoldingFits, FullIsNat
    <2>2. Left(c) = IF Given(c) THEN Holding(c).parts - Unit ELSE Holding(c).parts
      BY <2>1, LimitAssumption DEF Left
    <2>3. QED
      BY <1>2, <1>6, <2>2
  <1>8. bucket' = [bucket EXCEPT ![c] = [Holding(c) EXCEPT !.parts = IF Given(c) THEN @ - Unit ELSE @]]
    BY DEF LimiterTake, Given, Holding, Full
  <1>9. bucket' = [bucket EXCEPT ![c] = [parts |-> Left(c), at |-> tick]]
    BY <1>7, <1>8
  <1>10. [parts |-> Left(c), at |-> tick] \in BucketRow /\ bucket \in [Client -> BucketRow]
    BY <1>1, <1>2 DEF BucketRow, BucketsInv
  <1>11. bucket' \in [Client -> BucketRow] /\ bucket'[c] = [parts |-> Left(c), at |-> tick] /\ \A d \in Client : d # c => bucket'[d] = bucket[d]
    BY <1>9, <1>10
  <1>12. since' = IF c \notin Range(recency) THEN [since EXCEPT ![c] = n] ELSE since
    BY DEF LimiterTake
  <1>13. since' \in [Client -> 0..(n + 1)] /\ (\A d \in Client : d # c => since'[d] = since[d])
         /\ since'[c] = IF c \notin Range(recency) THEN n ELSE since[c]
    BY <1>1, <1>12
  <1>14. QED
    BY <1>1, <1>3, <1>4, <1>5, <1>11, <1>13

\* Of those who did not ask, each that has a bucket had it.
LEMMA KeptHadOne ==
  ASSUME RecencyInv, NEW c \in Client, recency' = Moved(c)
  PROVE  /\ \A d \in Range(recency') : d = c \/ d \in Range(recency)
         /\ c \in Range(recency')
  BY MovedSeq, RoomOrderly DEF Orderly

LEMMA TakeKeepsTypes ==
  ASSUME LimitInv, NEW c \in Client, LimiterTake(c)
  PROVE  RecencyInv' /\ BucketsInv' /\ AsksInv'
  <1> DEFINE n == Len(asks)
  <1>1. RecencyInv /\ BucketsInv /\ AsksInv
    BY DEF LimitInv
  <1>2. recency' = Moved(c) /\ tick' = tick /\ asks' \in Seq(Ask) /\ Len(asks') = n + 1 /\ n \in Nat
        /\ asks'[n + 1] = AskedBy(c) /\ (\A i \in 1..n : asks'[i] = asks[i])
        /\ bucket' \in [Client -> BucketRow] /\ bucket'[c].at = tick
        /\ (\A d \in Client : d # c => bucket'[d] = bucket[d])
        /\ since' \in [Client -> 0..(n + 1)]
    BY TakeStep
  <1>3. RecencyInv'
    BY <1>1, <1>2, MovedSeq DEF RecencyInv
  <1>4. tick \in Nat /\ tick \in 0..MaxTicks
    BY <1>1, LimitAssumption DEF BucketsInv
  <1>5. BucketsInv'
    <2>1. ASSUME NEW d \in Client PROVE bucket'[d].at <= tick
      <3>1. CASE d = c
        BY <1>2, <1>4, <3>1
      <3>2. CASE d # c
        <4>1. bucket'[d] = bucket[d] /\ bucket[d].at <= tick
          BY <1>1, <1>2, <3>2 DEF BucketsInv
        <4>2. QED
          BY <4>1
      <3>3. QED
        BY <3>1, <3>2
    <2>2. QED
      BY <1>2, <1>4, <2>1 DEF BucketsInv
  <1>6. AsksInv'
    <2>1. ASSUME NEW i \in 1..(n + 1) PROVE asks'[i].at <= tick
      <3>1. CASE i \in 1..n
        BY <1>1, <1>2, <3>1 DEF AsksInv
      <3>2. CASE i = n + 1
        BY <1>2, <1>4, <3>2 DEF AskedBy
      <3>3. QED
        BY <1>2, <3>1, <3>2
    <2>2. QED
      BY <1>2, <2>1 DEF AsksInv
  <1>7. QED
    BY <1>3, <1>5, <1>6

LEMMA TakeKeepsOrder ==
  ASSUME LimitInv, NEW c \in Client, LimiterTake(c)
  PROVE  OrderInv'
  <1> DEFINE n == Len(asks)
             r == Room(c)
  <1>1. RecencyInv /\ OrderInv
    BY DEF LimitInv
  <1>2. recency' = Moved(c) /\ Len(asks') = n + 1 /\ n \in Nat /\ asks'[n + 1] = AskedBy(c) /\ AskedBy(c).who = c
        /\ (\A i \in 1..n : asks'[i] = asks[i])
    BY TakeStep DEF AskedBy
  <1>3. Orderly(r, recency) /\ c \notin Range(r)
    BY <1>1, RoomOrderly
  <1>4. Len(recency') = Len(r) + 1 /\ Len(r) \in Nat /\ recency'[Len(r) + 1] = c /\ \A i \in 1..Len(r) : recency'[i] = r[i]
    BY <1>1, <1>2, MovedSeq
  <1>5. \A i \in 1..Len(r) : r[i] # c
    BY <1>3 DEF Range, Orderly
  <1> HIDE DEF r
  <1>6. ASSUME NEW i \in 1..Len(recency'), NEW j \in 1..Len(recency'), i < j
        PROVE  \E k \in 1..Len(asks') : asks'[k].who = recency'[j] /\ \A l \in k..Len(asks') : asks'[l].who # recency'[i]
    <2>1. i \in 1..Len(r) /\ recency'[i] = r[i] /\ r[i] # c
      BY <1>4, <1>5, <1>6
    <2>2. CASE j = Len(r) + 1
      <3>1. n + 1 \in 1..Len(asks') /\ \A l \in (n + 1)..Len(asks') : l = n + 1
        BY <1>2
      <3>2. recency'[j] = c
        BY <1>4, <2>2
      <3>3. QED
        BY <1>2, <2>1, <3>1, <3>2
    <2>3. CASE j \in 1..Len(r)
      <3>1. recency'[j] = r[j]
        BY <1>4, <2>3
      <3>2. PICK a \in 1..Len(recency), b \in 1..Len(recency) : a < b /\ recency[a] = r[i] /\ recency[b] = r[j]
        BY <1>3, <1>6, <2>1, <2>3 DEF Orderly
      <3>3. PICK k \in 1..n : asks[k].who = recency[b] /\ \A l \in k..n : asks[l].who # recency[a]
        BY <1>1, <3>2 DEF OrderInv
      <3>4. k \in 1..Len(asks') /\ asks'[k].who = recency'[j]
        BY <1>2, <3>1, <3>2, <3>3
      <3>5. ASSUME NEW l \in k..Len(asks') PROVE asks'[l].who # recency'[i]
        <4>1. CASE l = n + 1
          BY <1>2, <2>1, <4>1
        <4>2. CASE l \in k..n
          <5>1. l \in 1..n
            BY <1>2, <4>2
          <5>2. QED
            BY <1>2, <2>1, <3>2, <3>3, <4>2, <5>1
        <4>3. l \in Int /\ k \in Int /\ n \in Int /\ k <= l /\ l <= n + 1
          BY <1>2
        <4>4. QED
          BY <4>1, <4>2, <4>3
      <3>6. QED
        BY <3>4, <3>5
    <2>4. QED
      BY <1>4, <2>2, <2>3
  <1>7. QED
    BY <1>6 DEF OrderInv

-----------------------------------------------------------------------------
\* What was allowed and what is left.

\* What d was allowed, after c asked: of the questions before, with that one, of that one.
LEMMA AllowedBefore ==
  ASSUME LimitInv, NEW c \in Client, LimiterTake(c), NEW n \in Nat, n = Len(asks), NEW d, NEW i \in 1..n, NEW j \in 1..n
  PROVE  AllowedTo(d, i, j)' = AllowedTo(d, i, j)
  <1>1. AsksInv /\ BucketsInv
    BY DEF LimitInv
  <1>2. asks' = Append(asks, AskedBy(c)) /\ AskedBy(c) \in Ask
    BY <1>1, TakeStep, HoldingFits
  <1>3. i \in Nat /\ i >= 1 /\ j \in 1..Len(asks)
    OBVIOUS
  <1>4. QED
    BY <1>1, <1>2, <1>3, AllowedStays

LEMMA AllowedSince ==
  ASSUME LimitInv, NEW c \in Client, LimiterTake(c), NEW n \in Nat, n = Len(asks), NEW d, NEW i \in 1..n
  PROVE  /\ AllowedTo(d, i, n + 1)' = AllowedTo(d, i, n) + (IF d = c /\ Given(c) THEN 1 ELSE 0)
         /\ AllowedTo(d, i, n) \in Nat
  <1>1. AsksInv /\ BucketsInv
    BY DEF LimitInv
  <1>2. asks' = Append(asks, AskedBy(c)) /\ AskedBy(c) \in Ask /\ AskedBy(c).who = c /\ AskedBy(c).allowed = Given(c)
    BY <1>1, TakeStep, HoldingFits DEF AskedBy
  <1>3. i \in 1..(n + 1) /\ i \in Int /\ n \in Int
    OBVIOUS
  <1>4. AllowedTo(d, i, n + 1)' = AllowedTo(d, i, n) + (IF AskedBy(c).who = d /\ AskedBy(c).allowed THEN 1 ELSE 0)
    BY <1>1, <1>2, <1>3, AllowedAfter
  <1>5. AllowedTo(d, i, n) \in Nat
    BY <1>3, AllowedIsNat
  <1>6. QED
    BY <1>2, <1>4, <1>5

LEMMA AllowedNow ==
  ASSUME LimitInv, NEW c \in Client, LimiterTake(c), NEW n \in Nat, n = Len(asks), NEW d
  PROVE  AllowedTo(d, n + 1, n + 1)' = IF d = c /\ Given(c) THEN 1 ELSE 0
  <1>1. AsksInv /\ BucketsInv
    BY DEF LimitInv
  <1>2. asks' = Append(asks, AskedBy(c)) /\ AskedBy(c) \in Ask /\ AskedBy(c).who = c /\ AskedBy(c).allowed = Given(c)
    BY <1>1, TakeStep, HoldingFits DEF AskedBy
  <1>3. n + 1 \in 1..(n + 1)
    OBVIOUS
  <1>4. AllowedTo(d, n + 1, n + 1)' = AllowedTo(d, n + 1, n) + (IF AskedBy(c).who = d /\ AskedBy(c).allowed THEN 1 ELSE 0)
    BY <1>1, <1>2, <1>3, AllowedAfter
  <1>5. (n + 1)..n = {}
    OBVIOUS
  <1>6. AllowedTo(d, n + 1, n) = 0
    BY <1>5, FS_EmptySet DEF AllowedTo
  <1>7. QED
    BY <1>2, <1>4, <1>6

\* What c spends is what its bucket loses.
LEMMA SpentOfBucket ==
  ASSUME BucketsInv, NEW c \in Client, NEW a \in Nat
  PROVE  Unit * (a + (IF Given(c) THEN 1 ELSE 0)) + Left(c) = Unit * a + Holding(c).parts
  <1>1. Holding(c).parts \in Int /\ Unit \in Int
    BY HoldingFits, FullIsNat, LimitAssumption
  <1>2. Unit * a \in Int /\ Unit * (a + 1) = Unit * a + Unit /\ a + 0 = a
    BY UnitTimes
  <1>3. CASE Given(c)
    BY <1>1, <1>2, <1>3 DEF Left
  <1>4. CASE ~Given(c)
    BY <1>1, <1>2, <1>4 DEF Left
  <1>5. QED
    BY <1>3, <1>4

LEMMA TakeKeepsSpend ==
  ASSUME LimitInv, NEW c \in Client, LimiterTake(c)
  PROVE  SpendInv'
  <1>0. PICK n \in Nat : n = Len(asks)
    BY DEF LimitInv, AsksInv
  <1>1. RecencyInv /\ BucketsInv /\ AsksInv /\ SpendInv
    BY DEF LimitInv
  <1>2. recency' = Moved(c) /\ tick' = tick /\ Len(asks') = n + 1 /\ n \in Nat
        /\ asks'[n + 1] = AskedBy(c) /\ (\A i \in 1..n : asks'[i] = asks[i])
        /\ bucket'[c].parts = Left(c) /\ bucket'[c].at = tick
        /\ (\A d \in Client : d # c => bucket'[d] = bucket[d] /\ since'[d] = since[d])
        /\ since'[c] = (IF c \notin Range(recency) THEN n ELSE since[c])
    BY <1>0, TakeStep
  <1>3. \A d \in Client : since[d] \in 0..n /\ since'[d] \in 0..(n + 1)
    BY <1>0, <1>1, TakeStep DEF AsksInv
  <1>4. tick \in Nat /\ AskedBy(c).at = tick /\ Full \in Nat /\ \A i \in 1..n : asks[i].at \in Nat
    <2>1. asks \in Seq(Ask) /\ tick \in Nat
      BY <1>1, LimitAssumption DEF AsksInv, BucketsInv
    <2>2. \A i \in 1..n : asks[i] \in Ask
      BY <1>0, <2>1
    <2>3. QED
      BY <2>1, <2>2, FullIsNat DEF AskedBy, Ask
  <1>5. Refill * (tick - tick) = 0
    BY <1>4, LimitAssumption
  <1>6. ASSUME NEW d \in Client, d \in Range(recency'), NEW i \in (since'[d] + 1)..(n + 1)
        PROVE  Unit * AllowedTo(d, i, n + 1)' + Refilled(bucket[d])'.parts <= Full + Refill * (tick - asks'[i].at)
    <2>1. i \in 1..n \/ i = n + 1
      BY <1>2, <1>3, <1>6
    <2>2. CASE d # c
      <3>1. bucket'[d] = bucket[d] /\ Refilled(bucket[d])' = Refilled(bucket[d]) /\ since'[d] = since[d] /\ d \in Range(recency)
        BY <1>1, <1>2, <1>6, <2>2, KeptHadOne DEF Refilled
      <3>2. Refilled(bucket[d]).parts \in 0..Full
        BY <1>1, RefilledFits
      <3>3. CASE i \in 1..n
        <4>1. AllowedTo(d, i, n + 1)' = AllowedTo(d, i, n) + (IF d = c /\ Given(c) THEN 1 ELSE 0)
              /\ AllowedTo(d, i, n) \in Nat
          BY <1>0, <3>3, AllowedSince
        <4>2. i \in (since[d] + 1)..n
          BY <1>3, <1>6, <3>1, <3>3
        <4>3. Unit * AllowedTo(d, i, n) + Refilled(bucket[d]).parts <= Full + Refill * (tick - asks[i].at)
          BY <1>0, <1>1, <3>1, <4>2 DEF SpendInv
        <4>4. AllowedTo(d, i, n + 1)' = AllowedTo(d, i, n)
          BY <2>2, <4>1
        <4>5. QED
          BY <1>2, <3>1, <3>3, <4>3, <4>4
      <3>4. CASE i = n + 1
        <4>1. AllowedTo(d, i, n + 1)' = 0 /\ asks'[i].at = tick
          BY <1>0, <1>2, <1>4, <2>2, <3>4, AllowedNow
        <4>2. Unit * 0 = 0
          BY LimitAssumption
        <4>3. QED
          BY <1>4, <1>5, <3>1, <3>2, <4>1, <4>2
      <3>5. QED
        BY <2>1, <3>3, <3>4
    <2>3. CASE d = c
      <3>1. Refilled(bucket[c])'.parts <= Left(c) /\ Left(c) \in 0..Full /\ Holding(c).parts \in 0..Full
        <4>1. Refilled(bucket[c])' = [parts |-> Least(Full, Left(c) + Refill * (tick - tick)), at |-> tick]
          BY <1>2 DEF Refilled, Full
        <4>2. Left(c) \in 0..Full /\ Holding(c).parts \in 0..Full
          BY <1>1, HoldingFits
        <4>3. Least(Full, Left(c) + 0) <= Left(c)
          BY <1>4, <4>2 DEF Least
        <4>4. QED
          BY <1>5, <4>1, <4>2, <4>3
      <3>2. Refilled(bucket[c])'.parts \in Int
        <4>1. Refilled(bucket[c])' = [parts |-> Least(Full, Left(c) + 0), at |-> tick]
          BY <1>2, <1>5 DEF Refilled, Full
        <4>2. Least(Full, Left(c) + 0) \in Int
          BY <1>4, <3>1 DEF Least
        <4>3. QED
          BY <4>1, <4>2
      <3>3. CASE i = n + 1
        <4>1. AllowedTo(c, i, n + 1)' = 0 + (IF Given(c) THEN 1 ELSE 0) /\ asks'[i].at = tick
          BY <1>0, <1>2, <1>4, <3>3, AllowedNow
        <4>2. Unit * AllowedTo(c, i, n + 1)' + Left(c) = Unit * 0 + Holding(c).parts
          BY <1>1, <4>1, SpentOfBucket
        <4>3. Unit * 0 = 0 /\ Unit * AllowedTo(c, i, n + 1)' \in Int
          BY <4>1, LimitAssumption
        <4>4. QED
          BY <1>4, <1>5, <2>3, <3>1, <3>2, <4>1, <4>2, <4>3
      <3>4. CASE i \in 1..n
        <4>1. c \in Range(recency) /\ i \in (since[c] + 1)..n
          BY <1>2, <1>3, <1>6, <2>3, <3>4
        <4>2. AllowedTo(c, i, n + 1)' = AllowedTo(c, i, n) + (IF Given(c) THEN 1 ELSE 0) /\ AllowedTo(c, i, n) \in Nat
          BY <1>0, <3>4, AllowedSince
        <4>3. Unit * AllowedTo(c, i, n + 1)' + Left(c) = Unit * AllowedTo(c, i, n) + Holding(c).parts
          BY <1>1, <4>2, SpentOfBucket
        <4>4. Holding(c).parts = Refilled(bucket[c]).parts
          BY <4>1 DEF Holding
        <4>5. Unit * AllowedTo(c, i, n) + Refilled(bucket[c]).parts <= Full + Refill * (tick - asks[i].at)
          BY <1>0, <1>1, <4>1 DEF SpendInv
        <4>6. Unit * AllowedTo(c, i, n) \in Int /\ Unit * AllowedTo(c, i, n + 1)' \in Int /\ Refill * (tick - asks[i].at) \in Int
          <5>1. AllowedTo(c, i, n) \in Int /\ AllowedTo(c, i, n + 1)' \in Int /\ tick - asks[i].at \in Int
            BY <1>4, <3>4, <4>2
          <5>2. QED
            BY <5>1, UnitTimes, RefillTimes
        <4>7. asks'[i] = asks[i]
          BY <1>2, <3>4
        <4>8. QED
          BY <1>4, <2>3, <3>1, <3>2, <4>3, <4>4, <4>5, <4>6, <4>7
      <3>5. QED
        BY <2>1, <3>3, <3>4
    <2>4. QED
      BY <2>2, <2>3
  <1>7. QED
    BY <1>2, <1>6 DEF SpendInv

LEMMA TakeKeepsSaved ==
  ASSUME LimitInv, NEW c \in Client, LimiterTake(c)
  PROVE  SavedInv'
  <1>0. PICK n \in Nat : n = Len(asks)
    BY DEF LimitInv, AsksInv
  <1>1. RecencyInv /\ BucketsInv /\ AsksInv /\ SavedInv
    BY DEF LimitInv
  <1>2. recency' = Moved(c) /\ tick' = tick /\ Len(asks') = n + 1 /\ n \in Nat
        /\ asks'[n + 1] = AskedBy(c) /\ (\A i \in 1..n : asks'[i] = asks[i])
        /\ bucket'[c].parts = Left(c) /\ bucket'[c].at = tick
        /\ (\A d \in Client : d # c => bucket'[d] = bucket[d])
    BY <1>0, TakeStep
  <1>3. tick \in Nat /\ AskedBy(c).at = tick /\ AskedBy(c).who = c /\ Full \in Nat /\ \A i \in 1..n : asks[i].at \in Nat
    <2>1. asks \in Seq(Ask) /\ tick \in Nat
      BY <1>1, LimitAssumption DEF AsksInv, BucketsInv
    <2>2. \A i \in 1..n : asks[i] \in Ask
      BY <1>0, <2>1
    <2>3. QED
      BY <2>1, <2>2, FullIsNat DEF AskedBy, Ask
  <1>4. \A i \in 1..n : i \in 1..(n + 1)
    BY <1>2
  <1>5. ASSUME NEW d \in Client, d \in Range(recency')
        PROVE  \E i \in 1..(n + 1) : /\ asks'[i].who = d
                                     /\ Unit * AllowedTo(d, i, n + 1)' + bucket'[d].parts
                                           = Full + Refill * (bucket'[d].at - asks'[i].at)
    <2>1. CASE d # c
      <3>1. d \in Range(recency) /\ bucket'[d] = bucket[d]
        BY <1>1, <1>2, <1>5, <2>1, KeptHadOne
      <3>2. PICK i \in 1..n : /\ asks[i].who = d
                              /\ Unit * AllowedTo(d, i, n) + bucket[d].parts = Full + Refill * (bucket[d].at - asks[i].at)
        BY <1>0, <1>1, <3>1 DEF SavedInv
      <3>3. AllowedTo(d, i, n + 1)' = AllowedTo(d, i, n) + (IF d = c /\ Given(c) THEN 1 ELSE 0)
            /\ AllowedTo(d, i, n) \in Nat
        BY <1>0, AllowedSince
      <3>4. AllowedTo(d, i, n + 1)' = AllowedTo(d, i, n)
        BY <2>1, <3>3
      <3>5. QED
        BY <1>2, <1>4, <3>1, <3>2, <3>4
    <2>2. CASE d = c /\ Holding(c).parts = Full
      <3>1. AllowedTo(c, n + 1, n + 1)' = 0 + (IF Given(c) THEN 1 ELSE 0)
        BY <1>0, AllowedNow
      <3>2. Unit * AllowedTo(c, n + 1, n + 1)' + Left(c) = Unit * 0 + Holding(c).parts
        BY <1>1, <3>1, SpentOfBucket
      <3>3. Unit * 0 = 0 /\ Refill * (tick - tick) = 0
        BY <1>3, LimitAssumption
      <3>4. n + 1 \in 1..(n + 1)
        BY <1>2
      <3>5. Unit * AllowedTo(c, n + 1, n + 1)' + Left(c) = Full + Refill * (tick - tick)
        BY <1>3, <2>2, <3>2, <3>3
      <3>6. asks'[n + 1].at = tick /\ asks'[n + 1].who = c
        BY <1>2, <1>3
      <3>7. QED
        BY <1>2, <2>2, <3>4, <3>5, <3>6
    <2>3. CASE d = c /\ Holding(c).parts # Full
      <3>1. c \in Range(recency) /\ Holding(c).parts = bucket[c].parts + Refill * (tick - bucket[c].at)
        BY <1>1, <2>3, RefilledFits DEF Holding
      <3>2. PICK i \in 1..n : /\ asks[i].who = c
                              /\ Unit * AllowedTo(c, i, n) + bucket[c].parts = Full + Refill * (bucket[c].at - asks[i].at)
        BY <1>0, <1>1, <3>1 DEF SavedInv
      <3>3. AllowedTo(c, i, n + 1)' = AllowedTo(c, i, n) + (IF Given(c) THEN 1 ELSE 0) /\ AllowedTo(c, i, n) \in Nat
        BY <1>0, AllowedSince
      <3>4. Unit * AllowedTo(c, i, n + 1)' + Left(c) = Unit * AllowedTo(c, i, n) + Holding(c).parts
        BY <1>1, <3>3, SpentOfBucket
      <3>5. bucket[c].parts \in Int /\ bucket[c].at \in Int /\ asks[i].at \in Int
        BY <1>1, <1>3, FullIsNat DEF BucketsInv, BucketRow
      <3>6. Refill * (tick - asks[i].at) = Refill * (bucket[c].at - asks[i].at) + Refill * (tick - bucket[c].at)
            /\ Refill * (bucket[c].at - asks[i].at) \in Int /\ Refill * (tick - bucket[c].at) \in Int
        <4> DEFINE x == bucket[c].at - asks[i].at
                   y == tick - bucket[c].at
        <4>1. x \in Int /\ y \in Int /\ x + y = tick - asks[i].at
          BY <1>3, <3>5
        <4> HIDE DEF x, y
        <4>2. Refill * (x + y) = Refill * x + Refill * y
          BY <4>1, RefillSum
        <4>3. Refill * x \in Int /\ Refill * y \in Int
          BY <4>1, RefillTimes
        <4>4. QED
          BY <4>1, <4>2, <4>3 DEF x, y
      <3>7. Unit * AllowedTo(c, i, n) \in Int
        BY <3>3, UnitTimes
      <3>8. Unit * AllowedTo(c, i, n) + Holding(c).parts = Full + Refill * (tick - asks[i].at)
        BY <1>3, <3>1, <3>2, <3>5, <3>6, <3>7
      <3>9. QED
        BY <1>2, <1>4, <2>3, <3>2, <3>4, <3>8
    <2>4. QED
      BY <2>1, <2>2, <2>3
  <1>6. QED
    BY <1>2, <1>5 DEF SavedInv

LEMMA TakeKeepsBursts ==
  ASSUME LimitInv, NEW c \in Client, LimiterTake(c)
  PROVE  BurstsAreBounded' /\ RefusedForItsOwn'
  <1>0. PICK n \in Nat : n = Len(asks)
    BY DEF LimitInv, AsksInv
  <1>1. RecencyInv /\ BucketsInv /\ AsksInv /\ BurstsAreBounded /\ RefusedForItsOwn /\ RecencyInv' /\ BucketsInv' /\ AsksInv'
        /\ SpendInv' /\ SavedInv'
    BY TakeKeepsTypes, TakeKeepsSpend, TakeKeepsSaved DEF LimitInv
  <1>2. recency' = Moved(c) /\ tick' = tick /\ Len(asks') = n + 1 /\ n \in Int
        /\ asks'[n + 1] = AskedBy(c) /\ (\A i \in 1..n : asks'[i] = asks[i])
        /\ bucket'[c].parts = Left(c) /\ bucket'[c].at = tick
        /\ (\A d \in Client : d # c => since'[d] = since[d])
        /\ since'[c] = (IF c \notin Range(recency) THEN n ELSE since[c])
    <2>1. recency' = Moved(c) /\ tick' = tick /\ Len(asks') = n + 1 /\ n \in Int
          /\ asks'[n + 1] = AskedBy(c) /\ (\A i \in 1..n : asks'[i] = asks[i])
      BY <1>0, TakeStep
    <2>2. bucket'[c].parts = Left(c) /\ bucket'[c].at = tick
      BY <1>0, TakeStep
    <2>3. \A d \in Client : d # c => since'[d] = since[d]
      BY <1>0, TakeStep
    <2>4. since'[c] = (IF c \notin Range(recency) THEN n ELSE since[c])
      BY <1>0, TakeStep
    <2>5. QED
      BY <2>1, <2>2, <2>3, <2>4
  <1>3. (\A d \in Client : since[d] \in 0..n /\ since'[d] \in 0..(n + 1)) /\ (\A i \in 1..n : asks[i].who \in Client)
    <2>1. \A d \in Client : since[d] \in 0..n
      BY <1>0, <1>1 DEF AsksInv
    <2>2. \A d \in Client : since'[d] \in 0..(n + 1)
      BY <1>1, <1>2 DEF AsksInv
    <2>3. \A i \in 1..n : asks[i] \in Ask
      BY <1>0, <1>1 DEF AsksInv
    <2>4. QED
      BY <2>1, <2>2, <2>3 DEF Ask
  <1>4. tick \in Nat /\ AskedBy(c).at = tick /\ AskedBy(c).who = c /\ AskedBy(c).allowed = Given(c) /\ Full \in Nat
    BY <1>1, FullIsNat, LimitAssumption DEF BucketsInv, AskedBy
  <1>5. ASSUME NEW d \in Client, d \in Range(recency'), NEW i \in (since'[d] + 1)..(n + 1), NEW j \in (since'[d] + 1)..(n + 1), i <= j
        PROVE  Unit * AllowedTo(d, i, j)' <= Capacity * Unit + Refill * (asks'[j].at - asks'[i].at)
    <2>1. CASE j = n + 1
      <3>1. Unit * AllowedTo(d, i, n + 1)' + Refilled(bucket[d])'.parts <= Full + Refill * (tick - asks'[i].at)
        BY <1>1, <1>2, <1>5 DEF SpendInv
      <3>2. Refilled(bucket[d])'.parts \in 0..Full
        <4>1. bucket'[d].parts \in 0..Full /\ bucket'[d].at \in Nat /\ tick' \in Nat /\ bucket'[d].at <= tick'
          BY <1>1, LimitAssumption DEF BucketsInv, BucketRow
        <4>2. tick' - bucket'[d].at \in Nat
          BY <4>1
        <4>3. Refill * (tick' - bucket'[d].at) \in Nat
          BY <4>2, LimitAssumption
        <4>4. Refilled(bucket[d])' = [parts |-> Least(Full, bucket'[d].parts + Refill * (tick' - bucket'[d].at)), at |-> tick']
          BY DEF Refilled, Full
        <4> DEFINE x == Refill * (tick' - bucket'[d].at)
        <4> HIDE DEF x
        <4>5. Least(Full, bucket'[d].parts + x) \in 0..Full
          BY <1>4, <4>1, <4>3 DEF x, Least
        <4>6. QED
          BY <4>4, <4>5 DEF x
      <3>3. i \in 1..(n + 1)
        BY <1>3, <1>5
      <3>4. AllowedTo(d, i, n + 1)' \in Nat
        <4>1. asks' \in Seq(Ask) /\ i \in Int /\ n + 1 \in Int
          BY <1>1, <1>2, <3>3 DEF AsksInv
        <4>2. IsFiniteSet({k \in i..(n + 1) : asks'[k].who = d /\ asks'[k].allowed})
          <5>1. IsFiniteSet(i..(n + 1))
            BY <4>1, FS_Interval
          <5>2. QED
            BY <5>1, FS_Subset
        <4>3. QED
          BY <4>2, FS_CardinalityType DEF AllowedTo
      <3>5. asks'[i].at \in Int /\ asks'[j].at = tick
        <4>1. asks' \in Seq(Ask)
          BY <1>1 DEF AsksInv
        <4>2. asks'[i] \in Ask
          BY <1>2, <3>3, <4>1
        <4>3. QED
          BY <1>2, <1>4, <2>1, <4>2 DEF Ask
      <3>6. Unit * AllowedTo(d, i, n + 1)' \in Int /\ Refill * (tick - asks'[i].at) \in Int
        <4>1. AllowedTo(d, i, n + 1)' \in Int /\ tick - asks'[i].at \in Int
          BY <1>4, <3>4, <3>5
        <4>2. QED
          BY <4>1, UnitTimes, RefillTimes
      <3>7. QED
        BY <1>4, <2>1, <3>1, <3>2, <3>5, <3>6 DEF Full
    <2>2. CASE j # n + 1
      <3>1. d \in Range(recency) /\ since'[d] = since[d]
        <4>1. ~(d = c /\ c \notin Range(recency))
          BY <1>2, <1>3, <1>5, <2>2
        <4>2. d = c \/ d \in Range(recency)
          BY <1>1, <1>2, <1>5, KeptHadOne
        <4>3. QED
          BY <1>2, <1>5, <4>1, <4>2
      <3>2. i \in (since[d] + 1)..n /\ j \in (since[d] + 1)..n /\ i \in 1..n /\ j \in 1..n
        BY <1>3, <1>5, <2>2, <3>1
      <3>3. AllowedTo(d, i, j)' = AllowedTo(d, i, j)
        BY <1>0, <3>2, AllowedBefore
      <3>4. Unit * AllowedTo(d, i, j) <= Capacity * Unit + Refill * (asks[j].at - asks[i].at)
        BY <1>0, <1>1, <1>5, <3>1, <3>2 DEF BurstsAreBounded
      <3>5. QED
        BY <1>2, <3>2, <3>3, <3>4
    <2>3. QED
      BY <2>1, <2>2
  <1>6. BurstsAreBounded'
    <2>1. \A d \in Range(recency') : d \in Client
      BY <1>1 DEF RecencyInv, Range
    <2>2. QED
      BY <1>2, <1>5, <2>1 DEF BurstsAreBounded
  <1>7. ASSUME NEW j \in 1..(n + 1), ~asks'[j].allowed, j > since'[asks'[j].who]
        PROVE  \E i \in 1..j : /\ asks'[i].who = asks'[j].who
                               /\ Unit * (AllowedTo(asks[j].who, i, j)' + 1) > Capacity * Unit + Refill * (asks'[j].at - asks'[i].at)
    <2>1. CASE j = n + 1
      <3>1. asks'[j].who = c /\ asks'[j].at = tick /\ ~Given(c)
        BY <1>2, <1>4, <1>7, <2>1
      <3>2. Left(c) < Unit /\ Left(c) \in Int
        <4>1. Holding(c).parts < Unit /\ Holding(c).parts \in Int
          BY <1>1, <1>4, <3>1, HoldingFits, LimitAssumption DEF Given
        <4>2. QED
          BY <3>1, <4>1 DEF Left
      <3>3. c \in Range(recency')
        BY <1>1, <1>2, KeptHadOne
      <3>4. PICK i \in 1..(n + 1) : /\ asks'[i].who = c
                                    /\ Unit * AllowedTo(c, i, n + 1)' + bucket'[c].parts = Full + Refill * (bucket'[c].at - asks'[i].at)
        BY <1>2, <3>3 , <1>1 DEF SavedInv
      <3>5. AllowedTo(c, i, n + 1)' \in Int
        <4>1. i \in Int /\ n + 1 \in Int
          BY <1>2
        <4>2. IsFiniteSet({k \in i..(n + 1) : asks'[k].who = c /\ asks'[k].allowed})
          <5>1. IsFiniteSet(i..(n + 1))
            BY <4>1, FS_Interval
          <5>2. QED
            BY <5>1, FS_Subset
        <4>3. QED
          BY <4>2, FS_CardinalityType DEF AllowedTo
      <3>6. Unit * (AllowedTo(c, i, n + 1)' + 1) = Unit * AllowedTo(c, i, n + 1)' + Unit /\ Unit * AllowedTo(c, i, n + 1)' \in Int /\ Unit \in Int
        BY <3>5, UnitTimes, LimitAssumption
      <3>7. Unit * (AllowedTo(c, i, n + 1)' + 1) > Full + Refill * (tick - asks'[i].at)
        <4>1. asks' \in Seq(Ask)
          BY <1>1 DEF AsksInv
        <4>2. asks'[i].at \in Int
          <5>1. asks'[i] \in Ask
            BY <1>2, <4>1
          <5>2. QED
            BY <5>1 DEF Ask
        <4>3. Refill * (tick - asks'[i].at) \in Int
          BY <1>4, <4>2, RefillTimes
        <4>4. QED
          BY <1>2, <1>4, <3>2, <3>4, <3>6, <4>3
      <3>8. AllowedTo(asks[j].who, i, j)' = AllowedTo(c, i, n + 1)'
        BY <2>1, <3>1
      <3>9. QED
        BY <2>1, <3>1, <3>4, <3>7, <3>8 DEF Full
    <2>2. CASE j # n + 1
      <3>1. j \in 1..n /\ asks'[j] = asks[j] /\ asks[j].who \in Client
        BY <1>2, <1>3, <2>2
      <3>2. since'[asks[j].who] = since[asks[j].who]
        BY <1>2, <1>3, <1>7, <3>1
      <3>3. PICK d : d = asks[j].who
        OBVIOUS
      <3>4. PICK i \in 1..j : /\ asks[i].who = d
                              /\ Unit * (AllowedTo(d, i, j) + 1) > Capacity * Unit + Refill * (asks[j].at - asks[i].at)
        BY <1>0, <1>1, <1>7, <3>1, <3>2, <3>3 DEF RefusedForItsOwn
      <3>5. i \in 1..n
        BY <3>1
      <3>6. AllowedTo(d, i, j)' = AllowedTo(d, i, j)
        BY <1>0, <3>1, <3>5, AllowedBefore
      <3>7. AllowedTo(asks[j].who, i, j)' = AllowedTo(d, i, j)'
        BY <3>1, <3>3
      <3>8. QED
        BY <1>2, <3>1, <3>3, <3>4, <3>5, <3>6, <3>7
    <2>3. QED
      BY <2>1, <2>2
  <1>8. RefusedForItsOwn'
    BY <1>2, <1>7 DEF RefusedForItsOwn
  <1>9. QED
    BY <1>6, <1>8

-----------------------------------------------------------------------------
\* Time passes: what could be allowed grows with what comes back.

LEMMA SavedStays ==
  ASSUME SavedInv, UNCHANGED <<recency, bucket, asks>>
  PROVE  SavedInv'
  <1>1. PICK n : n = Len(asks)
    OBVIOUS
  <1>2. SUFFICES ASSUME NEW c \in Client, c \in Range(recency)
                 PROVE  \E i \in 1..n : /\ asks[i].who = c
                                        /\ Unit * AllowedTo(c, i, n)' + bucket[c].parts = Full + Refill * (bucket[c].at - asks[i].at)
    BY <1>1 DEF SavedInv
  <1>3. \E i \in 1..n : /\ asks[i].who = c
                        /\ Unit * AllowedTo(c, i, n) + bucket[c].parts = Full + Refill * (bucket[c].at - asks[i].at)
    BY <1>1, <1>2 DEF SavedInv
  <1>4. \A i : AllowedTo(c, i, n)' = AllowedTo(c, i, n)
    BY DEF AllowedTo
  <1>5. QED
    BY <1>3, <1>4

LEMMA TickKeeps ==
  ASSUME LimitInv, LimitTick
  PROVE  LimitInv'
  <1>1. RecencyInv /\ BucketsInv /\ AsksInv /\ OrderInv /\ SpendInv /\ SavedInv /\ BurstsAreBounded /\ RefusedForItsOwn
    BY DEF LimitInv
  <1>2. tick' = tick + 1 /\ tick < MaxTicks /\ recency' = recency /\ bucket' = bucket /\ asks' = asks /\ since' = since
    BY DEF LimitTick
  <1>3. tick \in Nat /\ tick \in 0..MaxTicks /\ MaxTicks \in Nat
    BY <1>1, LimitAssumption DEF BucketsInv
  <1>4. RecencyInv' /\ OrderInv'
    BY <1>1, <1>2 DEF RecencyInv, OrderInv
  <1>5. BucketsInv'
    <2>1. \A c \in Client : bucket[c].at <= tick /\ bucket[c].at \in Nat
      BY <1>1 DEF BucketsInv, BucketRow
    <2>2. \A c \in Client : bucket[c].at <= tick + 1
      BY <1>3, <2>1
    <2>3. tick + 1 \in 0..MaxTicks
      BY <1>2, <1>3
    <2>4. QED
      BY <1>1, <1>2, <2>2, <2>3 DEF BucketsInv
  <1>6. asks \in Seq(Ask) /\ \A i \in 1..Len(asks) : asks[i].at <= tick /\ asks[i].at \in Nat
    <2>1. asks \in Seq(Ask) /\ \A i \in 1..Len(asks) : asks[i] \in Ask
      BY <1>1 DEF AsksInv
    <2>2. QED
      BY <1>1, <2>1 DEF AsksInv, Ask
  <1>7. AsksInv'
    <2>1. \A i \in 1..Len(asks) : asks[i].at <= tick + 1
      BY <1>3, <1>6
    <2>2. QED
      BY <1>1, <1>2, <2>1 DEF AsksInv
  <1>8. SavedInv' /\ BurstsAreBounded' /\ RefusedForItsOwn'
    <2>1. SavedInv'
      BY <1>1, <1>2, SavedStays
    <2>2. BurstsAreBounded'
      BY <1>1, <1>2 DEF BurstsAreBounded, AllowedTo
    <2>3. RefusedForItsOwn'
      BY <1>1, <1>2 DEF RefusedForItsOwn, AllowedTo
    <2>4. QED
      BY <2>1, <2>2, <2>3
  <1>9. ASSUME NEW c \in Client, c \in Range(recency), NEW i \in (since[c] + 1)..Len(asks), NEW n, n = Len(asks)
         PROVE  Unit * AllowedTo(c, i, n) + Refilled(bucket[c])'.parts <= Full + Refill * ((tick + 1) - asks[i].at)
    <2>1. n \in Nat /\ i \in 1..n /\ asks[i].at \in Int
      BY <1>1, <1>6, <1>9 DEF AsksInv
    <2>2. Unit * AllowedTo(c, i, n) + Refilled(bucket[c]).parts <= Full + Refill * (tick - asks[i].at)
      BY <1>1, <1>9 DEF SpendInv
    <2>3. Refill * ((tick + 1) - asks[i].at) = Refill * (tick - asks[i].at) + Refill /\ Refill * (tick - asks[i].at) \in Int /\ Refill \in Nat
      <3>1. tick - asks[i].at \in Int /\ (tick - asks[i].at) + 1 = (tick + 1) - asks[i].at
        BY <1>3, <2>1, LimitAssumption
      <3> DEFINE z == tick - asks[i].at
      <3> HIDE DEF z
      <3>2. Refill * (z + 1) = Refill * z + Refill /\ Refill * z \in Int
        <4>1. z \in Int
          BY <3>1 DEF z
        <4>2. QED
          BY <4>1, RefillTimes
      <3>3. QED
        BY <3>1, <3>2, LimitAssumption DEF z
    <2>4. Refilled(bucket[c])'.parts <= Refilled(bucket[c]).parts + Refill /\ Refilled(bucket[c])'.parts \in Int
          /\ Refilled(bucket[c]).parts \in Int
      <3> DEFINE x == Refill * (tick - bucket[c].at)
                 y == Refill * ((tick + 1) - bucket[c].at)
                 p == bucket[c].parts
      <3>1. p \in 0..Full /\ bucket[c].at \in Int
        BY <1>1 DEF BucketsInv, BucketRow
      <3>2. y = x + Refill /\ x \in Int
        <4>1. tick - bucket[c].at \in Int /\ (tick - bucket[c].at) + 1 = (tick + 1) - bucket[c].at
          BY <1>3, <3>1, LimitAssumption
        <4> DEFINE z == tick - bucket[c].at
        <4> HIDE DEF z
        <4>2. Refill * (z + 1) = Refill * z + Refill /\ Refill * z \in Int
          <5>1. z \in Int
            BY <4>1 DEF z
          <5>2. QED
            BY <5>1, RefillTimes
        <4>3. QED
          BY <4>1, <4>2 DEF z
      <3>3. Refilled(bucket[c]) = [parts |-> Least(Full, p + x), at |-> tick]
        BY DEF Refilled, Full
      <3>4. Refilled(bucket[c])' = [parts |-> Least(Full, p + y), at |-> tick + 1]
        BY <1>2 DEF Refilled, Full
      <3> HIDE DEF x, y, p
      <3>5. Least(Full, p + y) <= Least(Full, p + x) + Refill /\ Least(Full, p + y) \in Int /\ Least(Full, p + x) \in Int
        BY <3>1, <3>2, FullIsNat, LimitAssumption DEF Least
      <3>6. QED
        BY <3>3, <3>4, <3>5
    <2>5. Unit * AllowedTo(c, i, n) \in Int
      <3>1. i \in Int /\ n \in Int
        BY <2>1
      <3>2. AllowedTo(c, i, n) \in Nat
        BY <3>1, AllowedIsNat
      <3>3. QED
        BY <3>2, UnitTimes
    <2> DEFINE u == Unit * AllowedTo(c, i, n)
               r == Refill * (tick - asks[i].at)
               s == Refill * ((tick + 1) - asks[i].at)
               p == Refilled(bucket[c]).parts
               q == Refilled(bucket[c])'.parts
    <2>6. u + p <= Full + r /\ s = r + Refill /\ q <= p + Refill /\ u \in Int /\ r \in Int /\ p \in Int /\ q \in Int /\ Refill \in Int
      BY <2>2, <2>3, <2>4, <2>5
    <2> HIDE DEF u, r, s, p, q
    <2>7. u + q <= Full + s
      BY <2>6, FullIsNat
    <2>8. QED
      BY <2>7 DEF u, q, s
  <1>10. SpendInv'
    <2>1. PICK n : n = Len(asks)
      OBVIOUS
    <2>2. ASSUME NEW c \in Client, c \in Range(recency'), NEW i \in (since'[c] + 1)..Len(asks')
          PROVE  Unit * AllowedTo(c, i, Len(asks))' + Refilled(bucket[c])'.parts <= Full + Refill * (tick' - asks'[i].at)
      <3>1. AllowedTo(c, i, Len(asks))' = AllowedTo(c, i, n)
        BY <1>2, <2>1 DEF AllowedTo
      <3>2. c \in Range(recency) /\ i \in (since[c] + 1)..Len(asks)
        BY <1>2, <2>2
      <3>3. Unit * AllowedTo(c, i, n) + Refilled(bucket[c])'.parts <= Full + Refill * ((tick + 1) - asks[i].at)
        BY <1>9, <2>1, <3>2
      <3>4. QED
        BY <1>2, <3>1, <3>3
    <2>3. QED
      BY <2>2 DEF SpendInv
  <1>11. QED
    BY <1>4, <1>5, <1>7, <1>8, <1>10 DEF LimitInv

-----------------------------------------------------------------------------
\* What the invariant says of the limiter.

LEMMA LimitNextKeeps == LimitInv /\ [LimitNext]_limitVars => LimitInv'
  <1> SUFFICES ASSUME LimitInv, [LimitNext]_limitVars PROVE LimitInv'
    OBVIOUS
  <1>1. CASE LimitTick
    BY <1>1, TickKeeps
  <1>2. ASSUME NEW c \in Client, LimiterTake(c) PROVE LimitInv'
    BY <1>2, TakeKeepsTypes, TakeKeepsOrder, TakeKeepsSpend, TakeKeepsSaved, TakeKeepsBursts DEF LimitInv
  <1>3. CASE UNCHANGED limitVars
    <2>1. RecencyInv' /\ BucketsInv' /\ AsksInv' /\ OrderInv'
      BY <1>3 DEF limitVars, LimitInv, RecencyInv, BucketsInv, AsksInv, OrderInv
    <2>2. SpendInv'
      BY <1>3 DEF limitVars, LimitInv, SpendInv, AllowedTo, Refilled
    <2>3. SavedInv'
      BY <1>3, SavedStays DEF limitVars, LimitInv
    <2>4. BurstsAreBounded'
      BY <1>3 DEF limitVars, LimitInv, BurstsAreBounded, AllowedTo
    <2>5. RefusedForItsOwn'
      BY <1>3 DEF limitVars, LimitInv, RefusedForItsOwn, AllowedTo
    <2>6. QED
      BY <2>1, <2>2, <2>3, <2>4, <2>5 DEF LimitInv
  <1>4. QED
    BY <1>1, <1>2, <1>3 DEF LimitNext

LEMMA LimitInvMeans == LimitInv => LimitTypeOK /\ BurstsAreBounded /\ RefusedForItsOwn
  <1> SUFFICES ASSUME LimitInv PROVE LimitTypeOK
    BY DEF LimitInv
  <1>1. RecencyInv /\ BucketsInv /\ AsksInv
    BY DEF LimitInv
  <1>2. tick \in 0..MaxTicks /\ tick \in Nat
    BY <1>1, LimitAssumption DEF BucketsInv
  <1>3. ASSUME NEW c \in Range(recency) PROVE bucket[c].parts \in 0..(Capacity * Unit) /\ bucket[c].at \in 0..tick
    <2>1. c \in Client
      BY <1>1 DEF RecencyInv, Range
    <2>2. bucket[c].parts \in 0..Full /\ bucket[c].at \in Nat /\ bucket[c].at <= tick
      BY <1>1, <2>1 DEF BucketsInv, BucketRow
    <2>3. QED
      BY <1>2, <2>2 DEF Full
  <1>4. QED
    BY <1>1, <1>2, <1>3 DEF LimitTypeOK, RecencyInv, AsksInv

\* Whoever goes was at the front.
LEMMA IdlestGoes ==
  ASSUME LimitInv, [LimitNext]_limitVars
  PROVE  \A c \in Range(recency) \ Range(recency') : \A d \in Range(recency) \ {c} :
            \E i \in 1..Len(asks) : asks[i].who = d /\ \A j \in i..Len(asks) : asks[j].who # c
  <1> SUFFICES ASSUME NEW c \in Range(recency), c \notin Range(recency'), NEW d \in Range(recency), d # c
               PROVE  \E i \in 1..Len(asks) : asks[i].who = d /\ \A j \in i..Len(asks) : asks[j].who # c
    OBVIOUS
  <1>1. RecencyInv /\ OrderInv /\ recency \in Seq(Client) /\ DOMAIN recency = 1..Len(recency) /\ Len(recency) \in Nat
    BY DEF LimitInv, RecencyInv
  <1>2. recency' # recency
    OBVIOUS
  <1>3. PICK e \in Client : LimiterTake(e)
    BY <1>2 DEF LimitNext, LimitTick, limitVars
  <1>4. recency' = Moved(e)
    BY <1>3 DEF LimiterTake
  <1>5. c = recency[1] /\ Len(recency) >= 1
    BY <1>1, <1>4, MovedSeq, RoomOrderly
  <1>6. PICK b \in 1..Len(recency) : recency[b] = d
    BY <1>1 DEF Range
  <1>7. 1 \in 1..Len(recency) /\ 1 < b
    BY <1>1, <1>5, <1>6
  <1>8. QED
    BY <1>1, <1>5, <1>6, <1>7 DEF OrderInv

\* However many clients there are and however few buckets, a client is never
\* allowed more than its bucket and what came back, is refused only for what
\* it took itself, and loses its bucket only when it asked longest ago
\* (middleware/rate-limit.ts, take).
THEOREM LimitsAreKept == LimitSpec => LimitsSafe
  <1>1. LimitSpec => []LimitInv
    BY LimitInitInv, LimitNextKeeps, PTL DEF LimitSpec
  <1>2. LimitSpec => [](LimitTypeOK /\ BurstsAreBounded /\ RefusedForItsOwn)
    BY <1>1, LimitInvMeans, PTL
  <1>3. LimitSpec => IdlestIsForgotten
    <2>1. LimitInv /\ [LimitNext]_limitVars
            => [\A c \in Range(recency) \ Range(recency') : \A d \in Range(recency) \ {c} :
                  \E i \in 1..Len(asks) : asks[i].who = d /\ \A j \in i..Len(asks) : asks[j].who # c]_limitVars
      BY IdlestGoes
    <2>2. QED
      BY <1>1, <2>1, PTL DEF LimitSpec, IdlestIsForgotten
  <1>4. QED
    BY <1>2, <1>3 DEF LimitsSafe

(***************************************************************************)
(* Archives.                                                               *)
(***************************************************************************)

BackupRow ==
    [at : {"idle", "snapshot", "archive", "archived", "manifest", "ended"}, key : MasterKey \cup {NotGiven},
     pass : Passphrase \cup {NotGiven}, stamp : Stamp \cup {NotGiven}, data : Contents \cup {NotThere}]
RestoreRow ==
    [at : {"none", "temp", "migrated", "removed", "restored", "failed", "killed"}, stamp : Stamp \cup {NotGiven},
     key : MasterKey \cup {NotGiven}, pass : Passphrase \cup {NotGiven}, force : BOOLEAN, data : Contents \cup {NotThere},
     opened : MasterKey \cup {NotGiven}, found : Contents \cup {NotThere}]

FilesInv ==
    /\ database \in Contents \cup {NotThere} /\ gateway \in MasterKey \cup {NotGiven}
    /\ archives \in [Stamp -> Archive \cup {NotThere, Torn}]
    /\ manifests \in [Stamp -> Manifest \cup {NotThere, Torn}]
    /\ backups \in [Backup -> BackupRow] /\ restore \in RestoreRow
    /\ restores \in 0..MaxRestores /\ incidents \in 0..MaxIncidents

\* What a backup holds is worth sealing, and the archive it has created is its
\* own.
Copied(b) == backups[b].at \in {"snapshot", "archive", "archived", "manifest"}
Created(b) == backups[b].at \in {"archive", "archived", "manifest"}
BackupsInv ==
    /\ \A b \in Backup : Copied(b) =>
         /\ backups[b].key \in MasterKey /\ backups[b].stamp \in Stamp
         /\ backups[b].data \in Contents /\ backups[b].data.intact /\ backups[b].pass \notin Weak
    /\ \A b \in Backup : Created(b) => KeyOpens(backups[b].key, backups[b].data)
    /\ \A b \in Backup : backups[b].at = "archive" => archives[backups[b].stamp] = Torn
    /\ \A b \in Backup : backups[b].at \in {"archived", "manifest"} =>
         /\ archives[backups[b].stamp] \in Archive
         /\ [archives[backups[b].stamp] EXCEPT !.harm = {}] = Archived(b)
    /\ \A b, c \in Backup : Created(b) /\ Created(c) /\ b # c => backups[b].stamp # backups[c].stamp

\* A restore at work holds the data of its archive and the key that opened it,
\* and nobody else touches the database.
Restoring == restore.at \in {"temp", "migrated", "removed", "restored"}
RestoreInv ==
    /\ restore.at # "none" => gateway = NotGiven
    /\ Restoring =>
         /\ restore.stamp \in Stamp /\ archives[restore.stamp] \in Archive
         /\ restore.opened = archives[restore.stamp].key
         /\ restore.force \/ restore.found = NotThere
    /\ restore.at = "temp" => restore.data = archives[restore.stamp].data
    /\ restore.at \in {"migrated", "removed", "restored"} =>
         /\ restore.data = MigratedBy(archives[restore.stamp].data)
         /\ restore.data.schema = "latest"
    /\ restore.at = "removed" => database = IF restore.force THEN NotThere ELSE restore.found
    /\ restore.at = "restored" => database = restore.data
    /\ OthersLeaveIt

ArchivesInv == FilesInv /\ ArchivesOpen /\ ManifestsDescribe /\ BackupsInv /\ RestoreInv

\* Kinds tell the files apart.
LEMMA Kinds ==
    /\ \A f \in Archive : f.kind = "archive" /\ Whole(f)
    /\ \A f \in Manifest : f.kind = "manifest" /\ Whole(f)
    /\ \A d \in Contents : d.kind = "database" /\ Whole(d)
    /\ ~Whole(NotThere) /\ ~Whole(Torn)
    /\ NotThere \notin Archive \cup Manifest \cup Contents /\ Torn \notin Archive \cup Manifest /\ Torn # NotThere
  BY DEF Archive, Manifest, Contents, Whole, NotThere, Torn

LEMMA MigrationKeeps ==
    ASSUME NEW d \in Contents
    PROVE  /\ MigratedBy(d) \in Contents
           /\ MigratedBy(d).sealed = d.sealed /\ MigratedBy(d).intact = d.intact
           /\ d.schema # "newer" => MigratedBy(d).schema = "latest"
           /\ \A k : KeyOpens(k, MigratedBy(d)) <=> KeyOpens(k, d)
  BY DEF MigratedBy, Contents, KeyOpens

\* What is in an archive stays in it.
Grows ==
    \A t \in Stamp : archives[t] \in Archive =>
        /\ archives'[t] \in Archive
        /\ [archives'[t] EXCEPT !.harm = archives[t].harm] = archives[t]

LEMMA GrowsKeeps ==
    ASSUME Grows, NEW t \in Stamp, archives[t] \in Archive
    PROVE  /\ archives'[t] \in Archive /\ archives'[t].data = archives[t].data /\ archives'[t].key = archives[t].key
           /\ archives'[t].wrapped = archives[t].wrapped
           /\ [archives'[t] EXCEPT !.harm = {}] = [archives[t] EXCEPT !.harm = {}]
  <1>1. archives'[t] \in Archive /\ [archives'[t] EXCEPT !.harm = archives[t].harm] = archives[t]
    BY DEF Grows
  <1>2. QED
    BY <1>1 DEF Archive

(***************************************************************************)
(* Parts of the invariant that a step leaves alone.                        *)
(***************************************************************************)

LEMMA RestoreFrame ==
    ASSUME FilesInv, RestoreInv, Grows, UNCHANGED <<restore, database, gateway>>
    PROVE  RestoreInv'
  <1>1. Restoring => /\ archives'[restore.stamp] \in Archive
                   /\ archives'[restore.stamp].key = archives[restore.stamp].key
                   /\ archives'[restore.stamp].data = archives[restore.stamp].data
    BY GrowsKeeps DEF RestoreInv
  <1>2. QED
    BY <1>1 DEF RestoreInv, Restoring, OthersLeaveIt

LEMMA FilesFrame ==
    ASSUME ArchivesInv, UNCHANGED <<archives, manifests, backups>>
    PROVE  ArchivesOpen' /\ ManifestsDescribe' /\ BackupsInv'
  BY DEF ArchivesInv, ArchivesOpen, ManifestsDescribe, BackupsInv, Copied, Created, Archived

LEMMA UnchangedGrows == FilesInv /\ UNCHANGED archives => Grows
  <1>1. \A f \in Archive : [f EXCEPT !.harm = f.harm] = f
    BY DEF Archive
  <1>2. QED
    BY <1>1 DEF Grows

(***************************************************************************)
(* The gateway and the disk.                                               *)
(***************************************************************************)

LEMMA GatewayStartsKeeps ==
    ASSUME ArchivesInv, NEW k \in MasterKey, GatewayStarts(k) PROVE ArchivesInv'
  <1>1. database' \in Contents
    <2>1. Empty("latest") \in Contents
      BY DEF Empty, Contents
    <2>2. QED
      BY <2>1, MigrationKeeps DEF GatewayStarts, ArchivesInv, FilesInv
  <1>2. incidents' \in 0..MaxIncidents
    BY DeploymentAssumption DEF GatewayStarts, Change, ArchivesInv, FilesInv
  <1>3. FilesInv'
    BY <1>1, <1>2 DEF GatewayStarts, fileVars, ArchivesInv, FilesInv
  <1>4. RestoreInv'
    BY DEF GatewayStarts, fileVars, ArchivesInv, RestoreInv, Restoring, OthersLeaveIt
  <1>5. QED
    BY <1>3, <1>4, FilesFrame DEF ArchivesInv, GatewayStarts, fileVars

LEMMA GatewaySealsKeeps ==
    ASSUME ArchivesInv, GatewaySeals PROVE ArchivesInv'
  <1>1. NotGiven \notin MasterKey /\ gateway \in MasterKey
    BY DeploymentAssumption DEF GatewaySeals, ArchivesInv, FilesInv
  <1>2. database' \in Contents \cup {NotThere}
    BY <1>1 DEF GatewaySeals, ArchivesInv, FilesInv, Contents, NotThere
  <1>3. incidents' \in 0..MaxIncidents
    BY DeploymentAssumption DEF GatewaySeals, Change, ArchivesInv, FilesInv
  <1>4. FilesInv'
    BY <1>2, <1>3 DEF GatewaySeals, fileVars, ArchivesInv, FilesInv
  <1>5. restore.at = "none"
    BY DEF GatewaySeals, ArchivesInv, RestoreInv
  <1>6. RestoreInv'
    BY <1>5 DEF GatewaySeals, fileVars, RestoreInv, Restoring, OthersLeaveIt
  <1>7. QED
    BY <1>4, <1>6, FilesFrame DEF ArchivesInv, GatewaySeals, fileVars

LEMMA GatewayStopsKeeps ==
    ASSUME ArchivesInv, GatewayStops PROVE ArchivesInv'
  <1>1. FilesInv' /\ RestoreInv'
    BY DEF GatewayStops, fileVars, ArchivesInv, FilesInv, RestoreInv, Restoring, OthersLeaveIt
  <1>2. QED
    BY <1>1, FilesFrame DEF ArchivesInv, GatewayStops, fileVars

LEMMA DecaysKeeps ==
    ASSUME ArchivesInv, Decays PROVE ArchivesInv'
  <1>1. database' \in Contents
    BY DEF Decays, ArchivesInv, FilesInv, Contents
  <1>2. incidents' \in 0..MaxIncidents
    BY DeploymentAssumption DEF Decays, Change, ArchivesInv, FilesInv
  <1>3. FilesInv'
    BY <1>1, <1>2 DEF Decays, fileVars, ArchivesInv, FilesInv
  <1>4. RestoreInv'
    BY DEF Decays, fileVars, ArchivesInv, RestoreInv, Restoring, OthersLeaveIt
  <1>5. QED
    BY <1>3, <1>4, FilesFrame DEF ArchivesInv, Decays, fileVars

LEMMA AltersKeeps ==
    ASSUME ArchivesInv, NEW t \in Stamp, NEW section \in Section, Alters(t, section) PROVE ArchivesInv' /\ Grows
  <1>1. archives[t] \in Archive /\ archives' = [archives EXCEPT ![t] = [archives[t] EXCEPT !.harm = {section}]]
    BY Kinds DEF Alters, ArchivesInv, FilesInv
  <1>2. [archives[t] EXCEPT !.harm = {section}] \in Archive
    BY <1>1 DEF Archive
  <1>3. archives' \in [Stamp -> Archive \cup {NotThere, Torn}]
    BY <1>1, <1>2 DEF ArchivesInv, FilesInv
  <1>4. Grows
    <2>1. \A f \in Archive : [f EXCEPT !.harm = f.harm] = f
      BY DEF Archive
    <2>2. [[archives[t] EXCEPT !.harm = {section}] EXCEPT !.harm = archives[t].harm] = archives[t]
      BY <1>1 DEF Archive
    <2>3. QED
      BY <1>1, <1>2, <2>1, <2>2 DEF Grows, ArchivesInv, FilesInv
  <1>5. \A s \in Stamp : archives[s] \notin Archive => archives'[s] = archives[s]
    BY <1>1 DEF ArchivesInv, FilesInv
  <1>6. incidents' \in 0..MaxIncidents
    BY DeploymentAssumption DEF Alters, Change, ArchivesInv, FilesInv
  <1>7. FilesInv'
    BY <1>3, <1>6 DEF Alters, ArchivesInv, FilesInv
  <1>8. \A s \in Stamp : Whole(archives'[s]) <=> Whole(archives[s])
    BY <1>1, <1>2, <1>5, Kinds DEF ArchivesInv, FilesInv
  <1>9. \A s \in Stamp : Whole(archives[s]) => archives[s] \in Archive
    BY Kinds DEF ArchivesInv, FilesInv
  <1>10. ArchivesOpen'
    BY <1>4, <1>8, <1>9, GrowsKeeps DEF ArchivesInv, ArchivesOpen
  <1>11. ManifestsDescribe'
    BY <1>4, <1>8, <1>9, GrowsKeeps DEF ArchivesInv, ManifestsDescribe, Alters
  <1>12. BackupsInv'
    <2>1. \A b \in Backup : backups[b].at = "archive" => archives'[backups[b].stamp] = Torn
      BY <1>5, Kinds DEF ArchivesInv, BackupsInv, Copied
    <2>2. ASSUME NEW b \in Backup, backups[b].at \in {"archived", "manifest"}
          PROVE  archives'[backups[b].stamp] \in Archive /\ [archives'[backups[b].stamp] EXCEPT !.harm = {}] = Archived(b)
      BY <2>2, <1>4, GrowsKeeps DEF ArchivesInv, BackupsInv, Copied
    <2>3. QED
      BY <2>1, <2>2 DEF ArchivesInv, BackupsInv, Copied, Created, Archived, Alters
  <1>13. RestoreInv'
    BY <1>4, RestoreFrame DEF ArchivesInv, Alters
  <1>14. QED
    BY <1>4, <1>7, <1>10, <1>11, <1>12, <1>13 DEF ArchivesInv

(***************************************************************************)
(* Backups.                                                                *)
(***************************************************************************)

LEMMA ProceedsKeeps ==
    ASSUME FilesInv, NEW b \in Backup, NEW to \in {"archive", "archived", "manifest", "ended"}, Proceeds(b, to)
    PROVE  /\ backups' \in [Backup -> BackupRow]
           /\ backups'[b].at = to
           /\ to # "ended" => /\ backups'[b].key = backups[b].key /\ backups'[b].pass = backups[b].pass
                              /\ backups'[b].stamp = backups[b].stamp /\ backups'[b].data = backups[b].data
           /\ \A c \in Backup : c # b => backups'[c] = backups[c]
  <1>1. BackupEnded \in BackupRow /\ BackupEnded.at = "ended"
    BY DEF BackupEnded, NoBackup, BackupRow
  <1>2. [backups[b] EXCEPT !.at = to] \in BackupRow
    BY DEF FilesInv, BackupRow
  <1>3. QED
    BY <1>1, <1>2 DEF Proceeds, FilesInv, BackupRow

LEMMA LiveFrame ==
    ASSUME ArchivesInv, UNCHANGED liveVars, Grows
    PROVE  RestoreInv' /\ UNCHANGED <<database, gateway, restore, restores, incidents>>
  BY RestoreFrame DEF ArchivesInv, liveVars

LEMMA SnapshotsKeeps ==
    ASSUME ArchivesInv, NEW b \in Backup, NEW k \in MasterKey, NEW p \in Passphrase \cup {NotGiven}, NEW t \in Stamp,
           Snapshots(b, k, p, t)
    PROVE  ArchivesInv' /\ Grows
  <1> DEFINE row == [at |-> "snapshot", key |-> k, pass |-> p, stamp |-> t, data |-> database]
  <1>1. database \in Contents
    BY DEF Snapshots, ArchivesInv, FilesInv
  <1>2. row \in BackupRow
    BY <1>1 DEF BackupRow
  <1>3. backups' \in [Backup -> BackupRow] /\ backups'[b] = row /\ \A c \in Backup : c # b => backups'[c] = backups[c]
    BY <1>2 DEF Snapshots, ArchivesInv, FilesInv
  <1>4. Grows /\ RestoreInv' /\ FilesInv'
    BY <1>3, UnchangedGrows, LiveFrame DEF Snapshots, ArchivesInv, FilesInv
  <1>5. ArchivesOpen' /\ ManifestsDescribe'
    BY DEF Snapshots, ArchivesInv, ArchivesOpen, ManifestsDescribe
  <1>6. BackupsInv'
    <2>1. p \notin Weak /\ database.intact
      BY DEF Snapshots
    <2>2. \A c \in Backup : Created(c)' => c # b /\ Created(c)
      BY <1>3 DEF Created
    <2>3. \A c \in Backup : Copied(c)' => c = b \/ Copied(c)
      BY <1>3 DEF Copied
    <2>4. QED
      BY <1>1, <1>3, <2>1, <2>2, <2>3 DEF ArchivesInv, BackupsInv, Created, Copied, Archived, Snapshots
  <1>7. QED
    BY <1>4, <1>5, <1>6 DEF ArchivesInv

\* A backup ends, whole or not.
LEMMA EndsKeeps ==
    ASSUME ArchivesInv, NEW b \in Backup, Proceeds(b, "ended"), UNCHANGED archives
    PROVE  BackupsInv' /\ backups' \in [Backup -> BackupRow]
  <1>1. backups' \in [Backup -> BackupRow] /\ backups'[b].at = "ended" /\ \A c \in Backup : c # b => backups'[c] = backups[c]
    BY ProceedsKeeps DEF ArchivesInv
  <1>2. \A c \in Backup : (Created(c)' => c # b /\ Created(c)) /\ (Copied(c)' => c # b /\ Copied(c))
    BY <1>1 DEF Created, Copied
  <1>3. QED
    BY <1>1, <1>2 DEF ArchivesInv, BackupsInv, Created, Copied, Archived

LEMMA BackupDiesKeeps ==
    ASSUME ArchivesInv, NEW b \in Backup, BackupDies(b) PROVE ArchivesInv' /\ Grows
  <1>1. Grows /\ BackupsInv' /\ backups' \in [Backup -> BackupRow]
    BY EndsKeeps, UnchangedGrows DEF BackupDies, ArchivesInv
  <1>2. RestoreInv' /\ FilesInv'
    BY <1>1, LiveFrame DEF BackupDies, ArchivesInv, FilesInv
  <1>3. QED
    BY <1>1, <1>2 DEF BackupDies, ArchivesInv, ArchivesOpen, ManifestsDescribe

LEMMA CreatesArchiveKeeps ==
    ASSUME ArchivesInv, NEW b \in Backup, CreatesArchive(b) PROVE ArchivesInv' /\ Grows
  <1> DEFINE t == backups[b].stamp
  <1>1. t \in Stamp /\ backups[b].at = "snapshot"
    BY DEF CreatesArchive, ArchivesInv, BackupsInv, Copied
  <1>2. CASE UNCHANGED archives /\ Proceeds(b, "ended")
    <2>1. Grows /\ BackupsInv' /\ backups' \in [Backup -> BackupRow]
      BY <1>2, EndsKeeps, UnchangedGrows DEF ArchivesInv
    <2>2. RestoreInv' /\ FilesInv'
      BY <2>1, <1>2, LiveFrame DEF CreatesArchive, ArchivesInv, FilesInv
    <2>3. QED
      BY <2>1, <2>2, <1>2 DEF CreatesArchive, ArchivesInv, ArchivesOpen, ManifestsDescribe
  <1>3. CASE /\ KeyOpens(backups[b].key, backups[b].data) /\ archives[t] = NotThere
             /\ archives' = [archives EXCEPT ![t] = Torn] /\ Proceeds(b, "archive")
    <2>1. /\ backups' \in [Backup -> BackupRow] /\ backups'[b].at = "archive"
          /\ backups'[b].key = backups[b].key /\ backups'[b].pass = backups[b].pass
          /\ backups'[b].stamp = backups[b].stamp /\ backups'[b].data = backups[b].data
          /\ \A c \in Backup : c # b => backups'[c] = backups[c]
      BY <1>3, ProceedsKeeps DEF ArchivesInv
    <2>2. /\ archives' \in [Stamp -> Archive \cup {NotThere, Torn}] /\ archives'[t] = Torn
          /\ \A s \in Stamp : s # t => archives'[s] = archives[s]
      BY <1>1, <1>3 DEF ArchivesInv, FilesInv
    <2>3. Grows
      <3>1. \A f \in Archive : [f EXCEPT !.harm = f.harm] = f
        BY DEF Archive
      <3>2. QED
        BY <1>3, <2>2, <3>1, Kinds DEF Grows
    <2>4. RestoreInv' /\ FilesInv'
      BY <2>1, <2>2, <2>3, LiveFrame DEF CreatesArchive, ArchivesInv, FilesInv
    <2>5. ArchivesOpen' /\ ManifestsDescribe'
      <3>1. ~Whole(archives[t]) /\ ~Whole(archives'[t])
        BY <1>3, <2>2, Kinds
      <3>2. QED
        BY <2>2, <3>1 DEF CreatesArchive, ArchivesInv, ArchivesOpen, ManifestsDescribe
    <2>6. BackupsInv'
      <3>1. \A c \in Backup : c # b /\ Created(c) => backups[c].stamp # t /\ backups[c].stamp \in Stamp
        BY <1>3, Kinds DEF ArchivesInv, BackupsInv, Created, Copied
      <3>2. \A c \in Backup : (Created(c)' => c = b \/ Created(c)) /\ (Copied(c)' => Copied(c))
        BY <1>1, <2>1 DEF Created, Copied
      <3>3. \A c \in Backup : Copied(c)' =>
              /\ backups'[c].key \in MasterKey /\ backups'[c].stamp \in Stamp
              /\ backups'[c].data \in Contents /\ backups'[c].data.intact /\ backups'[c].pass \notin Weak
        BY <2>1, <3>2 DEF ArchivesInv, BackupsInv
      <3>4. \A c \in Backup : Created(c)' => KeyOpens(backups'[c].key, backups'[c].data)
        BY <1>3, <2>1, <3>2 DEF ArchivesInv, BackupsInv
      <3>5. \A c \in Backup : backups'[c].at = "archive" => archives'[backups'[c].stamp] = Torn
        BY <2>1, <2>2, <3>1 DEF ArchivesInv, BackupsInv, Created
      <3>6. ASSUME NEW c \in Backup, backups'[c].at \in {"archived", "manifest"}
            PROVE  /\ archives'[backups'[c].stamp] \in Archive
                   /\ [archives'[backups'[c].stamp] EXCEPT !.harm = {}] = Archived(c)'
        <4>1. c # b /\ backups'[c] = backups[c] /\ archives'[backups[c].stamp] = archives[backups[c].stamp]
          BY <2>1, <2>2, <3>1, <3>6 DEF Created
        <4>2. QED
          BY <3>6, <4>1 DEF ArchivesInv, BackupsInv, Archived
      <3>7. \A c, d \in Backup : Created(c)' /\ Created(d)' /\ c # d => backups'[c].stamp # backups'[d].stamp
        BY <2>1, <3>1, <3>2 DEF ArchivesInv, BackupsInv
      <3>8. QED
        BY <3>3, <3>4, <3>5, <3>6, <3>7 DEF BackupsInv
    <2>7. QED
      BY <2>3, <2>4, <2>5, <2>6 DEF ArchivesInv
  <1>4. QED
    BY <1>2, <1>3 DEF CreatesArchive

LEMMA FinishesArchiveKeeps ==
    ASSUME ArchivesInv, NEW b \in Backup, FinishesArchive(b) PROVE ArchivesInv' /\ Grows
  <1> DEFINE t == backups[b].stamp
  <1>1. /\ t \in Stamp /\ backups[b].at = "archive" /\ archives[t] = Torn
        /\ backups[b].key \in MasterKey /\ backups[b].data \in Contents /\ backups[b].data.intact
        /\ backups[b].pass \notin Weak /\ backups[b].pass \in Passphrase \cup {NotGiven}
        /\ KeyOpens(backups[b].key, backups[b].data)
    BY DEF FinishesArchive, ArchivesInv, BackupsInv, Copied, Created, FilesInv, BackupRow
  <1>2. Archived(b) \in Archive /\ [Archived(b) EXCEPT !.harm = {}] = Archived(b)
    BY <1>1 DEF Archived, Archive, Section
  <1>3. /\ backups' \in [Backup -> BackupRow] /\ backups'[b].at = "archived"
        /\ backups'[b].key = backups[b].key /\ backups'[b].pass = backups[b].pass
        /\ backups'[b].stamp = backups[b].stamp /\ backups'[b].data = backups[b].data
        /\ \A c \in Backup : c # b => backups'[c] = backups[c]
    BY ProceedsKeeps DEF FinishesArchive, ArchivesInv
  <1>4. /\ archives' \in [Stamp -> Archive \cup {NotThere, Torn}] /\ archives'[t] = Archived(b)
        /\ \A s \in Stamp : s # t => archives'[s] = archives[s]
    BY <1>1, <1>2 DEF FinishesArchive, ArchivesInv, FilesInv
  <1>5. Grows
    <2>1. \A f \in Archive : [f EXCEPT !.harm = f.harm] = f
      BY DEF Archive
    <2>2. QED
      BY <1>1, <1>4, <2>1, Kinds DEF Grows
  <1>6. RestoreInv' /\ FilesInv'
    BY <1>3, <1>4, <1>5, LiveFrame DEF FinishesArchive, ArchivesInv, FilesInv
  <1>7. ArchivesOpen'
    <2>1. ASSUME NEW s \in Stamp, Whole(archives'[s])
          PROVE  archives'[s].data.intact /\ KeyOpens(archives'[s].key, archives'[s].data) /\ archives'[s].wrapped \notin Weak
      <3>1. CASE s = t
        BY <3>1, <1>1, <1>4 DEF Archived
      <3>2. CASE s # t
        BY <3>2, <2>1, <1>4 DEF ArchivesInv, ArchivesOpen
      <3>3. QED
        BY <3>1, <3>2
    <2>2. QED
      BY <2>1 DEF ArchivesOpen
  <1>8. ManifestsDescribe'
    <2>1. ~Whole(manifests[t])
      BY <1>1, Kinds DEF ArchivesInv, ManifestsDescribe
    <2>2. QED
      BY <1>4, <2>1 DEF ArchivesInv, ManifestsDescribe, FinishesArchive
  <1>9. BackupsInv'
    <2>1. \A c \in Backup : c # b /\ Created(c) => backups[c].stamp # t /\ backups[c].stamp \in Stamp
      BY <1>1 DEF ArchivesInv, BackupsInv, Created, Copied
    <2>2. \A c \in Backup : (Created(c)' => Created(c)) /\ (Copied(c)' => Copied(c))
      BY <1>1, <1>3 DEF Created, Copied
    <2>3. \A c \in Backup : Copied(c)' =>
            /\ backups'[c].key \in MasterKey /\ backups'[c].stamp \in Stamp
            /\ backups'[c].data \in Contents /\ backups'[c].data.intact /\ backups'[c].pass \notin Weak
      BY <1>3, <2>2 DEF ArchivesInv, BackupsInv
    <2>4. \A c \in Backup : Created(c)' => KeyOpens(backups'[c].key, backups'[c].data)
      BY <1>3, <2>2 DEF ArchivesInv, BackupsInv
    <2>5. \A c \in Backup : backups'[c].at = "archive" => archives'[backups'[c].stamp] = Torn
      BY <1>3, <1>4, <2>1 DEF ArchivesInv, BackupsInv, Created
    <2>6. Archived(b)' = Archived(b)
      BY <1>3 DEF Archived
    <2>7. \A c \in Backup : backups'[c].at \in {"archived", "manifest"} =>
            /\ archives'[backups'[c].stamp] \in Archive
            /\ [archives'[backups'[c].stamp] EXCEPT !.harm = {}] = Archived(c)'
      <3>1. ASSUME NEW c \in Backup, c # b, backups'[c].at \in {"archived", "manifest"}
            PROVE  /\ archives'[backups'[c].stamp] \in Archive
                   /\ [archives'[backups'[c].stamp] EXCEPT !.harm = {}] = Archived(c)'
        <4>1. backups'[c] = backups[c] /\ archives'[backups[c].stamp] = archives[backups[c].stamp]
          BY <3>1, <1>3, <1>4, <2>1 DEF Created
        <4>2. QED
          BY <3>1, <4>1 DEF ArchivesInv, BackupsInv, Archived
      <3>2. QED
        BY <3>1, <1>2, <1>3, <1>4, <2>6
    <2>8. \A c, d \in Backup : Created(c)' /\ Created(d)' /\ c # d => backups'[c].stamp # backups'[d].stamp
      BY <1>3, <2>1, <2>2 DEF ArchivesInv, BackupsInv
    <2>9. QED
      BY <2>3, <2>4, <2>5, <2>7, <2>8 DEF BackupsInv
  <1>10. QED
    BY <1>5, <1>6, <1>7, <1>8, <1>9 DEF ArchivesInv

\* A backup goes on to its manifest, or ends: what is archived stays.
LEMMA MovesOn ==
    ASSUME ArchivesInv, NEW b \in Backup, Created(b), backups[b].at = "archived", Proceeds(b, "manifest"), UNCHANGED archives
    PROVE  BackupsInv' /\ backups' \in [Backup -> BackupRow]
  <1>1. /\ backups' \in [Backup -> BackupRow] /\ backups'[b].at = "manifest"
        /\ backups'[b].key = backups[b].key /\ backups'[b].pass = backups[b].pass
        /\ backups'[b].stamp = backups[b].stamp /\ backups'[b].data = backups[b].data
        /\ \A c \in Backup : c # b => backups'[c] = backups[c]
    BY ProceedsKeeps DEF ArchivesInv
  <1>2. \A c \in Backup : /\ (Created(c)' => Created(c)) /\ (Copied(c)' => Copied(c))
                          /\ backups'[c].stamp = backups[c].stamp /\ backups'[c].key = backups[c].key
                          /\ backups'[c].data = backups[c].data /\ backups'[c].pass = backups[c].pass
                          /\ Archived(c)' = Archived(c)
    BY <1>1 DEF Created, Copied, Archived
  <1>3. \A c \in Backup : (backups'[c].at \in {"archived", "manifest"} => backups[c].at \in {"archived", "manifest"})
                          /\ (backups'[c].at = "archive" => backups[c].at = "archive")
    BY <1>1
  <1>4. QED
    BY <1>1, <1>2, <1>3 DEF ArchivesInv, BackupsInv

LEMMA CreatesManifestKeeps ==
    ASSUME ArchivesInv, NEW b \in Backup, CreatesManifest(b) PROVE ArchivesInv' /\ Grows
  <1> DEFINE t == backups[b].stamp
  <1>1. t \in Stamp /\ UNCHANGED archives /\ Created(b) /\ backups[b].at = "archived"
    BY DEF CreatesManifest, ArchivesInv, BackupsInv, Copied, Created
  <1>2. BackupsInv' /\ backups' \in [Backup -> BackupRow]
    BY <1>1, EndsKeeps, MovesOn DEF CreatesManifest
  <1>3. /\ manifests' \in [Stamp -> Manifest \cup {NotThere, Torn}]
        /\ \A s \in Stamp : Whole(manifests'[s]) => manifests'[s] = manifests[s]
    BY <1>1, Kinds DEF CreatesManifest, ArchivesInv, FilesInv
  <1>4. Grows /\ RestoreInv' /\ FilesInv'
    BY <1>1, <1>2, <1>3, UnchangedGrows, LiveFrame DEF CreatesManifest, ArchivesInv, FilesInv
  <1>5. QED
    BY <1>1, <1>2, <1>3, <1>4 DEF ArchivesInv, ArchivesOpen, ManifestsDescribe

LEMMA FinishesManifestKeeps ==
    ASSUME ArchivesInv, NEW b \in Backup, FinishesManifest(b) PROVE ArchivesInv' /\ Grows
  <1> DEFINE t == backups[b].stamp
             m == [kind |-> "manifest", of |-> Archived(b)]
  <1>1. /\ t \in Stamp /\ UNCHANGED archives /\ archives[t] \in Archive
        /\ [archives[t] EXCEPT !.harm = {}] = Archived(b)
    BY DEF FinishesManifest, ArchivesInv, BackupsInv, Copied
  <1>2. BackupsInv' /\ backups' \in [Backup -> BackupRow]
    BY <1>1, EndsKeeps DEF FinishesManifest
  <1>3. m \in Manifest
    <2>1. [archives[t] EXCEPT !.harm = {}] \in Archive
      BY <1>1 DEF Archive
    <2>2. Archived(b) \in Archive
      BY <1>1, <2>1
    <2>3. m.kind = "manifest" /\ m.of = Archived(b) /\ m = [kind |-> m.kind, of |-> m.of]
      OBVIOUS
    <2>4. QED
      BY <2>2, <2>3 DEF Manifest
  <1>4. /\ manifests' \in [Stamp -> Manifest \cup {NotThere, Torn}] /\ manifests'[t] = m
        /\ \A s \in Stamp : s # t => manifests'[s] = manifests[s]
    BY <1>1, <1>3 DEF FinishesManifest, ArchivesInv, FilesInv
  <1>5. Grows /\ RestoreInv' /\ FilesInv'
    BY <1>1, <1>2, <1>4, UnchangedGrows, LiveFrame DEF FinishesManifest, ArchivesInv, FilesInv
  <1>6. ManifestsDescribe'
    <2>1. manifests'[t].of = Archived(b) /\ Whole(archives[t]) /\ archives' = archives
      BY <1>1, <1>4, Kinds
    <2>2. \A s \in Stamp : Whole(manifests'[s]) => Whole(archives'[s]) /\ [archives'[s] EXCEPT !.harm = {}] = manifests'[s].of
      <3>1. ASSUME NEW s \in Stamp, s # t, Whole(manifests'[s])
            PROVE  Whole(archives'[s]) /\ [archives'[s] EXCEPT !.harm = {}] = manifests'[s].of
        BY <3>1, <1>4, <2>1 DEF ArchivesInv, ManifestsDescribe
      <3>2. QED
        BY <3>1, <2>1, <1>1
    <2>3. QED
      BY <2>2 DEF ManifestsDescribe
  <1>7. QED
    BY <1>1, <1>2, <1>5, <1>6 DEF ArchivesInv, ArchivesOpen

(***************************************************************************)
(* Restores.                                                               *)
(***************************************************************************)

\* What opens an archive is the key it was encrypted with.
LEMMA OpensWithItsKey ==
    ASSUME ArchivesInv, NEW t \in Stamp, NEW k \in MasterKey \cup {NotGiven}, NEW p \in Passphrase \cup {NotGiven},
           NEW force \in BOOLEAN, CanOpen(t, k, p, force)
    PROVE  archives[t] \in Archive /\ KeyFor(t, k, p) = archives[t].key /\ (force \/ database = NotThere)
  BY Kinds DEF CanOpen, Verified, Decrypts, ArchivesInv, FilesInv

LEMMA BackupFrame ==
    ASSUME ArchivesInv, UNCHANGED backupVars PROVE Grows /\ ArchivesOpen' /\ ManifestsDescribe' /\ BackupsInv'
  BY FilesFrame, UnchangedGrows DEF backupVars, ArchivesInv

LEMMA BeginsRestoreKeeps ==
    ASSUME ArchivesInv, NEW t \in Stamp, NEW k \in MasterKey \cup {NotGiven}, NEW p \in Passphrase \cup {NotGiven},
           NEW force \in BOOLEAN, BeginsRestore(t, k, p, force)
    PROVE  ArchivesInv' /\ Grows
  <1>1. restores' \in 0..MaxRestores
    BY DeploymentAssumption DEF BeginsRestore, ArchivesInv, FilesInv
  <1>2. CASE CanOpen(t, k, p, force)
    <2>1. archives[t] \in Archive /\ KeyFor(t, k, p) = archives[t].key /\ (force \/ database = NotThere)
      BY <1>2, OpensWithItsKey
    <2>2. restore' = [at |-> "temp", stamp |-> t, key |-> k, pass |-> p, force |-> force, data |-> archives[t].data,
                      opened |-> archives[t].key, found |-> database]
      BY <1>2, <2>1 DEF BeginsRestore, NoRestore
    <2>3. restore' \in RestoreRow
      BY <2>1, <2>2 DEF RestoreRow, Archive, ArchivesInv, FilesInv
    <2>4. RestoreInv'
      <3>1. gateway' = NotGiven /\ database' = database /\ archives' = archives
        BY DEF BeginsRestore, backupVars
      <3>2. /\ restore'.at = "temp" /\ restore'.stamp = t /\ restore'.opened = archives[t].key
            /\ restore'.data = archives[t].data /\ restore'.force = force /\ restore'.found = database
        BY <2>2
      <3>3. QED
        BY <2>1, <3>1, <3>2 DEF RestoreInv, Restoring, OthersLeaveIt
    <2>5. FilesInv'
      BY <1>1, <2>3 DEF ArchivesInv, FilesInv, BeginsRestore, backupVars
    <2>6. QED
      BY <2>4, <2>5, BackupFrame DEF BeginsRestore, ArchivesInv
  <1>3. CASE ~CanOpen(t, k, p, force)
    <2>2. restore' = [at |-> "failed", stamp |-> t, key |-> k, pass |-> p, force |-> force, data |-> NotThere,
                      opened |-> NotGiven, found |-> database]
      BY <1>3 DEF BeginsRestore, NoRestore
    <2>3. restore' \in RestoreRow
      BY <2>2 DEF RestoreRow, ArchivesInv, FilesInv
    <2>4. RestoreInv'
      <3>1. gateway' = NotGiven /\ database' = database
        BY DEF BeginsRestore, backupVars
      <3>2. restore'.at = "failed" /\ restore'.found = database
        BY <2>2
      <3>3. QED
        BY <3>1, <3>2 DEF RestoreInv, Restoring, OthersLeaveIt
    <2>5. FilesInv'
      BY <1>1, <2>3 DEF ArchivesInv, FilesInv, BeginsRestore, backupVars
    <2>6. QED
      BY <2>4, <2>5, BackupFrame DEF BeginsRestore, ArchivesInv
  <1>4. QED
    BY <1>2, <1>3

LEMMA MigratesTempKeeps ==
    ASSUME ArchivesInv, MigratesTemp PROVE ArchivesInv' /\ Grows
  <1>1. restore.data \in Contents /\ restore.data = archives[restore.stamp].data
    BY DEF MigratesTemp, ArchivesInv, RestoreInv, Restoring, Archive
  <1>2. restore' \in RestoreRow /\ FilesInv'
    BY <1>1, MigrationKeeps DEF MigratesTemp, ArchivesInv, FilesInv, RestoreRow, backupVars
  <1>3. RestoreInv'
    <2>1. MigratedBy(restore.data) \in Contents /\ (restore.data.schema # "newer" => MigratedBy(restore.data).schema = "latest")
      BY <1>1, MigrationKeeps
    <2>2. QED
      BY <1>1, <2>1 DEF MigratesTemp, ArchivesInv, FilesInv, RestoreRow, RestoreInv, Restoring, OthersLeaveIt, backupVars
  <1>4. QED
    BY <1>2, <1>3, BackupFrame DEF MigratesTemp, ArchivesInv

LEMMA RemovesTargetKeeps ==
    ASSUME ArchivesInv, RemovesTarget PROVE ArchivesInv' /\ Grows
  <1>1. FilesInv'
    BY DEF RemovesTarget, ArchivesInv, FilesInv, RestoreRow, backupVars
  <1>2. RestoreInv'
    BY DEF RemovesTarget, ArchivesInv, FilesInv, RestoreRow, RestoreInv, Restoring, OthersLeaveIt, backupVars
  <1>3. QED
    BY <1>1, <1>2, BackupFrame DEF RemovesTarget, ArchivesInv

LEMMA RenamesKeeps ==
    ASSUME ArchivesInv, Renames PROVE ArchivesInv' /\ Grows
  <1>1. FilesInv'
    BY DEF Renames, ArchivesInv, FilesInv, RestoreRow, backupVars
  <1>2. RestoreInv'
    BY DEF Renames, ArchivesInv, FilesInv, RestoreRow, RestoreInv, Restoring, OthersLeaveIt, backupVars
  <1>3. QED
    BY <1>1, <1>2, BackupFrame DEF Renames, ArchivesInv

LEMMA RestoreDiesKeeps ==
    ASSUME ArchivesInv, RestoreDies PROVE ArchivesInv' /\ Grows
  <1>1. FilesInv'
    BY DEF RestoreDies, ArchivesInv, FilesInv, RestoreRow, backupVars
  <1>2. RestoreInv'
    BY DEF RestoreDies, ArchivesInv, FilesInv, RestoreRow, RestoreInv, Restoring, OthersLeaveIt, backupVars
  <1>3. QED
    BY <1>1, <1>2, BackupFrame DEF RestoreDies, ArchivesInv

LEMMA RestoreIsOverKeeps ==
    ASSUME ArchivesInv, RestoreIsOver PROVE ArchivesInv' /\ Grows
  <1>1. FilesInv'
    BY DEF RestoreIsOver, NoRestore, ArchivesInv, FilesInv, RestoreRow, backupVars
  <1>2. RestoreInv'
    BY DEF RestoreIsOver, NoRestore, ArchivesInv, RestoreInv, Restoring, OthersLeaveIt, backupVars
  <1>3. QED
    BY <1>1, <1>2, BackupFrame DEF RestoreIsOver, ArchivesInv

(***************************************************************************)
(* All steps.                                                              *)
(***************************************************************************)

LEMMA ArchivesInitInv == ArchivesInit => ArchivesInv
  <1> SUFFICES ASSUME ArchivesInit PROVE ArchivesInv
    OBVIOUS
  <1>1. \A b \in Backup : backups[b] = NoBackup
    BY DEF ArchivesInit
  <1>2. database \in Contents \cup {NotThere}
    <2>1. Empty("newer") \in Contents /\ Empty("older") \in Contents
      BY DEF Empty, Contents
    <2>2. \A kept \in SUBSET MasterKey : [Empty("older") EXCEPT !.sealed = kept] \in Contents
      BY <2>1 DEF Contents
    <2>3. QED
      BY <2>1, <2>2 DEF ArchivesInit
  <1>3. FilesInv
    BY <1>2, DeploymentAssumption DEF ArchivesInit, FilesInv, NoBackup, BackupRow, NoRestore, RestoreRow
  <1>4. BackupsInv
    BY <1>1 DEF BackupsInv, Copied, Created, NoBackup
  <1>5. RestoreInv
    BY DEF ArchivesInit, RestoreInv, Restoring, OthersLeaveIt, NoRestore
  <1>6. ArchivesOpen /\ ManifestsDescribe
    BY Kinds DEF ArchivesInit, ArchivesOpen, ManifestsDescribe
  <1>7. QED
    BY <1>3, <1>4, <1>5, <1>6 DEF ArchivesInv

LEMMA ArchivesNextKeeps == ArchivesInv /\ [ArchivesNext]_archiveVars => ArchivesInv' /\ Grows
  <1> SUFFICES ASSUME ArchivesInv, [ArchivesNext]_archiveVars PROVE ArchivesInv' /\ Grows
    OBVIOUS
  <1>1. CASE UNCHANGED archiveVars
    <2>1. Grows
      BY <1>1, UnchangedGrows DEF ArchivesInv, archiveVars
    <2>2. RestoreInv' /\ FilesInv'
      BY <1>1 DEF ArchivesInv, archiveVars, FilesInv, RestoreInv, Restoring, OthersLeaveIt
    <2>3. QED
      BY <1>1, <2>1, <2>2, FilesFrame DEF ArchivesInv, archiveVars
  <1>2. ASSUME NEW k \in MasterKey, GatewayStarts(k) PROVE ArchivesInv' /\ Grows
    BY <1>2, GatewayStartsKeeps, UnchangedGrows DEF ArchivesInv, GatewayStarts, fileVars
  <1>3. CASE GatewaySeals
    BY <1>3, GatewaySealsKeeps, UnchangedGrows DEF ArchivesInv, GatewaySeals, fileVars
  <1>4. CASE GatewayStops
    BY <1>4, GatewayStopsKeeps, UnchangedGrows DEF ArchivesInv, GatewayStops, fileVars
  <1>5. CASE Decays
    BY <1>5, DecaysKeeps, UnchangedGrows DEF ArchivesInv, Decays, fileVars
  <1>6. ASSUME NEW t \in Stamp, NEW section \in Section, Alters(t, section) PROVE ArchivesInv' /\ Grows
    BY <1>6, AltersKeeps
  <1>7. ASSUME NEW b \in Backup, NEW k \in MasterKey, NEW p \in Passphrase \cup {NotGiven}, NEW t \in Stamp,
               Snapshots(b, k, p, t)
        PROVE  ArchivesInv' /\ Grows
    BY <1>7, SnapshotsKeeps
  <1>8. ASSUME NEW b \in Backup,
               CreatesArchive(b) \/ FinishesArchive(b) \/ CreatesManifest(b) \/ FinishesManifest(b) \/ BackupDies(b)
        PROVE  ArchivesInv' /\ Grows
    BY <1>8, CreatesArchiveKeeps, FinishesArchiveKeeps, CreatesManifestKeeps, FinishesManifestKeeps, BackupDiesKeeps
  <1>9. ASSUME NEW t \in Stamp, NEW k \in MasterKey \cup {NotGiven}, NEW p \in Passphrase \cup {NotGiven},
               NEW force \in BOOLEAN, BeginsRestore(t, k, p, force)
        PROVE  ArchivesInv' /\ Grows
    BY <1>9, BeginsRestoreKeeps
  <1>10. CASE MigratesTemp \/ RemovesTarget \/ Renames \/ RestoreDies \/ RestoreIsOver
    BY <1>10, MigratesTempKeeps, RemovesTargetKeeps, RenamesKeeps, RestoreDiesKeeps, RestoreIsOverKeeps
  <1>11. QED
    BY <1>1, <1>2, <1>3, <1>4, <1>5, <1>6, <1>7, <1>8, <1>9, <1>10 DEF ArchivesNext

LEMMA ArchivesMeanIt == ArchivesInv => ArchivesSafe
  <1> SUFFICES ASSUME ArchivesInv PROVE ArchivesSafe
    OBVIOUS
  <1>1. ArchivesTypeOK
    BY DEF ArchivesInv, FilesInv, ArchivesTypeOK, BackupRow, RestoreRow
  <1>2. RestoredIsWhole
    <2>1. SUFFICES ASSUME restore.at = "restored" PROVE RestoredIsWhole
      BY DEF RestoredIsWhole
    <2>2. /\ archives[restore.stamp] \in Archive /\ restore.stamp \in Stamp /\ restore.opened = archives[restore.stamp].key
          /\ database = MigratedBy(archives[restore.stamp].data) /\ database.schema = "latest"
      BY <2>1 DEF ArchivesInv, RestoreInv, Restoring
    <2>3. /\ archives[restore.stamp].data \in Contents /\ archives[restore.stamp].data.intact
          /\ KeyOpens(archives[restore.stamp].key, archives[restore.stamp].data)
      BY <2>2, Kinds DEF ArchivesInv, ArchivesOpen, Archive
    <2>4. QED
      BY <2>2, <2>3, MigrationKeeps DEF RestoredIsWhole
  <1>3. QED
    BY <1>1, <1>2 DEF ArchivesSafe, ArchivesInv, RestoreInv

\* A restore that fails has one of the reasons named.
LEMMA FailsForAReason ==
    ASSUME ArchivesInv, [ArchivesNext]_archiveVars
    PROVE  [LET t == restore'.stamp
            IN  Begun /\ Whole(archives[t]) =>
                 \/ archives[t].harm # {} \/ manifests[t] = Torn \/ archives[t].data.schema = "newer"
                 \/ database # NotThere /\ ~restore'.force
                 \/ IF restore'.pass # NotGiven THEN restore'.pass # archives[t].wrapped
                    ELSE restore'.key # archives[t].key]_archiveVars
  <1> DEFINE t == restore'.stamp
  <1> SUFFICES ASSUME Begun, Whole(archives[t]), archives[t].harm = {}, manifests[t] # Torn,
                      archives[t].data.schema # "newer", database = NotThere \/ restore'.force
               PROVE  IF restore'.pass # NotGiven THEN restore'.pass # archives[t].wrapped
                      ELSE restore'.key # archives[t].key
    OBVIOUS
  <1>1. ~UNCHANGED restore
    BY DEF Begun
  <1>2. ASSUME NEW s \in Stamp, NEW k \in MasterKey \cup {NotGiven}, NEW p \in Passphrase \cup {NotGiven},
               NEW force \in BOOLEAN, BeginsRestore(s, k, p, force)
        PROVE  IF restore'.pass # NotGiven THEN restore'.pass # archives[t].wrapped
               ELSE restore'.key # archives[t].key
    <2>1. restore'.stamp = s /\ restore'.key = k /\ restore'.pass = p /\ restore'.force = force
      BY <1>2 DEF BeginsRestore, NoRestore
    <2>2. ~CanOpen(s, k, p, force)
      BY <1>2 DEF BeginsRestore, NoRestore, Begun
    <2>3. archives[s] \in Archive
      BY <2>1, Kinds DEF ArchivesInv, FilesInv
    <2>4. manifests[s] # NotThere => manifests[s].of = archives[s]
      <3>1. [archives[s] EXCEPT !.harm = {}] = archives[s]
        BY <2>1, <2>3 DEF Archive
      <3>2. manifests[s] # NotThere => Whole(manifests[s])
        BY <2>1, Kinds DEF ArchivesInv, FilesInv
      <3>3. QED
        BY <3>1, <3>2 DEF ArchivesInv, ManifestsDescribe
    <2>5. ~Decrypts(s, KeyFor(s, k, p))
      BY <2>1, <2>2, <2>4 DEF CanOpen, Verified
    <2>6. QED
      BY <2>1, <2>5 DEF Decrypts, KeyFor
  <1>3. ~MigratesTemp
    <2>1. SUFFICES ASSUME MigratesTemp PROVE FALSE
      OBVIOUS
    <2>2. restore.data = archives[restore.stamp].data /\ restore.stamp \in Stamp /\ restore'.stamp = restore.stamp
      BY <2>1 DEF MigratesTemp, ArchivesInv, FilesInv, RestoreInv, Restoring, RestoreRow
    <2>3. restore.data.intact
      BY <2>2 DEF ArchivesInv, ArchivesOpen
    <2>4. restore'.at = "migrated"
      BY <2>1, <2>2, <2>3 DEF MigratesTemp, ArchivesInv, FilesInv, RestoreRow
    <2>5. QED
      BY <2>4 DEF Begun
  <1>4. ~RemovesTarget /\ ~Renames /\ ~RestoreDies /\ ~RestoreIsOver
    BY DEF RemovesTarget, Renames, RestoreDies, RestoreIsOver, NoRestore, Begun, ArchivesInv, FilesInv, RestoreRow
  <1>5. QED
    BY <1>1, <1>2, <1>3, <1>4 DEF ArchivesNext, archiveVars, GatewayStarts, GatewaySeals, GatewayStops, Decays, Alters,
       fileVars, Snapshots, CreatesArchive, FinishesArchive, CreatesManifest, FinishesManifest, BackupDies, liveVars

LEMMA StayStep ==
    ASSUME ArchivesInv, Grows
    PROVE  \A t \in Stamp : Whole(archives[t]) => [archives'[t] EXCEPT !.harm = archives[t].harm] = archives[t]
  BY Kinds DEF Grows, ArchivesInv, FilesInv

\* Every archive opens with what it was sealed with and holds what the database
\* held, however its writers were killed; none is ever overwritten; and a
\* restore that does not bring one back was stopped by what the tool names
\* (backup-sqlite, restore-sqlite, database-backup.ts).
THEOREM ArchivesAreSafe == ArchivesSpec => []ArchivesSafe /\ ArchivesStay /\ NothingElseStopsIt
  <1>1. ArchivesInit => ArchivesInv
    BY ArchivesInitInv
  <1>2. ArchivesInv /\ [ArchivesNext]_archiveVars => ArchivesInv'
    BY ArchivesNextKeeps
  <1>3. ArchivesInv => ArchivesSafe
    BY ArchivesMeanIt
  <1>4. ArchivesInv /\ [ArchivesNext]_archiveVars =>
          [\A t \in Stamp : Whole(archives[t]) => [archives'[t] EXCEPT !.harm = archives[t].harm] = archives[t]]_archiveVars
    BY ArchivesNextKeeps, StayStep
  <1>5. ArchivesInv /\ [ArchivesNext]_archiveVars =>
          [LET t == restore'.stamp
           IN  Begun /\ Whole(archives[t]) =>
                \/ archives[t].harm # {} \/ manifests[t] = Torn \/ archives[t].data.schema = "newer"
                \/ database # NotThere /\ ~restore'.force
                \/ IF restore'.pass # NotGiven THEN restore'.pass # archives[t].wrapped
                   ELSE restore'.key # archives[t].key]_archiveVars
    BY FailsForAReason
  <1>6. QED
    BY <1>1, <1>2, <1>3, <1>4, <1>5, PTL DEF ArchivesSpec, ArchivesStay, NothingElseStopsIt

(***************************************************************************)
(* Deploys and redeploys.                                                  *)
(***************************************************************************)

CommitOrNone == Commit \cup {NoCommit}
Tree == [at : Commit, branch : BOOLEAN, tip : Commit]
JobRow ==
    [step : Steps, asked : Asked, mode : Runtime \cup {"none"}, target : CommitOrNone, archive : Nat \cup {NoCommit},
     hadImage : BOOLEAN, checkedOut : BOOLEAN, restarted : BOOLEAN, rolling : BOOLEAN, undone : BOOLEAN, end : Endings]
WorldRow == [checkout : Tree, image : CommitOrNone, serving : [Runtime -> CommitOrNone], schema : Nat]

TreeInv ==
    /\ envFile \in {"missing", "partial", "complete"}
    /\ checkout \in Tree /\ (checkout.branch => checkout.at = checkout.tip)
    /\ image \in CommitOrNone /\ fallback \in CommitOrNone /\ dist \in Commit \cup {NoCommit, Half}
    /\ serving \in [Runtime -> CommitOrNone] /\ schema \in Nat
    /\ turns \in 0..MaxTurns /\ mishaps \in 0..MaxMishaps
    /\ job \in JobRow
    /\ before \in WorldRow /\ (before.checkout.branch => before.checkout.at = before.checkout.tip)
    /\ \E m \in Runtime : \A r \in Runtime : r # m => serving[r] = NoCommit

ComposeSteps == {"tag", "build", "start", "ready", "retag"}
PmSteps == {"pmBuild", "pmStop", "pmStart", "pmReady"}
Working == job.step \notin {"none", "mode", "leaving"}

\* Which steps are of which runtime and script.
JobInv ==
    /\ job.step \in ComposeSteps => job.mode = "compose"
    /\ job.step \in PmSteps => job.mode = "pm2"
    /\ Working => job.mode \in Runtime /\ \A r \in Runtime : r # job.mode => serving[r] = NoCommit
    /\ job.step \in {"target", "tag", "checkout", "backup", "retag", "return"} => job.asked.kind = "redeploy"
    /\ job.asked.kind = "deploy" => ~job.rolling /\ ~job.checkedOut
    /\ Is("none") => job = NoJob
    /\ Is("mode") => World = before /\ ~job.restarted /\ ~job.rolling /\ ~job.checkedOut
    /\ ~Is("leaving") => job.undone

\* What a redeploy has touched, and what it remembers of what it found.
Fetched == {"build", "start", "ready", "retag", "return"} \cup PmSteps
RedeployInv ==
    job.asked.kind = "redeploy" /\ Working =>
        /\ before.serving[job.mode] # NoCommit
        /\ ~Is("target") => job.target \in Commit /\ (job.asked.ref \/ before.checkout.branch)
        /\ ~before.checkout.branch => checkout.tip = before.checkout.tip
        /\ ~job.restarted => serving = before.serving /\ schema = before.schema
        /\ ~job.checkedOut => checkout = before.checkout /\ image = before.image
        /\ job.checkedOut <=> job.step \in Fetched \/ (Is("backup") /\ job.mode = "compose")
        /\ job.restarted <=> job.step \in {"ready", "retag", "return"} \cup PmSteps \/ job.rolling
        /\ job.rolling => job.asked.rollback /\ (job.mode = "compose" => job.hadImage)
                          /\ job.step \in {"retag", "return", "start", "ready"} \cup PmSteps
        /\ job.step \in {"retag", "return"} => job.rolling
        /\ job.mode = "pm2" => image = before.image
        /\ job.mode = "compose" /\ job.step \notin {"target", "tag"} =>
             /\ job.hadImage <=> before.image # NoCommit
             /\ job.hadImage => fallback = before.image
        /\ job.checkedOut /\ ~job.rolling => checkout.at = job.target
        /\ job.rolling /\ job.step \notin {"retag", "return"} => checkout = before.checkout
        /\ job.rolling /\ job.mode = "compose" /\ ~Is("retag") => image = before.image
        /\ job.asked.backup /\ (job.step \in (Fetched \ {"build"}) \/ (Is("checkout") /\ job.mode = "pm2")) =>
             job.archive = before.schema

\* What was built, and what was started of it.
BuildInv ==
    /\ (Is("backup") /\ job.mode = "compose") \/ Is("start") => job.rolling \/ image = checkout.at
    /\ Is("ready") => serving["compose"] = image /\ (job.rolling \/ image = checkout.at)
    /\ job.step \in {"pmStop", "pmStart"} => dist = checkout.at
    /\ Is("pmReady") => serving["pm2"] = checkout.at

EndInv == FailureLeavesAll /\ RolledBackServes /\ DeployedServes /\ SomethingServes

DeployInv == TreeInv /\ JobInv /\ RedeployInv /\ BuildInv /\ EndInv /\ BackedUpFirst

LEMMA NoJobRow ==
    /\ NoJob \in JobRow /\ NoJob.step = "none" /\ NoJob.asked.kind = "deploy" /\ NoJob.mode = "none" /\ NoJob.end = "none"
    /\ ~NoJob.rolling /\ ~NoJob.checkedOut /\ ~NoJob.restarted /\ NoJob.undone
<1>1. [kind |-> "deploy", runtime |-> "any", ref |-> FALSE, force |-> FALSE, backup |-> FALSE, rollback |-> FALSE] \in Deploys
  BY DEF Deploys
<1>2. PICK a \in Deploys : NoJob = [Asking(a) EXCEPT !.step = "none"]
  BY <1>1 DEF NoJob
<1>3. a \in Asked /\ a.kind = "deploy"
  BY DEF Asked, Deploys
<1> QED BY <1>2, <1>3 DEF Asking, JobRow, Steps, Endings, CommitOrNone

LEMMA AskingRow ==
    ASSUME NEW a \in Asked
    PROVE  /\ Asking(a) \in JobRow /\ Asking(a).step = "mode" /\ Asking(a).asked = a
           /\ ~Asking(a).rolling /\ ~Asking(a).checkedOut /\ ~Asking(a).restarted /\ Asking(a).undone
  BY DEF Asking, JobRow, Steps, Endings, CommitOrNone

LEMMA AskedRow ==
    ASSUME NEW a \in Asked
    PROVE  /\ a.kind \in {"deploy", "redeploy"} /\ a.ref \in BOOLEAN /\ a.force \in BOOLEAN /\ a.backup \in BOOLEAN
           /\ a.rollback \in BOOLEAN /\ (a.kind = "deploy" => ~a.backup /\ ~a.rollback)
  BY DEF Asked, Deploys, Redeploys

LEMMA WorldIsRow ==
    ASSUME TreeInv
    PROVE  /\ World \in WorldRow
           /\ World.checkout = checkout /\ World.image = image /\ World.serving = serving /\ World.schema = schema
  BY DEF TreeInv, World, WorldRow

LEMMA SameWorld ==
    ASSUME TreeInv,
           checkout = before.checkout, image = before.image, serving = before.serving, schema = before.schema
    PROVE  World = before
  BY DEF TreeInv, World, WorldRow

\* What most steps leave of a script, and how it steps on, ends or turns back.
Kept ==
    /\ job'.asked = job.asked /\ job'.mode = job.mode /\ job'.target = job.target /\ job'.archive = job.archive
    /\ job'.hadImage = job.hadImage /\ job'.checkedOut = job.checkedOut /\ job'.undone = job.undone

LEMMA JobSteps ==
    ASSUME TreeInv, NEW s \in Steps, StepsTo(s)
    PROVE  /\ job' \in JobRow /\ job'.step = s /\ Kept
           /\ job'.restarted = job.restarted /\ job'.rolling = job.rolling /\ job'.end = job.end
  BY DEF TreeInv, JobRow, StepsTo, Kept

LEMMA JobEnds ==
    ASSUME TreeInv, NEW e \in Endings, Ends(e)
    PROVE  /\ job' \in JobRow /\ job'.step = "leaving" /\ job'.end = e /\ Kept
           /\ job'.restarted = job.restarted /\ job'.rolling = job.rolling
  BY DEF TreeInv, JobRow, Ends, Kept, Steps

LEMMA JobTurnsBack ==
    ASSUME TreeInv, NotReady
    PROVE  \/ /\ GoesBack /\ job' \in JobRow /\ Kept
              /\ job'.step = IF job.mode = "compose" THEN "retag" ELSE "return"
              /\ job'.rolling /\ job'.restarted = job.restarted /\ job'.end = job.end
           \/ /\ ~GoesBack /\ Ends(IF job.rolling THEN "lost" ELSE "left")
<1>1. CASE GoesBack
  <2>1. job' = [job EXCEPT !.rolling = TRUE, !.step = IF job.mode = "compose" THEN "retag" ELSE "return"]
    BY <1>1 DEF NotReady
  <2>2. (IF job.mode = "compose" THEN "retag" ELSE "return") \in Steps
    BY DEF Steps
  <2> QED BY <1>1, <2>1, <2>2 DEF TreeInv, JobRow, Kept
<1>2. CASE ~GoesBack
  BY <1>2 DEF NotReady
<1> QED BY <1>1, <1>2

\* A script that ends has nothing left to hold, and one that goes on has
\* nothing to show.
LEMMA EndsQuietly ==
    ASSUME TreeInv, JobInv, NEW e \in Endings, Ends(e)
    PROVE  JobInv' /\ RedeployInv' /\ BuildInv'
<1>1. job'.step = "leaving" /\ Kept /\ job'.rolling = job.rolling
  BY JobEnds
<1>2. JobInv'
  BY <1>1 DEF JobInv, Kept, ComposeSteps, PmSteps, Working, Is
<1>3. RedeployInv' /\ BuildInv'
  BY <1>1 DEF RedeployInv, BuildInv, Working, Is
<1> QED BY <1>2, <1>3

LEMMA GoesOn ==
    ASSUME job'.step # "leaving"
    PROVE  EndInv'
  BY DEF EndInv, FailureLeavesAll, RolledBackServes, DeployedServes, SomethingServes, Leaves, Is

LEMMA BackupStays ==
    ASSUME BackedUpFirst, Kept, job'.restarted = job.restarted, before' = before
    PROVE  BackedUpFirst'
  BY DEF BackedUpFirst, Kept

LEMMA Mishaps ==
    ASSUME TreeInv, Mishap
    PROVE  mishaps' \in 0..MaxMishaps /\ mishaps' # 0
  BY DeploymentAssumption DEF TreeInv, Mishap

\* The checkout that is put back is the one that was found.
LEMMA PutsBack ==
    ASSUME TreeInv, RedeployInv, Working, job.asked.kind = "redeploy"
    PROVE  PutBack = before.checkout
<1>1. before.checkout \in Tree /\ checkout \in Tree
  BY DEF TreeInv, WorldRow
<1>2. CASE before.checkout.branch
  <2>1. PutBack = [at |-> before.checkout.at, branch |-> TRUE, tip |-> before.checkout.at]
    BY <1>2 DEF PutBack
  <2> QED BY <1>1, <1>2, <2>1 DEF TreeInv, Tree
<1>3. CASE ~before.checkout.branch
  <2>1. PutBack = [checkout EXCEPT !.at = before.checkout.at, !.branch = FALSE]
    BY <1>3 DEF PutBack
  <2>2. checkout.tip = before.checkout.tip
    BY <1>3 DEF RedeployInv
  <2> QED BY <1>1, <1>3, <2>1, <2>2 DEF Tree
<1> QED BY <1>1, <1>2, <1>3 DEF Tree

\* The runtimes a script may choose.
LEMMA ModesHold ==
    ASSUME TreeInv, NEW m \in ModesFor(job.asked)
    PROVE  /\ m \in Runtime /\ \A r \in Runtime : r # m => serving[r] = NoCommit
           /\ job.asked.kind = "redeploy" => serving[m] # NoCommit
<1>1. PICK k \in Runtime : \A r \in Runtime : r # k => serving[r] = NoCommit
  BY DEF TreeInv
<1>2. job.asked \in Asked
  BY DEF TreeInv, JobRow
<1>3. \/ m \in Existing
      \/ Existing = {} /\ job.asked.kind # "redeploy" /\ m \in Runtime
  BY <1>2 DEF ModesFor, Asked, Deploys, Redeploys, Existing
<1> QED BY <1>1, <1>3 DEF Existing

\* What a coherent world that a redeploy found was made of.
LEMMA Found ==
    ASSUME TreeInv, RedeployInv, Working, JobInv, job.asked.kind = "redeploy", Coherent(before)
    PROVE  /\ before.serving = Deployed(before.checkout.at, job.mode)
           /\ job.mode = "compose" => before.image = before.checkout.at
           /\ before.checkout.at \in Commit /\ before.image = IF job.mode = "compose" THEN before.checkout.at ELSE before.image
<1>1. PICK m \in Runtime : /\ before.serving = Deployed(before.checkout.at, m)
                           /\ m = "compose" => before.image = before.checkout.at
  BY DEF Coherent
<1>2. before.serving[job.mode] # NoCommit /\ job.mode \in Runtime
  BY DEF RedeployInv, JobInv
<1>3. m = job.mode
  BY <1>1, <1>2 DEF Deployed
<1>4. before.checkout.at \in Commit
  BY DEF TreeInv, WorldRow, Tree
<1> QED BY <1>1, <1>3, <1>4

LEMMA ServesOnly ==
    ASSUME TreeInv, NEW m \in Runtime, \A r \in Runtime : r # m => serving[r] = NoCommit
    PROVE  serving = Deployed(serving[m], m)
  BY DEF TreeInv, Deployed

LEMMA DeployInitInv ==
    ASSUME DeployInit
    PROVE  DeployInv
<1>1. /\ job \in JobRow /\ job.step = "none" /\ job.asked.kind = "deploy" /\ ~job.rolling /\ ~job.checkedOut
      /\ ~job.restarted /\ job.undone /\ job = NoJob /\ before = World
  BY NoJobRow DEF DeployInit
<1>2. checkout \in Tree /\ (checkout.branch => checkout.at = checkout.tip)
  BY DEF DeployInit, Tree
<1>3. /\ serving \in [Runtime -> CommitOrNone] /\ \E m \in Runtime : \A r \in Runtime : r # m => serving[r] = NoCommit
      /\ image \in CommitOrNone /\ dist \in Commit \cup {NoCommit} /\ schema \in Nat
  <2>1. CASE serving = Deployed(NoCommit, "compose") /\ image = NoCommit /\ dist = NoCommit /\ schema = 0
    BY <2>1 DEF Deployed, Runtime, CommitOrNone
  <2>2. CASE \E m \in Runtime : /\ serving = Deployed(checkout.at, m) /\ schema = checkout.at
                                /\ image = serving["compose"] /\ dist = serving["pm2"]
    BY <2>2, <1>2, DeploymentAssumption DEF Deployed, Runtime, CommitOrNone, Tree
  <2> QED BY <2>1, <2>2 DEF DeployInit
<1>4. TreeInv
  <2>1. World.checkout = checkout /\ World \in WorldRow
    BY <1>2, <1>3 DEF World, WorldRow
  <2>2. /\ envFile \in {"missing", "partial", "complete"} /\ fallback \in CommitOrNone
        /\ turns \in 0..MaxTurns /\ mishaps \in 0..MaxMishaps
    BY DeploymentAssumption DEF DeployInit, CommitOrNone
  <2> QED BY <1>1, <1>2, <1>3, <2>1, <2>2 DEF TreeInv
<1>5. JobInv /\ RedeployInv /\ BuildInv /\ EndInv /\ BackedUpFirst
  BY <1>1 DEF JobInv, RedeployInv, BuildInv, EndInv, BackedUpFirst, ComposeSteps, PmSteps, Working, Is, Leaves,
              FailureLeavesAll, RolledBackServes, DeployedServes, SomethingServes
<1> QED BY <1>4, <1>5 DEF DeployInv

LEMMA BeginsKeep ==
    ASSUME DeployInv, NEW a \in Asked, BeginDeploy(a)
    PROVE  DeployInv'
<1>1. turns' \in 0..MaxTurns /\ UNCHANGED treeVars /\ UNCHANGED mishaps
  BY DeploymentAssumption DEF DeployInv, TreeInv, BeginDeploy
<1>2. CASE envFile = "complete"
  <2>1. job' = Asking(a) /\ before' = World /\ envFile' = envFile
    BY <1>2 DEF BeginDeploy
  <2>2. /\ job' \in JobRow /\ job'.step = "mode" /\ ~job'.rolling /\ ~job'.checkedOut /\ ~job'.restarted /\ job'.undone
    BY <2>1, AskingRow
  <2>3. before' \in WorldRow /\ before'.checkout = checkout /\ World' = before'
    BY <1>1, <2>1, WorldIsRow DEF DeployInv, World, treeVars
  <2>4. TreeInv'
    BY <1>1, <2>1, <2>2, <2>3 DEF DeployInv, TreeInv, treeVars
  <2>5. JobInv' /\ RedeployInv' /\ BuildInv' /\ BackedUpFirst'
    BY <2>2, <2>3 DEF JobInv, RedeployInv, BuildInv, BackedUpFirst, ComposeSteps, PmSteps, Working, Is
  <2> QED BY <2>2, <2>4, <2>5, GoesOn DEF DeployInv
<1>3. CASE envFile # "complete"
  <2>1. envFile' \in {"missing", "partial", "complete"} /\ job' = job /\ before' = before /\ Is("none")
    BY <1>3 DEF BeginDeploy, DeployInv, TreeInv
  <2>2. TreeInv'
    BY <1>1, <2>1 DEF DeployInv, TreeInv, treeVars
  <2>3. JobInv' /\ RedeployInv' /\ BuildInv' /\ BackedUpFirst'
    BY <1>1, <2>1 DEF DeployInv, JobInv, RedeployInv, BuildInv, BackedUpFirst, ComposeSteps, PmSteps, Working, Is, treeVars
  <2>4. job'.step # "leaving"
    BY <2>1 DEF Is
  <2> QED BY <2>2, <2>3, <2>4, GoesOn DEF DeployInv
<1> QED BY <1>2, <1>3

LEMMA FillsKeep ==
    ASSUME DeployInv, FillIn \/ UNCHANGED deployVars
    PROVE  DeployInv'
<1>1. UNCHANGED <<treeVars, job, before, turns, mishaps>> /\ envFile' \in {"missing", "partial", "complete"}
  BY DEF FillIn, deployVars, treeVars, DeployInv, TreeInv
<1>2. TreeInv' /\ World' = World
  BY <1>1 DEF DeployInv, TreeInv, World, treeVars
<1>3. JobInv' /\ BuildInv' /\ BackedUpFirst'
  BY <1>1, <1>2 DEF DeployInv, JobInv, BuildInv, BackedUpFirst, ComposeSteps, PmSteps, Working, Is, treeVars
<1>4. RedeployInv'
  BY <1>1 DEF DeployInv, RedeployInv, Working, Is, treeVars, Fetched
<1>5. EndInv'
  BY <1>1, <1>2 DEF DeployInv, EndInv, Is, Leaves, FailureLeavesAll, RolledBackServes, DeployedServes, SomethingServes, treeVars
<1> QED BY <1>2, <1>3, <1>4, <1>5 DEF DeployInv

LEMMA LeavesKeep ==
    ASSUME DeployInv, Leave \/ Killed
    PROVE  DeployInv'
<1>1. UNCHANGED <<treeVars, envFile, turns>> /\ job' = NoJob /\ before' = World /\ mishaps' \in 0..MaxMishaps
  BY Mishaps DEF Leave, Killed, DeployInv, TreeInv
<1>2. /\ job' \in JobRow /\ job'.step = "none" /\ job'.asked.kind = "deploy" /\ ~job'.rolling /\ ~job'.checkedOut
      /\ ~job'.restarted /\ job'.undone /\ job' = NoJob
  BY <1>1, NoJobRow
<1>3. before' \in WorldRow /\ before'.checkout = checkout
  BY <1>1, WorldIsRow DEF DeployInv
<1>4. TreeInv'
  BY <1>1, <1>2, <1>3 DEF DeployInv, TreeInv, treeVars
<1>5. NoJob' = NoJob
  BY DEF NoJob, Asking
<1>6. JobInv' /\ RedeployInv' /\ BuildInv' /\ BackedUpFirst'
  BY <1>2, <1>5 DEF JobInv, RedeployInv, BuildInv, BackedUpFirst, ComposeSteps, PmSteps, Working, Is
<1> QED BY <1>2, <1>4, <1>6, GoesOn DEF DeployInv

\* A redeploy that ends before it touched anything.
LEMMA EndsUntouched ==
    ASSUME DeployInv, NEW e \in {"refused", "nothing"}, Ends(e), UNCHANGED <<treeVars, envFile, before, turns, mishaps>>,
           job.asked.kind = "redeploy" => serving = before.serving, ~job.restarted
    PROVE  DeployInv'
<1>1. e \in Endings
  BY DEF Endings
<1>2. job' \in JobRow /\ job'.step = "leaving" /\ job'.end = e /\ Kept /\ job'.restarted = job.restarted
  BY <1>1, JobEnds DEF DeployInv
<1>3. TreeInv'
  BY <1>2 DEF DeployInv, TreeInv, treeVars
<1>4. JobInv' /\ RedeployInv' /\ BuildInv'
  BY <1>1, EndsQuietly DEF DeployInv
<1>5. FailureLeavesAll' /\ RolledBackServes' /\ DeployedServes'
  BY <1>2 DEF FailureLeavesAll, RolledBackServes, DeployedServes, Leaves
<1>6. SomethingServes'
  <2>1. SUFFICES ASSUME job'.asked.rollback, Coherent(before'), before'.checkout.at \in Sound
                 PROVE  \E m \in Runtime : serving'[m] \in Sound
    BY DEF SomethingServes
  <2>2. job.asked.kind = "redeploy"
    BY <1>2, <2>1, AskedRow DEF DeployInv, TreeInv, JobRow, Kept
  <2>3. serving' = before.serving /\ before' = before
    BY <2>2 DEF treeVars
  <2>4. PICK m \in Runtime : before.serving = Deployed(before.checkout.at, m)
    BY <2>1, <2>3 DEF Coherent
  <2> QED BY <2>1, <2>3, <2>4 DEF Deployed
<1>7. BackedUpFirst'
  BY <1>2, BackupStays DEF DeployInv
<1> QED BY <1>3, <1>4, <1>5, <1>6, <1>7 DEF DeployInv, EndInv

LEMMA FindsKeep ==
    ASSUME DeployInv, FindMode
    PROVE  DeployInv'
<1>1. UNCHANGED <<treeVars, envFile, before, turns, mishaps>> /\ Is("mode")
  BY DEF FindMode
<1>2. World = before /\ ~job.restarted /\ ~job.rolling /\ ~job.checkedOut /\ job.undone
  BY <1>1 DEF DeployInv, JobInv, Is
<1>3. checkout = before.checkout /\ image = before.image /\ serving = before.serving /\ schema = before.schema
  BY <1>2, WorldIsRow DEF DeployInv
<1>4. CASE Ends("refused")
  BY <1>1, <1>2, <1>3, <1>4, EndsUntouched
<1>5. ASSUME NEW m \in ModesFor(job.asked),
             job' = [job EXCEPT !.mode = m,
                                !.step = IF job.asked.kind = "redeploy" THEN "target"
                                         ELSE IF m = "compose" THEN "build" ELSE "pmBuild"]
      PROVE  DeployInv'
  <2>1. /\ m \in Runtime /\ \A r \in Runtime : r # m => serving[r] = NoCommit
        /\ job.asked.kind = "redeploy" => serving[m] # NoCommit
    BY ModesHold DEF DeployInv
  <2>2. PICK s \in {"target", "build", "pmBuild"} :
           /\ s = IF job.asked.kind = "redeploy" THEN "target" ELSE IF m = "compose" THEN "build" ELSE "pmBuild"
           /\ job' = [job EXCEPT !.mode = m, !.step = s]
    BY <1>5
  <2>3. /\ job' \in JobRow /\ job'.step = s /\ job'.mode = m /\ job'.asked = job.asked /\ job'.undone = job.undone
        /\ job'.restarted = job.restarted /\ job'.rolling = job.rolling /\ job'.checkedOut = job.checkedOut
    BY <2>1, <2>2 DEF DeployInv, TreeInv, JobRow, Steps
  <2>4. TreeInv'
    BY <1>1, <2>3 DEF DeployInv, TreeInv, treeVars
  <2>5. m = "compose" \/ m = "pm2"
    BY <2>1 DEF Runtime
  <2>6. JobInv'
    BY <1>1, <1>2, <2>1, <2>2, <2>3, <2>5 DEF JobInv, ComposeSteps, PmSteps, Working, Is, treeVars
  <2>7. RedeployInv'
    BY <1>1, <1>2, <1>3, <2>1, <2>2, <2>3 DEF RedeployInv, Fetched, PmSteps, Working, Is, treeVars
  <2>8. BuildInv' /\ BackedUpFirst'
    BY <1>2, <2>2, <2>3 DEF BuildInv, BackedUpFirst, Is
  <2> QED BY <2>2, <2>3, <2>4, <2>6, <2>7, <2>8, GoesOn DEF DeployInv
<1> QED BY <1>4, <1>5 DEF FindMode

LEMMA ResolvesKeep ==
    ASSUME DeployInv, NEW c \in Commit, ResolveTarget(c)
    PROVE  DeployInv'
<1>1. UNCHANGED <<treeVars, envFile, before, turns, mishaps>> /\ Is("target")
  BY DEF ResolveTarget
<1>2. job.asked.kind = "redeploy" /\ Working /\ job.mode \in Runtime /\ job.asked \in Asked
      /\ \A r \in Runtime : r # job.mode => serving[r] = NoCommit
  BY <1>1 DEF DeployInv, JobInv, Is, Working, TreeInv, JobRow
<1>3. /\ ~job.restarted /\ ~job.rolling /\ ~job.checkedOut /\ job.undone
  BY <1>1, <1>2 DEF DeployInv, JobInv, RedeployInv, Is, Fetched, PmSteps
<1>4. /\ checkout = before.checkout /\ image = before.image /\ serving = before.serving /\ schema = before.schema
      /\ before.serving[job.mode] # NoCommit
  BY <1>2, <1>3 DEF DeployInv, RedeployInv
<1>5. CASE Ends("refused") \/ Ends("nothing")
  BY <1>1, <1>3, <1>4, <1>5, EndsUntouched
<1>6. CASE /\ job.asked.ref \/ (checkout.branch /\ c >= checkout.at)
           /\ job' = [job EXCEPT !.target = c, !.step = IF job.mode = "compose" THEN "tag" ELSE "backup"]
  <2>1. PICK s \in {"tag", "backup"} :
           s = (IF job.mode = "compose" THEN "tag" ELSE "backup") /\ job' = [job EXCEPT !.target = c, !.step = s]
    BY <1>6
  <2>2. /\ job' \in JobRow /\ job'.step = s /\ job'.mode = job.mode /\ job'.asked = job.asked /\ job'.undone = job.undone
        /\ job'.restarted = job.restarted /\ job'.rolling = job.rolling /\ job'.checkedOut = job.checkedOut
        /\ job'.target = c
    BY <2>1 DEF DeployInv, TreeInv, JobRow, Steps, CommitOrNone
  <2>3. TreeInv'
    BY <1>1, <2>2 DEF DeployInv, TreeInv, treeVars
  <2>4. JobInv'
    BY <1>1, <1>2, <1>3, <2>1, <2>2 DEF JobInv, ComposeSteps, PmSteps, Working, Is, treeVars
  <2>5. RedeployInv'
    BY <1>1, <1>2, <1>3, <1>4, <1>6, <2>1, <2>2 DEF RedeployInv, Fetched, PmSteps, Working, Is, treeVars
  <2>6. BuildInv' /\ BackedUpFirst'
    BY <1>2, <1>3, <2>1, <2>2 DEF BuildInv, BackedUpFirst, Is
  <2> QED BY <2>1, <2>2, <2>3, <2>4, <2>5, <2>6, GoesOn DEF DeployInv
<1> QED BY <1>5, <1>6, <1>2, AskedRow DEF ResolveTarget

\* A version that is not ready, or was not built: the script turns back, or
\* ends with it.
LEMMA TurningBackKeeps ==
    ASSUME DeployInv, NotReady, job.step \in {"ready", "pmBuild", "pmStart", "pmReady"},
           UNCHANGED <<checkout, image, fallback, serving, schema, envFile, before, turns>>,
           dist' \in Commit \cup {NoCommit, Half}, mishaps' \in 0..MaxMishaps,
           mishaps' # 0 \/ (job.step \in {"ready", "pmReady"} /\ serving[job.mode] \notin Sound)
    PROVE  DeployInv'
<1>1. /\ Working /\ job.mode \in Runtime /\ job.undone /\ job.asked \in Asked
      /\ \A r \in Runtime : r # job.mode => serving[r] = NoCommit
  BY DEF DeployInv, JobInv, Working, TreeInv, JobRow, Is
<1>2. CASE /\ GoesBack /\ job' \in JobRow /\ Kept
           /\ job'.step = IF job.mode = "compose" THEN "retag" ELSE "return"
           /\ job'.rolling /\ job'.restarted = job.restarted /\ job'.end = job.end
  <2>1. TreeInv'
    BY <1>2 DEF DeployInv, TreeInv
  <2>2. job.asked.kind = "redeploy" /\ job.asked.rollback
    BY <1>1, <1>2, AskedRow DEF GoesBack
  <2>3. job'.step \in {"retag", "return"} /\ (job'.step = "retag" => job.mode = "compose")
        /\ (job'.step = "return" => job.mode # "compose")
    BY <1>2
  <2>4. JobInv'
    BY <1>1, <1>2, <2>2, <2>3 DEF JobInv, ComposeSteps, PmSteps, Working, Is, Kept
  <2>5. job.checkedOut /\ job.restarted
    BY <1>1, <2>2 DEF DeployInv, RedeployInv, Fetched, PmSteps
  <2>6. RedeployInv'
    BY <1>1, <1>2, <2>2, <2>3, <2>5 DEF DeployInv, RedeployInv, GoesBack, Fetched, PmSteps, Working, Is, Kept
  <2>7. BuildInv' /\ BackedUpFirst'
    BY <1>2, <2>3, BackupStays DEF DeployInv, BuildInv, Is
  <2>8. job'.step # "leaving"
    BY <2>3
  <2> QED BY <2>1, <2>4, <2>6, <2>7, <2>8, GoesOn DEF DeployInv
<1>3. CASE ~GoesBack /\ Ends(IF job.rolling THEN "lost" ELSE "left")
  <2>1. PICK e \in {"lost", "left"} : Ends(e) /\ e = IF job.rolling THEN "lost" ELSE "left"
    BY <1>3
  <2>2. e \in Endings
    BY DEF Endings
  <2>3. job' \in JobRow /\ job'.step = "leaving" /\ job'.end = e /\ Kept /\ job'.restarted = job.restarted
    BY <2>1, <2>2, JobEnds DEF DeployInv
  <2>4. TreeInv'
    BY <2>3 DEF DeployInv, TreeInv
  <2>5. JobInv' /\ RedeployInv' /\ BuildInv' /\ BackedUpFirst'
    BY <2>1, <2>2, <2>3, EndsQuietly, BackupStays DEF DeployInv
  <2>6. FailureLeavesAll' /\ RolledBackServes' /\ DeployedServes'
    BY <2>3 DEF FailureLeavesAll, RolledBackServes, DeployedServes, Leaves
  <2>7. SomethingServes'
    <3>1. SUFFICES ASSUME job.asked.rollback, mishaps' = 0, Coherent(before), before.checkout.at \in Sound
                   PROVE  FALSE
      BY <2>3 DEF SomethingServes, Kept
    <3>2. job.asked.kind = "redeploy"
      BY <1>1, <3>1, AskedRow
    <3>3. /\ job.step \in {"ready", "pmReady"} /\ serving[job.mode] \notin Sound
      BY <3>1
    <3>4. /\ job.mode = "compose" => before.image = before.checkout.at
          /\ before.checkout.at \in Commit
      BY <1>1, <3>1, <3>2, Found DEF DeployInv
    <3>5. CASE job.rolling
      <4>1. checkout = before.checkout /\ (job.mode = "compose" => image = before.image)
        BY <1>1, <3>2, <3>3, <3>5 DEF DeployInv, RedeployInv, Is
      <4>2. CASE job.step = "ready"
        <5>1. job.mode = "compose" /\ serving["compose"] = image
          BY <4>2 DEF DeployInv, JobInv, BuildInv, ComposeSteps, Is
        <5> QED BY <3>1, <3>3, <3>4, <4>1, <5>1
      <4>3. CASE job.step = "pmReady"
        <5>1. job.mode = "pm2" /\ serving["pm2"] = checkout.at
          BY <4>3 DEF DeployInv, JobInv, BuildInv, PmSteps, Is
        <5> QED BY <3>1, <3>3, <4>1, <5>1
      <4> QED BY <3>3, <4>2, <4>3
    <3>6. CASE ~job.rolling
      <4>1. job.mode = "compose" /\ ~job.hadImage
        BY <1>3, <3>1, <3>6 DEF GoesBack
      <4>2. before.image = NoCommit
        BY <1>1, <3>2, <3>3, <4>1 DEF DeployInv, RedeployInv
      <4> QED BY <3>4, <4>1, <4>2, DeploymentAssumption
    <3> QED BY <3>5, <3>6
  <2> QED BY <2>4, <2>5, <2>6, <2>7 DEF DeployInv, EndInv
<1> QED BY <1>2, <1>3, JobTurnsBack DEF DeployInv

\* A version that is ready.
LEMMA ArrivingKeeps ==
    ASSUME DeployInv, Arrived, job.step \in {"ready", "pmReady"}, serving[job.mode] \in Sound,
           UNCHANGED <<treeVars, envFile, before, turns, mishaps>>
    PROVE  DeployInv'
<1>1. /\ Working /\ job.mode \in Runtime /\ job.undone /\ job.asked \in Asked
      /\ \A r \in Runtime : r # job.mode => serving[r] = NoCommit
  BY DEF DeployInv, JobInv, Working, TreeInv, JobRow, Is
<1>2. PICK e \in {"rolled back", "deployed"} : Ends(e) /\ e = IF job.rolling THEN "rolled back" ELSE "deployed"
  BY DEF Arrived
<1>3. e \in Endings
  BY DEF Endings
<1>4. job' \in JobRow /\ job'.step = "leaving" /\ job'.end = e /\ Kept /\ job'.restarted = job.restarted
  BY <1>2, <1>3, JobEnds DEF DeployInv
<1>5. TreeInv'
  BY <1>4 DEF DeployInv, TreeInv, treeVars
<1>6. JobInv' /\ RedeployInv' /\ BuildInv' /\ BackedUpFirst'
  BY <1>2, <1>3, <1>4, EndsQuietly, BackupStays DEF DeployInv
<1>7. serving = Deployed(serving[job.mode], job.mode)
  BY <1>1, ServesOnly DEF DeployInv
<1>8. /\ job.rolling \/ serving[job.mode] = checkout.at
      /\ job.step = "ready" => job.mode = "compose" /\ serving[job.mode] = image
      /\ job.step = "pmReady" => job.mode = "pm2" /\ serving[job.mode] = checkout.at
  BY DEF DeployInv, JobInv, BuildInv, ComposeSteps, PmSteps, Is
<1>9. job.rolling => job.asked.kind = "redeploy"
  BY <1>1, AskedRow DEF DeployInv, JobInv
<1>10. FailureLeavesAll'
  BY <1>4 DEF FailureLeavesAll, Leaves
<1>11. RolledBackServes'
  <2>1. SUFFICES ASSUME job.rolling, Coherent(before)
                 PROVE  checkout = before.checkout /\ serving = before.serving /\ image = before.image
    BY <1>2, <1>4 DEF RolledBackServes, Leaves, treeVars
  <2>2. /\ before.serving = Deployed(before.checkout.at, job.mode)
        /\ job.mode = "compose" => before.image = before.checkout.at
    BY <1>1, <1>9, <2>1, Found DEF DeployInv
  <2>3. /\ checkout = before.checkout
        /\ job.mode = "compose" => image = before.image
        /\ job.mode = "pm2" => image = before.image
    BY <1>1, <1>9, <2>1 DEF DeployInv, RedeployInv, Is
  <2>4. serving[job.mode] = before.checkout.at
    BY <1>8, <2>2, <2>3
  <2> QED BY <1>1, <1>7, <2>2, <2>3, <2>4 DEF Runtime
<1>12. DeployedServes'
  <2>1. SUFFICES ASSUME ~job.rolling
                 PROVE  /\ serving = Deployed(checkout.at, job.mode) /\ checkout.at \in Sound
                        /\ job.asked.kind = "redeploy" => checkout.at = job.target
    BY <1>2, <1>4 DEF DeployedServes, Leaves, treeVars, Kept
  <2>2. job.asked.kind = "redeploy" => checkout.at = job.target
    BY <1>1, <2>1 DEF DeployInv, RedeployInv, Fetched, PmSteps
  <2> QED BY <1>7, <1>8, <2>1, <2>2
<1>13. SomethingServes'
  BY <1>1 DEF SomethingServes, treeVars
<1> QED BY <1>5, <1>6, <1>10, <1>11, <1>12, <1>13 DEF DeployInv, EndInv

LEMMA WaitsKeep ==
    ASSUME DeployInv, WaitReady \/ TooLate \/ PmReady
    PROVE  DeployInv'
<1>1. /\ UNCHANGED <<treeVars, envFile, before, turns>> /\ job.step \in {"ready", "pmReady"}
      /\ job.step = "ready" => job.mode = "compose"
      /\ job.step = "pmReady" => job.mode = "pm2"
  BY DEF WaitReady, TooLate, PmReady, Is, DeployInv, JobInv, ComposeSteps, PmSteps
<1>2. dist' \in Commit \cup {NoCommit, Half} /\ mishaps \in 0..MaxMishaps
  BY <1>1 DEF DeployInv, TreeInv, treeVars
<1>3. UNCHANGED <<checkout, image, fallback, serving, schema, envFile, before, turns>>
  BY <1>1 DEF treeVars
<1>4. CASE TooLate
  <2>1. mishaps' \in 0..MaxMishaps /\ mishaps' # 0 /\ NotReady
    BY <1>4, Mishaps DEF TooLate, DeployInv
  <2> QED BY <1>1, <1>2, <1>3, <2>1, TurningBackKeeps
<1>5. CASE UNCHANGED mishaps /\ Arrived /\ serving[job.mode] \in Sound
  BY <1>1, <1>5, ArrivingKeeps
<1>6. CASE UNCHANGED mishaps /\ NotReady /\ serving[job.mode] \notin Sound
  BY <1>1, <1>2, <1>3, <1>6, TurningBackKeeps
<1> QED BY <1>1, <1>4, <1>5, <1>6 DEF WaitReady, PmReady, Is

\* What a script that works may count on.
LEMMA AtWork ==
    ASSUME DeployInv, Working
    PROVE  /\ job.mode \in Runtime /\ job.undone /\ job.asked \in Asked /\ job.asked.kind \in {"deploy", "redeploy"}
           /\ \A r \in Runtime : r # job.mode => serving[r] = NoCommit
           /\ job.asked.kind = "deploy" => ~job.asked.backup /\ ~job.asked.rollback /\ ~job.rolling /\ ~job.checkedOut
  BY AskedRow DEF DeployInv, JobInv, Working, TreeInv, JobRow, Is

LEMMA TagsKeep ==
    ASSUME DeployInv, TagPrevious
    PROVE  DeployInv'
<1>1. /\ UNCHANGED <<checkout, image, dist, serving, schema, envFile, before, turns, mishaps>> /\ Is("tag") /\ Working
      /\ fallback' = IF image = NoCommit THEN fallback ELSE image
      /\ job' = [job EXCEPT !.step = "checkout", !.hadImage = image # NoCommit]
  BY DEF TagPrevious, Is, Working
<1>2. /\ job' \in JobRow /\ job'.step = "checkout" /\ job'.hadImage = (image # NoCommit) /\ job'.mode = job.mode
      /\ job'.asked = job.asked /\ job'.target = job.target /\ job'.archive = job.archive
      /\ job'.checkedOut = job.checkedOut /\ job'.undone = job.undone
      /\ job'.restarted = job.restarted /\ job'.rolling = job.rolling
  BY <1>1 DEF DeployInv, TreeInv, JobRow, Steps
<1>3. TreeInv'
  BY <1>1, <1>2 DEF DeployInv, TreeInv
<1>4. /\ job.asked.kind = "redeploy" /\ job.mode = "compose"
      /\ ~job.restarted /\ ~job.rolling /\ ~job.checkedOut
  BY <1>1 DEF DeployInv, JobInv, RedeployInv, Is, Fetched, PmSteps, ComposeSteps
<1>5. /\ checkout = before.checkout /\ image = before.image /\ serving = before.serving /\ schema = before.schema
  BY <1>1, <1>4 DEF DeployInv, RedeployInv
<1>6. JobInv'
  BY <1>1, <1>2, <1>4, AtWork DEF JobInv, ComposeSteps, PmSteps, Working, Is
<1>7. RedeployInv'
  BY <1>1, <1>2, <1>4, <1>5 DEF DeployInv, RedeployInv, Fetched, PmSteps, Working, Is
<1>8. BuildInv' /\ BackedUpFirst'
  BY <1>2, <1>4 DEF BuildInv, BackedUpFirst, Is
<1> QED BY <1>2, <1>3, <1>6, <1>7, <1>8, GoesOn DEF DeployInv

LEMMA ChecksOutKeep ==
    ASSUME DeployInv, CheckoutTarget
    PROVE  DeployInv'
<1>1. /\ UNCHANGED <<image, fallback, dist, serving, schema, envFile, before, turns, mishaps>> /\ Is("checkout") /\ Working
      /\ checkout' = IF job.asked.ref THEN [checkout EXCEPT !.at = job.target, !.branch = FALSE]
                     ELSE [checkout EXCEPT !.at = job.target, !.tip = job.target]
  BY DEF CheckoutTarget, Is, Working
<1>2. job.asked.kind = "redeploy"
  BY <1>1 DEF DeployInv, JobInv, Is
<1>3. /\ job.target \in Commit /\ (job.asked.ref \/ before.checkout.branch)
      /\ ~job.restarted /\ ~job.rolling /\ ~job.checkedOut
  BY <1>1, <1>2 DEF DeployInv, RedeployInv, Is, Fetched, PmSteps
<1>4. /\ checkout = before.checkout /\ image = before.image /\ serving = before.serving /\ schema = before.schema
  BY <1>1, <1>2, <1>3 DEF DeployInv, RedeployInv
<1>5. /\ checkout' \in Tree /\ checkout'.at = job.target
      /\ (checkout'.branch => checkout'.at = checkout'.tip)
      /\ (~before.checkout.branch => checkout'.tip = before.checkout.tip)
  <2>1. checkout \in Tree
    BY DEF DeployInv, TreeInv
  <2>2. CASE job.asked.ref
    BY <1>1, <1>3, <1>4, <2>1, <2>2 DEF Tree
  <2>3. CASE ~job.asked.ref
    BY <1>1, <1>3, <1>4, <2>1, <2>3 DEF Tree
  <2> QED BY <2>2, <2>3
<1>6. PICK s \in {"build", "pmBuild"} : s = IF job.mode = "compose" THEN "build" ELSE "pmBuild"
  OBVIOUS
<1>7. job' = [job EXCEPT !.checkedOut = TRUE, !.restarted = job.mode = "pm2", !.step = s]
  BY <1>6 DEF CheckoutTarget
<1>8. /\ job' \in JobRow /\ job'.step = s /\ job'.hadImage = job.hadImage /\ job'.mode = job.mode
      /\ job'.asked = job.asked /\ job'.target = job.target /\ job'.archive = job.archive
      /\ job'.checkedOut /\ job'.undone = job.undone
      /\ job'.restarted = (job.mode = "pm2") /\ job'.rolling = job.rolling
  <2>1. job \in JobRow /\ s \in Steps
    BY DEF DeployInv, TreeInv, Steps
  <2> QED BY <1>7, <2>1 DEF JobRow
<1>9. TreeInv'
  BY <1>1, <1>5, <1>8 DEF DeployInv, TreeInv
<1>10. job.mode = "compose" \/ job.mode = "pm2"
  BY <1>1, AtWork DEF Runtime
<1>11. JobInv'
  BY <1>1, <1>2, <1>3, <1>6, <1>8, <1>10, AtWork DEF JobInv, ComposeSteps, PmSteps, Working, Is
<1>12. RedeployInv'
  <2>1. CASE job.mode = "compose"
    BY <1>1, <1>2, <1>3, <1>4, <1>5, <1>6, <1>8, <2>1 DEF DeployInv, RedeployInv, Fetched, PmSteps, Working, Is
  <2>2. CASE job.mode = "pm2"
    BY <1>1, <1>2, <1>3, <1>4, <1>5, <1>6, <1>8, <2>2 DEF DeployInv, RedeployInv, Fetched, PmSteps, Working, Is
  <2> QED BY <1>10, <2>1, <2>2
<1>13. BuildInv'
  BY <1>6, <1>8 DEF BuildInv, Is
<1>14. BackedUpFirst'
  BY <1>1, <1>2, <1>8 DEF DeployInv, RedeployInv, BackedUpFirst, Is
<1> QED BY <1>6, <1>8, <1>9, <1>11, <1>12, <1>13, <1>14, GoesOn DEF DeployInv

LEMMA BuildsKeep ==
    ASSUME DeployInv, BuildImage
    PROVE  DeployInv'
<1>1. /\ UNCHANGED <<checkout, fallback, dist, serving, schema, envFile, before, turns, mishaps>> /\ Is("build") /\ Working
      /\ image' = checkout.at
  BY DEF BuildImage, Is, Working
<1>2. PICK s \in {"backup", "start"} : s = (IF job.asked.kind = "redeploy" THEN "backup" ELSE "start") /\ StepsTo(s)
  BY DEF BuildImage
<1>3. s \in Steps
  BY DEF Steps
<1>4. /\ job' \in JobRow /\ job'.step = s /\ Kept /\ job'.restarted = job.restarted /\ job'.rolling = job.rolling
  BY <1>2, <1>3, JobSteps DEF DeployInv
<1>5. image' \in CommitOrNone
  BY <1>1 DEF DeployInv, TreeInv, Tree, CommitOrNone
<1>6. TreeInv'
  BY <1>1, <1>4, <1>5 DEF DeployInv, TreeInv
<1>7. job.mode = "compose"
  BY <1>1 DEF DeployInv, JobInv, ComposeSteps, Is
<1>8. JobInv'
  BY <1>1, <1>2, <1>4, <1>7, AtWork DEF DeployInv, JobInv, ComposeSteps, PmSteps, Working, Is, Kept
<1>9. RedeployInv'
  BY <1>1, <1>2, <1>4, <1>7 DEF DeployInv, RedeployInv, Fetched, PmSteps, Working, Is, Kept
<1>10. BuildInv' /\ BackedUpFirst'
  BY <1>1, <1>2, <1>4, BackupStays DEF DeployInv, BuildInv, Is
<1> QED BY <1>2, <1>4, <1>6, <1>8, <1>9, <1>10, GoesOn DEF DeployInv

LEMMA BacksUpKeep ==
    ASSUME DeployInv, TakeBackup
    PROVE  DeployInv'
<1>1. UNCHANGED <<treeVars, envFile, before, turns, mishaps>> /\ Is("backup") /\ Working
  BY DEF TakeBackup, Is, Working
<1>2. /\ job.asked.kind = "redeploy" /\ job.mode \in Runtime
  BY <1>1, AtWork DEF DeployInv, JobInv, Is
<1>3. PICK s \in {"start", "checkout"}, d \in Nat \cup {NoCommit} :
         /\ s = IF job.mode = "compose" THEN "start" ELSE "checkout"
         /\ d = IF job.asked.backup THEN schema ELSE NoCommit
         /\ job' = [job EXCEPT !.archive = d, !.step = s]
  BY DEF TakeBackup, DeployInv, TreeInv
<1>4. /\ job' \in JobRow /\ job'.step = s /\ job'.hadImage = job.hadImage /\ job'.mode = job.mode
      /\ job'.asked = job.asked /\ job'.target = job.target /\ job'.archive = d
      /\ job'.checkedOut = job.checkedOut /\ job'.undone = job.undone
      /\ job'.restarted = job.restarted /\ job'.rolling = job.rolling
  <2>1. job \in JobRow /\ s \in Steps
    BY DEF DeployInv, TreeInv, Steps
  <2> QED BY <1>3, <2>1 DEF JobRow
<1>5. TreeInv'
  BY <1>1, <1>4 DEF DeployInv, TreeInv, treeVars
<1>6. ~job.restarted /\ ~job.rolling /\ schema = before.schema
  BY <1>1, <1>2 DEF DeployInv, RedeployInv, PmSteps, Is
<1>7. job.mode = "compose" \/ job.mode = "pm2"
  BY <1>2 DEF Runtime
<1>8. JobInv'
  BY <1>1, <1>2, <1>3, <1>4, <1>7, AtWork DEF DeployInv, JobInv, ComposeSteps, PmSteps, Working, Is, treeVars
<1>9. RedeployInv'
  <2>1. CASE job.mode = "compose"
    BY <1>1, <1>2, <1>3, <1>4, <1>6, <2>1 DEF DeployInv, RedeployInv, Fetched, PmSteps, Working, Is, treeVars
  <2>2. CASE job.mode = "pm2"
    BY <1>1, <1>2, <1>3, <1>4, <1>6, <2>2 DEF DeployInv, RedeployInv, Fetched, PmSteps, Working, Is, treeVars
  <2> QED BY <1>7, <2>1, <2>2
<1>10. BuildInv' /\ BackedUpFirst'
  BY <1>1, <1>3, <1>4, <1>6 DEF DeployInv, BuildInv, BackedUpFirst, Is, treeVars
<1> QED BY <1>3, <1>4, <1>5, <1>8, <1>9, <1>10, GoesOn DEF DeployInv

LEMMA RetagsKeep ==
    ASSUME DeployInv, Retag
    PROVE  DeployInv'
<1>1. /\ UNCHANGED <<checkout, fallback, dist, serving, schema, envFile, before, turns, mishaps>> /\ Is("retag") /\ Working
      /\ image' = fallback /\ StepsTo("return")
  BY DEF Retag, Is, Working
<1>2. /\ job' \in JobRow /\ job'.step = "return" /\ Kept /\ job'.restarted = job.restarted /\ job'.rolling = job.rolling
  BY <1>1, JobSteps DEF DeployInv, Steps
<1>3. TreeInv'
  BY <1>1, <1>2 DEF DeployInv, TreeInv
<1>4. job.asked.kind = "redeploy" /\ job.mode = "compose"
  BY <1>1 DEF DeployInv, JobInv, ComposeSteps, Is
<1>5. job.rolling /\ fallback = before.image
  BY <1>1, <1>4 DEF DeployInv, RedeployInv, Is
<1>6. JobInv'
  BY <1>1, <1>2, <1>4, AtWork DEF DeployInv, JobInv, ComposeSteps, PmSteps, Working, Is, Kept
<1>7. RedeployInv'
  BY <1>1, <1>2, <1>4, <1>5 DEF DeployInv, RedeployInv, Fetched, PmSteps, Working, Is, Kept
<1>8. BuildInv' /\ BackedUpFirst'
  BY <1>1, <1>2, BackupStays DEF DeployInv, BuildInv, Is
<1> QED BY <1>2, <1>3, <1>6, <1>7, <1>8, GoesOn DEF DeployInv

LEMMA ReturnsKeep ==
    ASSUME DeployInv, RestoreCheckout
    PROVE  DeployInv'
<1>1. /\ UNCHANGED <<image, fallback, dist, serving, schema, envFile, before, turns, mishaps>> /\ Is("return") /\ Working
      /\ checkout' = PutBack
  BY DEF RestoreCheckout, Is, Working
<1>2. PICK s \in {"start", "pmBuild"} : s = (IF job.mode = "compose" THEN "start" ELSE "pmBuild") /\ StepsTo(s)
  BY DEF RestoreCheckout
<1>3. s \in Steps
  BY DEF Steps
<1>4. /\ job' \in JobRow /\ job'.step = s /\ Kept /\ job'.restarted = job.restarted /\ job'.rolling = job.rolling
  BY <1>2, <1>3, JobSteps DEF DeployInv
<1>5. job.asked.kind = "redeploy" /\ job.mode \in Runtime
  BY <1>1, AtWork DEF DeployInv, JobInv, Is
<1>6. checkout' = before.checkout
  BY <1>1, <1>5, PutsBack DEF DeployInv
<1>7. TreeInv'
  BY <1>1, <1>4, <1>6 DEF DeployInv, TreeInv, WorldRow
<1>8. job.mode = "compose" \/ job.mode = "pm2"
  BY <1>5 DEF Runtime
<1>9. job.rolling
  BY <1>1, <1>5 DEF DeployInv, RedeployInv, Is
<1>10. JobInv'
  BY <1>1, <1>2, <1>4, <1>5, <1>8, AtWork DEF DeployInv, JobInv, ComposeSteps, PmSteps, Working, Is, Kept
<1>11. RedeployInv'
  BY <1>1, <1>2, <1>4, <1>5, <1>6, <1>8, <1>9 DEF DeployInv, RedeployInv, Fetched, PmSteps, Working, Is, Kept
<1>12. BuildInv' /\ BackedUpFirst'
  BY <1>1, <1>2, <1>4, <1>9, BackupStays DEF DeployInv, BuildInv, Is
<1> QED BY <1>2, <1>4, <1>7, <1>10, <1>11, <1>12, GoesOn DEF DeployInv

LEMMA CommandsKeep ==
    ASSUME DeployInv, CommandFails
    PROVE  DeployInv'
<1>1. /\ UNCHANGED <<fallback, dist, serving, schema, envFile, before, turns>>
      /\ job.step \in {"target", "tag", "checkout", "build", "backup", "retag", "return"} /\ Working
      /\ Undoes => checkout' = PutBack /\ image' = IF job.hadImage THEN fallback ELSE image
      /\ ~Undoes => UNCHANGED <<checkout, image>>
  BY DEF CommandFails, Working
<1>2. mishaps' \in 0..MaxMishaps /\ mishaps' # 0
  BY Mishaps DEF CommandFails, DeployInv
<1>3. PICK e \in {"lost", "failed"} : Ends(e) /\ e = IF job.restarted THEN "lost" ELSE "failed"
  BY DEF CommandFails
<1>4. e \in Endings
  BY DEF Endings
<1>5. job' \in JobRow /\ job'.step = "leaving" /\ job'.end = e /\ Kept /\ job'.restarted = job.restarted
  BY <1>3, <1>4, JobEnds DEF DeployInv
<1>6. Undoes => job.asked.kind = "redeploy" /\ checkout' = before.checkout
  BY <1>1, AtWork, PutsBack DEF DeployInv, Undoes
<1>7. /\ checkout' \in Tree /\ (checkout'.branch => checkout'.at = checkout'.tip)
      /\ image' \in CommitOrNone
  BY <1>1, <1>6 DEF DeployInv, TreeInv, WorldRow
<1>8. TreeInv'
  BY <1>1, <1>2, <1>5, <1>7 DEF DeployInv, TreeInv
<1>9. JobInv' /\ RedeployInv' /\ BuildInv' /\ BackedUpFirst'
  BY <1>1, <1>3, <1>4, <1>5, EndsQuietly, BackupStays DEF DeployInv
<1>10. FailureLeavesAll'
  <2>1. SUFFICES ASSUME ~job.restarted, job.asked.kind = "redeploy",
                        job.mode = "compose" => job.hadImage \/ image' = NoCommit
                 PROVE  World' = before'
    BY <1>3, <1>5 DEF FailureLeavesAll, Kept, Leaves
  <2>2. serving' = before'.serving /\ schema' = before'.schema
    BY <1>1, <2>1 DEF DeployInv, RedeployInv
  <2>3. ~job.checkedOut => checkout' = before'.checkout /\ image' = before'.image
    BY <1>1, <2>1 DEF DeployInv, RedeployInv, Undoes
  <2>4. job.checkedOut => job.mode = "compose" /\ job.step \in {"build", "backup"}
    BY <1>1, <2>1 DEF DeployInv, RedeployInv, JobInv, ComposeSteps, PmSteps, Fetched, Is
  <2>5. job.checkedOut => checkout' = before'.checkout /\ image' = before'.image
    <3>1. SUFFICES ASSUME job.checkedOut
                   PROVE  image' = before'.image
      BY <1>1, <1>6, <2>1 DEF Undoes
    <3>2. (job.hadImage <=> before.image # NoCommit) /\ (job.hadImage => fallback = before.image)
      BY <1>1, <2>1, <2>4, <3>1 DEF DeployInv, RedeployInv
    <3>3. CASE job.hadImage
      BY <1>1, <2>1, <3>1, <3>2, <3>3 DEF Undoes
    <3>4. CASE ~job.hadImage
      BY <1>1, <2>1, <2>4, <3>1, <3>2, <3>4 DEF Undoes
    <3> QED BY <3>3, <3>4
  <2>6. World' = [checkout |-> checkout', image |-> image', serving |-> serving', schema |-> schema'] /\ before' \in WorldRow
    BY <1>8 DEF World, TreeInv
  <2> QED BY <2>2, <2>3, <2>5, <2>6 DEF WorldRow
<1>11. RolledBackServes' /\ DeployedServes' /\ SomethingServes'
  BY <1>2, <1>5 DEF RolledBackServes, DeployedServes, SomethingServes, Leaves
<1> QED BY <1>8, <1>9, <1>10, <1>11 DEF DeployInv, EndInv

LEMMA UndoingKeeps ==
    ASSUME DeployInv, UndoingFails
    PROVE  DeployInv'
<1>1. /\ UNCHANGED <<checkout, fallback, dist, serving, schema, envFile, before, turns>>
      /\ mishaps' \in 0..MaxMishaps /\ mishaps' # 0 /\ image' \in CommitOrNone
  BY DeploymentAssumption DEF UndoingFails, DeployInv, TreeInv
<1>2. job' = [job EXCEPT !.step = "leaving", !.end = "failed", !.undone = FALSE]
  BY DEF UndoingFails
<1>3. /\ job' \in JobRow /\ job'.step = "leaving" /\ job'.end = "failed" /\ ~job'.undone /\ job'.asked = job.asked
      /\ job'.checkedOut = job.checkedOut /\ job'.rolling = job.rolling /\ job'.restarted = job.restarted
      /\ job'.archive = job.archive
  BY <1>2 DEF DeployInv, TreeInv, JobRow, Steps, Endings
<1>4. TreeInv'
  BY <1>1, <1>3 DEF DeployInv, TreeInv
<1>5. JobInv' /\ RedeployInv' /\ BuildInv'
  BY <1>3 DEF DeployInv, JobInv, RedeployInv, BuildInv, ComposeSteps, PmSteps, Working, Is
<1>6. EndInv'
  BY <1>1, <1>3 DEF EndInv, FailureLeavesAll, RolledBackServes, DeployedServes, SomethingServes, Leaves
<1>7. BackedUpFirst'
  BY <1>1, <1>3 DEF DeployInv, BackedUpFirst
<1> QED BY <1>4, <1>5, <1>6, <1>7 DEF DeployInv

LEMMA StartsKeep ==
    ASSUME DeployInv, Start
    PROVE  DeployInv'
<1>1. /\ UNCHANGED <<checkout, image, fallback, dist, envFile, before, turns, mishaps>> /\ Is("start") /\ Working
      /\ image # NoCommit /\ serving' = [serving EXCEPT !["compose"] = image] /\ schema' = Migrated(image)
      /\ job' = [job EXCEPT !.step = "ready", !.restarted = TRUE]
  BY DEF Start, Serves, Is, Working
<1>2. /\ job' \in JobRow /\ job'.step = "ready" /\ Kept /\ job'.restarted /\ job'.rolling = job.rolling
  BY <1>1 DEF DeployInv, TreeInv, JobRow, Steps, Kept
<1>3. job.mode = "compose"
  BY <1>1 DEF DeployInv, JobInv, ComposeSteps, Is
<1>4. /\ serving' \in [Runtime -> CommitOrNone] /\ serving'["compose"] = image
      /\ \A r \in Runtime : r # "compose" => serving'[r] = NoCommit
  BY <1>1, <1>3, AtWork DEF DeployInv, TreeInv, Runtime
<1>5. schema' \in Nat
  BY <1>1 DEF DeployInv, TreeInv, Migrated
<1>6. TreeInv'
  BY <1>1, <1>2, <1>4, <1>5 DEF DeployInv, TreeInv, Runtime
<1>7. JobInv'
  BY <1>1, <1>2, <1>3, <1>4, AtWork DEF DeployInv, JobInv, ComposeSteps, PmSteps, Working, Is, Kept
<1>8. RedeployInv'
  BY <1>1, <1>2, <1>3 DEF DeployInv, RedeployInv, Fetched, PmSteps, Working, Is, Kept
<1>9. BuildInv'
  BY <1>1, <1>2, <1>4 DEF DeployInv, BuildInv, Is
<1>10. BackedUpFirst'
  BY <1>1, <1>2, AtWork DEF DeployInv, RedeployInv, BackedUpFirst, Fetched, Is, Kept
<1> QED BY <1>2, <1>6, <1>7, <1>8, <1>9, <1>10, GoesOn DEF DeployInv

LEMMA StartsFailKeep ==
    ASSUME DeployInv, StartFails
    PROVE  DeployInv'
<1>1. /\ UNCHANGED <<checkout, image, fallback, dist, schema, envFile, before, turns>> /\ Is("start") /\ Working
      /\ serving' \in {serving, [serving EXCEPT !["compose"] = NoCommit]}
      /\ job' = [job EXCEPT !.step = "leaving", !.restarted = TRUE, !.end = "lost"]
  BY DEF StartFails, Is, Working
<1>2. mishaps' \in 0..MaxMishaps /\ mishaps' # 0
  BY Mishaps DEF StartFails, DeployInv
<1>3. /\ job' \in JobRow /\ job'.step = "leaving" /\ job'.end = "lost" /\ Kept /\ job'.restarted /\ job'.rolling = job.rolling
  BY <1>1 DEF DeployInv, TreeInv, JobRow, Steps, Endings, Kept
<1>4. serving' \in [Runtime -> CommitOrNone] /\ \E m \in Runtime : \A r \in Runtime : r # m => serving'[r] = NoCommit
  BY <1>1 DEF DeployInv, TreeInv, CommitOrNone
<1>5. TreeInv'
  BY <1>1, <1>2, <1>3, <1>4 DEF DeployInv, TreeInv
<1>6. JobInv' /\ RedeployInv' /\ BuildInv'
  BY <1>3 DEF DeployInv, JobInv, RedeployInv, BuildInv, ComposeSteps, PmSteps, Working, Is, Kept
<1>7. EndInv'
  BY <1>2, <1>3 DEF EndInv, FailureLeavesAll, RolledBackServes, DeployedServes, SomethingServes, Leaves
<1>8. BackedUpFirst'
  BY <1>1, <1>3, AtWork DEF DeployInv, RedeployInv, BackedUpFirst, Fetched, Is, Kept
<1> QED BY <1>5, <1>6, <1>7, <1>8 DEF DeployInv

LEMMA PmBuildsKeep ==
    ASSUME DeployInv, PmBuild
    PROVE  DeployInv'
<1>1. /\ UNCHANGED <<checkout, image, fallback, serving, schema, envFile, before, turns>> /\ Is("pmBuild") /\ Working
  BY DEF PmBuild, Is, Working
<1>2. CASE dist' = checkout.at /\ StepsTo("pmStop") /\ UNCHANGED mishaps
  <2>1. /\ job' \in JobRow /\ job'.step = "pmStop" /\ Kept /\ job'.restarted = job.restarted /\ job'.rolling = job.rolling
    BY <1>2, JobSteps DEF DeployInv, Steps
  <2>2. dist' \in Commit \cup {NoCommit, Half}
    BY <1>2 DEF DeployInv, TreeInv, Tree
  <2>3. TreeInv'
    BY <1>1, <1>2, <2>1, <2>2 DEF DeployInv, TreeInv
  <2>4. JobInv'
    BY <1>1, <2>1, AtWork DEF DeployInv, JobInv, ComposeSteps, PmSteps, Working, Is, Kept
  <2>5. RedeployInv'
    BY <1>1, <2>1 DEF DeployInv, RedeployInv, Fetched, PmSteps, Working, Is, Kept
  <2>6. BuildInv' /\ BackedUpFirst'
    BY <1>1, <1>2, <2>1, BackupStays DEF DeployInv, BuildInv, Is
  <2> QED BY <2>1, <2>3, <2>4, <2>5, <2>6, GoesOn DEF DeployInv
<1>3. CASE dist' \in {dist, Half} /\ NotReady /\ Mishap
  <2>1. mishaps' \in 0..MaxMishaps /\ mishaps' # 0
    BY <1>3, Mishaps DEF DeployInv
  <2>2. dist' \in Commit \cup {NoCommit, Half}
    BY <1>3 DEF DeployInv, TreeInv
  <2> QED BY <1>1, <1>3, <2>1, <2>2, TurningBackKeeps DEF Is
<1> QED BY <1>2, <1>3 DEF PmBuild

LEMMA PmStopsKeep ==
    ASSUME DeployInv, PmStop
    PROVE  DeployInv'
<1>1. /\ UNCHANGED <<checkout, image, fallback, dist, schema, envFile, before, turns, mishaps>> /\ Is("pmStop") /\ Working
      /\ serving' = [serving EXCEPT !["pm2"] = NoCommit] /\ StepsTo("pmStart")
  BY DEF PmStop, Is, Working
<1>2. /\ job' \in JobRow /\ job'.step = "pmStart" /\ Kept /\ job'.restarted = job.restarted /\ job'.rolling = job.rolling
  BY <1>1, JobSteps DEF DeployInv, Steps
<1>3. job.mode = "pm2" /\ (job.asked.kind = "redeploy" => job.restarted)
  BY <1>1 DEF DeployInv, JobInv, RedeployInv, PmSteps, Is
<1>4. /\ serving' \in [Runtime -> CommitOrNone] /\ \A r \in Runtime : r # "pm2" => serving'[r] = NoCommit
  BY <1>1, <1>3, AtWork DEF DeployInv, TreeInv, CommitOrNone, Runtime
<1>5. TreeInv'
  BY <1>1, <1>2, <1>4 DEF DeployInv, TreeInv, Runtime
<1>6. JobInv'
  BY <1>1, <1>2, <1>3, <1>4, AtWork DEF DeployInv, JobInv, ComposeSteps, PmSteps, Working, Is, Kept
<1>7. RedeployInv'
  BY <1>1, <1>2, <1>3 DEF DeployInv, RedeployInv, Fetched, PmSteps, Working, Is, Kept
<1>8. BuildInv' /\ BackedUpFirst'
  BY <1>1, <1>2, BackupStays DEF DeployInv, BuildInv, Is
<1> QED BY <1>2, <1>5, <1>6, <1>7, <1>8, GoesOn DEF DeployInv

LEMMA PmStartsKeep ==
    ASSUME DeployInv, PmStart
    PROVE  DeployInv'
<1>1. /\ UNCHANGED <<checkout, image, fallback, dist, envFile, before, turns>> /\ Is("pmStart") /\ Working
  BY DEF PmStart, Is, Working
<1>2. CASE Serves("pm2", dist) /\ StepsTo("pmReady") /\ UNCHANGED mishaps
  <2>1. /\ job' \in JobRow /\ job'.step = "pmReady" /\ Kept /\ job'.restarted = job.restarted /\ job'.rolling = job.rolling
    BY <1>2, JobSteps DEF DeployInv, Steps
  <2>2. job.mode = "pm2" /\ (job.asked.kind = "redeploy" => job.restarted)
    BY <1>1 DEF DeployInv, JobInv, RedeployInv, PmSteps, Is
  <2>3. dist = checkout.at /\ dist \in CommitOrNone
    BY <1>1 DEF DeployInv, BuildInv, TreeInv, Tree, CommitOrNone, Is
  <2>4. /\ serving' \in [Runtime -> CommitOrNone] /\ serving'["pm2"] = checkout.at
        /\ \A r \in Runtime : r # "pm2" => serving'[r] = NoCommit
    BY <1>1, <1>2, <2>2, <2>3, AtWork DEF DeployInv, TreeInv, Runtime, Serves
  <2>5. schema' \in Nat
    BY <1>2 DEF DeployInv, TreeInv, Serves, Migrated
  <2>6. TreeInv'
    BY <1>1, <1>2, <2>1, <2>4, <2>5 DEF DeployInv, TreeInv, Runtime
  <2>7. JobInv'
    BY <1>1, <2>1, <2>2, <2>4, AtWork DEF DeployInv, JobInv, ComposeSteps, PmSteps, Working, Is, Kept
  <2>8. RedeployInv'
    BY <1>1, <2>1, <2>2 DEF DeployInv, RedeployInv, Fetched, PmSteps, Working, Is, Kept
  <2>9. BuildInv' /\ BackedUpFirst'
    BY <1>1, <2>1, <2>4, BackupStays DEF DeployInv, BuildInv, Is
  <2> QED BY <2>1, <2>6, <2>7, <2>8, <2>9, GoesOn DEF DeployInv
<1>3. CASE NotReady /\ Mishap /\ UNCHANGED <<serving, schema>>
  <2>1. mishaps' \in 0..MaxMishaps /\ mishaps' # 0 /\ dist' \in Commit \cup {NoCommit, Half}
    BY <1>1, <1>3, Mishaps DEF DeployInv, TreeInv
  <2> QED BY <1>1, <1>3, <2>1, TurningBackKeeps DEF Is
<1> QED BY <1>2, <1>3 DEF PmStart

LEMMA DeployNextKeeps ==
    ASSUME DeployInv, [DeployNext]_deployVars
    PROVE  DeployInv'
  BY FillsKeep, BeginsKeep, FindsKeep, ResolvesKeep, TagsKeep, ChecksOutKeep, BuildsKeep, BacksUpKeep, CommandsKeep,
     UndoingKeeps, StartsKeep, StartsFailKeep, WaitsKeep, RetagsKeep, ReturnsKeep, PmBuildsKeep, PmStopsKeep,
     PmStartsKeep, LeavesKeep DEF DeployNext

LEMMA DeployInvShows ==
    ASSUME DeployInv
    PROVE  RedeploysSafe
<1>1. DeployTypeOK
  BY DEF DeployInv, TreeInv, JobRow, DeployTypeOK, Tree, CommitOrNone
<1>2. OneRuntime
  <2>1. PICK m \in Runtime : \A r \in Runtime : r # m => serving[r] = NoCommit
    BY DEF DeployInv, TreeInv
  <2>2. Existing \subseteq {m}
    BY <2>1 DEF Existing
  <2>3. IsFiniteSet({m}) /\ Cardinality({m}) = 1
    BY FS_Singleton
  <2>4. Cardinality(Existing) <= 1
    BY <2>2, <2>3, FS_Subset
  <2> QED BY <2>4 DEF OneRuntime
<1> QED BY <1>1, <1>2 DEF DeployInv, EndInv, RedeploysSafe

\* Whatever commands fail, whoever is killed and whatever is deployed at once:
\* one runtime holds the database, a redeploy that fails leaves what it found,
\* and one that says it rolled back, deployed or backed up has done so.
THEOREM DeploysAreSafe == DeploySpec => []RedeploysSafe
<1>1. DeployInit => DeployInv
  BY DeployInitInv
<1>2. DeployInv /\ [DeployNext]_deployVars => DeployInv'
  BY DeployNextKeeps
<1>3. DeployInv => RedeploysSafe
  BY DeployInvShows
<1> QED BY <1>1, <1>2, <1>3, PTL DEF DeploySpec

\* What the operator's scripts promise, of redeploys and of archives.
THEOREM OperatorsAreSafe == DeploySpec /\ ArchivesSpec => DeploymentSafe
<1>1. DeploySpec => []RedeploysSafe
  BY DeploysAreSafe
<1>2. ArchivesSpec => []ArchivesSafe /\ ArchivesStay /\ NothingElseStopsIt
  BY ArchivesAreSafe
<1> QED BY <1>1, <1>2, PTL DEF DeploymentSafe

=============================================================================
