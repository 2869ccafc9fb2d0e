------------------------------ MODULE Sessions ------------------------------
(***************************************************************************)
(* Signing in to the dashboard: the Google flow and its callback, the      *)
(* session it establishes, the second factor of an account and its         *)
(* recovery codes, and what a session is admitted to.                      *)
(*                                                                         *)
(* A handler reads the session, then awaits (Google, Drive or the body of  *)
(* its request), then acts; handlers run between each other's awaits.      *)
(* A code is a record of the secret and the 30 second step it was shown    *)
(* for, or of the set of recovery codes it is from.                        *)
(***************************************************************************)
EXTENDS Integers, Sequences, FiniteSets

CONSTANTS
    Person,        \* Google accounts, by their subject
    Workspace,     \* the hosted domain that may sign in
    Invited,       \* addresses that may sign in from anywhere
    ClientId,      \* the audience of our tokens
    Claims,        \* what identity tokens say
    State,         \* states of flows, each issued once
    Handler,
    FlowTtl,       \* ten minutes, in steps
    RecoveryCodes, \* how many a set has
    MaxStep, MaxSessions, MaxSecrets, MaxSets,   \* bounds
    MaxStops       \* bound: restarts, accounts suspended and sessions ended

ASSUME SessionAssumption ==
    /\ Claims \subseteq [sub : Person, hd : STRING, email : STRING, verified : BOOLEAN, aud : STRING,
                         google : BOOLEAN, fresh : BOOLEAN]
    /\ FlowTtl \in Nat /\ RecoveryCodes \in Nat \ {0} /\ MaxStep \in Nat /\ MaxSessions \in Nat
    /\ MaxSecrets \in Nat /\ MaxSets \in Nat /\ MaxStops \in Nat

VARIABLES
    step,      \* the clock, in steps of 30 seconds
    flows,     \* the login and link flows in memory
    sessions,  \* the sessions, in the order they were established
    account,   \* of every person: the user row, its secret and its recovery codes
    handler,   \* what every handler holds across its await
    worked,    \* recovery codes that were accepted, once for each time
    stops

sessionVars == <<step, flows, sessions, account, handler, worked, stops>>

NoFlow == [kind |-> "none"]
Free == [kind |-> "none"]
\* secret and set number the secrets and the sets of codes the account has had.
NewAccount == [known |-> FALSE, active |-> TRUE, enabled |-> FALSE, secret |-> 0, stored |-> FALSE, confirmed |-> FALSE,
               set |-> 0, codes |-> {}]
Lives(s) == s \in DOMAIN sessions /\ sessions[s].live

SessionTypeOK ==
    /\ step \in 0..MaxStep /\ stops \in 0..MaxStops
    /\ \A f \in State : flows[f].kind \in {"none", "login", "link", "gone"}
    /\ Len(sessions) <= MaxSessions
    /\ \A s \in DOMAIN sessions : sessions[s].user \in Person /\ {sessions[s].pending, sessions[s].live} \subseteq BOOLEAN
    /\ \A p \in Person : /\ account[p].enabled = (account[p].stored /\ account[p].confirmed)
                         /\ account[p].codes \subseteq 1..RecoveryCodes
    /\ \A h \in Handler : handler[h].kind \in {"none", "exchange", "ensure", "link", "mfa", "confirm", "disable", "renew"}

SessionInit ==
    /\ step = 0 /\ stops = 0 /\ worked = <<>>
    /\ flows = [f \in State |-> NoFlow] /\ sessions = <<>>
    /\ account = [p \in Person |-> NewAccount]
    /\ handler = [h \in Handler |-> Free]

-----------------------------------------------------------------------------
(***************************************************************************)
(* Flows.  A start forgets the flows that are too old; a callback takes    *)
(* its flow whatever comes of it.                                          *)
(***************************************************************************)

Pruned(kind) == [f \in State |-> IF flows[f].kind = kind /\ flows[f].created < step - FlowTtl
                                 THEN [kind |-> "gone"] ELSE flows[f]]

HandleAuthStart(f) ==
    /\ flows[f] = NoFlow
    /\ flows' = [Pruned("login") EXCEPT ![f] = [kind |-> "login", created |-> step]]
    /\ UNCHANGED <<step, sessions, account, handler, worked, stops>>

\* Any session that lives may link, also one that owes its code.
HandleBackupLinkStart(f, s) ==
    /\ flows[f] = NoFlow /\ Lives(s)
    /\ flows' = [Pruned("link") EXCEPT ![f] = [kind |-> "link", created |-> step, user |-> sessions[s].user]]
    /\ UNCHANGED <<step, sessions, account, handler, worked, stops>>

UsedUp(f) == flows' = [flows EXCEPT ![f] = [kind |-> "gone"]]

HandleAuthCallback(h, f, denied) ==
    /\ handler[h] = Free /\ flows[f].kind \in {"login", "link"}
    /\ UsedUp(f)
    /\ handler' = [handler EXCEPT ![h] =
                     IF denied THEN Free
                     ELSE IF flows[f].kind = "login" THEN [kind |-> "exchange", flow |-> f]
                     ELSE [kind |-> "link", flow |-> f, user |-> flows[f].user]]
    /\ UNCHANGED <<step, sessions, account, worked, stops>>

Genuine(c) == c.google /\ c.aud = ClientId /\ c.fresh /\ c.verified
VerifyIdToken(c) == Genuine(c) /\ ((Workspace # "" /\ c.hd = Workspace) \/ c.email \in Invited)

Become(h, new) == handler' = [handler EXCEPT ![h] = new]

\* The row is read here, before the root folder is ensured.
Exchanged(h, c) ==
    /\ handler[h].kind = "exchange"
    /\ IF VerifyIdToken(c)
       THEN /\ account' = [account EXCEPT ![c.sub].known = TRUE]
            /\ Become(h, [kind |-> "ensure", flow |-> handler[h].flow, user |-> c.sub, claims |-> c,
                          owed |-> account[c.sub].enabled])
       ELSE UNCHANGED account /\ Become(h, Free)
    /\ UNCHANGED <<step, flows, sessions, worked, stops>>

MutEstablish(h) == [user |-> handler[h].user, flow |-> handler[h].flow, claims |-> handler[h].claims,
                 owed |-> handler[h].owed, pending |-> handler[h].owed /\ Len(sessions) = 0, proved |-> FALSE, live |-> TRUE]
Establish(h) == [user |-> handler[h].user, flow |-> handler[h].flow, claims |-> handler[h].claims,
                 owed |-> handler[h].owed, pending |-> handler[h].owed, proved |-> FALSE, live |-> TRUE]

Established(h) ==
    /\ handler[h].kind = "ensure" /\ Len(sessions) < MaxSessions
    /\ sessions' = Append(sessions, Establish(h))
    /\ Become(h, Free)
    /\ UNCHANGED <<step, flows, account, worked, stops>>

\* Becomes a backup destination at most; the account need not be one that may
\* sign in.
FinishBackupLink(h) ==
    /\ handler[h].kind = "link"
    /\ Become(h, Free)
    /\ UNCHANGED <<step, flows, sessions, account, worked, stops>>

-----------------------------------------------------------------------------
(***************************************************************************)
(* The second factor.                                                      *)
(***************************************************************************)

TotpCode(p, n, t) == [kind |-> "shown", user |-> p, secret |-> n, step |-> t]
Recovery(p, n, i) == [kind |-> "recovery", user |-> p, set |-> n, code |-> i]

VerifyTotpCode(p, code) ==
    code.kind = "shown" /\ code.user = p /\ code.secret = account[p].secret /\ code.step \in (step - 1)..(step + 1)

FindUnused(p, code) ==
    code.kind = "recovery" /\ code.user = p /\ code.set = account[p].set /\ code.code \in account[p].codes

ByTotp(p, code) == account[p].stored /\ account[p].confirmed /\ VerifyTotpCode(p, code)
VerifyCodeOrRecovery(p, code) == ByTotp(p, code) \/ FindUnused(p, code)

\* The row after the code was verified: a recovery code is used up.
Consumed(p, code) ==
    IF ~ByTotp(p, code) /\ FindUnused(p, code) THEN [account[p] EXCEPT !.codes = @ \ {code.code}] ELSE account[p]
Works(p, code) == worked' = IF ~ByTotp(p, code) /\ FindUnused(p, code) THEN Append(worked, code) ELSE worked

FreshCodes(row) == [row EXCEPT !.set = @ + 1, !.codes = 1..RecoveryCodes]

-----------------------------------------------------------------------------
(***************************************************************************)
(* Requests of a session.                                                  *)
(***************************************************************************)

Authenticate(s) == Lives(s) /\ account[sessions[s].user].active /\ ~sessions[s].pending

\* Restarted at will until it is confirmed; nothing is awaited.
MayStart(p) == ~account[p].enabled
StartSetup(s) ==
    LET p == sessions[s].user
    IN  /\ Authenticate(s) /\ MayStart(p) /\ account[p].secret < MaxSecrets
        /\ account' = [account EXCEPT ![p] = [account[p] EXCEPT !.secret = @ + 1, !.stored = TRUE, !.confirmed = FALSE]]
        /\ UNCHANGED <<step, flows, sessions, handler, worked, stops>>

\* Up to the body, which holds a code.
Begin(h, s, kind) ==
    /\ handler[h] = Free
    /\ IF kind = "mfa" THEN Lives(s) /\ sessions[s].pending ELSE Authenticate(s)
    /\ Become(h, [kind |-> kind, session |-> s, user |-> sessions[s].user])
    /\ UNCHANGED <<step, flows, sessions, account, worked, stops>>

HandleMfaVerify(h, code) ==
    LET p == handler[h].user
        ok == VerifyCodeOrRecovery(p, code)
    IN  /\ handler[h].kind = "mfa"
        /\ account' = [account EXCEPT ![p] = Consumed(p, code)] /\ Works(p, code)
        /\ sessions' = IF ok THEN [sessions EXCEPT ![handler[h].session] = [@ EXCEPT !.pending = FALSE, !.proved = TRUE]]
                       ELSE sessions
        /\ Become(h, Free)
        /\ UNCHANGED <<step, flows, stops>>

\* Two transactions; when the process ends between them there are no codes.
ConfirmSetup(h, code, cut) ==
    LET p == handler[h].user
        ok == account[p].stored /\ ~account[p].confirmed /\ VerifyTotpCode(p, code)
        on == [account[p] EXCEPT !.confirmed = TRUE, !.enabled = TRUE]
    IN  /\ handler[h].kind = "confirm"
        /\ ok => account[p].set < MaxSets
        /\ cut => ok /\ stops < MaxStops
        /\ stops' = IF cut THEN stops + 1 ELSE stops
        /\ account' = IF ~ok THEN account ELSE [account EXCEPT ![p] = IF cut THEN on ELSE FreshCodes(on)]
        /\ IF cut THEN handler' = [i \in Handler |-> Free] /\ flows' = [f \in State |-> [kind |-> "gone"]]
           ELSE Become(h, Free) /\ UNCHANGED flows
        /\ UNCHANGED <<step, sessions, worked>>

Disable(h, code) ==
    LET p == handler[h].user
    IN  /\ handler[h].kind = "disable"
        /\ IF account[p].enabled /\ VerifyCodeOrRecovery(p, code)
           THEN /\ account' = [account EXCEPT ![p] = [@ EXCEPT !.stored = FALSE, !.confirmed = FALSE,
                                                               !.enabled = FALSE, !.codes = {}]]
                /\ Works(p, code)
           ELSE UNCHANGED <<account, worked>>
        /\ Become(h, Free)
        /\ UNCHANGED <<step, flows, sessions, stops>>

RegenerateRecoveryCodes(h, code) ==
    LET p == handler[h].user
        ok == account[p].enabled /\ VerifyCodeOrRecovery(p, code)
    IN  /\ handler[h].kind = "renew"
        /\ ok => account[p].set < MaxSets
        /\ account' = IF ok THEN [account EXCEPT ![p] = FreshCodes(account[p])] ELSE account
        /\ IF ok THEN Works(p, code) ELSE UNCHANGED worked
        /\ Become(h, Free)
        /\ UNCHANGED <<step, flows, sessions, stops>>

\* A logout, or twelve hours.
EndSession(s) ==
    /\ Lives(s) /\ stops < MaxStops /\ stops' = stops + 1
    /\ sessions' = [sessions EXCEPT ![s].live = FALSE]
    /\ UNCHANGED <<step, flows, account, handler, worked>>

SuspendAccount(p) ==
    /\ account[p].known /\ account[p].active /\ stops < MaxStops
    /\ account' = [account EXCEPT ![p].active = FALSE] /\ stops' = stops + 1
    /\ UNCHANGED <<step, flows, sessions, handler, worked>>

\* Flows and handlers are in memory; the rest is in the database.
Restart ==
    /\ stops < MaxStops /\ stops' = stops + 1
    /\ handler' = [h \in Handler |-> Free]
    /\ flows' = [f \in State |-> IF flows[f] = NoFlow THEN NoFlow ELSE [kind |-> "gone"]]
    /\ UNCHANGED <<step, sessions, account, worked>>

NextStep == step < MaxStep /\ step' = step + 1
            /\ UNCHANGED <<flows, sessions, account, handler, worked, stops>>

\* What somebody may type: any code that was ever shown or will be next.
Codes == [kind : {"wrong"}]
         \cup {TotpCode(p, n, t) : p \in Person, n \in 1..MaxSecrets, t \in 0..(MaxStep + 1)}
         \cup {Recovery(p, n, i) : p \in Person, n \in 1..MaxSets, i \in 1..RecoveryCodes}
Typed == {c \in Codes : c.kind # "wrong" => account[c.user].known}

SessionNext ==
    \/ NextStep \/ Restart
    \/ \E p \in Person : SuspendAccount(p)
    \/ \E f \in State : HandleAuthStart(f) \/ \E s \in DOMAIN sessions : HandleBackupLinkStart(f, s)
    \/ \E h \in Handler :
         \/ \E f \in State, denied \in BOOLEAN : HandleAuthCallback(h, f, denied)
         \/ \E c \in Claims : Exchanged(h, c)
         \/ Established(h) \/ FinishBackupLink(h)
         \/ \E s \in DOMAIN sessions, kind \in {"mfa", "confirm", "disable", "renew"} : Begin(h, s, kind)
         \/ \E code \in Typed : HandleMfaVerify(h, code) \/ Disable(h, code) \/ RegenerateRecoveryCodes(h, code)
                                \/ \E cut \in BOOLEAN : ConfirmSetup(h, code, cut)
    \/ \E s \in DOMAIN sessions : StartSetup(s) \/ EndSession(s)

SessionSpec == SessionInit /\ [][SessionNext]_sessionVars

-----------------------------------------------------------------------------
(***************************************************************************)
(* Properties.                                                             *)
(***************************************************************************)

\* A session whose sign-in found the second factor on is admitted to nothing
\* of the API until a code was verified for it, whatever happens to the factor
\* and to the account's other sessions meanwhile.
FactorBeforeApi ==
    \A s \in DOMAIN sessions : Authenticate(s) /\ sessions[s].owed => sessions[s].proved

\* A flow gives one session at most, a flow that links an account none, and a
\* session is for the account of a genuine token that may sign in.
OneSessionAFlow ==
    \A s \in DOMAIN sessions :
       /\ \A r \in DOMAIN sessions \ {s} : sessions[r].flow # sessions[s].flow
       /\ flows[sessions[s].flow].kind = "gone"
       /\ sessions[s].claims.sub = sessions[s].user /\ Genuine(sessions[s].claims)
       /\ sessions[s].claims.hd = Workspace \/ sessions[s].claims.email \in Invited

\* A recovery code works once, and not after its set was replaced or the
\* factor turned off, in whatever sessions and handlers it is typed.
CodesWorkOnce ==
    /\ \A i, j \in DOMAIN worked : i # j => worked[i] # worked[j]
    /\ \A i, j \in DOMAIN worked : i < j /\ worked[i].user = worked[j].user => worked[i].set <= worked[j].set

\* While the second factor is on its secret stays: no setup of another session
\* that was begun before replaces it.
SecretStays ==
    [][\A p \in Person : account[p].enabled /\ account'[p].enabled => account'[p].secret = account[p].secret]_sessionVars

\* What sign-in promises: the second factor comes before the API, a flow makes
\* one session, a code works once, and an enrolled secret stays.
SessionsSafe == [](SessionTypeOK /\ FactorBeforeApi /\ OneSessionAFlow /\ CodesWorkOnce) /\ SecretStays

=============================================================================
