----------------------------- MODULE DriveCalls -----------------------------
(***************************************************************************)
(* A call of Google Drive: the cached access token it uses, the refresh of *)
(* that token, the retries of the client, and the one repetition after a   *)
(* 401.  The account can be revoked at Google and connected again, and a   *)
(* call's answer can be lost after Google has done what it asked.          *)
(***************************************************************************)
EXTENDS Naturals, FiniteSets

CONSTANTS
    Calls,          \* the calls, numbered as they are made
    MaxAttempts,    \* DRIVE_RETRY_MAX_ATTEMPTS
    MaxGrantEvents  \* bound: revocations, reconnections and expiries

ASSUME DriveCallsAssumption ==
    /\ Calls \subseteq Nat
    /\ MaxAttempts \in Nat \ {0} /\ MaxGrantEvents \in Nat

VARIABLES
    grant,    \* oauth_accounts: which consent its refresh token is of
    alive,    \* the consents Google honours
    tokens,   \* access tokens given out: the consent of each, and whether it is good
    cache,    \* the provider's cached token, 0 when there is none
    call,     \* the calls
    events

callVars == <<grant, alive, tokens, cache, call, events>>

Resting == [pc |-> "idle", kind |-> "none", token |-> 0, consent |-> 0, again |-> FALSE,
            attempt |-> 0, done |-> 0, outcome |-> "none", calm |-> TRUE]
Outcome == {"none", "ok", "revoked", "unauthorized", "error"}

CallTypeOK ==
    /\ grant \in 1..(MaxGrantEvents + 1) /\ alive \subseteq 1..(MaxGrantEvents + 1)
    /\ \A i \in DOMAIN tokens : tokens[i].consent \in 1..grant /\ tokens[i].state \in {"good", "withdrawn", "old"}
    /\ DOMAIN tokens = 1..Cardinality(DOMAIN tokens)
    /\ cache \in {0} \cup DOMAIN tokens
    /\ \A c \in Calls :
         /\ call[c].pc \in {"idle", "token", "refresh", "send", "over"}
         /\ call[c].token \in {0} \cup DOMAIN tokens
         /\ call[c].outcome \in Outcome /\ call[c].attempt \in 0..MaxAttempts
    /\ events \in 0..MaxGrantEvents

CallInit ==
    /\ grant = 1 /\ alive = {1} /\ tokens = <<>> /\ cache = 0
    /\ call = [c \in Calls |-> Resting] /\ events = 0

\* The provider goes by the time a token was given for, not by its use.
Stale == cache \in DOMAIN tokens => tokens[cache].state = "old"
Honoured(t) == tokens[t].consent \in alive /\ tokens[t].state = "good"

-----------------------------------------------------------------------------
(***************************************************************************)
(* Google and the user.                                                    *)
(***************************************************************************)

GrantEvent == /\ events < MaxGrantEvents /\ events' = events + 1
              /\ call' = [c \in Calls |-> [call[c] EXCEPT !.calm = @ /\ call[c].pc \in {"idle", "over"}]]
              /\ UNCHANGED cache

Revoke == /\ GrantEvent /\ grant \in alive
          /\ alive' = alive \ {grant} /\ UNCHANGED <<grant, tokens>>

\* The account is connected again, which leaves the cached token alone.
Reconnect == /\ GrantEvent /\ grant' = grant + 1 /\ alive' = alive \cup {grant'}
             /\ UNCHANGED tokens

\* Google withdraws one access token before its time.
Withdraw(t) == /\ GrantEvent /\ tokens[t].state = "good"
               /\ tokens' = [tokens EXCEPT ![t].state = "withdrawn"] /\ UNCHANGED <<grant, alive>>

\* The cached token's time is up, less a minute.
Expire == /\ GrantEvent /\ ~Stale
          /\ tokens' = [tokens EXCEPT ![cache].state = "old"] /\ UNCHANGED <<grant, alive>>

-----------------------------------------------------------------------------
Becomes(c, record) == call' = [call EXCEPT ![c] = record]
Ends(c, outcome) == [Resting EXCEPT !.pc = "over", !.kind = call[c].kind, !.done = call[c].done,
                                    !.calm = call[c].calm, !.outcome = outcome]

\* Reading or changing metadata, making a folder, and moving bytes, which does
\* not go through run and request.
CallKind == {"metadata", "create", "media"}

StartCall(c, kind) ==
    /\ call[c].pc = "idle" /\ \A d \in Calls : d < c => call[d].pc # "idle"
    /\ Becomes(c, [Resting EXCEPT !.pc = "token", !.kind = kind])
    /\ UNCHANGED <<grant, alive, tokens, cache, events>>

\* getAccessToken: the cached token until its time is up, or a refresh with
\* the refresh token the account has now.
GetToken(c) ==
    /\ call[c].pc = "token"
    /\ Becomes(c, IF Stale THEN [call[c] EXCEPT !.pc = "refresh", !.consent = grant]
                  ELSE [call[c] EXCEPT !.pc = "send", !.token = cache, !.attempt = 1])
    /\ UNCHANGED <<grant, alive, tokens, cache, events>>

New == Cardinality(DOMAIN tokens) + 1

TokenRefreshed(c) ==
    /\ call[c].pc = "refresh" /\ call[c].consent \in alive
    /\ tokens' = [i \in 1..New |-> IF i = New THEN [consent |-> call[c].consent, state |-> "good"] ELSE tokens[i]]
    /\ cache' = New
    /\ Becomes(c, [call[c] EXCEPT !.pc = "send", !.token = New, !.consent = 0, !.attempt = 1])
    /\ UNCHANGED <<grant, alive, events>>

\* A refusal, or a fault on the way, also forgets what another call cached.
TokenRefused(c) ==
    /\ call[c].pc = "refresh"
    /\ cache' = 0
    /\ Becomes(c, Ends(c, IF call[c].consent \in alive THEN "error" ELSE "revoked"))
    /\ UNCHANGED <<grant, alive, tokens, events>>

-----------------------------------------------------------------------------
(***************************************************************************)
(* The call itself.  request retries what is worth it and safe to repeat;  *)
(* everything that does not go through it is sent once.                    *)
(***************************************************************************)

Attempts(c) == IF call[c].kind = "metadata" THEN MaxAttempts ELSE 1

Answered(c) ==
    /\ call[c].pc = "send" /\ Honoured(call[c].token)
    /\ Becomes(c, [Ends(c, "ok") EXCEPT !.done = @ + 1])
    /\ UNCHANGED <<grant, alive, tokens, cache, events>>

\* 429, 5xx or no answer at all: Google may have done it or not.
Faulty(c, applied) ==
    /\ call[c].pc = "send" /\ Honoured(call[c].token)
    /\ LET q == [call[c] EXCEPT !.done = IF applied THEN @ + 1 ELSE @]
       IN  Becomes(c, IF q.attempt < Attempts(c) THEN [q EXCEPT !.attempt = @ + 1]
                      ELSE [Ends(c, "error") EXCEPT !.done = q.done])
    /\ UNCHANGED <<grant, alive, tokens, cache, events>>

\* 401: run forgets the cached token and repeats the call once.
MutForgotten == cache
Forgotten == 0

Unauthorized(c) ==
    /\ call[c].pc = "send" /\ ~Honoured(call[c].token)
    /\ IF call[c].kind # "media" /\ ~call[c].again
       THEN /\ cache' = Forgotten
            /\ Becomes(c, [call[c] EXCEPT !.again = TRUE, !.consent = grant, !.token = Forgotten,
                                          !.pc = IF Forgotten = 0 THEN "refresh" ELSE "send"])
       ELSE Becomes(c, Ends(c, "unauthorized")) /\ UNCHANGED cache
    /\ UNCHANGED <<grant, alive, tokens, events>>

CallStep(c) == GetToken(c) \/ TokenRefreshed(c) \/ TokenRefused(c) \/ Answered(c)
               \/ Unauthorized(c) \/ \E applied \in BOOLEAN : Faulty(c, applied)

CallNext ==
    \/ Revoke \/ Reconnect \/ Expire
    \/ \E t \in DOMAIN tokens : Withdraw(t)
    \/ \E c \in Calls :
         \/ CallStep(c)
         \/ \E kind \in CallKind : StartCall(c, kind)

CallSpec == CallInit /\ [][CallNext]_callVars

-----------------------------------------------------------------------------
(***************************************************************************)
(* Properties.                                                             *)
(***************************************************************************)

\* What cannot be repeated safely is done at most once, although answers get
\* lost and a call is repeated after a 401.
PostedOnce == \A c \in Calls : call[c].kind # "metadata" => call[c].done <= 1

\* A metadata call never fails for its token while the account's consent
\* stands: a token that is stale, withdrawn or of an earlier consent costs a
\* repetition and no more, if nothing happens to the consent meanwhile.
StaleTokenHeals ==
    [][\A c \in Calls :
          (/\ call[c].pc # "over" /\ call[c].kind # "media" /\ call[c].calm
           /\ call'[c].outcome \in {"unauthorized", "revoked"})
             => grant \notin alive]_callVars

\* What the client of Drive promises its callers: nothing is done twice, and a
\* stale token costs a repetition and no more.
CallsSafe == [](CallTypeOK /\ PostedOnce) /\ StaleTokenHeals

=============================================================================
