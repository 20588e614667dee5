---------------------------- MODULE ViettelClient -----------------------------
(***************************************************************************)
(* The Viettel HTTP client's access token                                  *)
(* (internal/integration/viettel_client.go): the worker goroutines and the *)
(* API requests share one client, whose token is kept in a row of          *)
(* access_tokens and renewed under a mutex.  Tokens are numbered in the    *)
(* order Viettel issued them.  Waiting for the mutex, each database call   *)
(* and each HTTP exchange is one step.                                     *)
(***************************************************************************)
EXTENDS Integers, Sequences, FiniteSets

CONSTANTS Callers,        \* goroutines inside doAuthenticatedRequest
          NoCaller,       \* the mutex is free
          MaxTokens,      \* bound: logins that Viettel answers
          MaxTokenFaults  \* bound: how many database calls may fail

ASSUME ClientAssumption ==
  /\ NoCaller \notin Callers
  /\ MaxTokens \in Nat
  /\ MaxTokenFaults \in Nat

VARIABLES
  stored,       \* the token in access_tokens, NoToken when there is no row
  issued,       \* how many tokens Viettel has issued
  aged,         \* tokens within tokenBufferTime of their expires_at, or past it
  revoked,      \* tokens Viettel does not accept any more
  lock,         \* the holder of ViettelClient.mu
  call,         \* call[c]: what c does next, its token, the one answered 401
  relogins,     \* how many tokens were issued to requests answered 401
  tokenFaults   \* how many database calls have failed

tokenVars == <<stored, issued, aged, revoked, lock, call, relogins, tokenFaults>>

NoToken == 0

\* The calls made with the mutex held.
Holding == {"get", "login", "save"}

CallPc == Holding \cup {"idle", "lock", "send", "relock"}

NoCall == [pc |-> "idle", token |-> NoToken, bad |-> NoToken]

TokenInit ==
  /\ stored = NoToken
  /\ issued = 0
  /\ aged = {} /\ revoked = {}
  /\ lock = NoCaller
  /\ call = [c \in Callers |-> NoCall]
  /\ relogins = 0 /\ tokenFaults = 0

-----------------------------------------------------------------------------
\* A database call succeeds, or fails while the bound allows.
TokenOutcome(ok) ==
  /\ ok \/ tokenFaults < MaxTokenFaults
  /\ tokenFaults' = IF ok THEN tokenFaults ELSE tokenFaults + 1

\* c's request is over; or goes on to pc with this token.
End(c) == call' = [call EXCEPT ![c] = NoCall]
Go(c, pc, token) ==
  call' = [call EXCEPT ![c] = [pc |-> pc, token |-> token, bad |-> call[c].bad]]

\* Get answers a row whose token is still good for tokenBufferTime.
Cached == stored # NoToken /\ stored \notin aged

\* doAuthenticatedRequest: getToken waits for the mutex ...
Begin(c) ==
  /\ call[c].pc = "idle"
  /\ Go(c, "lock", NoToken)
  /\ UNCHANGED <<stored, issued, aged, revoked, lock, relogins, tokenFaults>>

Lock(c) ==
  /\ call[c].pc = "lock"
  /\ lock = NoCaller
  /\ lock' = c
  /\ Go(c, "get", NoToken)
  /\ UNCHANGED <<stored, issued, aged, revoked, relogins, tokenFaults>>

\* Mutated form: the mutex is released before a login that follows.
ReadTokenUnlocks(c) ==
  /\ call[c].pc = "get"
  /\ \E ok \in BOOLEAN :
       /\ TokenOutcome(ok)
       /\ IF ok /\ Cached THEN Go(c, "send", stored) ELSE Go(c, "login", NoToken)
  /\ lock' = NoCaller
  /\ UNCHANGED <<stored, issued, aged, revoked, relogins>>

\* ... and reads the stored token, which it returns or replaces.
ReadToken(c) ==
  /\ call[c].pc = "get"
  /\ \E ok \in BOOLEAN :
       /\ TokenOutcome(ok)
       /\ IF ok /\ Cached
            THEN Go(c, "send", stored) /\ lock' = NoCaller
            ELSE Go(c, "login", NoToken) /\ UNCHANGED lock
  /\ UNCHANGED <<stored, issued, aged, revoked, relogins>>

\* login: Viettel answers with a new token ...
Login(c) ==
  /\ call[c].pc = "login"
  /\ issued < MaxTokens
  /\ issued' = issued + 1
  /\ relogins' = IF call[c].bad = NoToken THEN relogins ELSE relogins + 1
  /\ Go(c, "save", issued + 1)
  /\ UNCHANGED <<stored, aged, revoked, lock, tokenFaults>>

\* Mutated form: the error returns without releasing the mutex.
LoginFailedLocked(c) ==
  /\ call[c].pc = "login"
  /\ End(c)
  /\ UNCHANGED <<stored, issued, aged, revoked, lock, relogins, tokenFaults>>

\* ... or does not, which ends the request ...
LoginFailed(c) ==
  /\ call[c].pc = "login"
  /\ lock' = NoCaller
  /\ End(c)
  /\ UNCHANGED <<stored, issued, aged, revoked, relogins, tokenFaults>>

\* ... and Set stores it: an error is logged, the token is used all the same.
SaveToken(c) ==
  /\ call[c].pc = "save"
  /\ \E ok, applied \in BOOLEAN :
       /\ TokenOutcome(ok)
       /\ ok => applied
       /\ stored' = IF applied THEN call[c].token ELSE stored
  /\ lock' = NoCaller
  /\ Go(c, "send", call[c].token)
  /\ UNCHANGED <<issued, aged, revoked, relogins>>

\* doRequest: Viettel answers, or cannot be reached, and the request ends;
\* so it does after a second 401.
Answered(c) ==
  /\ call[c].pc = "send"
  /\ End(c)
  /\ UNCHANGED <<stored, issued, aged, revoked, lock, relogins, tokenFaults>>

\* Mutated form: any HTTP 401 is answered by another attempt.
UnauthorizedAgain(c) ==
  /\ call[c].pc = "send"
  /\ call[c].token \in revoked
  /\ call' = [call EXCEPT ![c] = [pc |-> "relock", token |-> NoToken,
                                  bad |-> call[c].token]]
  /\ UNCHANGED <<stored, issued, aged, revoked, lock, relogins, tokenFaults>>

\* A first HTTP 401: log in and send again.
Unauthorized(c) ==
  /\ call[c].pc = "send"
  /\ call[c].token \in revoked
  /\ call[c].bad = NoToken
  /\ call' = [call EXCEPT ![c] = [pc |-> "relock", token |-> NoToken,
                                  bad |-> call[c].token]]
  /\ UNCHANGED <<stored, issued, aged, revoked, lock, relogins, tokenFaults>>

\* Mutated form: the token is asked of getToken again.
RelockGets(c) ==
  /\ call[c].pc = "relock"
  /\ lock = NoCaller
  /\ lock' = c
  /\ Go(c, "get", NoToken)
  /\ UNCHANGED <<stored, issued, aged, revoked, relogins, tokenFaults>>

Relock(c) ==
  /\ call[c].pc = "relock"
  /\ lock = NoCaller
  /\ lock' = c
  /\ Go(c, "login", NoToken)
  /\ UNCHANGED <<stored, issued, aged, revoked, relogins, tokenFaults>>

-----------------------------------------------------------------------------
\* Time passes: a token comes within tokenBufferTime of its expiry.
Age(t) ==
  /\ t \in (1..issued) \ aged
  /\ aged' = aged \cup {t}
  /\ UNCHANGED <<stored, issued, revoked, lock, call, relogins, tokenFaults>>

\* Viettel stops accepting a token: it has expired, or was revoked earlier.
Revoke(t) ==
  /\ t \in (1..issued) \ revoked
  /\ revoked' = revoked \cup {t}
  /\ UNCHANGED <<stored, issued, aged, lock, call, relogins, tokenFaults>>

-----------------------------------------------------------------------------
\* A request in progress takes its next step, other than waiting.
Continues(c) == \/ ReadToken(c) \/ Login(c) \/ LoginFailed(c) \/ SaveToken(c)
                \/ Answered(c) \/ Unauthorized(c)

TokenNext == \/ \E c \in Callers : Begin(c) \/ Lock(c) \/ Relock(c) \/ Continues(c)
             \/ \E t \in 1..MaxTokens : Age(t) \/ Revoke(t)

TokenSpec == TokenInit /\ [][TokenNext]_tokenVars

\* A request in progress goes on; sync.Mutex is starvation-free.
TokenFairness == \A c \in Callers : /\ WF_tokenVars(Continues(c))
                                    /\ SF_tokenVars(Lock(c) \/ Relock(c))

FairTokenSpec == TokenSpec /\ TokenFairness

-----------------------------------------------------------------------------
\* Types of every variable; the mutex is held by the caller that is between
\* Lock and Unlock, and by nobody else.
TokenTypeOK ==
  /\ issued \in 0..MaxTokens
  /\ stored \in 0..issued
  /\ aged \subseteq 1..issued
  /\ revoked \subseteq 1..issued
  /\ call \in [Callers -> [pc : CallPc, token : 0..issued, bad : 0..issued]]
  /\ lock \in Callers \cup {NoCaller}
  /\ \A c \in Callers : call[c].pc \in Holding <=> lock = c
  /\ relogins \in 0..issued
  /\ tokenFaults \in 0..MaxTokenFaults

\* A caller about to store a token holds the newest one Viettel has issued.
SavesNewest ==
  \A c \in Callers : call[c].pc = "save" => call[c].token = issued

\* Callers that log in at the same time never store an older token over a
\* newer one.
NewestStored == [][stored' >= stored]_tokenVars

\* Callers that find the same token expired do not all log in: every login
\* but the first is owed to a token that aged, a 401 answered to the request
\* that logs in, or a database call that failed.
LoginsJustified ==
  issued <= 1 + Cardinality(aged) + relogins + tokenFaults

\* A request answered 401 is not sent again with the token that was refused.
RetriedWithNewToken ==
  \A c \in Callers :
    call[c].pc = "send" /\ call[c].bad # NoToken => call[c].token > call[c].bad

\* The request that has a new token and has not been sent with it yet.
TokenOwner == IF lock # NoCaller /\ call[lock].pc = "save" THEN lock ELSE NoCaller

\* The tokens c's request was sent with: the one refused, the one in use.
SentWith(c) == (IF call[c].bad = NoToken THEN <<>> ELSE <<call[c].bad>>)
                 \o (IF call[c].pc = "send" THEN <<call[c].token>> ELSE <<>>)

\* However the requests interleave, and whichever calls fail, the mutex, the
\* row of access_tokens and the retry after a 401 together do what TokenCache
\* promises.
Cache == INSTANCE TokenCache WITH
  cache <- stored,
  newest <- issued,
  owner <- TokenOwner,
  sent <- [c \in Callers |-> SentWith(c)]

ImplementsTokenCache == Cache!Spec

\* No request waits for the token for ever, whoever fails before it.
RequestsEnd == \A c \in Callers : call[c].pc # "idle" ~> call[c].pc = "idle"
=============================================================================
