-------------------------- MODULE ViettelClientProofs -------------------------
(***************************************************************************)
(* Proofs about ViettelClient, for any number of callers, tokens and       *)
(* failing database calls.                                                 *)
(***************************************************************************)
EXTENDS ViettelClient, FiniteSetTheorems, TLAPS

\* The inductive invariant: the mutex is where the program counters say, and
\* the caller that holds a token to store holds the newest one.
TokenInv == TokenTypeOK /\ SavesNewest

USE DEF NoToken, Holding, CallPc, NoCall

\* The initial state satisfies the invariant.
LEMMA TokenInvInit == TokenInit => TokenInv
  BY ClientAssumption DEF TokenInit, TokenInv, TokenTypeOK, SavesNewest

\* Every step preserves the invariant.
LEMMA TokenInvNext == TokenInv /\ [TokenNext]_tokenVars => TokenInv'
<1> SUFFICES ASSUME TokenInv, [TokenNext]_tokenVars PROVE TokenInv'
  OBVIOUS
<1> USE ClientAssumption DEF TokenInv, TokenTypeOK, SavesNewest
<1>1. ASSUME NEW c \in Callers, Begin(c) PROVE TokenInv'
  BY <1>1 DEF Begin, Go
<1>2. ASSUME NEW c \in Callers, Lock(c) PROVE TokenInv'
  BY <1>2 DEF Lock, Go
<1>3. ASSUME NEW c \in Callers, Relock(c) PROVE TokenInv'
  BY <1>3 DEF Relock, Go
<1>4. ASSUME NEW c \in Callers, ReadToken(c) PROVE TokenInv'
  BY <1>4 DEF ReadToken, TokenOutcome, Go, Cached
<1>5. ASSUME NEW c \in Callers, Login(c) PROVE TokenInv'
  BY <1>5 DEF Login, Go
<1>6. ASSUME NEW c \in Callers, LoginFailed(c) PROVE TokenInv'
  BY <1>6 DEF LoginFailed, End
<1>7. ASSUME NEW c \in Callers, SaveToken(c) PROVE TokenInv'
  BY <1>7 DEF SaveToken, TokenOutcome, Go
<1>8. ASSUME NEW c \in Callers, Answered(c) PROVE TokenInv'
  BY <1>8 DEF Answered, End
<1>9. ASSUME NEW c \in Callers, Unauthorized(c) PROVE TokenInv'
  BY <1>9 DEF Unauthorized
<1>10. ASSUME NEW t \in 1..MaxTokens, Age(t) \/ Revoke(t) PROVE TokenInv'
  BY <1>10 DEF Age, Revoke
<1>11. CASE UNCHANGED tokenVars
  BY <1>11 DEF tokenVars
<1> QED
  BY <1>1, <1>2, <1>3, <1>4, <1>5, <1>6, <1>7, <1>8, <1>9, <1>10, <1>11
     DEF TokenNext, Continues

\* The mutex is held exactly between Lock and Unlock, on every path of
\* getToken and of the retry after a 401, and every variable has its type.
THEOREM TokenTypeCorrect == TokenSpec => []TokenTypeOK
<1>1. TokenInv => TokenTypeOK
  BY DEF TokenInv
<1> QED
  BY <1>1, TokenInvInit, TokenInvNext, PTL DEF TokenSpec

\* Whoever stores a token stores the newest one.
THEOREM NewestIsSaved == TokenSpec => []SavesNewest
<1>1. TokenInv => SavesNewest
  BY DEF TokenInv
<1> QED
  BY <1>1, TokenInvInit, TokenInvNext, PTL DEF TokenSpec

\* Callers that log in at the same time never store an older token over a
\* newer one.
THEOREM NewestIsStored == TokenSpec => NewestStored
<1>1. TokenInv /\ [TokenNext]_tokenVars => [stored' >= stored]_tokenVars
  <2> SUFFICES ASSUME TokenInv, TokenNext PROVE stored' >= stored
    BY DEF tokenVars
  <2> USE DEF TokenInv, TokenTypeOK, SavesNewest
  <2>1. ASSUME NEW c \in Callers, SaveToken(c) PROVE stored' >= stored
    BY <2>1 DEF SaveToken
  <2>2. ASSUME stored' = stored PROVE stored' >= stored
    BY <2>2
  <2> QED
    BY <2>1, <2>2 DEF TokenNext, Continues, Begin, Lock, Relock, ReadToken, Login,
       LoginFailed, Answered, Unauthorized, Age, Revoke
<1> QED
  BY <1>1, TokenInvInit, TokenInvNext, PTL DEF TokenSpec, NewestStored
-----------------------------------------------------------------------------
(* A request answered 401 logs in anew. *)

\* From a 401 to the answer of the second attempt a request only moves along
\* relock, login, save and send, and the token it gets is newer.
BadTokenSafe ==
  \A c \in Callers : call[c].bad # NoToken =>
    /\ call[c].pc \in {"relock", "login", "save", "send"}
    /\ call[c].pc \in {"save", "send"} => call[c].token > call[c].bad

\* A step of c that leaves the calls of the others alone.
LEMMA BadTokenStep ==
  ASSUME BadTokenSafe, NEW c \in Callers,
         call \in [Callers -> [pc : CallPc, token : 0..issued, bad : 0..issued]],
         NEW new, call' = [call EXCEPT ![c] = new],
         new.bad # NoToken =>
           /\ new.pc \in {"relock", "login", "save", "send"}
           /\ new.pc \in {"save", "send"} => new.token > new.bad
  PROVE  BadTokenSafe'
<1> SUFFICES ASSUME NEW d \in Callers, call'[d].bad # NoToken
             PROVE  /\ call'[d].pc \in {"relock", "login", "save", "send"}
                    /\ call'[d].pc \in {"save", "send"} => call'[d].token > call'[d].bad
  BY DEF BadTokenSafe
<1>1. CASE d = c
  BY <1>1
<1>2. CASE d # c
  BY <1>2 DEF BadTokenSafe
<1> QED
  BY <1>1, <1>2

\* Every step preserves it.
LEMMA BadTokenNext ==
  TokenInv /\ BadTokenSafe /\ [TokenNext]_tokenVars => BadTokenSafe'
<1> SUFFICES ASSUME TokenInv, BadTokenSafe, [TokenNext]_tokenVars PROVE BadTokenSafe'
  OBVIOUS
<1>0. /\ call \in [Callers -> [pc : CallPc, token : 0..issued, bad : 0..issued]]
      /\ issued \in Nat
  BY ClientAssumption DEF TokenInv, TokenTypeOK
<1>1. ASSUME NEW c \in Callers, Begin(c) \/ Lock(c) \/ ReadToken(c) PROVE BadTokenSafe'
  <2>1. call[c].bad = NoToken
    BY <1>1 DEF Begin, Lock, ReadToken, BadTokenSafe
  <2> QED
    BY <1>0, <1>1, <2>1, BadTokenStep DEF Begin, Lock, ReadToken, Go
<1>2. ASSUME NEW c \in Callers, Relock(c) \/ Login(c) PROVE BadTokenSafe'
  <2>1. CASE Relock(c)
    BY <1>0, <2>1, BadTokenStep DEF Relock, Go
  <2>2. CASE Login(c)
    <3>1. issued + 1 > call[c].bad
      BY <1>0
    <3> QED
      BY <1>0, <2>2, <3>1, BadTokenStep DEF Login, Go
  <2> QED
    BY <1>2, <2>1, <2>2
<1>3. ASSUME NEW c \in Callers, SaveToken(c) PROVE BadTokenSafe'
  <2>1. call' = [call EXCEPT ![c] = [pc |-> "send", token |-> call[c].token,
                                     bad |-> call[c].bad]]
        /\ call[c].pc = "save"
    BY <1>3 DEF SaveToken, Go
  <2> QED
    BY <1>0, <2>1, BadTokenStep DEF BadTokenSafe
<1>4. ASSUME NEW c \in Callers, LoginFailed(c) \/ Answered(c) PROVE BadTokenSafe'
  BY <1>0, <1>4, BadTokenStep DEF LoginFailed, Answered, End
<1>5. ASSUME NEW c \in Callers, Unauthorized(c) PROVE BadTokenSafe'
  BY <1>0, <1>5, BadTokenStep DEF Unauthorized
<1>6. ASSUME call' = call PROVE BadTokenSafe'
  BY <1>6 DEF BadTokenSafe
<1> QED
  BY <1>1, <1>2, <1>3, <1>4, <1>5, <1>6
     DEF TokenNext, Continues, Age, Revoke, tokenVars

\* A request answered 401 is never sent again with a token as old as the one
\* that was refused, however many callers renew the token meanwhile.
THEOREM RetryTokenIsNew == TokenSpec => []RetriedWithNewToken
<1>1. TokenInit => BadTokenSafe
  BY DEF TokenInit, BadTokenSafe
<1>2. BadTokenSafe => RetriedWithNewToken
  BY DEF BadTokenSafe, RetriedWithNewToken
<1> QED
  BY <1>1, <1>2, TokenInvInit, TokenInvNext, BadTokenNext, PTL DEF TokenSpec

-----------------------------------------------------------------------------
(* Every login but the first is owed to something. *)

\* What has made a login necessary so far.
Reasons == Cardinality(aged) + relogins + tokenFaults

\* A caller that is to log in for a token that was not there.
Renewing(c) == call[c].pc = "login" /\ call[c].bad = NoToken

\* One login ahead of the reasons is paid for by a token that is still good:
\* the newest one while it is being stored, the stored one otherwise, and none
\* while a caller is about to renew it.
LoginBudget ==
  /\ \A c \in Callers : call[c].pc = "save" =>
       issued <= Reasons + (IF issued \in aged THEN 0 ELSE 1)
  /\ \A c \in Callers : Renewing(c) => issued <= Reasons
  /\ (\A c \in Callers : call[c].pc # "save" /\ ~Renewing(c)) =>
       issued <= Reasons + (IF Cached THEN 1 ELSE 0)

\* The tokens that have aged are finitely many, and each counts once.
LEMMA AgedCounted ==
  ASSUME issued \in Nat, aged \subseteq 1..issued
  PROVE  /\ Cardinality(aged) \in Nat
         /\ \A t : t \notin aged => Cardinality(aged \cup {t}) = Cardinality(aged) + 1
<1>1. IsFiniteSet(1..issued)
  BY FS_Interval
<1>2. IsFiniteSet(aged)
  BY <1>1, FS_Subset
<1> QED
  BY <1>2, FS_CardinalityType, FS_AddElement

\* A caller waiting to log in again was answered 401.
RelocksRefused == \A c \in Callers : call[c].pc = "relock" => call[c].bad # NoToken

\* Every step preserves it.
LEMMA RelockNext ==
  TokenInv /\ RelocksRefused /\ [TokenNext]_tokenVars => RelocksRefused'
<1> SUFFICES ASSUME TokenInv, RelocksRefused, [TokenNext]_tokenVars PROVE RelocksRefused'
  OBVIOUS
<1>0. call \in [Callers -> [pc : CallPc, token : 0..issued, bad : 0..issued]]
      /\ revoked \subseteq 1..issued
  BY DEF TokenInv, TokenTypeOK
<1>1. ASSUME NEW c \in Callers, Unauthorized(c) PROVE RelocksRefused'
  BY <1>0, <1>1 DEF Unauthorized, RelocksRefused
<1>2. ASSUME NEW c \in Callers, NEW new, call' = [call EXCEPT ![c] = new], new.pc # "relock"
      PROVE  RelocksRefused'
  BY <1>0, <1>2 DEF RelocksRefused
<1>3. ASSUME call' = call PROVE RelocksRefused'
  BY <1>3 DEF RelocksRefused
<1>4. ASSUME NEW c \in Callers, Begin(c) \/ Lock(c) \/ Relock(c) PROVE RelocksRefused'
  <2>1. PICK pc \in {"lock", "get", "login"} :
          call' = [call EXCEPT ![c] = [pc |-> pc, token |-> NoToken, bad |-> call[c].bad]]
    BY <1>4 DEF Begin, Lock, Relock, Go
  <2> DEFINE new == [pc |-> pc, token |-> NoToken, bad |-> call[c].bad]
  <2>2. call' = [call EXCEPT ![c] = new] /\ new.pc # "relock"
    BY <2>1
  <2> HIDE DEF new
  <2> QED
    BY <1>2, <2>2
<1>5. ASSUME NEW c \in Callers, ReadToken(c) \/ SaveToken(c) PROVE RelocksRefused'
  BY <1>2, <1>5 DEF ReadToken, SaveToken, Go
<1>6. ASSUME NEW c \in Callers, Login(c) \/ LoginFailed(c) \/ Answered(c)
      PROVE  RelocksRefused'
  BY <1>2, <1>6 DEF Login, LoginFailed, Answered, Go, End
<1> QED
  BY <1>1, <1>3, <1>4, <1>5, <1>6 DEF TokenNext, Continues, Age, Revoke, tokenVars

\* The counters as numbers, and who can be where: the mutex lets one caller
\* only between Lock and Unlock.
LEMMA Counters ==
  ASSUME TokenInv
  PROVE  /\ issued \in Nat /\ stored \in 0..issued /\ aged \subseteq 1..issued
         /\ relogins \in Nat /\ tokenFaults \in Nat
         /\ Cardinality(aged) \in Nat /\ Reasons \in Nat
         /\ \A c, d \in Callers :
              call[c].pc \in Holding /\ call[d].pc \in Holding => c = d
<1>1. /\ issued \in Nat /\ stored \in 0..issued /\ aged \subseteq 1..issued
      /\ relogins \in Nat /\ tokenFaults \in Nat
  BY ClientAssumption DEF TokenInv, TokenTypeOK
<1>2. Cardinality(aged) \in Nat
  BY <1>1, AgedCounted
<1>3. Reasons \in Nat
  BY <1>1, <1>2 DEF Reasons
<1>4. \A c, d \in Callers : call[c].pc \in Holding /\ call[d].pc \in Holding => c = d
  BY DEF TokenInv, TokenTypeOK
<1> QED
  BY <1>1, <1>2, <1>3, <1>4

\* What the budget allows at any time.
LEMMA BudgetBound ==
  TokenInv /\ LoginBudget => issued <= Reasons + 1
<1> SUFFICES ASSUME TokenInv, LoginBudget PROVE issued <= Reasons + 1
  OBVIOUS
<1>1. CASE \E c \in Callers : call[c].pc = "save" \/ Renewing(c)
  BY <1>1, Counters DEF LoginBudget
<1>2. CASE \A c \in Callers : call[c].pc # "save" /\ ~Renewing(c)
  BY <1>2, Counters DEF LoginBudget
<1> QED
  BY <1>1, <1>2

\* Nobody stores or renews while c is elsewhere between Lock and Unlock, and
\* after c has left, nobody does.
LEMMA OnlyHolder ==
  ASSUME TokenInv, NEW c \in Callers, call[c].pc \in Holding
  PROVE  \A d \in Callers \ {c} : call[d].pc # "save" /\ ~Renewing(d)
  BY Counters DEF Renewing

\* A step of c to new, where the others neither store nor renew, and the
\* budget for new is kept.
LEMMA BudgetStep ==
  ASSUME TokenInv, NEW c \in Callers, NEW new, call' = [call EXCEPT ![c] = new],
         \A d \in Callers \ {c} : call[d].pc # "save" /\ ~Renewing(d),
         new.pc = "save" => issued' <= Reasons' + (IF issued' \in aged' THEN 0 ELSE 1),
         new.pc = "login" /\ new.bad = NoToken => issued' <= Reasons',
         new.pc # "save" /\ ~(new.pc = "login" /\ new.bad = NoToken) =>
           issued' <= Reasons' + (IF Cached' THEN 1 ELSE 0)
  PROVE  LoginBudget'
<1>1. \A d \in Callers : call'[d] = IF d = c THEN new ELSE call[d]
  BY DEF TokenInv, TokenTypeOK
<1>2. \A d \in Callers \ {c} : call'[d].pc # "save" /\ ~Renewing(d)'
  BY <1>1 DEF Renewing
<1>3. call'[c] = new
  BY <1>1
<1>4. Renewing(c)' <=> new.pc = "login" /\ new.bad = NoToken
  BY <1>3 DEF Renewing
<1> QED
  BY <1>2, <1>3, <1>4 DEF LoginBudget

\* Steps that leave alone what the budget speaks of, and the callers that
\* store and renew.
LEMMA BudgetKept ==
  ASSUME LoginBudget, NEW c \in Callers, NEW new,
         call \in [Callers -> [pc : CallPc, token : 0..issued, bad : 0..issued]],
         call' = [call EXCEPT ![c] = new],
         UNCHANGED <<stored, issued, aged, relogins, tokenFaults>>,
         call[c].pc # "save" /\ ~Renewing(c),
         new.pc # "save" /\ ~(new.pc = "login" /\ new.bad = NoToken)
  PROVE  LoginBudget'
<1>1. \A d \in Callers : call'[d] = IF d = c THEN new ELSE call[d]
  OBVIOUS
<1>2. /\ \A d \in Callers : call'[d].pc = "save" <=> call[d].pc = "save"
      /\ \A d \in Callers : Renewing(d)' <=> Renewing(d)
  BY <1>1 DEF Renewing
<1>3. Reasons' = Reasons /\ Cached' = Cached /\ issued' = issued /\ aged' = aged
  BY DEF Reasons, Cached
<1> QED
  BY <1>2, <1>3 DEF LoginBudget

\* A bound stays one when nothing or one is added to it.
LEMMA Slack ==
  ASSUME NEW a \in Nat, NEW b \in Nat, a <= b PROVE a <= b + 1 /\ a <= b + 0
  OBVIOUS

\* Every step keeps within the budget.
LEMMA BudgetNext ==
  TokenInv /\ RelocksRefused /\ LoginBudget /\ [TokenNext]_tokenVars => LoginBudget'
<1> SUFFICES ASSUME TokenInv, RelocksRefused, LoginBudget, [TokenNext]_tokenVars
             PROVE  LoginBudget'
  OBVIOUS
<1>0. /\ call \in [Callers -> [pc : CallPc, token : 0..issued, bad : 0..issued]]
      /\ issued \in Nat /\ stored \in 0..issued /\ aged \subseteq 1..issued
      /\ relogins \in Nat /\ tokenFaults \in Nat
      /\ Cardinality(aged) \in Nat /\ Reasons \in Nat
  BY Counters DEF TokenInv, TokenTypeOK
<1>1. ASSUME NEW c \in Callers, Begin(c) \/ Answered(c) \/ Unauthorized(c)
      PROVE  LoginBudget'
  BY <1>0, <1>1, BudgetKept DEF Begin, Answered, Unauthorized, End, Go, Renewing
<1>2. ASSUME NEW c \in Callers, Lock(c) PROVE LoginBudget'
  <2>1. /\ call' = [call EXCEPT ![c] = [pc |-> "get", token |-> NoToken, bad |-> call[c].bad]]
        /\ UNCHANGED <<stored, issued, aged, relogins, tokenFaults>>
        /\ call[c].pc = "lock"
    BY <1>2 DEF Lock, Go
  <2> DEFINE new == [pc |-> "get", token |-> NoToken, bad |-> call[c].bad]
  <2>2. /\ call' = [call EXCEPT ![c] = new]
        /\ new.pc # "save" /\ ~(new.pc = "login" /\ new.bad = NoToken)
    BY <2>1
  <2>3. call[c].pc # "save" /\ ~Renewing(c)
    BY <2>1 DEF Renewing
  <2> HIDE DEF new
  <2> QED
    BY <1>0, <2>1, <2>2, <2>3, BudgetKept
<1>3. ASSUME NEW c \in Callers, Relock(c) PROVE LoginBudget'
  <2>1. /\ call' = [call EXCEPT ![c] = [pc |-> "login", token |-> NoToken, bad |-> call[c].bad]]
        /\ UNCHANGED <<stored, issued, aged, relogins, tokenFaults>>
        /\ call[c].pc = "relock" /\ call[c].bad # NoToken
    BY <1>3 DEF Relock, Go, RelocksRefused
  <2> DEFINE new == [pc |-> "login", token |-> NoToken, bad |-> call[c].bad]
  <2>2. /\ call' = [call EXCEPT ![c] = new]
        /\ new.pc # "save" /\ ~(new.pc = "login" /\ new.bad = NoToken)
    BY <2>1
  <2>3. call[c].pc # "save" /\ ~Renewing(c)
    BY <2>1 DEF Renewing
  <2> HIDE DEF new
  <2> QED
    BY <1>0, <2>1, <2>2, <2>3, BudgetKept
<1>4. ASSUME NEW c \in Callers, ReadToken(c) PROVE LoginBudget'
  <2>1. call[c].pc = "get" /\ \A d \in Callers \ {c} : call[d].pc # "save" /\ ~Renewing(d)
    BY <1>4, OnlyHolder DEF ReadToken
  <2>2. issued <= Reasons + (IF Cached THEN 1 ELSE 0)
    BY <2>1 DEF LoginBudget, Renewing
  <2>3. UNCHANGED <<stored, issued, aged, relogins>>
    BY <1>4 DEF ReadToken
  <2>4. Cached' = Cached
    BY <2>3 DEF Cached
  <2>5. PICK ok \in BOOLEAN :
          /\ TokenOutcome(ok)
          /\ IF ok /\ Cached
               THEN call' = [call EXCEPT ![c] = [pc |-> "send", token |-> stored,
                                                 bad |-> call[c].bad]]
               ELSE call' = [call EXCEPT ![c] = [pc |-> "login", token |-> NoToken,
                                                 bad |-> call[c].bad]]
    BY <1>4 DEF ReadToken, Go
  <2>6. Reasons' = IF ok THEN Reasons ELSE Reasons + 1
    BY <1>0, <2>3, <2>5 DEF TokenOutcome, Reasons
  <2>7. CASE ok /\ Cached
    BY <1>0, <2>1, <2>2, <2>3, <2>4, <2>5, <2>6, <2>7, BudgetStep
  <2>8. CASE ~(ok /\ Cached)
    <3>1. issued' <= Reasons'
      BY <1>0, <2>2, <2>3, <2>6, <2>8
    <3>2. Reasons' \in Nat
      BY <1>0, <2>6
    <3>3. issued' <= Reasons' + (IF Cached' THEN 1 ELSE 0)
      <4>1. issued' \in Nat
        BY <1>0, <2>3
      <4>2. issued' <= Reasons' + 1 /\ issued' <= Reasons' + 0
        BY <3>1, <3>2, <4>1, Slack
      <4> QED
        BY <4>2
    <3> DEFINE new == [pc |-> "login", token |-> NoToken, bad |-> call[c].bad]
    <3>4. call' = [call EXCEPT ![c] = new] /\ new.pc = "login"
      BY <2>5, <2>8
    <3> HIDE DEF new
    <3> QED
      BY <2>1, <3>1, <3>3, <3>4, BudgetStep
  <2> QED
    BY <2>7, <2>8
<1>5. ASSUME NEW c \in Callers, Login(c) PROVE LoginBudget'
  <2>1. call[c].pc = "login" /\ \A d \in Callers \ {c} : call[d].pc # "save" /\ ~Renewing(d)
    BY <1>5, OnlyHolder DEF Login
  <2>2. /\ call' = [call EXCEPT ![c] = [pc |-> "save", token |-> issued + 1,
                                         bad |-> call[c].bad]]
        /\ issued' = issued + 1 /\ aged' = aged /\ tokenFaults' = tokenFaults
        /\ relogins' = IF call[c].bad = NoToken THEN relogins ELSE relogins + 1
    BY <1>5 DEF Login, Go
  <2>3. Reasons' = IF call[c].bad = NoToken THEN Reasons ELSE Reasons + 1
    BY <1>0, <2>2 DEF Reasons
  <2>4. issued' <= Reasons' + 1
    <3>1. CASE call[c].bad = NoToken
      BY <1>0, <2>1, <2>2, <2>3, <3>1 DEF LoginBudget, Renewing
    <3>2. CASE call[c].bad # NoToken
      BY <1>0, <2>2, <2>3, <3>2, BudgetBound
    <3> QED
      BY <3>1, <3>2
  <2>5. issued' \notin aged'
    BY <1>0, <2>2
  <2> QED
    BY <2>1, <2>2, <2>4, <2>5, BudgetStep
<1>6. ASSUME NEW c \in Callers, LoginFailed(c) PROVE LoginBudget'
  <2>1. call[c].pc = "login" /\ \A d \in Callers \ {c} : call[d].pc # "save" /\ ~Renewing(d)
    BY <1>6, OnlyHolder DEF LoginFailed
  <2>2. /\ call' = [call EXCEPT ![c] = [pc |-> "idle", token |-> NoToken, bad |-> NoToken]]
        /\ UNCHANGED <<stored, issued, aged, relogins, tokenFaults>>
    BY <1>6 DEF LoginFailed, End
  <2>3. Reasons' = Reasons /\ Cached' = Cached
    BY <2>2 DEF Reasons, Cached
  <2>4. issued <= Reasons + (IF Cached THEN 1 ELSE 0)
    BY <1>0, <2>1 DEF LoginBudget, Renewing
  <2> QED
    BY <2>1, <2>2, <2>3, <2>4, BudgetStep
<1>7. ASSUME NEW c \in Callers, SaveToken(c) PROVE LoginBudget'
  <2>1. call[c].pc = "save" /\ \A d \in Callers \ {c} : call[d].pc # "save" /\ ~Renewing(d)
    BY <1>7, OnlyHolder DEF SaveToken
  <2>2. /\ call' = [call EXCEPT ![c] = [pc |-> "send", token |-> call[c].token,
                                         bad |-> call[c].bad]]
        /\ UNCHANGED <<issued, aged, relogins>>
    BY <1>7 DEF SaveToken, Go
  <2>3. PICK ok \in BOOLEAN, applied \in BOOLEAN :
          /\ TokenOutcome(ok)
          /\ ok => applied
          /\ stored' = IF applied THEN call[c].token ELSE stored
    BY <1>7 DEF SaveToken
  <2>4. issued <= Reasons + (IF issued \in aged THEN 0 ELSE 1) /\ call[c].token = issued
    BY <2>1 DEF LoginBudget, TokenInv, SavesNewest
  <2>5. CASE ok
    <3>1. Reasons' = Reasons /\ stored' = issued
      BY <2>2, <2>3, <2>4, <2>5 DEF TokenOutcome, Reasons
    <3>2. issued # NoToken => (Cached' <=> issued \notin aged)
      BY <2>2, <3>1 DEF Cached
    <3>3. issued' <= Reasons' + (IF Cached' THEN 1 ELSE 0)
      BY <1>0, <2>2, <2>4, <3>1, <3>2
    <3> QED
      BY <2>1, <2>2, <3>3, BudgetStep
  <2>6. CASE ~ok
    <3>1. Reasons' = Reasons + 1
      BY <1>0, <2>2, <2>3, <2>6 DEF TokenOutcome, Reasons
    <3>2. issued' <= Reasons' + (IF Cached' THEN 1 ELSE 0)
      BY <1>0, <2>2, <2>4, <3>1
    <3> QED
      BY <2>1, <2>2, <3>2, BudgetStep
  <2> QED
    BY <2>5, <2>6
<1>8. ASSUME NEW t \in 1..MaxTokens, Age(t) PROVE LoginBudget'
  <2>1. /\ call' = call /\ stored' = stored /\ issued' = issued
        /\ aged' = aged \cup {t} /\ t \notin aged
        /\ relogins' = relogins /\ tokenFaults' = tokenFaults
    BY <1>8 DEF Age
  <2>2. Reasons' = Reasons + 1
    <3>1. Cardinality(aged') = Cardinality(aged) + 1
      BY <1>0, <2>1, AgedCounted
    <3> QED
      BY <1>0, <2>1, <3>1 DEF Reasons
  <2>3. issued' <= Reasons'
    BY <1>0, <2>1, <2>2, BudgetBound
  <2>4. Reasons' \in Nat
    BY <1>0, <2>2
  <2>5. /\ issued' <= Reasons' + (IF issued' \in aged' THEN 0 ELSE 1)
        /\ issued' <= Reasons' + (IF Cached' THEN 1 ELSE 0)
    <3>1. issued' \in Nat
      BY <1>0, <2>1
    <3>2. issued' <= Reasons' + 1 /\ issued' <= Reasons' + 0
      BY <2>3, <2>4, <3>1, Slack
    <3> QED
      BY <3>2
  <2> QED
    BY <2>3, <2>5 DEF LoginBudget
<1>9. ASSUME UNCHANGED <<call, stored, issued, aged, relogins, tokenFaults>>
      PROVE  LoginBudget'
  <2>1. Reasons' = Reasons /\ Cached' = Cached /\ issued' = issued /\ aged' = aged
        /\ call' = call /\ \A d \in Callers : Renewing(d)' = Renewing(d)
    BY <1>9 DEF Reasons, Cached, Renewing
  <2> QED
    BY <2>1 DEF LoginBudget
<1>10. ASSUME NEW t \in 1..MaxTokens, Revoke(t) PROVE LoginBudget'
  BY <1>9, <1>10 DEF Revoke
<1>11. CASE UNCHANGED tokenVars
  BY <1>9, <1>11 DEF tokenVars
<1> QED
  BY <1>1, <1>2, <1>3, <1>4, <1>5, <1>6, <1>7, <1>8, <1>10, <1>11 DEF TokenNext, Continues

\* Callers that find the same token expired do not all log in: every login
\* but the first is owed to a token that aged, a 401 or a failed call.
THEOREM LoginsAreOwed == TokenSpec => []LoginsJustified
<1>1. TokenInit => LoginBudget /\ RelocksRefused
  <2> SUFFICES ASSUME TokenInit PROVE LoginBudget /\ RelocksRefused
    OBVIOUS
  <2>1. Reasons = 0 /\ issued = 0
    BY FS_EmptySet DEF TokenInit, Reasons
  <2> QED
    BY <2>1 DEF TokenInit, LoginBudget, RelocksRefused, Renewing, Cached
<1>2. TokenInv /\ LoginBudget => LoginsJustified
  <2> SUFFICES ASSUME TokenInv, LoginBudget PROVE LoginsJustified
    OBVIOUS
  <2>1. issued <= Reasons + 1
    BY BudgetBound
  <2> QED
    BY <2>1, Counters DEF Reasons, LoginsJustified
<1> QED
  BY <1>1, <1>2, TokenInvInit, TokenInvNext, RelockNext, BudgetNext, PTL DEF TokenSpec
-----------------------------------------------------------------------------
(* The refinement of TokenCache. *)

CacheStep == [Cache!Next]_Cache!cacheVars

\* What every request was sent with, as TokenCache sees it.
AllSent == [c \in Callers |-> SentWith(c)]

\* The token a request is retried for was refused.
BadRefused == \A c \in Callers : call[c].bad # NoToken => call[c].bad \in revoked

\* Every step preserves it.
LEMMA BadRefusedNext ==
  TokenInv /\ BadRefused /\ [TokenNext]_tokenVars => BadRefused'
<1> SUFFICES ASSUME TokenInv, BadRefused, [TokenNext]_tokenVars PROVE BadRefused'
  OBVIOUS
<1>0. call \in [Callers -> [pc : CallPc, token : 0..issued, bad : 0..issued]]
  BY DEF TokenInv, TokenTypeOK
<1>1. ASSUME NEW c \in Callers, NEW new, call' = [call EXCEPT ![c] = new],
             new.bad \in {NoToken, call[c].bad} \cup revoked, revoked' = revoked
      PROVE  BadRefused'
  BY <1>0, <1>1 DEF BadRefused
<1>2. ASSUME NEW c \in Callers, Begin(c) \/ Lock(c) \/ Relock(c) \/ Login(c)
      PROVE  BadRefused'
  <2>1. PICK pc \in CallPc, token \in {NoToken, issued + 1} :
          call' = [call EXCEPT ![c] = [pc |-> pc, token |-> token, bad |-> call[c].bad]]
    BY <1>2 DEF Begin, Lock, Relock, Login, Go
  <2>2. revoked' = revoked
    BY <1>2 DEF Begin, Lock, Relock, Login
  <2> QED
    BY <1>1, <2>1, <2>2
<1>3. ASSUME NEW c \in Callers, ReadToken(c) \/ SaveToken(c) PROVE BadRefused'
  <2>1. PICK token :
          call' = [call EXCEPT ![c] = [pc |-> "send", token |-> token, bad |-> call[c].bad]]
          \/ call' = [call EXCEPT ![c] = [pc |-> "login", token |-> token, bad |-> call[c].bad]]
    BY <1>3 DEF ReadToken, SaveToken, Go
  <2>2. revoked' = revoked
    BY <1>3 DEF ReadToken, SaveToken
  <2> QED
    BY <1>1, <2>1, <2>2
<1>4. ASSUME NEW c \in Callers, LoginFailed(c) \/ Answered(c) \/ Unauthorized(c)
      PROVE  BadRefused'
  BY <1>1, <1>4 DEF LoginFailed, Answered, Unauthorized, End
<1>5. ASSUME call' = call, revoked \subseteq revoked' PROVE BadRefused'
  BY <1>5 DEF BadRefused
<1> QED
  BY <1>2, <1>3, <1>4, <1>5 DEF TokenNext, Continues, Age, Revoke, tokenVars

\* A step of c's request and of no other.
Moves(c) == \A d \in Callers \ {c} : call'[d] = call[d]

\* Assigning to call[c] is one.
LEMMA AssignMoves ==
  ASSUME TokenInv, NEW c \in Callers, NEW new, call' = [call EXCEPT ![c] = new]
  PROVE  Moves(c) /\ call'[c] = new
BY DEF TokenInv, TokenTypeOK, Moves

\* It changes what c's request was sent with, and nothing about the others.
LEMMA SentByOne ==
  ASSUME NEW c \in Callers, Moves(c)
  PROVE  AllSent' = [AllSent EXCEPT ![c] = SentWith(c)']
<1>1. \A d \in Callers \ {c} : SentWith(d)' = SentWith(d)
  BY DEF SentWith, Moves
<1> QED
  BY <1>1 DEF AllSent

\* A token has an owner exactly while it is being stored, before the step ...
LEMMA Owner ==
  ASSUME TokenInv
  PROVE  /\ \A c \in Callers : TokenOwner = c <=> call[c].pc = "save"
         /\ (\A c \in Callers : call[c].pc # "save") => TokenOwner = NoCaller
BY ClientAssumption DEF TokenInv, TokenTypeOK, TokenOwner

\* ... and after it.
LEMMA OwnerAfter ==
  ASSUME TokenInv'
  PROVE  /\ \A c \in Callers : TokenOwner' = c <=> call'[c].pc = "save"
         /\ (\A c \in Callers : call'[c].pc # "save") => TokenOwner' = NoCaller
BY ClientAssumption DEF TokenInv, TokenTypeOK, TokenOwner

\* Nobody is storing a token, and nobody owns one, while c holds the mutex
\* to do something else.
LEMMA NoOwner ==
  ASSUME TokenInv, NEW c \in Callers, call[c].pc \in {"get", "login"}
  PROVE  TokenOwner = NoCaller
BY Counters, Owner

\* A step of c that neither starts nor ends the storing of a token changes
\* no owner.
LEMMA SameOwner ==
  ASSUME TokenInv, TokenInv', NEW c \in Callers, Moves(c),
         call[c].pc # "save", call'[c].pc # "save"
  PROVE  TokenOwner' = TokenOwner
<1>1. \A d \in Callers : call'[d].pc = "save" <=> call[d].pc = "save"
  BY DEF Moves
<1> QED
  BY <1>1, Owner, OwnerAfter

\* A step that changes nothing TokenCache speaks of.
LEMMA SilentStep ==
  ASSUME TokenInv, TokenInv', UNCHANGED <<stored, issued, aged, revoked>>,
         NEW c \in Callers, Moves(c), SentWith(c)' = SentWith(c),
         call[c].pc # "save", call'[c].pc # "save"
  PROVE  CacheStep
<1>1. AllSent' = AllSent
  BY SentByOne DEF AllSent
<1>2. TokenOwner' = TokenOwner
  BY SameOwner
<1> QED
  BY <1>1, <1>2 DEF CacheStep, Cache!cacheVars, AllSent

\* A step that ends c's request.
LEMMA DoneStep ==
  ASSUME TokenInv, TokenInv', UNCHANGED <<stored, issued, aged, revoked>>,
         NEW c \in Callers, End(c), call[c].pc # "save"
  PROVE  CacheStep
<1>1. Moves(c) /\ call'[c] = NoCall
  BY AssignMoves DEF End
<1>2. SentWith(c)' = <<>>
  BY <1>1 DEF SentWith
<1>3. TokenOwner' = TokenOwner /\ TokenOwner # c
  BY <1>1, SameOwner, Owner
<1>4. CASE SentWith(c) = <<>>
  BY <1>1, <1>2, <1>4, SilentStep
<1>5. CASE SentWith(c) # <<>>
  <2>1. Cache!Done(c)
    BY <1>1, <1>2, <1>3, <1>5, SentByOne DEF Cache!Done, AllSent
  <2> QED
    BY <2>1 DEF CacheStep, Cache!Next
<1> QED
  BY <1>4, <1>5

\* getToken returns the stored token, or goes on to log in.
LEMMA ReadContract ==
  ASSUME TokenInv, TokenInv', BadTokenSafe, NEW c \in Callers, ReadToken(c)
  PROVE  CacheStep
<1>1. /\ call[c].pc = "get" /\ call[c].bad = NoToken
      /\ UNCHANGED <<stored, issued, aged, revoked>>
  BY DEF ReadToken, BadTokenSafe
<1>2. SentWith(c) = <<>> /\ TokenOwner = NoCaller
  BY <1>1, NoOwner DEF SentWith
<1>3. ASSUME Cached, Go(c, "send", stored) PROVE CacheStep
  <2>1. Moves(c) /\ call'[c] = [pc |-> "send", token |-> stored, bad |-> NoToken]
    BY <1>1, <1>3, AssignMoves DEF Go
  <2>2. SentWith(c)' = Append(SentWith(c), stored)
    BY <1>1, <1>2, <2>1 DEF SentWith
  <2>3. TokenOwner' = TokenOwner
    BY <1>1, <2>1, SameOwner
  <2>4. Cache!HandCached(c)
    BY <1>1, <1>2, <1>3, <2>1, <2>2, <2>3, SentByOne
       DEF Cache!HandCached, Cache!SendWith, AllSent, Cached
  <2> QED
    BY <2>4 DEF CacheStep, Cache!Next
<1>4. ASSUME Go(c, "login", NoToken) PROVE CacheStep
  <2>1. Moves(c) /\ call'[c] = [pc |-> "login", token |-> NoToken, bad |-> NoToken]
    BY <1>1, <1>4, AssignMoves DEF Go
  <2>2. SentWith(c)' = SentWith(c)
    BY <1>2, <2>1 DEF SentWith
  <2> QED
    BY <1>1, <2>1, <2>2, SilentStep
<1> QED
  BY <1>3, <1>4 DEF ReadToken

\* Viettel issues a token for c, whose request was not sent yet or refused.
LEMMA LoginContract ==
  ASSUME TokenInv, TokenInv', BadRefused, NEW c \in Callers, Login(c)
  PROVE  CacheStep
<1>1. /\ call[c].pc = "login"
      /\ issued' = issued + 1 /\ UNCHANGED <<stored, aged, revoked>>
  BY DEF Login
<1>2. Moves(c) /\ call'[c] = [pc |-> "save", token |-> issued + 1, bad |-> call[c].bad]
  BY AssignMoves DEF Login, Go
<1>3. TokenOwner = NoCaller /\ TokenOwner' = c
  BY <1>1, <1>2, NoOwner, OwnerAfter
<1>4. SentWith(c) = <<>> \/ \E t \in revoked : SentWith(c) = <<t>>
  BY <1>1 DEF SentWith, BadRefused
<1>5. SentWith(c)' = SentWith(c)
  BY <1>1, <1>2 DEF SentWith
<1>6. AllSent' = AllSent
  BY <1>2, <1>5, SentByOne DEF AllSent
<1>7. Cache!Issue(c)
  BY <1>1, <1>3, <1>4, <1>6 DEF Cache!Issue, AllSent
<1> QED
  BY <1>7 DEF CacheStep, Cache!Next

\* The token is stored, or not, and c's request is sent with it.
LEMMA SaveContract ==
  ASSUME TokenInv, TokenInv', NEW c \in Callers, SaveToken(c)
  PROVE  CacheStep
<1>1. /\ call[c].pc = "save" /\ call[c].token = issued
      /\ stored' \in {stored, issued} /\ UNCHANGED <<issued, aged, revoked>>
  BY DEF SaveToken, TokenInv, SavesNewest
<1>2. Moves(c) /\ call'[c] = [pc |-> "send", token |-> issued, bad |-> call[c].bad]
  BY <1>1, AssignMoves DEF SaveToken, Go
<1>3. TokenOwner = c
  BY <1>1, Owner
<1>4. TokenOwner' = NoCaller
  <2>1. \A d \in Callers : call'[d].pc # "save"
    BY <1>1, <1>2, Counters DEF Moves
  <2> QED
    BY <2>1, OwnerAfter
<1>5. SentWith(c)' = Append(SentWith(c), issued)
  BY <1>1, <1>2 DEF SentWith
<1>6. Cache!HandNewest(c)
  BY <1>1, <1>2, <1>3, <1>4, <1>5, SentByOne
     DEF Cache!HandNewest, Cache!SendWith, AllSent
<1> QED
  BY <1>6 DEF CacheStep, Cache!Next

\* Every step of the client is one of TokenCache, or changes nothing it
\* speaks of.
LEMMA NextContract ==
  ASSUME TokenInv, TokenInv', BadTokenSafe, BadRefused, [TokenNext]_tokenVars
  PROVE  CacheStep
<1>1. ASSUME NEW c \in Callers, Begin(c) \/ Lock(c) \/ Relock(c) PROVE CacheStep
  <2>1. PICK pc \in {"lock", "get", "login"} : Go(c, pc, NoToken)
    BY <1>1 DEF Begin, Lock, Relock
  <2>2. Moves(c) /\ call'[c] = [pc |-> pc, token |-> NoToken, bad |-> call[c].bad]
    BY <2>1, AssignMoves DEF Go
  <2>3. call[c].pc \in {"idle", "lock", "relock"} /\ UNCHANGED <<stored, issued, aged, revoked>>
    BY <1>1 DEF Begin, Lock, Relock
  <2>4. SentWith(c)' = SentWith(c)
    BY <2>2, <2>3 DEF SentWith
  <2> QED
    BY <2>2, <2>3, <2>4, SilentStep
<1>2. ASSUME NEW c \in Callers, LoginFailed(c) \/ Answered(c) PROVE CacheStep
  BY <1>2, DoneStep DEF LoginFailed, Answered
<1>3. ASSUME NEW c \in Callers, Unauthorized(c) PROVE CacheStep
  <2> DEFINE new == [pc |-> "relock", token |-> NoToken, bad |-> call[c].token]
  <2>0. call' = [call EXCEPT ![c] = new]
    BY <1>3 DEF Unauthorized
  <2> HIDE DEF new
  <2>1. Moves(c) /\ call'[c] = new
    BY <2>0, AssignMoves
  <2>2. call[c].pc = "send" /\ call[c].bad = NoToken /\ call[c].token # NoToken
        /\ UNCHANGED <<stored, issued, aged, revoked>>
    BY <1>3 DEF Unauthorized, TokenInv, TokenTypeOK
  <2>3. SentWith(c)' = SentWith(c) /\ new.pc # "save"
    BY <2>1, <2>2 DEF SentWith, new
  <2> QED
    BY <2>1, <2>2, <2>3, SilentStep
<1>4. ASSUME UNCHANGED <<lock, call>> PROVE AllSent' = AllSent /\ TokenOwner' = TokenOwner
  BY <1>4 DEF AllSent, SentWith, TokenOwner
<1>5. ASSUME NEW t \in 1..MaxTokens, Age(t) \/ Revoke(t) PROVE CacheStep
  <2>1. t \in 1..issued /\ (Cache!Age(t) \/ Cache!Revoke(t))
    BY <1>4, <1>5 DEF Age, Revoke, Cache!Age, Cache!Revoke, AllSent
  <2> QED
    BY <2>1 DEF CacheStep, Cache!Next
<1>6. CASE UNCHANGED tokenVars
  BY <1>4, <1>6 DEF tokenVars, CacheStep, Cache!cacheVars, AllSent
<1> QED
  BY <1>1, <1>2, <1>3, <1>5, <1>6, ReadContract, LoginContract, SaveContract
     DEF TokenNext, Continues

\* However the requests interleave, age and lose their tokens, and whichever
\* calls fail, getToken and the retry after a 401 do what TokenCache promises.
THEOREM ClientImplementsCache == TokenSpec => ImplementsTokenCache
<1>1. TokenInit => BadTokenSafe /\ BadRefused
  BY DEF TokenInit, BadTokenSafe, BadRefused
<1>2. TokenInit => Cache!Init
  <2> SUFFICES ASSUME TokenInit PROVE Cache!Init
    OBVIOUS
  <2>1. TokenOwner = NoCaller
    BY DEF TokenInit, TokenOwner
  <2>2. [c \in Callers |-> SentWith(c)] = [c \in Callers |-> <<>>]
    BY DEF TokenInit, SentWith
  <2> QED
    BY <2>1, <2>2 DEF TokenInit, Cache!Init
<1>3. TokenInv /\ TokenInv' /\ BadTokenSafe /\ BadRefused /\ [TokenNext]_tokenVars
      => [Cache!Next]_Cache!cacheVars
  BY NextContract DEF CacheStep
<1> QED
  BY <1>1, <1>2, <1>3, TokenInvInit, TokenInvNext, BadTokenNext, BadRefusedNext, PTL
     DEF TokenSpec, ImplementsTokenCache, Cache!Spec
=============================================================================
