------------------------------ MODULE TokenCache ------------------------------
(***************************************************************************)
(* What the client promises about the access token, whoever shares it and  *)
(* whatever call fails: a request is sent with the cached token while that *)
(* is still good, or with the newest one Viettel has issued; at most twice,*)
(* the second time only after its first token was refused and only with a  *)
(* token issued for it since; and Viettel is not asked for another token   *)
(* before the last one is in use.                                          *)
(*                                                                         *)
(* It does not promise that the newest token is cached: storing it may     *)
(* fail, and the request is sent with it all the same.                     *)
(***************************************************************************)
EXTENDS Integers, Sequences

CONSTANTS Callers, NoCaller

VARIABLES cache,    \* the token kept for the requests to come, 0 for none
          newest,   \* the last token issued
          aged,     \* tokens too close to their expiry to be handed out
          revoked,  \* tokens that are refused
          owner,    \* the request the last token was issued for, until it is used
          sent      \* sent[c]: the tokens c's request was sent with, in order

cacheVars == <<cache, newest, aged, revoked, owner, sent>>

Init == /\ cache = 0 /\ newest = 0
        /\ aged = {} /\ revoked = {}
        /\ owner = NoCaller
        /\ sent = [c \in Callers |-> <<>>]

\* c's request is sent with t.
SendWith(c, t) == sent' = [sent EXCEPT ![c] = Append(sent[c], t)]

HandCached(c) == /\ sent[c] = <<>>
                 /\ owner = NoCaller
                 /\ cache # 0 /\ cache \notin aged
                 /\ SendWith(c, cache)
                 /\ UNCHANGED <<cache, newest, aged, revoked, owner>>

Issue(c) == /\ sent[c] = <<>> \/ \E t \in revoked : sent[c] = <<t>>
            /\ owner = NoCaller
            /\ owner' = c
            /\ newest' = newest + 1
            /\ UNCHANGED <<cache, aged, revoked, sent>>

HandNewest(c) == /\ owner = c
                 /\ owner' = NoCaller
                 /\ SendWith(c, newest)
                 /\ cache' \in {cache, newest}
                 /\ UNCHANGED <<newest, aged, revoked>>

Done(c) == /\ sent[c] # <<>>
           /\ owner # c
           /\ sent' = [sent EXCEPT ![c] = <<>>]
           /\ UNCHANGED <<cache, newest, aged, revoked, owner>>

\* Time passes, and Viettel stops accepting a token.
Age(t) == /\ aged' = aged \cup {t}
          /\ UNCHANGED <<cache, newest, revoked, owner, sent>>
Revoke(t) == /\ revoked' = revoked \cup {t}
             /\ UNCHANGED <<cache, newest, aged, owner, sent>>

Next == \/ \E c \in Callers : HandCached(c) \/ Issue(c) \/ HandNewest(c) \/ Done(c)
        \/ \E t \in 1..newest : Age(t) \/ Revoke(t)

Spec == Init /\ [][Next]_cacheVars
=============================================================================
