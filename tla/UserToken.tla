----------------------------- MODULE UserToken -----------------------------
(* The approver's user token (oauth2/token.go): every review fetches it from   *)
(* the token service when it starts, trades it for a new one when it has      *)
(* expired, and puts the new one back.  A refresh token is good for one trade. *)
(* Reviews of several repositories run at once with the token of one approver; *)
(* the queue only keeps those of one repository apart.                        *)
(*                                                                            *)
(* A request of the dashboard uses the token of its user the same way, so that *)
(* Reviews stands for these too: its browser may hang up between two steps.   *)
(*                                                                            *)
(* A token is the number of its grant and stands for the access token and the *)
(* refresh token of that grant.  The token service is a register.  A review   *)
(* asks for a token to update the branch and to approve; the calls are not    *)
(* counted here.                                                              *)
EXTENDS Naturals, FiniteSets

CONSTANTS Reviews, None,
          MaxTokens        \* bound on the grants

ASSUME UserTokenAssumption == MaxTokens \in Nat /\ None \notin Nat

Tokens == 1 .. MaxTokens

VARIABLES granted,    \* tokens GitHub has granted
          from,       \* the token it was traded for, None for one of a login
          expired,    \* no longer valid by their expiry
          spent,      \* traded for another one
          revoked,    \* the user has revoked the authorisation
          stored,     \* what the token service has for the approver
          logins,     \* device flows hold these and have not stored them yet
          pc, token,  \* of a review: the next step, the token of its client
          fresh,      \* the token it has got and not stored yet
          lost,       \* history: granted, and dropped before they were stored
          kept, sent  \* history: tokens that were stored; the last one used in a call
github == <<granted, from, expired, spent, revoked>>
review == <<pc, token, fresh>>
vars   == <<github, stored, logins, review, lost, kept, sent>>

-----------------------------------------------------------------------------
(* Steps that several operations take                                         *)

\* GitHub grants a token in exchange for t.
Grant(t) ==
  /\ granted < MaxTokens /\ granted' = granted + 1
  /\ from' = [from EXCEPT ![granted + 1] = t]
  /\ spent' = IF t = None THEN spent ELSE spent \cup {t}

Keep(t) == stored' = t /\ kept' = kept \cup {t}

End(r) ==
  /\ pc' = [pc EXCEPT ![r] = "idle"] /\ token' = [token EXCEPT ![r] = None]
  /\ fresh' = [fresh EXCEPT ![r] = None]

Usable(t) == t \notin spent \cup revoked \cup {None}

-----------------------------------------------------------------------------
(* Plausible bugs: a failed retrieval is forgotten, the plain token source of *)
(* the library is used, a failed store is only logged, the token that was     *)
(* retrieved is stored, the token is compared with itself before it is stored. *)

TokenSourceFromUnchecked(r) ==
  /\ pc[r] = "idle" /\ token' = [token EXCEPT ![r] = stored]
  /\ pc' = [pc EXCEPT ![r] = IF stored = None THEN "nil" ELSE "review"]
  /\ UNCHANGED <<github, stored, logins, fresh, lost, kept, sent>>

RefreshPlain(r) ==
  /\ pc[r] = "review" /\ token[r] \in expired /\ Usable(token[r])
  /\ Grant(token[r]) /\ token' = [token EXCEPT ![r] = granted + 1]
  /\ UNCHANGED <<expired, revoked, stored, logins, pc, fresh, lost, kept, sent>>

StoreTokenOrLog(r) ==
  /\ pc[r] = "store" /\ pc' = [pc EXCEPT ![r] = "call"]
  /\ token' = [token EXCEPT ![r] = fresh[r]] /\ fresh' = [fresh EXCEPT ![r] = None]
  /\ \/ Keep(fresh[r]) /\ UNCHANGED lost
     \/ lost' = lost \cup {fresh[r]} /\ UNCHANGED <<stored, kept>>
  /\ UNCHANGED <<github, logins, sent>>

StoreRetrieved(r) ==
  /\ pc[r] = "store" /\ Keep(token[r])
  /\ pc' = [pc EXCEPT ![r] = "call"]
  /\ token' = [token EXCEPT ![r] = fresh[r]] /\ fresh' = [fresh EXCEPT ![r] = None]
  /\ UNCHANGED <<github, logins, lost, sent>>

StoreNothing(r) ==
  /\ pc[r] = "store" /\ pc' = [pc EXCEPT ![r] = "call"]
  /\ token' = [token EXCEPT ![r] = fresh[r]] /\ fresh' = [fresh EXCEPT ![r] = None]
  /\ UNCHANGED <<github, stored, logins, lost, kept, sent>>

-----------------------------------------------------------------------------
(* The approver logs in on the setup page                                     *)

\* One flow for every request of the page, in a goroutine of its own.
DeviceAccessToken ==
  /\ Grant(None) /\ logins' = logins \cup {granted + 1}
  /\ UNCHANGED <<expired, revoked, stored, review, lost, kept, sent>>

\* Looking up the user or storing the token may fail.
StoreLogin(t) ==
  /\ t \in logins /\ logins' = logins \ {t}
  /\ \/ Keep(t) /\ UNCHANGED lost
     \/ lost' = lost \cup {t} /\ UNCHANGED <<stored, kept>>
  /\ UNCHANGED <<github, review, sent>>

\* AppHandler gets the event, and has neither the address of the token service
\* nor a way to authenticate: its RevokeToken never reaches the service.
Revoke ==
  /\ 1 .. granted \ revoked # {} /\ revoked' = 1 .. granted
  /\ UNCHANGED <<granted, from, expired, spent, stored, logins, review, lost, kept, sent>>

Expire(t) ==
  /\ t \in 1 .. granted \ expired /\ expired' = expired \cup {t}
  /\ UNCHANGED <<granted, from, spent, revoked, stored, logins, review, lost, kept, sent>>

-----------------------------------------------------------------------------
(* A review                                                                   *)

\* A failed retrieval gives a client without a token, and the review goes on.
TokenSourceFrom(r) ==
  /\ pc[r] = "idle" /\ pc' = [pc EXCEPT ![r] = "review"]
  /\ \/ token' = [token EXCEPT ![r] = stored]
     \/ UNCHANGED token
  /\ UNCHANGED <<github, stored, logins, fresh, lost, kept, sent>>

\* The expired token is traded.  An answer can be lost on its way back.
Refresh(r) ==
  /\ pc[r] = "review" /\ token[r] \in expired /\ Usable(token[r]) /\ Grant(token[r])
  /\ \/ /\ fresh' = [fresh EXCEPT ![r] = granted + 1] /\ pc' = [pc EXCEPT ![r] = "store"]
        /\ UNCHANGED <<token, lost>>
     \/ End(r) /\ lost' = lost \cup {granted + 1}
  /\ UNCHANGED <<expired, revoked, stored, logins, kept, sent>>

\* Every failure ends the review with an error: the trade is refused, or it
\* does not reach GitHub.
RefreshRefused(r) ==
  /\ pc[r] = "review" /\ token[r] \in expired /\ End(r)
  /\ UNCHANGED <<github, stored, logins, lost, kept, sent>>

\* The token service stores and answers, stores and the answer is lost, or fails.
StoreToken(r) ==
  /\ pc[r] = "store"
  /\ \/ /\ Keep(fresh[r]) /\ pc' = [pc EXCEPT ![r] = "call"]
        /\ token' = [token EXCEPT ![r] = fresh[r]] /\ fresh' = [fresh EXCEPT ![r] = None]
        /\ UNCHANGED lost
     \/ Keep(fresh[r]) /\ End(r) /\ UNCHANGED lost
     \/ End(r) /\ lost' = lost \cup {fresh[r]} /\ UNCHANGED <<stored, kept>>
  /\ UNCHANGED <<github, logins, sent>>

\* The call that a token was asked for; GitHub may refuse it.
Call(r) ==
  /\ \/ pc[r] = "call"
     \/ pc[r] = "review" /\ token[r] \notin expired
  /\ \/ /\ Usable(token[r]) /\ sent' = token[r]
        /\ pc' = [pc EXCEPT ![r] = "review"] /\ UNCHANGED <<token, fresh>>
     \/ End(r) /\ UNCHANGED sent
  /\ UNCHANGED <<github, stored, logins, lost, kept>>

\* The review is over, for whatever reason.
Leave(r) ==
  /\ pc[r] = "review" /\ End(r)
  /\ UNCHANGED <<github, stored, logins, lost, kept, sent>>

\* The program stops and is started again; the token service does not.
Crash ==
  /\ \/ logins # {}
     \/ \E r \in Reviews : pc[r] # "idle"
  /\ lost' = (lost \cup logins \cup {fresh[r] : r \in Reviews}) \ {None}
  /\ logins' = {} /\ pc' = [r \in Reviews |-> "idle"]
  /\ token' = [r \in Reviews |-> None] /\ fresh' = [r \in Reviews |-> None]
  /\ UNCHANGED <<github, stored, kept, sent>>

Init ==
  /\ granted = 0 /\ from = [t \in Tokens |-> None]
  /\ expired = {} /\ spent = {} /\ revoked = {}
  /\ stored = None /\ logins = {}
  /\ pc = [r \in Reviews |-> "idle"]
  /\ token = [r \in Reviews |-> None] /\ fresh = [r \in Reviews |-> None]
  /\ lost = {} /\ kept = {} /\ sent = None

Step(r) == Refresh(r) \/ RefreshRefused(r) \/ StoreToken(r) \/ Call(r) \/ Leave(r)

Next ==
  \/ DeviceAccessToken \/ Revoke \/ Crash
  \/ \E t \in Tokens : StoreLogin(t) \/ Expire(t)
  \/ \E r \in Reviews : TokenSourceFrom(r) \/ Step(r)

Spec == Init /\ [][Next]_vars /\ \A r \in Reviews : WF_vars(Step(r))

-----------------------------------------------------------------------------
(* Properties                                                                 *)

\* The variables have their types.
TypeOK ==
  /\ granted \in 0 .. MaxTokens /\ from \in [Tokens -> Tokens \cup {None}]
  /\ expired \subseteq Tokens /\ spent \subseteq Tokens /\ revoked \subseteq Tokens
  /\ stored \in Tokens \cup {None} /\ logins \subseteq Tokens
  /\ pc \in [Reviews -> {"idle", "review", "store", "call"}]
  /\ token \in [Reviews -> Tokens \cup {None}] /\ fresh \in [Reviews -> Tokens \cup {None}]
  /\ lost \subseteq Tokens /\ kept \subseteq Tokens /\ sent \in Tokens \cup {None}

\* What reviews have got and are about to store.
InHand == {fresh[r] : r \in Reviews} \ {None}

\* The token service has a token that was traded already only while a review
\* is about to store what it got for it, or after that was lost: with a failed
\* StoreToken, a lost answer or a crash.  Two reviews that trade the same
\* token, and one that runs while the user logs in again, do not strand it.
SpentHasSuccessor ==
  stored \in spent => \E t \in InHand \cup lost : from[t] = stored

\* No call is made with a token that was not stored before ("if err :=
\* t.config.StoreToken(token); err != nil { return nil, err }", token.go:225):
\* what GitHub takes for an approval is never known to one review alone.
SentOnlyStored == sent \in kept \cup {None}

\* The token service is never given a token that was traded already, however
\* late a review or a login stores what it has.
StoreNeverGoesBack == [][stored' # stored => stored' \notin spent]_vars

\* A spent token does not stay in the token service, if nothing was lost.
SpentIsReplaced == stored \in spent ~> (stored \notin spent \/ lost # {})
=============================================================================
