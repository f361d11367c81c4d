-------------------------- MODULE UserTokenProofs --------------------------
(* What holds of UserToken for every number of reviews and of grants.         *)
EXTENDS UserToken, TLAPS

Granted == 1 .. granted

\* A review holds a new token from the trade until it is stored or lost.
FreshWhileStoring == \A r \in Reviews : fresh[r] # None <=> pc[r] = "store"

\* Only what has been granted is anywhere, only what was stored is used.
Provenance ==
  /\ spent \subseteq kept /\ kept \subseteq Granted /\ lost \subseteq Granted
  /\ sent \in kept \cup {None} /\ stored \in kept \cup {None}
  /\ \A r \in Reviews : token[r] \in kept \cup {None}

\* Whoever holds a token that is not stored holds it alone.
HeldAlone ==
  /\ logins \subseteq Granted \ kept
  /\ \A r \in Reviews : fresh[r] # None => fresh[r] \in Granted \ (kept \cup logins)
  /\ \A r, q \in Reviews : fresh[r] # None /\ fresh[r] = fresh[q] => r = q

IInv ==
  /\ TypeOK /\ FreshWhileStoring /\ Provenance /\ HeldAlone /\ SpentHasSuccessor

-----------------------------------------------------------------------------
\* It holds when the program starts for the first time.
LEMMA InitInv == Init => IInv
  BY UserTokenAssumption
  DEF Init, IInv, TypeOK, FreshWhileStoring, Provenance, HeldAlone, SpentHasSuccessor,
      Granted, InHand, Tokens

\* The successor of a spent token that is stored stays in hand, or is lost.
LEMMA SuccessorStays ==
  ASSUME SpentHasSuccessor, stored' = stored, spent' = spent,
         \A t \in InHand \cup lost : from'[t] = from[t],
         InHand \cup lost \subseteq InHand' \cup lost'
  PROVE  SpentHasSuccessor'
  BY DEF SpentHasSuccessor

\* A grant: the new token is nowhere yet, and no other one changes its origin.
LEMMA GrantIsNew ==
  ASSUME IInv, NEW t \in Tokens \cup {None}, Grant(t)
  PROVE  /\ granted + 1 \in Tokens \ Granted /\ granted' \in 0 .. MaxTokens
         /\ Granted' = Granted \cup {granted + 1}
         /\ from' \in [Tokens -> Tokens \cup {None}] /\ from'[granted + 1] = t
         /\ \A u \in Granted : from'[u] = from[u]
         /\ InHand \cup lost \subseteq Granted
<1>1. granted \in Nat /\ granted < MaxTokens /\ granted' = granted + 1
  BY UserTokenAssumption DEF IInv, TypeOK, Grant
<1>2. granted + 1 \in Tokens \ Granted /\ Granted' = Granted \cup {granted + 1}
      /\ granted' \in 0 .. MaxTokens
  BY <1>1, UserTokenAssumption DEF Granted, Tokens
<1>3. InHand \cup lost \subseteq Granted
  BY DEF IInv, Provenance, HeldAlone, InHand
<1> QED BY <1>1, <1>2, <1>3 DEF IInv, TypeOK, Grant

\* A review that has nothing to store may end at any time.
LEMMA EndWithoutFresh ==
  ASSUME IInv, NEW r \in Reviews, pc[r] # "store", End(r),
         UNCHANGED <<github, stored, logins, lost, kept, sent>>
  PROVE  IInv'
<1>1. fresh' = fresh
  BY DEF IInv, TypeOK, FreshWhileStoring, End
<1> QED BY <1>1 DEF IInv, TypeOK, FreshWhileStoring, Provenance, HeldAlone,
                    SpentHasSuccessor, Granted, InHand, End, github

\* Every step keeps the invariant.
LEMMA NextInv ==
  ASSUME IInv, [Next]_vars
  PROVE  IInv'
<1> USE UserTokenAssumption
<1>1. CASE UNCHANGED vars
  BY <1>1 DEF IInv, TypeOK, FreshWhileStoring, Provenance, HeldAlone, SpentHasSuccessor,
              Granted, InHand, vars, github, review
<1>2. CASE DeviceAccessToken
  <2>1. /\ granted + 1 \in Tokens \ Granted /\ granted' \in 0 .. MaxTokens
        /\ Granted' = Granted \cup {granted + 1}
        /\ from' \in [Tokens -> Tokens \cup {None}]
        /\ \A u \in Granted : from'[u] = from[u]
        /\ InHand \cup lost \subseteq Granted
    BY <1>2, GrantIsNew DEF DeviceAccessToken
  <2>2. /\ logins' = logins \cup {granted + 1} /\ spent' = spent
        /\ UNCHANGED <<expired, revoked, stored, review, lost, kept, sent>>
    BY <1>2 DEF DeviceAccessToken, Grant
  <2>3. TypeOK'
    BY <2>1, <2>2 DEF IInv, TypeOK, review
  <2>4. FreshWhileStoring' /\ Provenance' /\ HeldAlone'
    BY <2>1, <2>2 DEF IInv, FreshWhileStoring, Provenance, HeldAlone, review, InHand, Tokens
  <2>5. SpentHasSuccessor'
    BY <2>1, <2>2, SuccessorStays DEF IInv, InHand, review
  <2> QED BY <2>3, <2>4, <2>5 DEF IInv
<1>3. ASSUME NEW t \in Tokens, StoreLogin(t) PROVE IInv'
  <2>1. /\ t \in logins /\ logins' = logins \ {t} /\ UNCHANGED <<github, review, sent>>
        /\ \/ Keep(t) /\ UNCHANGED lost
           \/ lost' = lost \cup {t} /\ UNCHANGED <<stored, kept>>
    BY <1>3 DEF StoreLogin
  <2>2. TypeOK' /\ FreshWhileStoring'
    BY <2>1 DEF IInv, TypeOK, FreshWhileStoring, Keep, github, review
  <2>3. t \in Granted \ kept /\ Granted' = Granted
    BY <2>1 DEF IInv, HeldAlone, Granted, github
  <2>4. Provenance'
    BY <2>1, <2>3 DEF IInv, Provenance, Keep, github, review
  <2>5. HeldAlone'
    <3>1. fresh' = fresh /\ logins' = logins \ {t} /\ kept' \subseteq kept \cup {t}
      BY <2>1 DEF Keep, review
    <3> QED BY <2>1, <2>3, <3>1 DEF IInv, HeldAlone
  <2>6. SpentHasSuccessor'
    <3>1. CASE Keep(t)
      BY <2>1, <3>1 DEF IInv, Provenance, HeldAlone, SpentHasSuccessor, Keep, github
    <3>2. CASE lost' = lost \cup {t} /\ UNCHANGED <<stored, kept>>
      BY <2>1, <3>2, SuccessorStays DEF IInv, InHand, github, review
    <3> QED BY <2>1, <3>1, <3>2
  <2> QED BY <2>2, <2>4, <2>5, <2>6 DEF IInv
<1>4. CASE Revoke
  BY <1>4 DEF Revoke, IInv, TypeOK, FreshWhileStoring, Provenance, HeldAlone,
              SpentHasSuccessor, Granted, InHand, review, Tokens
<1>5. CASE Crash
  <2>1. /\ lost' = (lost \cup logins \cup {fresh[r] : r \in Reviews}) \ {None}
        /\ logins' = {} /\ pc' = [r \in Reviews |-> "idle"]
        /\ token' = [r \in Reviews |-> None] /\ fresh' = [r \in Reviews |-> None]
        /\ UNCHANGED <<github, stored, kept, sent>>
    BY <1>5 DEF Crash
  <2>2. lost' \subseteq Granted /\ InHand \cup lost \subseteq lost'
    <3>1. \A t \in lost' : t \in lost \cup logins \cup InHand
      BY <2>1 DEF InHand
    <3>2. None \notin Tokens
      BY DEF Tokens
    <3>3. InHand \cup lost \subseteq lost'
      BY <2>1, <3>2 DEF InHand, IInv, TypeOK
    <3> QED BY <3>1, <3>3 DEF IInv, Provenance, HeldAlone, InHand
  <2>3. Granted' = Granted /\ Granted \subseteq Tokens
    BY <2>1 DEF Granted, github, IInv, TypeOK, Tokens
  <2>4. TypeOK'
    BY <2>1, <2>2, <2>3 DEF IInv, TypeOK, github
  <2>5. FreshWhileStoring' /\ HeldAlone'
    BY <2>1 DEF FreshWhileStoring, HeldAlone
  <2>6. Provenance'
    BY <2>1, <2>2, <2>3 DEF IInv, Provenance, github
  <2>7. SpentHasSuccessor'
    BY <2>1, <2>2, SuccessorStays DEF IInv, github
  <2> QED BY <2>4, <2>5, <2>6, <2>7 DEF IInv
<1>6. ASSUME NEW t \in Tokens, Expire(t) PROVE IInv'
  BY <1>6 DEF Expire, IInv, TypeOK, FreshWhileStoring, Provenance, HeldAlone,
              SpentHasSuccessor, Granted, InHand, review
<1>7. ASSUME NEW r \in Reviews, TokenSourceFrom(r) PROVE IInv'
  <2>1. /\ pc' = [pc EXCEPT ![r] = "review"] /\ pc[r] = "idle"
        /\ token' = [token EXCEPT ![r] = stored] \/ token' = token
        /\ UNCHANGED <<github, stored, logins, fresh, lost, kept, sent>>
    BY <1>7 DEF TokenSourceFrom
  <2>2. TypeOK' /\ FreshWhileStoring' /\ Provenance' /\ HeldAlone'
    BY <2>1 DEF IInv, TypeOK, FreshWhileStoring, Provenance, HeldAlone, Granted, github
  <2>3. SpentHasSuccessor'
    BY <2>1, SuccessorStays DEF IInv, InHand, github
  <2> QED BY <2>2, <2>3 DEF IInv
<1>8. ASSUME NEW r \in Reviews, Refresh(r) PROVE IInv'
  <2>1. /\ pc[r] = "review" /\ Usable(token[r]) /\ Grant(token[r])
        /\ UNCHANGED <<expired, revoked, stored, logins, kept, sent>>
    BY <1>8 DEF Refresh
  <2>2. token[r] \in Tokens \cap kept /\ fresh[r] = None
    BY <2>1 DEF IInv, TypeOK, Provenance, Usable, FreshWhileStoring
  <2>3. /\ granted + 1 \in Tokens \ Granted /\ granted' \in 0 .. MaxTokens
        /\ Granted' = Granted \cup {granted + 1}
        /\ from' \in [Tokens -> Tokens \cup {None}] /\ from'[granted + 1] = token[r]
        /\ \A u \in Granted : from'[u] = from[u]
        /\ InHand \cup lost \subseteq Granted
    BY <2>1, <2>2, GrantIsNew
  <2>4. spent' = spent \cup {token[r]}
    BY <2>1, <2>2 DEF Grant, Tokens
  <2>5. \/ /\ fresh' = [fresh EXCEPT ![r] = granted + 1] /\ pc' = [pc EXCEPT ![r] = "store"]
           /\ UNCHANGED <<token, lost>>
        \/ End(r) /\ lost' = lost \cup {granted + 1}
    BY <1>8 DEF Refresh
  <2>6. TypeOK'
    BY <2>1, <2>2, <2>3, <2>4, <2>5 DEF IInv, TypeOK, End
  <2>7. FreshWhileStoring' /\ Provenance'
    <3>1. FreshWhileStoring'
      BY <2>3, <2>5 DEF IInv, TypeOK, FreshWhileStoring, End, Tokens
    <3>2. \A q \in Reviews : token'[q] \in {token[q], None}
      BY <2>5 DEF IInv, TypeOK, End
    <3>3. lost' \subseteq lost \cup {granted + 1}
      BY <2>5
    <3> QED BY <2>1, <2>2, <2>3, <2>4, <3>1, <3>2, <3>3 DEF IInv, Provenance
  <2>8. HeldAlone'
    <3>1. \A q \in Reviews : fresh'[q] = fresh[q] \/ (q = r /\ fresh'[q] \in {granted + 1, None})
      BY <2>5 DEF IInv, TypeOK, End
    <3>2. granted + 1 \notin kept \cup logins
      BY <2>3 DEF IInv, Provenance, HeldAlone, Tokens
    <3>3. \A q \in Reviews : fresh[q] # granted + 1
      BY <2>3 DEF IInv, HeldAlone, Tokens
    <3> QED BY <2>1, <2>3, <3>1, <3>2, <3>3 DEF IInv, HeldAlone
  <2>9. SpentHasSuccessor'
    <3>1. granted + 1 \in InHand' \cup lost' /\ InHand \cup lost \subseteq InHand' \cup lost'
      BY <2>2, <2>3, <2>5 DEF IInv, TypeOK, InHand, End, Tokens
    <3>2. CASE stored = token[r]
      BY <2>1, <2>3, <3>1, <3>2 DEF SpentHasSuccessor
    <3>3. CASE stored # token[r] /\ stored \in spent
      <4>1. PICK u \in InHand \cup lost : from[u] = stored
        BY <3>3 DEF IInv, SpentHasSuccessor
      <4> QED BY <4>1, <2>1, <2>3, <3>1 DEF SpentHasSuccessor
    <3>4. CASE stored # token[r] /\ stored \notin spent
      BY <2>1, <2>4, <3>4 DEF SpentHasSuccessor
    <3> QED BY <3>2, <3>3, <3>4
  <2> QED BY <2>6, <2>7, <2>8, <2>9 DEF IInv
<1>9. ASSUME NEW r \in Reviews, StoreToken(r) PROVE IInv'
  <2>1. /\ pc[r] = "store" /\ UNCHANGED <<github, logins, sent>>
        /\ \/ /\ Keep(fresh[r]) /\ pc' = [pc EXCEPT ![r] = "call"]
              /\ token' = [token EXCEPT ![r] = fresh[r]]
              /\ fresh' = [fresh EXCEPT ![r] = None] /\ UNCHANGED lost
           \/ Keep(fresh[r]) /\ End(r) /\ UNCHANGED lost
           \/ End(r) /\ lost' = lost \cup {fresh[r]} /\ UNCHANGED <<stored, kept>>
    BY <1>9 DEF StoreToken
  <2>2. fresh[r] \in Granted \ kept /\ fresh[r] \in Tokens /\ fresh[r] # None
    BY <2>1 DEF IInv, TypeOK, FreshWhileStoring, HeldAlone
  <2>3. TypeOK'
    BY <2>1, <2>2 DEF IInv, TypeOK, End, Keep, github
  <2>4. FreshWhileStoring' /\ Provenance'
    <3>1. FreshWhileStoring'
      BY <2>1, <2>2 DEF IInv, TypeOK, FreshWhileStoring, End
    <3>2. Granted' = Granted /\ spent' = spent /\ sent' = sent
      BY <2>1 DEF Granted, github
    <3>3. \A q \in Reviews : token'[q] \in {token[q], None} \/ (token'[q] = fresh[r] /\ Keep(fresh[r]))
      BY <2>1 DEF IInv, TypeOK, End
    <3>4. /\ (stored' = stored /\ kept' = kept) \/ Keep(fresh[r])
          /\ lost' \subseteq lost \cup {fresh[r]}
      BY <2>1
    <3>5. Provenance'
      BY <2>2, <3>2, <3>3, <3>4 DEF IInv, Provenance, Keep
    <3> QED BY <3>1, <3>5
  <2>5. HeldAlone'
    <3>1. fresh' = [fresh EXCEPT ![r] = None] /\ kept \subseteq kept'
          /\ kept' \subseteq kept \cup {fresh[r]}
      BY <2>1 DEF End, Keep
    <3>2. Granted' = Granted /\ logins' = logins
      BY <2>1 DEF Granted, github
    <3> QED BY <2>2, <3>1, <3>2 DEF IInv, TypeOK, HeldAlone
  <2>6. SpentHasSuccessor'
    <3>1. CASE Keep(fresh[r])
      BY <2>1, <2>2, <3>1 DEF IInv, Provenance, SpentHasSuccessor, Keep, github
    <3>2. CASE End(r) /\ lost' = lost \cup {fresh[r]} /\ UNCHANGED <<stored, kept>>
      <4>1. InHand \cup lost \subseteq InHand' \cup lost'
        BY <3>2 DEF IInv, TypeOK, InHand, End
      <4> QED BY <4>1, <2>1, <3>2, SuccessorStays DEF IInv, github
    <3> QED BY <2>1, <3>1, <3>2
  <2> QED BY <2>3, <2>4, <2>5, <2>6 DEF IInv
<1>10. ASSUME NEW r \in Reviews, RefreshRefused(r) \/ Leave(r) PROVE IInv'
  <2>1. pc[r] = "review" /\ End(r) /\ UNCHANGED <<github, stored, logins, lost, kept, sent>>
    BY <1>10 DEF RefreshRefused, Leave
  <2> QED BY <2>1, EndWithoutFresh DEF github
<1>11. ASSUME NEW r \in Reviews, Call(r) PROVE IInv'
  <2>1. pc[r] # "store" /\ UNCHANGED <<github, stored, logins, lost, kept>>
    BY <1>11 DEF Call
  <2>2. CASE End(r) /\ UNCHANGED sent
    BY <2>1, <2>2, EndWithoutFresh DEF github
  <2>3. CASE /\ Usable(token[r]) /\ sent' = token[r]
             /\ pc' = [pc EXCEPT ![r] = "review"] /\ UNCHANGED <<token, fresh>>
    BY <2>1, <2>3 DEF IInv, TypeOK, FreshWhileStoring, Provenance, HeldAlone,
                      SpentHasSuccessor, Granted, InHand, Usable, github
  <2> QED BY <1>11, <2>2, <2>3 DEF Call
<1> QED BY <1>1, <1>2, <1>3, <1>4, <1>5, <1>6, <1>7, <1>8, <1>9, <1>10, <1>11 DEF Next, Step

\* The invariant from which the rest follows.
THEOREM Invariance == Spec => []IInv
<1>1. Init => IInv
  BY InitInv
<1>2. IInv /\ [Next]_vars => IInv'
  BY NextInv
<1> QED BY <1>1, <1>2, PTL DEF Spec

-----------------------------------------------------------------------------
(* What follows from it                                                       *)

\* The variables keep their types, whatever order the reviews, the logins and
\* the crashes come in.
THEOREM TypeCorrect == Spec => []TypeOK
<1>1. IInv => TypeOK
  BY DEF IInv
<1> QED BY <1>1, Invariance, PTL

\* A traded token stays in the token service only while its successor is in
\* the hands of a review, or when it was lost.
THEOREM NotStranded == Spec => []SpentHasSuccessor
<1>1. IInv => SpentHasSuccessor
  BY DEF IInv
<1> QED BY <1>1, Invariance, PTL

\* A review uses only tokens that the token service was given before.
THEOREM StoredFirst == Spec => []SentOnlyStored
<1>1. IInv => SentOnlyStored
  BY DEF IInv, Provenance, SentOnlyStored
<1> QED BY <1>1, Invariance, PTL

\* No review and no login gives the token service a token that was traded.
THEOREM NeverBack == Spec => StoreNeverGoesBack
<1>1. IInv /\ [Next]_vars => [stored' # stored => stored' \notin spent]_vars
  <2> SUFFICES ASSUME IInv, Next, stored' # stored
               PROVE  stored' \notin spent
    BY DEF vars
  <2>1. ASSUME NEW t \in Tokens, StoreLogin(t) PROVE stored' \notin spent
    BY <2>1 DEF StoreLogin, Keep, IInv, HeldAlone, Provenance
  <2>2. ASSUME NEW r \in Reviews, StoreToken(r) PROVE stored' \notin spent
    <3>1. pc[r] = "store" /\ Keep(fresh[r])
      BY <2>2 DEF StoreToken
    <3> QED BY <3>1 DEF Keep, IInv, FreshWhileStoring, HeldAlone, Provenance
  <2>3. (\E t \in Tokens : StoreLogin(t)) \/ \E r \in Reviews : StoreToken(r)
    BY DEF Next, Step, DeviceAccessToken, Revoke, Crash, Expire, TokenSourceFrom,
           Refresh, RefreshRefused, Call, Leave
  <2> QED BY <2>1, <2>2, <2>3
<1> QED BY <1>1, Invariance, PTL DEF Spec, StoreNeverGoesBack
=============================================================================
