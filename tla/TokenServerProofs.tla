-------------------------- MODULE TokenServerProofs -------------------------
(* Theorems about TokenServer, for any number of codes and requests. *)
EXTENDS TokenServer, TLAPS

TokenInv == TypeOK /\ RowsConsistent /\ KickNotLost

\* The state a server starts from.
LEMMA TokenInit == Init => TokenInv
  <1> SUFFICES ASSUME Init PROVE TokenInv
    OBVIOUS
  <1> USE TokenAssumption
  <1>1. TypeOK
    <2>1. /\ issued \subseteq Code /\ viewer \in [Code -> Redeem \cup {NoViewer}]
          /\ shown \in Beat \cup {NoViewer}
          /\ pc \in [Request -> {"new", "checked", "redeemed", "numbered", "read", "updated",
                                 "cleared", "ok", "refused", "failed", "lost"}]
      BY DEF Init
    <2>2. /\ redeemed \in [Code -> BOOLEAN] /\ revoked \in [Code -> BOOLEAN]
          /\ sawKick \in [Beat -> BOOLEAN]
      BY DEF Init
    <2>3. kick \in BOOLEAN /\ owed \in BOOLEAN
      BY DEF Init
    <2>4. /\ session \in [Redeem -> Nat]
          /\ counter \in Nat /\ pos \in [Redeem -> Nat] /\ starts \in 0..MaxRestarts
      BY DEF Init
    <2> QED
      BY <2>1, <2>2, <2>3, <2>4 DEF TypeOK
  <1>2. RowsConsistent
    BY DEF Init, RowsConsistent
  <1>3. KickNotLost
    BY DEF Init, KickNotLost
  <1> QED
    BY <1>1, <1>2, <1>3 DEF TokenInv

\* Moving one request changes no other.
LEMMA ToOther ==
    ASSUME TypeOK, NEW q \in Request, NEW s, To(q, s)
    PROVE  pc'[q] = s /\ \A r \in Request : r # q => pc'[r] = pc[r]
  BY DEF To, TypeOK

\* A request of one kind is not of another.
LEMMA Kinds ==
    /\ Redeem \subseteq Request /\ Revoke \subseteq Request
    /\ Beat \subseteq Request /\ Kick \subseteq Request
    /\ \A b \in Beat : b \notin Redeem \cup Revoke \cup Kick
  BY TokenAssumption DEF Request

\* Every step keeps the rows consistent, and what is redeemed stays redeemed.
LEMMA RowStep ==
    ASSUME TypeOK, RowsConsistent, [Next]_vars
    PROVE  /\ RowsConsistent'
           /\ \A t \in Code : redeemed[t] => redeemed'[t] /\ viewer'[t] = viewer[t]
                                             /\ revoked'[t] = revoked[t]
  <1> USE TokenAssumption
  <1>0. /\ redeemed \in [Code -> BOOLEAN] /\ revoked \in [Code -> BOOLEAN]
        /\ viewer \in [Code -> Redeem \cup {NoViewer}]
    BY DEF TypeOK
  <1>1. CASE UNCHANGED <<redeemed, revoked, viewer>>
    BY <1>1 DEF RowsConsistent
  <1>2. ASSUME NEW r \in Redeem, RedeemUpdate(r)
        PROVE  /\ RowsConsistent'
               /\ \A t \in Code : redeemed[t] => redeemed'[t] /\ viewer'[t] = viewer[t]
                                                 /\ revoked'[t] = revoked[t]
    <2> DEFINE u == CodeOf[r]
    <2>1. u \in Code /\ revoked' = revoked /\ RedeemToken(u, r)
      BY <1>2 DEF RedeemUpdate
    <2>2. CASE redeemed[u] \/ revoked[u]
      BY <2>1, <2>2 DEF RowsConsistent, RedeemToken
    <2>3. CASE ~redeemed[u] /\ ~revoked[u]
      BY <1>0, <2>1, <2>3 DEF RowsConsistent, RedeemToken
    <2> QED
      BY <2>2, <2>3
  <1>3. ASSUME NEW v \in Revoke, RevokeUpdate(v)
        PROVE  /\ RowsConsistent'
               /\ \A t \in Code : redeemed[t] => redeemed'[t] /\ viewer'[t] = viewer[t]
                                                 /\ revoked'[t] = revoked[t]
    <2>1. UNCHANGED <<redeemed, viewer>> /\ RevokeToken(CodeOf[v])
      BY <1>3 DEF RevokeUpdate
    <2> QED
      BY <1>0, <2>1 DEF RowsConsistent, RevokeToken
  <1>4. \/ UNCHANGED <<redeemed, revoked, viewer>>
        \/ \E r \in Redeem : RedeemUpdate(r)
        \/ \E v \in Revoke : RevokeUpdate(v)
    BY DEF Next, vars, tokenVars, IssueToken, RedeemRefused, RedeemCheck, RedeemNext,
           RedeemSession, RevokeRefused, RevokeCheck, KickSet, BeatRead, BeatUpdate,
           BeatClear, BeatRespond, StatementFails, Restart
  <1> QED
    BY <1>1, <1>2, <1>3, <1>4

\* A step keeps the types.
LEMMA TypeStep == TypeOK /\ [Next]_vars => TypeOK'
  <1> SUFFICES ASSUME TypeOK, [Next]_vars PROVE TypeOK'
    OBVIOUS
  <1> USE TokenAssumption, Kinds
  <1>1. CASE UNCHANGED vars
    BY <1>1 DEF TypeOK, vars, tokenVars, queueVars, roomVars
  <1>2. ASSUME NEW t \in Code, IssueToken(t) PROVE TypeOK'
    BY <1>2 DEF TypeOK, IssueToken, queueVars, roomVars
  <1>3. ASSUME NEW r \in Redeem PROVE
          /\ RedeemRefused(r) => TypeOK'
          /\ RedeemCheck(r) => TypeOK'
          /\ RedeemUpdate(r) => TypeOK'
          /\ RedeemNext(r) => TypeOK'
          /\ RedeemSession(r) => TypeOK'
    <2>1. RedeemRefused(r) => TypeOK'
      BY DEF TypeOK, RedeemRefused, To, tokenVars, queueVars, roomVars
    <2>2. RedeemCheck(r) => TypeOK'
      BY DEF TypeOK, RedeemCheck, To, tokenVars, queueVars, roomVars
    <2>3. RedeemUpdate(r) => TypeOK'
      <3> SUFFICES ASSUME RedeemUpdate(r) PROVE TypeOK'
        OBVIOUS
      <3>1. redeemed' \in [Code -> BOOLEAN] /\ viewer' \in [Code -> Redeem \cup {NoViewer}]
        <4>1. /\ CodeOf[r] \in Code /\ redeemed \in [Code -> BOOLEAN]
              /\ viewer \in [Code -> Redeem \cup {NoViewer}]
          BY DEF TypeOK
        <4>2. CASE redeemed[CodeOf[r]] \/ revoked[CodeOf[r]]
          BY <4>1, <4>2 DEF RedeemUpdate, RedeemToken
        <4>3. CASE ~(redeemed[CodeOf[r]] \/ revoked[CodeOf[r]])
          BY <4>1, <4>3 DEF RedeemUpdate, RedeemToken
        <4> QED
          BY <4>2, <4>3
      <3>2. UNCHANGED <<issued, revoked, queueVars, roomVars, starts>> /\ To(r, "redeemed")
        BY DEF RedeemUpdate
      <3> QED
        BY <3>1, <3>2 DEF TypeOK, To, queueVars, roomVars
    <2>4. RedeemNext(r) => TypeOK'
      BY DEF TypeOK, RedeemNext, To, tokenVars, queueVars, roomVars
    <2>5. RedeemSession(r) => TypeOK'
      BY DEF TypeOK, RedeemSession, To, tokenVars, queueVars, roomVars
    <2> QED
      BY <2>1, <2>2, <2>3, <2>4, <2>5
  <1>4. ASSUME NEW v \in Revoke PROVE
          /\ RevokeRefused(v) => TypeOK'
          /\ RevokeCheck(v) => TypeOK'
          /\ RevokeUpdate(v) => TypeOK'
    <2>1. RevokeRefused(v) => TypeOK'
      BY DEF TypeOK, RevokeRefused, To, tokenVars, queueVars, roomVars
    <2>2. RevokeCheck(v) => TypeOK'
      BY DEF TypeOK, RevokeCheck, To, tokenVars, queueVars, roomVars
    <2>3. RevokeUpdate(v) => TypeOK'
      BY DEF TypeOK, RevokeUpdate, RevokeToken, To, tokenVars, queueVars, roomVars
    <2> QED
      BY <2>1, <2>2, <2>3
  <1>5. ASSUME NEW k \in Kick, KickSet(k) PROVE TypeOK'
    BY <1>5 DEF TypeOK, KickSet, To, tokenVars, queueVars
  <1>6. ASSUME NEW b \in Beat PROVE
          /\ BeatRead(b) => TypeOK'
          /\ BeatUpdate(b) => TypeOK'
          /\ BeatClear(b) => TypeOK'
          /\ BeatRespond(b) => TypeOK'
    <2>1. BeatRead(b) => TypeOK'
      BY DEF TypeOK, BeatRead, To, tokenVars, queueVars
    <2>2. BeatUpdate(b) => TypeOK'
      BY DEF TypeOK, BeatUpdate, To, tokenVars, queueVars
    <2>3. BeatClear(b) => TypeOK'
      BY DEF TypeOK, BeatClear, To, tokenVars, queueVars
    <2>4. BeatRespond(b) => TypeOK'
      BY DEF TypeOK, BeatRespond, To, tokenVars, queueVars
    <2> QED
      BY <2>1, <2>2, <2>3, <2>4
  <1>7. ASSUME NEW q \in Request, StatementFails(q) PROVE TypeOK'
    BY <1>7 DEF TypeOK, StatementFails, To, tokenVars, queueVars, roomVars
  <1>8. CASE Restart
    BY <1>8 DEF TypeOK, Restart, tokenVars, roomVars
  <1> QED
    BY <1>1, <1>2, <1>3, <1>4, <1>5, <1>6, <1>7, <1>8 DEF Next

\* A step does not lose a kick.
LEMMA KickStep == TypeOK /\ KickNotLost /\ [Next]_vars => KickNotLost'
  <1> SUFFICES ASSUME TypeOK, KickNotLost, [Next]_vars, owed', ~kick'
               PROVE  \E b \in Beat : sawKick'[b] /\ pc'[b] \in {"cleared", "lost"}
    BY DEF KickNotLost
  <1> USE Kinds
  <1>0. /\ kick \in BOOLEAN /\ owed \in BOOLEAN /\ sawKick \in [Beat -> BOOLEAN]
        /\ kick' \in BOOLEAN
    BY TypeStep DEF TypeOK
  <1>1. CASE /\ UNCHANGED roomVars
             /\ \A b \in Beat : pc[b] \in {"cleared", "lost"} => pc'[b] \in {"cleared", "lost"}
    BY <1>1 DEF KickNotLost, roomVars
  <1>2. ASSUME NEW b \in Beat, BeatRead(b) \/ BeatUpdate(b)
        PROVE  \E x \in Beat : sawKick'[x] /\ pc'[x] \in {"cleared", "lost"}
    <2>1. /\ UNCHANGED <<kick, owed>> /\ pc[b] \in {"new", "read"}
          /\ \A x \in Beat : x # b => sawKick'[x] = sawKick[x] /\ pc'[x] = pc[x]
      BY <1>0, <1>2, ToOther DEF BeatRead, BeatUpdate
    <2>2. PICK x \in Beat : sawKick[x] /\ pc[x] \in {"cleared", "lost"}
      BY <2>1 DEF KickNotLost
    <2> QED
      BY <2>1, <2>2
  <1>3. ASSUME NEW b \in Beat, BeatClear(b)
        PROVE  \E x \in Beat : sawKick'[x] /\ pc'[x] \in {"cleared", "lost"}
    <2>1. /\ UNCHANGED <<sawKick, owed>> /\ pc[b] = "updated" /\ pc'[b] = "cleared"
          /\ \A x \in Beat : x # b => pc'[x] = pc[x]
          /\ kick' = IF sawKick[b] THEN FALSE ELSE kick
      BY <1>3, ToOther DEF BeatClear
    <2>2. CASE sawKick[b]
      BY <2>1, <2>2
    <2>3. CASE ~sawKick[b]
      <3>1. PICK x \in Beat : sawKick[x] /\ pc[x] \in {"cleared", "lost"}
        BY <2>1, <2>3 DEF KickNotLost
      <3> QED
        BY <2>1, <3>1
    <2> QED
      BY <2>2, <2>3
  <1>4. ASSUME NEW b \in Beat, BeatRespond(b)
        PROVE  \E x \in Beat : sawKick'[x] /\ pc'[x] \in {"cleared", "lost"}
    <2>1. /\ UNCHANGED <<sawKick, kick>> /\ ~sawKick[b] /\ owed
          /\ \A x \in Beat : x # b => pc'[x] = pc[x]
      BY <1>4, ToOther DEF BeatRespond
    <2>2. PICK x \in Beat : sawKick[x] /\ pc[x] \in {"cleared", "lost"}
      BY <2>1 DEF KickNotLost
    <2> QED
      BY <2>1, <2>2
  <1>5. ASSUME NEW q \in Request, StatementFails(q)
        PROVE  \A b \in Beat : pc[b] \in {"cleared", "lost"} => pc'[b] \in {"cleared", "lost"}
    BY <1>5, ToOther DEF StatementFails
  <1>6. ASSUME Restart
        PROVE  \A b \in Beat : pc[b] \in {"cleared", "lost"} => pc'[b] \in {"cleared", "lost"}
    BY <1>6 DEF Restart, InFlight, TypeOK
  <1>7. CASE UNCHANGED vars
    BY <1>1, <1>7 DEF vars
  <1>8. ASSUME NEW t \in Code, IssueToken(t) PROVE UNCHANGED <<roomVars, pc>>
    BY <1>8 DEF IssueToken
  <1>9. ASSUME NEW r \in Redeem, \/ RedeemRefused(r) \/ RedeemCheck(r) \/ RedeemUpdate(r)
                                 \/ RedeemNext(r) \/ RedeemSession(r)
        PROVE  UNCHANGED roomVars /\ \A b \in Beat : pc'[b] = pc[b]
    BY <1>9, ToOther DEF RedeemRefused, RedeemCheck, RedeemUpdate, RedeemNext, RedeemSession
  <1>10. ASSUME NEW v \in Revoke, RevokeRefused(v) \/ RevokeCheck(v) \/ RevokeUpdate(v)
         PROVE  UNCHANGED roomVars /\ \A b \in Beat : pc'[b] = pc[b]
    BY <1>10, ToOther DEF RevokeRefused, RevokeCheck, RevokeUpdate
  <1>11. ASSUME NEW k \in Kick, KickSet(k) PROVE FALSE
    BY <1>11 DEF KickSet
  <1>12. ASSUME NEW q \in Request, StatementFails(q) PROVE UNCHANGED roomVars
    BY <1>12 DEF StatementFails
  <1>13. CASE Restart
    BY <1>1, <1>6, <1>13 DEF Restart
  <1> QED
    BY <1>1, <1>2, <1>3, <1>4, <1>5, <1>7, <1>8, <1>9, <1>10, <1>11, <1>12, <1>13 DEF Next

\* The three invariants are inductive together.
LEMMA TokenStep == TokenInv /\ [Next]_vars => TokenInv'
  BY TypeStep, RowStep, KickStep DEF TokenInv

\* Type correctness, for any set of codes, bodies and beats (the handlers of server.go
\* and db.go, the heartbeat's goroutine).
THEOREM TypeCorrect == Spec => []TypeOK
  <1>1. TokenInv => TypeOK
    BY DEF TokenInv
  <1> QED
    BY <1>1, TokenInit, TokenStep, PTL DEF Spec

\* No row is ever both redeemed and revoked, whatever the handlers' order.
THEOREM RowsCorrect == Spec => []RowsConsistent
  <1>1. TokenInv => RowsConsistent
    BY DEF TokenInv
  <1> QED
    BY <1>1, TokenInit, TokenStep, PTL DEF Spec

\* A redeemed row keeps its viewer for good.
THEOREM RedeemIsFinal == Spec => RedeemedForGood
  <1>1. TokenInv /\ [Next]_vars =>
          [\A t \in Code : redeemed[t] => redeemed'[t] /\ viewer'[t] = viewer[t]
                                          /\ revoked'[t] = revoked[t]]_vars
    BY RowStep DEF TokenInv
  <1> QED
    BY <1>1, TokenInit, TokenStep, PTL DEF Spec, RedeemedForGood

\* A kick the server accepted is not lost between overlapping heartbeats.
THEOREM KickCorrect == Spec => []KickNotLost
  <1>1. TokenInv => KickNotLost
    BY DEF TokenInv
  <1> QED
    BY <1>1, TokenInit, TokenStep, PTL DEF Spec

=============================================================================
