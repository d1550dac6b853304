----------------------------- MODULE SessionsProofs -----------------------------
(***************************************************************************)
(* Theorems about Sessions for any users, tokens and overlapping requests.    *)
(* Only single use makes an exception for tokens whose refreshes overlapped.        *)
(***************************************************************************)
EXTENDS Sessions, FiniteSetTheorems, TLAPS

\* What a request holds are tokens that were signed, and Redis knows no others.
Links ==
    /\ handed \subseteq signed
    /\ presented \subseteq signed
    /\ \A j \in Jtis : j \notin signed => refreshKey[j] = None
    /\ \A j \in signed : parent[j] # None => parent[j] \in signed
    /\ \A r \in Requests :
          /\ tok[r] # None => tok[r] \in presented
          /\ pc[r] = "respond" => new[r] \in signed
          /\ pc[r] \in Refreshing \cup {"drop"} => tok[r] # None

\* What a refresh in progress may still do with the token it was given.
Handover ==
    \A r \in Requests : tok[r] # None =>
        /\ user[r] = sub[tok[r]]
        /\ pc[r] \in {"rotate", "issue"} => snapshot[r] = minted[tok[r]]
        /\ pc[r] = "issue" => refreshKey[tok[r]] = None
        /\ ~live[r] => refreshKey[tok[r]] = None

\* A signed token stays in Redis until it expires or someone presents it.
SignedTokenWorks ==
    \A j \in signed \ (presented \cup expired) : refreshKey[j] = sub[j]

TokenInv ==
    /\ TypeOK /\ Links /\ Handover /\ SignedTokenWorks
    /\ SuccessorReplaces /\ SuccessorInherits /\ RevokedStaysOut

\* A step that changes at most where requests stand and whose tokens they carry
\* keeps the facts about tokens.
LEMMA TokensUntouched ==
    ASSUME TokenInv, UNCHANGED <<refreshKey, signed, sub, minted, parent, expired>>,
           presented \subseteq presented'
    PROVE  SignedTokenWorks' /\ SuccessorReplaces' /\ SuccessorInherits'
BY DEF TokenInv, SignedTokenWorks, SuccessorReplaces, SuccessorInherits, TypeOK

\* Deleting the key of a presented or expired token keeps them as well.
LEMMA KeyDeleted ==
    ASSUME TokenInv, NEW j \in Jtis, j \in presented \/ j \in expired',
           refreshKey' = Without(j),
           UNCHANGED <<signed, sub, minted, parent, presented>>, expired \subseteq expired'
    PROVE  SignedTokenWorks' /\ SuccessorReplaces' /\ SuccessorInherits'
BY DEF TokenInv, SignedTokenWorks, SuccessorReplaces, SuccessorInherits, TypeOK, Without

\* The end of a request leaves nothing behind that the invariant speaks of.
LEMMA Finished ==
    ASSUME TokenInv, NEW r \in Requests, Finish(r),
           UNCHANGED <<row, token, presented, raced>>,
           handed' \subseteq signed, expired' \subseteq Jtis,
           refreshKey' \in [Jtis -> Users \cup {None}],
           \A j \in Jtis : refreshKey[j] = None => refreshKey'[j] = None
    PROVE  TypeOK' /\ Links' /\ Handover' /\ RevokedStaysOut'
<1> USE SessionsAssumption DEF TokenInv
<1>1. /\ signed' = signed /\ sub' = sub /\ minted' = minted /\ parent' = parent
      /\ presented' = presented /\ raced' = raced /\ user' = user
      /\ tokenVersion' = tokenVersion /\ isActive' = isActive /\ changes' = changes
  BY DEF row, token, Finish
<1>2. TypeOK'
  BY <1>1 DEF Finish, TypeOK
<1>3. Links'
  BY <1>1 DEF Finish, TypeOK, Links, Refreshing
<1>4. Handover'
  BY <1>1 DEF Finish, TypeOK, Links, Handover
<1>5. RevokedStaysOut'
  BY <1>1 DEF Finish, TypeOK, RevokedStaysOut
<1>6. QED
  BY <1>2, <1>3, <1>4, <1>5

\* The tables and the requests stay consistent in every reachable state.
THEOREM TokenInvariance == Spec => []TokenInv
<1>1. Init => TokenInv
  BY SessionsAssumption DEF Init, TokenInv, TypeOK, Links, Handover, SignedTokenWorks,
     SuccessorReplaces, SuccessorInherits, RevokedStaysOut, Refreshing
<1>2. TokenInv /\ [Next]_vars => TokenInv'
  <2> SUFFICES ASSUME TokenInv, [Next]_vars PROVE TokenInv'
    OBVIOUS
  <2> USE SessionsAssumption DEF TokenInv
  <2>1. CASE UNCHANGED vars
    BY <2>1 DEF vars, row, token, request, TypeOK, Links, Handover, SignedTokenWorks,
       SuccessorReplaces, SuccessorInherits, RevokedStaysOut
  <2>2. ASSUME NEW r \in Requests, NEW u \in Users, StartLogin(r, u) PROVE TokenInv'
    <3>1. SignedTokenWorks' /\ SuccessorReplaces' /\ SuccessorInherits'
      BY <2>2, TokensUntouched DEF StartLogin, token
    <3>2. TypeOK'
      BY <2>2 DEF StartLogin, Begin, row, token, TypeOK, Steps
    <3>3. Links' /\ Handover' /\ RevokedStaysOut'
      BY <2>2 DEF StartLogin, Begin, row, token, TypeOK, Links, Handover, RevokedStaysOut,
                  Refreshing
    <3>4. QED
      BY <3>1, <3>2, <3>3
  <2>3. ASSUME NEW r \in Requests, NEW j \in Jtis, StartRefresh(r, j) PROVE TokenInv'
    <3>1. SignedTokenWorks' /\ SuccessorReplaces' /\ SuccessorInherits'
      BY <2>3, TokensUntouched DEF StartRefresh, token
    <3>2. TypeOK'
      BY <2>3 DEF StartRefresh, Begin, row, token, TypeOK, Steps, Refreshing
    <3>3. Links' /\ Handover' /\ RevokedStaysOut'
      BY ZenonT(30), <2>3 DEF StartRefresh, Begin, row, token, TypeOK, Links, Handover, RevokedStaysOut,
                  Refreshing
    <3>4. QED
      BY <3>1, <3>2, <3>3
  <2>4. ASSUME NEW r \in Requests, NEW j \in Jtis, StartLogout(r, j) PROVE TokenInv'
    <3>1. SignedTokenWorks' /\ SuccessorReplaces' /\ SuccessorInherits'
      BY <2>4, TokensUntouched DEF StartLogout, token
    <3>2. TypeOK'
      BY <2>4 DEF StartLogout, Begin, row, token, TypeOK, Steps
    <3>3. Links' /\ Handover' /\ RevokedStaysOut'
      BY ZenonT(30), <2>4 DEF StartLogout, Begin, row, token, TypeOK, Links, Handover, RevokedStaysOut,
                  Refreshing
    <3>4. QED
      BY <3>1, <3>2, <3>3
  <2>5. ASSUME NEW r \in Requests, CheckKey(r) PROVE TokenInv'
    <3>1. SignedTokenWorks' /\ SuccessorReplaces' /\ SuccessorInherits'
      BY <2>5, TokensUntouched DEF CheckKey, token
    <3>2. CASE Finish(r)
      BY <2>5, <3>1, <3>2, Finished DEF CheckKey, TypeOK, Links
    <3>3. CASE KeyAccepted(tok[r]) /\ Goto(r, "find")
      <4>1. tok[r] # None /\ tok[r] \in Jtis /\ live[r]
        BY <2>5, <3>3 DEF CheckKey, KeyAccepted, Links, Refreshing, TypeOK, Handover
      <4>2. TypeOK'
        BY <2>5, <3>3 DEF CheckKey, Goto, row, token, TypeOK, Steps, Refreshing
      <4>3. Links' /\ Handover' /\ RevokedStaysOut'
        BY <2>5, <3>3, <4>1 DEF CheckKey, Goto, row, token, TypeOK, Links, Handover,
           RevokedStaysOut, Refreshing
      <4>4. QED
        BY <3>1, <4>2, <4>3
    <3>4. QED
      BY <2>5, <3>2, <3>3 DEF CheckKey
  <2>6. ASSUME NEW r \in Requests, FindUser(r) PROVE TokenInv'
    <3>1. SignedTokenWorks' /\ SuccessorReplaces' /\ SuccessorInherits'
      BY <2>6, TokensUntouched DEF FindUser, token
    <3>2. /\ tok[r] \in Jtis /\ tok[r] # None /\ live[r]
          /\ user[r] = sub[tok[r]] /\ user[r] \in Users
      BY <2>6 DEF FindUser, Links, Refreshing, TypeOK, Handover, RevokedStaysOut
    <3>3. \E s \in {"rotate", "revoke"} :
             pc' = [pc EXCEPT ![r] = s] /\ (s = "rotate" => tokenVersion[user[r]] = minted[tok[r]])
      BY <2>6, <3>2 DEF FindUser, RowAccepts
    <3>4. /\ snapshot' = [snapshot EXCEPT ![r] = tokenVersion[user[r]]]
          /\ UNCHANGED <<tokenVersion, isActive, changes, refreshKey, signed, sub, minted, parent>>
          /\ UNCHANGED <<handed, presented, raced, expired, tok, user, new, live>>
      BY <2>6 DEF FindUser, row, token
    <3>5. TypeOK'
      BY <3>2, <3>3, <3>4 DEF TypeOK, Steps, Refreshing
    <3>6. Links'
      BY <3>2, <3>3, <3>4 DEF TypeOK, Links, Refreshing
    <3>7. Handover'
      BY <3>2, <3>3, <3>4 DEF TypeOK, Handover
    <3>8. RevokedStaysOut'
      BY <3>2, <3>3, <3>4 DEF TypeOK, RevokedStaysOut
    <3>9. QED
      BY <3>1, <3>5, <3>6, <3>7, <3>8
  <2>7. ASSUME NEW r \in Requests, Revoke(r) PROVE TokenInv'
    <3>1. tok[r] \in presented /\ tok[r] \in Jtis
      BY <2>7 DEF Revoke, Links, Refreshing, TypeOK
    <3>2. SignedTokenWorks' /\ SuccessorReplaces' /\ SuccessorInherits'
      BY <2>7, <3>1, KeyDeleted DEF Revoke, token
    <3>3. TypeOK' /\ Links' /\ Handover' /\ RevokedStaysOut'
      BY <2>7, <3>1, Finished DEF Revoke, Without, TypeOK, Links
    <3>4. QED
      BY <3>2, <3>3
  <2>8. ASSUME NEW r \in Requests, Rotate(r) PROVE TokenInv'
    <3>1. tok[r] \in presented /\ tok[r] \in Jtis /\ tok[r] # None /\ live[r]
      BY <2>8 DEF Rotate, Links, Refreshing, TypeOK, RevokedStaysOut
    <3>2. SignedTokenWorks' /\ SuccessorReplaces' /\ SuccessorInherits'
      BY <2>8, <3>1, KeyDeleted DEF Rotate, token
    <3>3. /\ pc[r] = "rotate" /\ pc' = [pc EXCEPT ![r] = "issue"]
          /\ refreshKey' = [refreshKey EXCEPT ![tok[r]] = None]
          /\ UNCHANGED <<tokenVersion, isActive, changes, signed, sub, minted, parent>>
          /\ UNCHANGED <<handed, presented, raced, expired, tok, user, snapshot, new, live>>
      BY <2>8 DEF Rotate, Goto, Without, row, token
    <3>4. TypeOK'
      BY <3>3 DEF TypeOK, Steps
    <3>5. Links'
      BY <3>1, <3>3 DEF TypeOK, Links, Refreshing
    <3>6. Handover'
      BY <3>1, <3>3 DEF TypeOK, Handover
    <3>7. RevokedStaysOut'
      BY <3>1, <3>3 DEF TypeOK, RevokedStaysOut
    <3>8. QED
      BY <3>2, <3>4, <3>5, <3>6, <3>7
  <2>9. ASSUME NEW r \in Requests, NEW j \in Jtis, IssueTokens(r, j) PROVE TokenInv'
    <3>1. /\ pc[r] = "issue" /\ j \notin signed /\ j \notin presented
          /\ signed' = signed \cup {j}
          /\ sub' = [sub EXCEPT ![j] = user[r]]
          /\ minted' = [minted EXCEPT ![j] = snapshot[r]]
          /\ parent' = [parent EXCEPT ![j] = tok[r]]
          /\ refreshKey' = [refreshKey EXCEPT ![j] = user[r]]
          /\ pc' = [pc EXCEPT ![r] = "respond"]
          /\ new' = [new EXCEPT ![r] = j]
          /\ UNCHANGED <<tokenVersion, isActive, changes, handed, presented, raced, expired>>
          /\ UNCHANGED <<tok, user, snapshot, live>>
      BY <2>9 DEF IssueTokens, With, row, Links
    <3>2. /\ user[r] \in Users /\ snapshot[r] \in Nat
          /\ tok[r] # None => /\ tok[r] \in signed /\ tok[r] # j /\ tok[r] \in Jtis
                              /\ user[r] = sub[tok[r]] /\ snapshot[r] = minted[tok[r]]
                              /\ refreshKey[tok[r]] = None /\ live[r]
      BY <3>1 DEF Links, Handover, RevokedStaysOut, TypeOK
    <3>3. TypeOK'
      BY <3>1, <3>2 DEF TypeOK, Steps
    <3>4. Links'
      BY <3>1, <3>2 DEF TypeOK, Links, Refreshing
    <3>5. Handover'
      BY <3>1, <3>2 DEF TypeOK, Handover, Links
    <3>6. SignedTokenWorks'
      BY <3>1, <3>2 DEF TypeOK, SignedTokenWorks
    <3>7. SuccessorReplaces'
      BY <3>1, <3>2 DEF TypeOK, SuccessorReplaces, Links
    <3>8. SuccessorInherits'
      BY <3>1, <3>2 DEF TypeOK, SuccessorInherits, Links
    <3>9. RevokedStaysOut'
      BY <3>1, <3>2 DEF TypeOK, RevokedStaysOut
    <3>10. QED
      BY <3>3, <3>4, <3>5, <3>6, <3>7, <3>8, <3>9
  <2>10. ASSUME NEW r \in Requests, Respond(r) PROVE TokenInv'
    <3>1. SignedTokenWorks' /\ SuccessorReplaces' /\ SuccessorInherits'
      BY <2>10, TokensUntouched DEF Respond, token
    <3>2. TypeOK' /\ Links' /\ Handover' /\ RevokedStaysOut'
      BY <2>10, Finished DEF Respond, TypeOK, Links
    <3>3. QED
      BY <3>1, <3>2
  <2>11. ASSUME NEW r \in Requests, DropToken(r) PROVE TokenInv'
    <3>1. tok[r] \in presented /\ tok[r] \in Jtis
      BY <2>11 DEF DropToken, Links, TypeOK
    <3>2. SignedTokenWorks' /\ SuccessorReplaces' /\ SuccessorInherits'
      BY <2>11, <3>1, KeyDeleted DEF DropToken, token
    <3>3. TypeOK' /\ Links' /\ Handover' /\ RevokedStaysOut'
      BY <2>11, <3>1, Finished DEF DropToken, Without, TypeOK, Links
    <3>4. QED
      BY <3>2, <3>3
  <2>12. ASSUME NEW r \in Requests, Abort(r) PROVE TokenInv'
    <3>1. SignedTokenWorks' /\ SuccessorReplaces' /\ SuccessorInherits'
      BY <2>12, TokensUntouched DEF Abort, token
    <3>2. TypeOK' /\ Links' /\ Handover' /\ RevokedStaysOut'
      BY <2>12, Finished DEF Abort, TypeOK, Links
    <3>3. QED
      BY <3>1, <3>2
  <2>13. ASSUME NEW j \in Jtis, Expire(j) PROVE TokenInv'
    <3>1. SignedTokenWorks' /\ SuccessorReplaces' /\ SuccessorInherits'
      BY <2>13, KeyDeleted DEF Expire, token
    <3>2. /\ refreshKey' = [refreshKey EXCEPT ![j] = None]
          /\ expired' = expired \cup {j}
          /\ UNCHANGED <<tokenVersion, isActive, changes, signed, sub, minted, parent>>
          /\ UNCHANGED <<handed, presented, raced, pc, tok, user, snapshot, new, live>>
      BY <2>13 DEF Expire, Without, row, token, request
    <3>3. TypeOK'
      BY <3>2 DEF TypeOK
    <3>4. Links'
      BY <3>2 DEF TypeOK, Links
    <3>5. Handover'
      BY <3>2 DEF TypeOK, Handover
    <3>6. RevokedStaysOut'
      BY <3>2 DEF RevokedStaysOut
    <3>7. QED
      BY <3>1, <3>3, <3>4, <3>5, <3>6
  <2>14. ASSUME NEW u \in Users, NEW b \in BOOLEAN, BumpVersion(u) \/ SetActive(u, b) PROVE TokenInv'
    <3>1. SignedTokenWorks' /\ SuccessorReplaces' /\ SuccessorInherits'
      BY <2>14, TokensUntouched DEF BumpVersion, SetActive, token
    <3>2. /\ UNCHANGED <<refreshKey, signed, sub, minted, parent, handed, presented, raced, expired>>
          /\ UNCHANGED <<pc, tok, user, snapshot, new, live>>
      BY <2>14 DEF BumpVersion, SetActive, token, request
    <3>3. /\ tokenVersion' \in [Users -> Nat]
          /\ isActive' \in [Users -> BOOLEAN]
          /\ changes' \in Nat
      BY <2>14 DEF BumpVersion, SetActive, TypeOK
    <3>4. TypeOK'
      BY <3>2, <3>3 DEF TypeOK
    <3>5. Links' /\ Handover' /\ RevokedStaysOut'
      BY <3>2 DEF Links, Handover, RevokedStaysOut
    <3>6. QED
      BY <3>1, <3>4, <3>5
  <2>15. QED
    BY <2>1, <2>2, <2>3, <2>4, <2>5, <2>6, <2>7, <2>8, <2>9, <2>10, <2>11, <2>12, <2>13, <2>14
       DEF Next, RequestStep
<1>3. QED
  BY <1>1, <1>2, PTL DEF Spec

\* Types hold in every reachable state.
THEOREM TypeCorrect == Spec => []TypeOK
BY TokenInvariance, PTL DEF TokenInv

\* However requests overlap, a replaced token is never in Redis again.
THEOREM ReplacedTokensAreGone == Spec => []SuccessorReplaces
BY TokenInvariance, PTL DEF TokenInv

\* No refresh in flight lifts a revoked session to the new tokenVersion.
THEOREM RefreshKeepsTheSession == Spec => []SuccessorInherits
BY TokenInvariance, PTL DEF TokenInv

\* A refresh that starts after its token's key was deleted gets nothing.
THEOREM RevokedTokensStayOut == Spec => []RevokedStaysOut
BY TokenInvariance, PTL DEF TokenInv

\* A token a client holds and has not presented is good until it expires.
THEOREM HandedTokensWork == Spec => []HandedTokenWorks
<1>1. TokenInv => HandedTokenWorks
  BY DEF TokenInv, Links, SignedTokenWorks, HandedTokenWorks
<1>2. QED
  BY <1>1, TokenInvariance, PTL

-------------------------------------------------------------------------------
(* Single use, unless refreshes of the token overlapped *)

\* One refresh at a time works on a token that was not raced, and past the key check it has no successor.
OneRefresh ==
    \A r \in Requests : tok[r] \notin raced \cup {None} =>
        /\ \A q \in Requests :
              /\ pc[r] \in Refreshing \cup {"issue"} /\ pc[q] \in Refreshing \cup {"issue"}
              /\ tok[q] = tok[r]
              => q = r
        /\ pc[r] \in {"find", "rotate", "issue"} => \A j \in signed : parent[j] # tok[r]

\* "the presented refresh token is single-use" holds for tokens presented serially.
THEOREM SerialTokensAreSingleUse == Spec => []SingleUseUnlessRaced
<1>1. Init => OneRefresh /\ SingleUseUnlessRaced
  BY DEF Init, OneRefresh, SingleUseUnlessRaced
<1>2. TokenInv /\ OneRefresh /\ SingleUseUnlessRaced /\ [Next]_vars => OneRefresh' /\ SingleUseUnlessRaced'
  <2> SUFFICES ASSUME TokenInv, OneRefresh, SingleUseUnlessRaced, [Next]_vars
               PROVE  OneRefresh' /\ SingleUseUnlessRaced'
    OBVIOUS
  <2> USE SessionsAssumption DEF TokenInv
  <2>1. CASE UNCHANGED vars
    BY <2>1 DEF vars, token, request, OneRefresh, SingleUseUnlessRaced
  <2>2. ASSUME NEW r \in Requests, NEW u \in Users, StartLogin(r, u)
        PROVE  OneRefresh' /\ SingleUseUnlessRaced'
    <3>1. OneRefresh'
      BY <2>2 DEF StartLogin, Begin, token, TypeOK, OneRefresh, Refreshing
    <3>2. SingleUseUnlessRaced'
      BY <2>2 DEF StartLogin, token, SingleUseUnlessRaced
    <3>3. QED
      BY <3>1, <3>2
  <2>3. ASSUME NEW r \in Requests, NEW j \in Jtis, StartRefresh(r, j)
        PROVE  OneRefresh' /\ SingleUseUnlessRaced'
    <3>1. /\ j \notin raced' =>
                \A q \in Requests : pc[q] \in Refreshing \cup {"issue"} => tok[q] # j
          /\ raced \subseteq raced'
      BY <2>3 DEF StartRefresh, Busy
    <3>2. /\ pc' = [pc EXCEPT ![r] = "get"] /\ tok' = [tok EXCEPT ![r] = j]
          /\ UNCHANGED <<signed, parent>>
      BY <2>3 DEF StartRefresh, Begin, token
    <3>3. OneRefresh'
      BY <3>1, <3>2 DEF TypeOK, OneRefresh
    <3>4. SingleUseUnlessRaced'
      BY <3>1, <3>2 DEF TypeOK, SingleUseUnlessRaced
    <3>5. QED
      BY <3>3, <3>4
  <2>4. ASSUME NEW r \in Requests, NEW j \in Jtis, StartLogout(r, j)
        PROVE  OneRefresh' /\ SingleUseUnlessRaced'
    <3>1. OneRefresh'
      BY <2>4 DEF StartLogout, Begin, token, TypeOK, OneRefresh, Refreshing
    <3>2. SingleUseUnlessRaced'
      BY <2>4 DEF StartLogout, token, SingleUseUnlessRaced
    <3>3. QED
      BY <3>1, <3>2
  <2>5. ASSUME NEW r \in Requests, Finish(r), UNCHANGED <<token, raced>>
        PROVE  OneRefresh' /\ SingleUseUnlessRaced'
    BY <2>5 DEF Finish, token, TypeOK, OneRefresh, SingleUseUnlessRaced, Refreshing
  <2>6. ASSUME NEW r \in Requests, CheckKey(r) PROVE OneRefresh' /\ SingleUseUnlessRaced'
    <3>1. CASE KeyAccepted(tok[r]) /\ Goto(r, "find")
      <4>1. \A j \in signed : parent[j] # tok[r]
        BY <2>6, <3>1 DEF CheckKey, KeyAccepted, SuccessorReplaces, Links, Refreshing
      <4>2. QED
        BY <2>6, <3>1, <4>1
           DEF CheckKey, Goto, token, TypeOK, OneRefresh, SingleUseUnlessRaced, Refreshing
    <3>2. QED
      BY <2>5, <2>6, <3>1 DEF CheckKey
  <2>7. ASSUME NEW r \in Requests, FindUser(r) PROVE OneRefresh' /\ SingleUseUnlessRaced'
    BY <2>7 DEF FindUser, token, TypeOK, OneRefresh, SingleUseUnlessRaced, Refreshing
  <2>8. ASSUME NEW r \in Requests, Rotate(r) PROVE OneRefresh' /\ SingleUseUnlessRaced'
    BY <2>8 DEF Rotate, Goto, token, TypeOK, OneRefresh, SingleUseUnlessRaced, Refreshing
  <2>9. ASSUME NEW r \in Requests, NEW j \in Jtis, IssueTokens(r, j)
        PROVE  OneRefresh' /\ SingleUseUnlessRaced'
    <3>1. /\ pc[r] = "issue" /\ j \notin signed /\ signed' = signed \cup {j}
          /\ parent' = [parent EXCEPT ![j] = tok[r]]
          /\ pc' = [pc EXCEPT ![r] = "respond"] /\ tok' = tok /\ raced' = raced
      BY <2>9 DEF IssueTokens
    <3>2. tok[r] \notin raced \cup {None} => \A i \in signed : parent[i] # tok[r]
      BY <3>1 DEF OneRefresh
    <3>3. SingleUseUnlessRaced'
      BY <3>1, <3>2 DEF TypeOK, SingleUseUnlessRaced
    <3>4. OneRefresh'
      BY <3>1 DEF TypeOK, OneRefresh, Refreshing
    <3>5. QED
      BY <3>3, <3>4
  <2>10. ASSUME NEW j \in Jtis, Expire(j) PROVE OneRefresh' /\ SingleUseUnlessRaced'
    BY <2>10 DEF Expire, token, request, OneRefresh, SingleUseUnlessRaced
  <2>11. ASSUME NEW u \in Users, NEW b \in BOOLEAN, BumpVersion(u) \/ SetActive(u, b)
         PROVE  OneRefresh' /\ SingleUseUnlessRaced'
    BY <2>11 DEF BumpVersion, SetActive, token, request, OneRefresh, SingleUseUnlessRaced
  <2>12. QED
    BY <2>1, <2>2, <2>3, <2>4, <2>5, <2>6, <2>7, <2>8, <2>9, <2>10, <2>11
       DEF Next, RequestStep, Revoke, Respond, DropToken, Abort
<1>3. QED
  BY <1>1, <1>2, TokenInvariance, PTL DEF Spec

-------------------------------------------------------------------------------
(* Requests end *)

\* Every request that is going to issue tokens has an unused identifier left.
TokensLeft == Cardinality(Issuing) <= Cardinality(Jtis \ signed)

\* One element more or none.
LEMMA OneMore ==
    ASSUME NEW S, NEW T, NEW x, IsFiniteSet(S), T = S \cup {x}
    PROVE  Cardinality(T) <= Cardinality(S) + 1 /\ Cardinality(T) \in Nat
<1>1. Cardinality(S) \in Nat
  BY FS_CardinalityType
<1>2. CASE x \in S
  <2>1. T = S
    BY <1>2
  <2>2. QED
    BY SMTT(30), <1>1, <2>1
<1>3. CASE x \notin S
  BY <1>1, <1>3, FS_AddElement
<1>4. QED
  BY <1>2, <1>3

\* Nobody joins the issuers unless an identifier is left over for them, and who
\* takes one leaves them.
LEMMA TokensSuffice == Spec => []TokensLeft
<1> USE SessionsAssumption
<1> DEFINE Spare == Jtis \ signed
<1>1. IsFiniteSet(Issuing) /\ IsFiniteSet(Spare)
  BY FS_Subset DEF Issuing
<1>2. ASSUME Issuing' \subseteq Issuing, signed' = signed, TokensLeft PROVE TokensLeft'
  <2>1. Cardinality(Issuing') <= Cardinality(Issuing)
    BY <1>1, <1>2, FS_Subset
  <2>2. Cardinality(Issuing) \in Nat /\ Cardinality(Issuing') \in Nat /\ Cardinality(Spare) \in Nat
    BY <1>1, <1>2, FS_Subset, FS_CardinalityType
  <2>3. QED
    BY <1>2, <2>1, <2>2 DEF TokensLeft
<1>3. ASSUME NEW r \in Requests, SpareToken, Issuing' = Issuing \cup {r}, signed' = signed
      PROVE  TokensLeft'
  <2>1. Cardinality(Issuing') <= Cardinality(Issuing) + 1 /\ Cardinality(Issuing') \in Nat
    BY <1>1, <1>3, OneMore
  <2>2. Cardinality(Issuing) \in Nat /\ Cardinality(Spare) \in Nat
    BY <1>1, FS_CardinalityType
  <2>3. QED
    BY <1>3, <2>1, <2>2 DEF TokensLeft, SpareToken
<1>4. ASSUME NEW r \in Issuing, NEW j \in Spare, TokensLeft,
             Issuing' = Issuing \ {r}, signed' = signed \cup {j}
      PROVE  TokensLeft'
  <2>1. Cardinality(Issuing') = Cardinality(Issuing) - 1
    BY <1>1, <1>4, FS_RemoveElement
  <2>2. Jtis \ signed' = Spare \ {j}
    BY <1>4
  <2>3. Cardinality(Jtis \ signed') = Cardinality(Spare) - 1
    BY <1>1, <1>4, <2>2, FS_RemoveElement
  <2>4. Cardinality(Issuing) \in Nat /\ Cardinality(Spare) \in Nat
    BY <1>1, FS_CardinalityType
  <2>5. QED
    BY <1>4, <2>1, <2>3, <2>4 DEF TokensLeft
<1>5. Init => TokensLeft
  <2> SUFFICES ASSUME Init PROVE TokensLeft
    OBVIOUS
  <2>1. Issuing = {}
    BY DEF Init, Issuing, Refreshing
  <2>2. Cardinality(Issuing) = 0 /\ Cardinality(Spare) \in Nat
    BY <1>1, <2>1, FS_EmptySet, FS_CardinalityType
  <2>3. QED
    BY <2>2 DEF TokensLeft
<1>6. TypeOK /\ TokensLeft /\ [Next]_vars => TokensLeft'
  <2> SUFFICES ASSUME TypeOK, TokensLeft, [Next]_vars PROVE TokensLeft'
    OBVIOUS
  <2>1. CASE UNCHANGED vars
    BY <1>2, <2>1 DEF vars, request, token, Issuing
  <2>2. ASSUME NEW r \in Requests, NEW u \in Users, StartLogin(r, u) PROVE TokensLeft'
    BY <1>3, <2>2 DEF StartLogin, Begin, token, TypeOK, Issuing
  <2>3. ASSUME NEW r \in Requests, NEW j \in Jtis, StartRefresh(r, j) PROVE TokensLeft'
    BY <1>3, <2>3 DEF StartRefresh, Begin, token, TypeOK, Issuing, Refreshing
  <2>4. ASSUME NEW r \in Requests, NEW j \in Jtis, StartLogout(r, j) PROVE TokensLeft'
    BY <1>2, <2>4 DEF StartLogout, Begin, token, TypeOK, Issuing, Refreshing
  <2>5. ASSUME NEW r \in Requests, Finish(r), UNCHANGED token PROVE TokensLeft'
    BY <1>2, <2>5 DEF Finish, token, TypeOK, Issuing, Refreshing
  <2>6. ASSUME NEW r \in Requests, NEW step \in Refreshing \cup {"issue"},
               pc[r] \in Refreshing, pc' = [pc EXCEPT ![r] = step], UNCHANGED token
        PROVE  TokensLeft'
    BY <1>2, <2>6 DEF token, TypeOK, Issuing
  <2>7. ASSUME NEW r \in Requests, NEW j \in Jtis, IssueTokens(r, j) PROVE TokensLeft'
    <3>1. r \in Issuing /\ Issuing' = Issuing \ {r}
      BY <2>7 DEF IssueTokens, TypeOK, Issuing, Refreshing
    <3>2. QED
      BY <1>4, <2>7, <3>1 DEF IssueTokens
  <2>8. ASSUME UNCHANGED <<request, token>> PROVE TokensLeft'
    BY <1>2, <2>8 DEF request, token, Issuing
  <2>9. ASSUME NEW r \in Requests, CheckKey(r) \/ FindUser(r) \/ Rotate(r) PROVE TokensLeft'
    BY <2>5, <2>6, <2>9 DEF CheckKey, FindUser, Rotate, Goto, token, Refreshing
  <2>10. ASSUME NEW r \in Requests, RequestStep(r) \/ Abort(r) PROVE TokensLeft'
    <3>1. CASE Revoke(r) \/ Respond(r) \/ DropToken(r) \/ Abort(r)
      BY <2>5, <3>1 DEF Revoke, Respond, DropToken, Abort
    <3>2. QED
      BY <2>7, <2>9, <2>10, <3>1 DEF RequestStep
  <2>11. ASSUME \/ \E j \in Jtis : Expire(j)
                \/ \E u \in Users : BumpVersion(u) \/ \E b \in BOOLEAN : SetActive(u, b)
         PROVE  TokensLeft'
    BY <2>8, <2>11 DEF Expire, BumpVersion, SetActive
  <2>12. QED
    BY <2>1, <2>2, <2>3, <2>4, <2>10, <2>11 DEF Next
<1>7. QED
  BY <1>5, <1>6, TypeCorrect, PTL DEF Spec

\* The longest way a request has from where it stands to its answer.
StepsLeft == [idle |-> 0, drop |-> 1, revoke |-> 1, respond |-> 1,
              issue |-> 2, rotate |-> 3, find |-> 4, get |-> 5]

Left(r) == StepsLeft[pc[r]]

\* The guards of RequestStep(r).
Ready(r) == /\ pc[r] \in Steps
            /\ pc[r] = "issue" => \E j \in Jtis : j \notin signed

\* What the prover knows nothing of: every step of a request has an outcome whenever
\* its guard holds, so it can be taken.
CanStep(r) == ENABLED <<RequestStep(r)>>_vars
GuardsSuffice == \A r \in Requests : Ready(r) => CanStep(r)

\* No step takes a request back; its own steps take it on.
LEMMA Advances ==
    ASSUME TypeOK, NEW r \in Requests, pc[r] \in Steps
    PROVE  /\ [Next]_vars => Left(r)' <= Left(r)
           /\ RequestStep(r) => Left(r)' < Left(r)
  <1> USE DEF Left, StepsLeft, Steps, Refreshing, TypeOK
  <1>1. ASSUME NEW q \in Requests, RequestStep(q)
        PROVE  Left(r)' <= Left(r) /\ (q = r => Left(r)' < Left(r))
    <2>1. ASSUME Finish(q), Running(q) PROVE Left(r)' <= Left(r) /\ (q = r => Left(r)' < Left(r))
      BY <2>1 DEF Finish, Running
    <2>2. CASE CheckKey(q)
      BY <2>1, <2>2 DEF CheckKey, Goto, Running
    <2>3. CASE FindUser(q) \/ Rotate(q) \/ \E j \in Jtis : IssueTokens(q, j)
      BY <2>3 DEF FindUser, Rotate, Goto, IssueTokens
    <2>4. CASE Revoke(q) \/ Respond(q) \/ DropToken(q)
      BY <2>1, <2>4 DEF Revoke, Respond, DropToken, Running
    <2>5. QED
      BY <1>1, <2>2, <2>3, <2>4 DEF RequestStep
  <1>2. ASSUME NEW q \in Requests, Abort(q) PROVE Left(r)' <= Left(r)
    BY <1>2 DEF Abort, Finish, Running
  <1>3. ASSUME NEW q \in Requests, NEW step \in {"issue", "get", "drop"}, NEW j, NEW u, NEW v,
               Begin(q, step, j, u, v)
        PROVE  Left(r)' <= Left(r)
    BY <1>3 DEF Begin, Running
  <1>4. ASSUME pc' = pc PROVE Left(r)' <= Left(r)
    BY <1>4
  <1>5. ASSUME \/ \E j \in Jtis : Expire(j)
               \/ \E u \in Users : BumpVersion(u) \/ \E b \in BOOLEAN : SetActive(u, b)
               \/ UNCHANGED vars
        PROVE  Left(r)' <= Left(r)
    BY <1>4, <1>5 DEF Expire, BumpVersion, SetActive, vars, request
  <1>6. ASSUME NEW q \in Requests, \/ \E u \in Users : StartLogin(q, u)
                                  \/ \E j \in Jtis : StartRefresh(q, j) \/ StartLogout(q, j)
        PROVE  Left(r)' <= Left(r)
    BY <1>3, <1>6 DEF StartLogin, StartRefresh, StartLogout
  <1> HIDE DEF Left, StepsLeft, Steps, Refreshing, TypeOK
  <1>7. QED
    BY <1>1, <1>2, <1>5, <1>6 DEF Next

\* A request in its k-th step before the answer gets beyond it.
Falls(r, k) == Left(r) = k ~> Left(r) < k

\* The server takes a request from each step to the next.
LEMMA Descends ==
    ASSUME NEW r \in Requests, NEW k \in 1..5
    PROVE  Spec /\ Attended(r) /\ [](Ready(r) => CanStep(r)) => Falls(r, k)
<1>1. TypeOK /\ TypeOK' /\ Left(r) = k /\ [Next]_vars => (Left(r) = k)' \/ (Left(r) < k)'
  <2> SUFFICES ASSUME TypeOK, TypeOK', Left(r) = k, [Next]_vars PROVE Left(r)' = k \/ Left(r)' < k
    OBVIOUS
  <2>1. pc[r] \in Steps
    BY DEF Left, StepsLeft, TypeOK
  <2>2. Left(r)' <= k
    BY <2>1, Advances
  <2>3. Left(r)' \in Nat
    BY DEF Left, StepsLeft, TypeOK, Steps, Refreshing
  <2>4. QED
    BY <2>2, <2>3
<1>2. TypeOK /\ Left(r) = k /\ <<RequestStep(r)>>_vars => (Left(r) < k)'
  <2> SUFFICES ASSUME TypeOK, Left(r) = k, RequestStep(r) PROVE Left(r)' < k
    OBVIOUS
  <2>1. pc[r] \in Steps
    BY DEF Left, StepsLeft, TypeOK
  <2>2. QED
    BY <2>1, Advances
<1>3. TypeOK /\ TokensLeft /\ Left(r) = k => Ready(r)
  <2> SUFFICES ASSUME TypeOK, TokensLeft, Left(r) = k PROVE Ready(r)
    OBVIOUS
  <2>1. pc[r] \in Steps
    BY DEF Left, StepsLeft, TypeOK
  <2>2. ASSUME pc[r] = "issue" PROVE Jtis \ signed # {}
    <3>1. r \in Issuing /\ IsFiniteSet(Issuing)
      BY <2>2, SessionsAssumption, FS_Subset DEF Issuing
    <3>2. Cardinality(Issuing) \in Nat /\ Cardinality(Issuing) # 0
      BY <3>1, FS_CardinalityType, FS_EmptySet
    <3>3. QED
      BY <3>2, FS_EmptySet DEF TokensLeft
  <2>3. QED
    BY <2>1, <2>2 DEF Ready
<1>4. QED
  BY <1>1, <1>2, <1>3, TypeCorrect, TokensSuffice, PTL DEF Spec, Attended, CanStep, Falls

\* A request the server goes on with ends.
LEMMA EachEnds ==
    ASSUME NEW r \in Requests
    PROVE  Spec /\ Attended(r) /\ [](Ready(r) => CanStep(r)) => Ends(r)
<1>1. TypeOK => /\ (Running(r) <=> Left(r) = 1 \/ Left(r) = 2 \/ Left(r) = 3 \/ Left(r) = 4 \/ Left(r) = 5)
                /\ (Left(r) < 1 => ~Running(r))
                /\ (Left(r) < 2 => Left(r) < 1 \/ Left(r) = 1)
                /\ (Left(r) < 3 => Left(r) < 2 \/ Left(r) = 2)
                /\ (Left(r) < 4 => Left(r) < 3 \/ Left(r) = 3)
                /\ (Left(r) < 5 => Left(r) < 4 \/ Left(r) = 4)
  BY DEF TypeOK, Running, Left, StepsLeft, Steps, Refreshing
<1>2. ASSUME NEW k \in 1..5
      PROVE  Spec /\ Attended(r) /\ [](Ready(r) => CanStep(r)) => Falls(r, k)
  BY <1>2, Descends
<1>3. Spec /\ Attended(r) /\ [](Ready(r) => CanStep(r)) =>
          Falls(r, 1) /\ Falls(r, 2) /\ Falls(r, 3) /\ Falls(r, 4) /\ Falls(r, 5)
  BY <1>2
<1>4. QED
  BY <1>1, <1>3, TypeCorrect, PTL DEF Ends, Falls

\* However requests overlap, one that the server accepted and goes on with ends: no
\* answer of Redis or of the user table leaves it where it is, and whoever is to be
\* issued a token finds an unused identifier.
THEOREM RequestsFinish == FairSpec /\ []GuardsSuffice => RequestsEnd
<1>1. ASSUME NEW r \in Requests
      PROVE  Spec /\ Attended(r) /\ []GuardsSuffice => Ends(r)
  <2>1. GuardsSuffice => (Ready(r) => CanStep(r))
    BY DEF GuardsSuffice
  <2>2. QED
    BY <2>1, EachEnds, PTL
<1>2. QED
  BY <1>1 DEF FairSpec, RequestsEnd
===============================================================================
