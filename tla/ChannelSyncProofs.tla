--------------------------- MODULE ChannelSyncProofs ---------------------------
(***************************************************************************)
(* Theorems about ChannelSync for any users, departments, channels and       *)
(* concurrent logins.  Those about the lockstep assume that no account is    *)
(* moved in the directory while one of its own logins runs.                  *)
(***************************************************************************)
EXTENDS ChannelSync, TLAPS

\* A login that works on a channel has a department, and one about to join has
\* found its channel row; rows are never unlinked.
OnChannel ==
    \A l \in Logins :
        /\ pc[l] \in {"select", "insert", "reread", "join"} => dept[l] \in Depts
        /\ pc[l] = "join" =>
              chan[l] \in Names /\ adGroupDn[chan[l]] = dept[l]

\* A refused login met a channel row of its slug that belongs to someone else.
RefusedByClash ==
    \A l \in Logins :
        /\ pc[l] = "reread" =>
              \/ adGroupDn[SlugOf[dept[l]]] # NoRow
              \/ Linked(dept[l]) # {}
        /\ pc[l] = "failed" => dept[l] \in Depts
        /\ pc[l] = "failed" =>
              adGroupDn[SlugOf[dept[l]]] \notin {NoRow, dept[l]}

RowInv == TypeOK /\ OnChannel /\ RefusedByClash

\* The table of channels only grows.
LEMMA RowsOnlyGrow ==
    ASSUME RowInv, [Next]_vars
    PROVE  \A n \in Names : adGroupDn[n] # NoRow => adGroupDn'[n] = adGroupDn[n]
<1>1. ASSUME NEW l \in Logins, LoginStep(l)
      PROVE  \A n \in Names : adGroupDn[n] # NoRow => adGroupDn'[n] = adGroupDn[n]
  BY <1>1 DEF LoginStep, UpsertUser, SelectChannel, InsertChannel, RereadChannel, JoinChannel,
              PruneChannels, Insertable, RowInv, TypeOK
<1>2. QED
  BY <1>1 DEF Next, vars, StartLogin, Abort, MoveAccount, Promote

\* A login that found the channel row of its department may go on to join it.
LEMMA FoundRow ==
    ASSUME RowInv,
           NEW l \in Logins, pc[l] \in {"select", "reread"},
           NEW n \in Linked(dept[l]), GotoWith(l, "join", n),
           UNCHANGED <<ad, adGroupDn, role, profile, moves>>
    PROVE  RowInv'
<1>1. n \in Names /\ adGroupDn[n] = dept[l] /\ dept[l] \in Depts
  BY DEF RowInv, OnChannel, Linked
<1>2. TypeOK'
  BY <1>1 DEF RowInv, TypeOK, GotoWith, Steps
<1>3. OnChannel'
  BY <1>1 DEF RowInv, TypeOK, OnChannel, GotoWith
<1>4. RefusedByClash'
  BY DEF RowInv, TypeOK, RefusedByClash, GotoWith, Linked
<1>5. QED
  BY <1>2, <1>3, <1>4 DEF RowInv

\* Types, rows and refusals are right in every reachable state.
THEOREM RowInvariance == Spec => []RowInv
<1>1. Init => RowInv
  BY SyncAssumption
     DEF Init, RowInv, OnChannel, RefusedByClash, TypeOK, DnOrNot, Roles, Idle, Steps
<1>2. RowInv /\ [Next]_vars => RowInv'
  <2> SUFFICES ASSUME RowInv, [Next]_vars PROVE RowInv'
    OBVIOUS
  <2> USE SyncAssumption DEF RowInv
  <2>1. CASE UNCHANGED vars
    BY <2>1 DEF vars, request, OnChannel, RefusedByClash, TypeOK, Linked
  <2>2. ASSUME NEW l \in Logins, NEW u \in Users, StartLogin(l, u) PROVE RowInv'
    BY <2>2 DEF StartLogin, TypeOK, OnChannel, RefusedByClash, Linked, Steps, DnOrNot
  <2>3. ASSUME NEW l \in Logins, UpsertUser(l) PROVE RowInv'
    <3>1. \E s \in {"prune", "select"} :
             pc' = [pc EXCEPT ![l] = s] /\ (s = "select" => dept[l] \in Depts)
      BY <2>3 DEF UpsertUser, Goto, TypeOK, DnOrNot
    <3>2. /\ profile' = [profile EXCEPT ![who[l]] = dept[l]]
          /\ UNCHANGED <<who, dept, chan, ad, adGroupDn, role, moves>>
      BY <2>3 DEF UpsertUser, Goto
    <3>3. TypeOK'
      BY <3>1, <3>2 DEF TypeOK, Steps
    <3>4. OnChannel'
      BY <3>1, <3>2 DEF TypeOK, OnChannel
    <3>5. RefusedByClash'
      BY <3>1, <3>2 DEF TypeOK, RefusedByClash, Linked
    <3>6. QED
      BY <3>3, <3>4, <3>5
  <2>4. ASSUME NEW l \in Logins, SelectChannel(l) PROVE RowInv'
    <3>1. CASE Goto(l, "insert")
      BY <2>4, <3>1 DEF SelectChannel, Goto, TypeOK, OnChannel, RefusedByClash, Linked, Steps
    <3>2. CASE \E n \in Linked(dept[l]) : GotoWith(l, "join", n)
      BY <2>4, <3>2, FoundRow DEF SelectChannel
    <3>3. QED
      BY <2>4, <3>1, <3>2 DEF SelectChannel
  <2>5. ASSUME NEW l \in Logins, InsertChannel(l) PROVE RowInv'
    <3> DEFINE d == dept[l]
               n == SlugOf[d]
    <3>1. d \in Depts /\ n \in Names /\ pc[l] = "insert"
      BY <2>5 DEF InsertChannel, OnChannel
    <3>2. CASE Insertable(n, d)
      <4>1. /\ adGroupDn' = [adGroupDn EXCEPT ![n] = d]
            /\ pc' = [pc EXCEPT ![l] = "join"] /\ chan' = [chan EXCEPT ![l] = n]
            /\ UNCHANGED <<who, dept, ad, role, profile, moves>>
        BY <2>5, <3>2 DEF InsertChannel, GotoWith
      <4>2. adGroupDn[n] = NoRow /\ \A m \in Names : adGroupDn[m] # d
        BY <3>2 DEF Insertable, Linked
      <4> HIDE DEF d, n
      <4>3. TypeOK'
        BY <3>1, <4>1, <4>2 DEF TypeOK, Steps, DnOrNot
      <4>4. OnChannel'
        BY <3>1, <4>1, <4>2 DEF TypeOK, OnChannel, d
      <4>5. RefusedByClash'
        <5>1. SUFFICES ASSUME NEW k \in Logins, pc'[k] \in {"reread", "failed"}
                       PROVE  /\ pc[k] = "reread" =>
                                    \/ adGroupDn'[SlugOf[dept[k]]] # NoRow
                                    \/ Linked(dept[k])' # {}
                              /\ pc[k] = "failed" => dept[k] \in Depts
                              /\ pc[k] = "failed" =>
                                    adGroupDn'[SlugOf[dept[k]]] \notin {NoRow, dept[k]}
          BY <4>1 DEF TypeOK, RefusedByClash, Linked
        <5>2. k # l /\ pc'[k] = pc[k] /\ dept'[k] = dept[k]
          BY <4>1, <5>1 DEF TypeOK
        <5>3. CASE pc[k] = "reread"
          <6>1. dept[k] \in Depts /\ SlugOf[dept[k]] \in Names
            BY <5>3 DEF OnChannel
          <6>2. CASE adGroupDn[SlugOf[dept[k]]] # NoRow
            BY <3>1, <4>1, <5>3, <6>1, <6>2 DEF TypeOK
          <6>3. CASE Linked(dept[k]) # {}
            <7>1. PICK m \in Names : adGroupDn[m] = dept[k]
              BY <6>3 DEF Linked
            <7>2. adGroupDn'[m] = dept'[k] /\ dept'[k] = dept[k]
              BY <4>1, <4>2, <5>2, <6>1, <7>1 DEF TypeOK
            <7>3. Linked(dept[k])' # {}
              BY <7>2 DEF Linked
            <7>4. QED
              BY <5>3, <7>3
          <6>4. QED
            BY <5>3, <6>2, <6>3 DEF RefusedByClash
        <5>4. CASE pc[k] = "failed"
          <6>1. /\ dept[k] \in Depts
                /\ SlugOf[dept[k]] \in Names
                /\ adGroupDn[SlugOf[dept[k]]] \notin {NoRow, dept[k]}
            BY <5>4 DEF RefusedByClash
          <6>2. SlugOf[dept[k]] # n
            BY <4>2, <6>1
          <6>3. QED
            BY <4>1, <5>4, <6>1, <6>2 DEF TypeOK
        <5>5. QED
          BY <5>1, <5>2, <5>3, <5>4
      <4>6. QED
        BY <4>3, <4>4, <4>5
    <3>3. CASE ~Insertable(n, d)
      <4>1. /\ pc' = [pc EXCEPT ![l] = "reread"]
            /\ UNCHANGED <<who, dept, chan, ad, adGroupDn, role, profile, moves>>
        BY <2>5, <3>3 DEF InsertChannel, Goto
      <4>2. adGroupDn[n] # NoRow \/ Linked(d) # {}
        BY <3>3 DEF Insertable
      <4>3. TypeOK' /\ OnChannel'
        BY <3>1, <4>1 DEF TypeOK, OnChannel, Steps
      <4>4. RefusedByClash'
        BY <3>1, <4>1, <4>2 DEF TypeOK, RefusedByClash, Linked
      <4>5. QED
        BY <4>3, <4>4
    <3>4. QED
      BY <3>2, <3>3
  <2>6. ASSUME NEW l \in Logins, RereadChannel(l) PROVE RowInv'
    <3>1. CASE Linked(dept[l]) = {} /\ Goto(l, "failed")
      <4>1. /\ pc' = [pc EXCEPT ![l] = "failed"]
            /\ UNCHANGED <<who, dept, chan, ad, adGroupDn, role, profile, moves>>
        BY <2>6, <3>1 DEF RereadChannel, Goto
      <4>2. /\ pc[l] = "reread" /\ dept[l] \in Depts
            /\ SlugOf[dept[l]] \in Names
        BY <2>6 DEF RereadChannel, OnChannel
      <4>3. adGroupDn[SlugOf[dept[l]]] \notin {NoRow, dept[l]}
        BY <3>1, <4>2 DEF RefusedByClash, Linked
      <4>4. TypeOK'
        BY <4>1 DEF TypeOK, Idle
      <4>5. OnChannel'
        BY <4>1 DEF TypeOK, OnChannel
      <4>6. RefusedByClash'
        BY <4>1, <4>2, <4>3 DEF TypeOK, RefusedByClash, Linked
      <4>7. QED
        BY <4>4, <4>5, <4>6
    <3>2. CASE \E n \in Linked(dept[l]) : GotoWith(l, "join", n)
      BY <2>6, <3>2, FoundRow DEF RereadChannel
    <3>3. QED
      BY <2>6, <3>1, <3>2 DEF RereadChannel
  <2>7. ASSUME NEW l \in Logins, JoinChannel(l) PROVE RowInv'
    BY <2>7 DEF JoinChannel, GotoWith, Joined, TypeOK, OnChannel, RefusedByClash, Linked, Steps, Roles
  <2>8. ASSUME NEW l \in Logins, PruneChannels(l) PROVE RowInv'
    BY <2>8 DEF PruneChannels, Goto, GotoWith, TypeOK, OnChannel, RefusedByClash, Linked, Idle, Roles
  <2>9. ASSUME NEW l \in Logins, Abort(l) PROVE RowInv'
    BY <2>9 DEF Abort, GotoWith, TypeOK, OnChannel, RefusedByClash, Linked, Idle
  <2>10. ASSUME NEW u \in Users, NEW d \in DnOrNot, MoveAccount(u, d) PROVE RowInv'
    BY <2>10 DEF MoveAccount, request, TypeOK, OnChannel, RefusedByClash, Linked
  <2>11. ASSUME NEW u \in Users, NEW n \in Names, Promote(u, n) PROVE RowInv'
    BY <2>11 DEF Promote, request, TypeOK, OnChannel, RefusedByClash, Linked, Roles
  <2>12. QED
    BY <2>1, <2>2, <2>3, <2>4, <2>5, <2>6, <2>7, <2>8, <2>9, <2>10, <2>11 DEF Next, LoginStep
<1>3. QED
  BY <1>1, <1>2, PTL DEF Spec

\* Types hold, and no two channels are ever linked to the same OU.
THEOREM TypeCorrect == Spec => []TypeOK
BY RowInvariance, PTL DEF RowInv

\* However many logins race to create a department's channel, none of them fails
\* for it: a login is refused only if its slug is the name of another channel.
THEOREM RaceNeverFailsLogin == Spec => []FailsOnlyOnNameClash
<1>1. RowInv => FailsOnlyOnNameClash
  BY DEF RowInv, RefusedByClash, FailsOnlyOnNameClash
<1>2. QED
  BY <1>1, RowInvariance, PTL

-------------------------------------------------------------------------------
(* The lockstep, when no account moves while one of its own logins runs *)

ProgressInv == RowInv /\ JoinedBeforePrune

\* Every login carries the current department and has joined before it prunes:
\* what "returns exactly one AD channel" of the sync rests on.
THEOREM ProgressInvariance ==
    ASSUME ~MovesInLogin
    PROVE  Spec => []ProgressInv
<1>1. Init => JoinedBeforePrune
  BY DEF Init, JoinedBeforePrune, Steps
<1>2. RowInv /\ JoinedBeforePrune /\ [Next]_vars => JoinedBeforePrune'
  <2> SUFFICES ASSUME RowInv, JoinedBeforePrune, [Next]_vars PROVE JoinedBeforePrune'
    OBVIOUS
  <2> USE SyncAssumption DEF RowInv
  <2>1. CASE UNCHANGED vars
    BY <2>1 DEF vars, request, JoinedBeforePrune
  <2>2. ASSUME NEW l \in Logins, NEW u \in Users, StartLogin(l, u) PROVE JoinedBeforePrune'
    BY <2>2 DEF StartLogin, TypeOK, JoinedBeforePrune, Steps
  <2>3. ASSUME NEW l \in Logins, UpsertUser(l) PROVE JoinedBeforePrune'
    <3>1. dept[l] = ad[who[l]] /\ pc[l] = "upsert" /\ who[l] \in Users
      BY <2>3 DEF UpsertUser, JoinedBeforePrune, TypeOK, Steps
    <3>2. /\ profile' = [profile EXCEPT ![who[l]] = dept[l]]
          /\ UNCHANGED <<who, dept, chan, ad, adGroupDn, role, moves>>
      BY <2>3 DEF UpsertUser, Goto
    <3>3. \/ dept[l] = NoDn /\ pc' = [pc EXCEPT ![l] = "prune"]
          \/ dept[l] # NoDn /\ pc' = [pc EXCEPT ![l] = "select"]
      BY <2>3 DEF UpsertUser, Goto
    <3>4. QED
      BY <3>1, <3>2, <3>3 DEF TypeOK, JoinedBeforePrune, Steps
  <2>4. ASSUME NEW l \in Logins, SelectChannel(l) PROVE JoinedBeforePrune'
    <3>1. CASE Goto(l, "insert")
      BY <2>4, <3>1 DEF SelectChannel, Goto, TypeOK, JoinedBeforePrune, Steps
    <3>2. CASE \E n \in Linked(dept[l]) : GotoWith(l, "join", n)
      BY <2>4, <3>2 DEF SelectChannel, GotoWith, Linked, TypeOK, JoinedBeforePrune, Steps
    <3>3. QED
      BY <2>4, <3>1, <3>2 DEF SelectChannel
  <2>5. ASSUME NEW l \in Logins, InsertChannel(l) PROVE JoinedBeforePrune'
    <3>1. dept[l] \in Depts /\ SlugOf[dept[l]] \in Names /\ pc[l] = "insert"
      BY <2>5 DEF InsertChannel, OnChannel
    <3>2. CASE Insertable(SlugOf[dept[l]], dept[l])
      <4>1. /\ adGroupDn' = [adGroupDn EXCEPT ![SlugOf[dept[l]]] = dept[l]]
            /\ pc' = [pc EXCEPT ![l] = "join"]
            /\ chan' = [chan EXCEPT ![l] = SlugOf[dept[l]]]
            /\ UNCHANGED <<who, dept, ad, role, profile, moves>>
        BY <2>5, <3>2 DEF InsertChannel, GotoWith
      <4>2. \A n \in Names : adGroupDn[n] # NoRow => adGroupDn'[n] = adGroupDn[n]
        BY RowsOnlyGrow
      <4>3. adGroupDn'[SlugOf[dept[l]]] = dept[l]
        BY <3>1, <4>1 DEF TypeOK
      <4>4. \A k \in Logins : dept[k] # NoRow
        BY DEF TypeOK, DnOrNot
      <4>5. QED
        BY <3>1, <4>1, <4>2, <4>3, <4>4 DEF TypeOK, JoinedBeforePrune, Steps
    <3>3. CASE ~Insertable(SlugOf[dept[l]], dept[l])
      BY <2>5, <3>1, <3>3 DEF InsertChannel, Goto, TypeOK, JoinedBeforePrune, Steps
    <3>4. QED
      BY <3>2, <3>3
  <2>6. ASSUME NEW l \in Logins, RereadChannel(l) PROVE JoinedBeforePrune'
    <3>1. CASE Goto(l, "failed")
      BY <2>6, <3>1 DEF RereadChannel, Goto, TypeOK, JoinedBeforePrune, Steps
    <3>2. CASE \E n \in Linked(dept[l]) : GotoWith(l, "join", n)
      BY <2>6, <3>2 DEF RereadChannel, GotoWith, Linked, TypeOK, JoinedBeforePrune, Steps
    <3>3. QED
      BY <2>6, <3>1, <3>2 DEF RereadChannel
  <2>7. ASSUME NEW l \in Logins, JoinChannel(l) PROVE JoinedBeforePrune'
    <3>1. /\ pc' = [pc EXCEPT ![l] = "prune"] /\ chan' = [chan EXCEPT ![l] = NoRow]
          /\ UNCHANGED <<who, dept, ad, adGroupDn, profile, moves>>
      BY <2>7 DEF JoinChannel, GotoWith
    <3>2. /\ pc[l] = "join" /\ chan[l] \in Names /\ adGroupDn[chan[l]] = dept[l]
          /\ role'[who[l]][chan[l]] # "none"
      BY <2>7 DEF JoinChannel, Joined, JoinedBeforePrune, TypeOK
    <3>3. \A u \in Users, n \in Names : role[u][n] # "none" => role'[u][n] # "none"
      BY <2>7 DEF JoinChannel, Joined, TypeOK
    <3>4. QED
      BY <3>1, <3>2, <3>3 DEF JoinedBeforePrune, TypeOK, Steps
  <2>8. ASSUME NEW l \in Logins, PruneChannels(l) PROVE JoinedBeforePrune'
    <3>1. /\ pc' = [pc EXCEPT ![l] = "ok"]
          /\ UNCHANGED <<who, dept, chan, ad, adGroupDn, profile, moves>>
      BY <2>8 DEF PruneChannels, Goto
    <3>2. \A u \in Users, n \in Names :
             role[u][n] # "none" /\ adGroupDn[n] = ad[u] => role'[u][n] # "none"
      BY <2>8 DEF PruneChannels, Pruned, JoinedBeforePrune, TypeOK, Steps
    <3>3. QED
      BY <3>1, <3>2 DEF JoinedBeforePrune, TypeOK, Steps
  <2>9. ASSUME NEW l \in Logins, Abort(l) PROVE JoinedBeforePrune'
    BY <2>9 DEF Abort, GotoWith, TypeOK, JoinedBeforePrune, Steps
  <2>10. ASSUME NEW u \in Users, NEW d \in DnOrNot, MoveAccount(u, d)
         PROVE  JoinedBeforePrune'
    BY <2>10 DEF MoveAccount, request, LoginsOf, Running, TypeOK, JoinedBeforePrune, Steps
  <2>11. ASSUME NEW u \in Users, NEW n \in Names, Promote(u, n) PROVE JoinedBeforePrune'
    <3>1. \A v \in Users, m \in Names : role[v][m] # "none" => role'[v][m] # "none"
      BY <2>11 DEF Promote, TypeOK
    <3>2. UNCHANGED <<ad, adGroupDn, profile, pc, who, dept, chan>>
      BY <2>11 DEF Promote, request
    <3>3. QED
      BY <3>1, <3>2 DEF JoinedBeforePrune, TypeOK
  <2>12. QED
    BY <2>1, <2>2, <2>3, <2>4, <2>5, <2>6, <2>7, <2>8, <2>9, <2>10, <2>11 DEF Next, LoginStep
<1>3. QED
  BY <1>1, <1>2, RowInvariance, PTL DEF ProgressInv, Spec

\* A login that succeeds leaves its user in its department's channel and in no
\* other department's, however many logins of the same user overlap.
THEOREM LockstepAfterLogin ==
    ASSUME ~MovesInLogin
    PROVE  Spec => LoginEndsInLockstep
<1> DEFINE Step == \A l \in Logins : pc[l] # "ok" /\ pc'[l] = "ok"
                      => InLockstep(who[l])' /\ profile'[who[l]] = ad'[who[l]]
<1>1. ProgressInv /\ [Next]_vars => [Step]_vars
  <2> SUFFICES ASSUME ProgressInv, Next,
                      NEW l \in Logins, pc[l] # "ok", pc'[l] = "ok"
               PROVE  InLockstep(who[l])' /\ profile'[who[l]] = ad'[who[l]]
    OBVIOUS
  <2> USE SyncAssumption DEF ProgressInv, RowInv
  <2>1. PruneChannels(l)
    <3>1. ASSUME NEW k \in Logins, LoginStep(k) PROVE PruneChannels(l)
      BY <3>1 DEF LoginStep, UpsertUser, SelectChannel, InsertChannel, RereadChannel,
                  JoinChannel, PruneChannels, Goto, GotoWith, TypeOK
    <3>2. ASSUME NEW k \in Logins, Abort(k) PROVE FALSE
      BY <3>2 DEF Abort, GotoWith, TypeOK
    <3>3. ASSUME NEW k \in Logins, NEW u \in Users, StartLogin(k, u) PROVE FALSE
      BY <3>3 DEF StartLogin, TypeOK
    <3>4. QED
      BY <3>1, <3>2, <3>3 DEF Next, MoveAccount, Promote, request
  <2>2. /\ pc[l] = "prune" /\ who[l] \in Users
        /\ UNCHANGED <<who, ad, adGroupDn, profile>>
    BY <2>1 DEF PruneChannels, Goto, TypeOK
  <2>3. /\ dept[l] = ad[who[l]] /\ profile[who[l]] = ad[who[l]]
        /\ dept[l] # NoDn =>
              \E n \in Names : adGroupDn[n] = dept[l] /\ role[who[l]][n] # "none"
    BY <2>2 DEF JoinedBeforePrune, Steps
  <2>4. \A n \in Names : role'[who[l]][n] =
             IF adGroupDn[n] \in Depts /\ adGroupDn[n] # dept[l] THEN "none"
             ELSE role[who[l]][n]
    BY <2>1, <2>2 DEF PruneChannels, Pruned, TypeOK
  <2>5. \A n \in AdChannels(who[l])' : adGroupDn[n] = ad[who[l]]
    BY <2>2, <2>3, <2>4 DEF AdChannels
  <2>6. ASSUME ad[who[l]] # NoDn
        PROVE  \E n \in AdChannels(who[l])' : adGroupDn[n] = ad[who[l]]
    <3>1. dept[l] \in Depts
      BY <2>3, <2>6 DEF TypeOK, DnOrNot
    <3>2. PICK n \in Names : adGroupDn[n] = dept[l] /\ role[who[l]][n] # "none"
      BY <2>3, <3>1
    <3>3. n \in AdChannels(who[l])'
      BY <2>2, <2>4, <3>1, <3>2 DEF AdChannels
    <3>4. QED
      BY <2>3, <3>2, <3>3
  <2>7. InLockstep(who[l])'
    BY <2>2, <2>5, <2>6 DEF InLockstep
  <2>8. QED
    BY <2>2, <2>3, <2>7
<1>2. QED
  BY <1>1, ProgressInvariance, PTL DEF Spec, LoginEndsInLockstep

\* No step of any login takes a member out of a channel that is theirs to keep.
THEOREM OwnChannelsAreKept ==
    ASSUME ~MovesInLogin
    PROVE  Spec => OwnChannelsKept
<1> DEFINE Step == \A u \in Users, n \in Names :
                      role[u][n] # "none" /\ adGroupDn[n] \in {NoDn, ad[u]}
                         => role'[u][n] \in {role[u][n], "ADMIN"}
<1>1. ProgressInv /\ [Next]_vars => [Step]_vars
  <2> SUFFICES ASSUME ProgressInv, Next,
                      NEW u \in Users, NEW n \in Names,
                      role[u][n] # "none", adGroupDn[n] \in {NoDn, ad[u]}
               PROVE  role'[u][n] \in {role[u][n], "ADMIN"}
    OBVIOUS
  <2> USE SyncAssumption DEF ProgressInv, RowInv
  <2>1. ASSUME NEW l \in Logins, PruneChannels(l)
        PROVE  role'[u][n] \in {role[u][n], "ADMIN"}
    BY <2>1 DEF PruneChannels, Pruned, JoinedBeforePrune, TypeOK, Steps
  <2>2. ASSUME NEW l \in Logins, JoinChannel(l)
        PROVE  role'[u][n] \in {role[u][n], "ADMIN"}
    BY <2>2 DEF JoinChannel, Joined, TypeOK
  <2>3. ASSUME NEW v \in Users, NEW m \in Names, Promote(v, m)
        PROVE  role'[u][n] \in {role[u][n], "ADMIN"}
    BY <2>3 DEF Promote, TypeOK
  <2>4. QED
    BY <2>1, <2>2, <2>3 DEF Next, LoginStep, UpsertUser, SelectChannel, InsertChannel,
       RereadChannel, Abort, StartLogin, MoveAccount
<1>2. QED
  BY <1>1, ProgressInvariance, PTL DEF Spec, OwnChannelsKept

-------------------------------------------------------------------------------
(* Logins end *)

\* The longest way a login has from where it stands to its end.
StepsLeft == [idle |-> 0, ok |-> 0, failed |-> 0, aborted |-> 0, prune |-> 1,
              join |-> 2, reread |-> 3, insert |-> 4, select |-> 5, upsert |-> 6]

Left(l) == StepsLeft[pc[l]]

\* What the prover knows nothing of: every statement a login may stand before has an
\* outcome for every content of the tables, so its next step can be taken.
CanStep(l) == ENABLED <<LoginStep(l)>>_vars
GuardsSuffice == \A l \in Logins : Running(l) => CanStep(l)

\* No step takes a login back; its own steps take it on.
LEMMA Advances ==
    ASSUME TypeOK, NEW l \in Logins, Running(l)
    PROVE  /\ [Next]_vars => Left(l)' <= Left(l)
           /\ LoginStep(l) => Left(l)' < Left(l)
  <1> USE DEF Left, StepsLeft, Steps, Idle, TypeOK, Running
  <1>1. ASSUME NEW k \in Logins, LoginStep(k)
        PROVE  Left(l)' <= Left(l) /\ (k = l => Left(l)' < Left(l))
    <2>1. CASE UpsertUser(k) \/ SelectChannel(k)
      BY <2>1 DEF UpsertUser, SelectChannel, Goto, GotoWith
    <2>2. CASE InsertChannel(k) \/ RereadChannel(k)
      BY <2>2 DEF InsertChannel, RereadChannel, Goto, GotoWith
    <2>3. CASE JoinChannel(k) \/ PruneChannels(k)
      BY <2>3 DEF JoinChannel, PruneChannels, Goto, GotoWith
    <2>4. QED
      BY <1>1, <2>1, <2>2, <2>3 DEF LoginStep
  <1>2. ASSUME NEW k \in Logins, Abort(k) PROVE Left(l)' <= Left(l)
    BY <1>2 DEF Abort, GotoWith
  <1>3. ASSUME NEW k \in Logins, NEW u \in Users, StartLogin(k, u) PROVE Left(l)' <= Left(l)
    BY <1>3 DEF StartLogin
  <1>4. ASSUME pc' = pc PROVE Left(l)' <= Left(l)
    BY <1>4
  <1> HIDE DEF Left, StepsLeft, Steps, Idle, TypeOK, Running
  <1>5. QED
    BY <1>1, <1>2, <1>3, <1>4 DEF Next, MoveAccount, Promote, vars, request

\* A login in its k-th step before the end gets beyond it.
Falls(l, k) == Left(l) = k ~> Left(l) < k

LEMMA Descends ==
    ASSUME NEW l \in Logins, NEW k \in 1..6
    PROVE  Spec /\ Attended(l) /\ [](Running(l) => CanStep(l)) => Falls(l, k)
<1>1. TypeOK /\ Left(l) = k => Running(l)
  BY DEF Left, StepsLeft, TypeOK, Idle, Running
<1>2. TypeOK /\ TypeOK' /\ Left(l) = k /\ [Next]_vars => (Left(l) = k)' \/ (Left(l) < k)'
  <2> SUFFICES ASSUME TypeOK, TypeOK', Left(l) = k, [Next]_vars PROVE Left(l)' = k \/ Left(l)' < k
    OBVIOUS
  <2>1. Left(l)' <= k
    BY <1>1, Advances
  <2>2. Left(l)' \in Nat
    BY DEF Left, StepsLeft, TypeOK, Idle, Steps
  <2>3. QED
    BY <2>1, <2>2
<1>3. TypeOK /\ Left(l) = k /\ <<LoginStep(l)>>_vars => (Left(l) < k)'
  BY <1>1, Advances
<1>4. QED
  BY <1>1, <1>2, <1>3, TypeCorrect, PTL DEF Spec, Attended, CanStep, Falls

\* A login the server goes on with ends.
LEMMA EachEnds ==
    ASSUME NEW l \in Logins
    PROVE  Spec /\ Attended(l) /\ [](Running(l) => CanStep(l)) => Ends(l)
<1>1. TypeOK => /\ Running(l) => Left(l) \in 1..6
                /\ Left(l) \in Nat
                /\ Left(l) < 1 => ~Running(l)
  BY DEF TypeOK, Running, Left, StepsLeft, Steps, Idle
<1>2. TypeOK => /\ Running(l) => Left(l) = 6 \/ Left(l) < 6
                /\ Left(l) < 6 => Left(l) = 5 \/ Left(l) < 5
                /\ Left(l) < 5 => Left(l) = 4 \/ Left(l) < 4
                /\ Left(l) < 4 => Left(l) = 3 \/ Left(l) < 3
                /\ Left(l) < 3 => Left(l) = 2 \/ Left(l) < 2
                /\ Left(l) < 2 => Left(l) = 1 \/ Left(l) < 1
                /\ Left(l) < 1 => ~Running(l)
  BY <1>1
<1>3. ASSUME NEW k \in 1..6
      PROVE  Spec /\ Attended(l) /\ [](Running(l) => CanStep(l)) => Falls(l, k)
  BY <1>3, Descends
<1>4. Spec /\ Attended(l) /\ [](Running(l) => CanStep(l)) =>
          /\ Falls(l, 1) /\ Falls(l, 2) /\ Falls(l, 3)
          /\ Falls(l, 4) /\ Falls(l, 5) /\ Falls(l, 6)
  BY <1>3
<1>5. QED
  BY <1>2, <1>4, TypeCorrect, PTL DEF Ends, Falls

\* However logins race for channel rows, a login the server accepted and goes on with
\* ends: no unique violation sends it back to a statement it has behind it.
THEOREM LoginsFinish == FairSpec /\ []GuardsSuffice => LoginsEnd
<1>1. ASSUME NEW l \in Logins
      PROVE  Spec /\ Attended(l) /\ []GuardsSuffice => Ends(l)
  <2>1. GuardsSuffice => (Running(l) => CanStep(l))
    BY DEF GuardsSuffice
  <2>2. QED
    BY <2>1, EachEnds, PTL
<1>2. QED
  BY <1>1 DEF FairSpec, LoginsEnd
===============================================================================
