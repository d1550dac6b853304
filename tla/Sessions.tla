-------------------------------- MODULE Sessions --------------------------------
(***************************************************************************)
(* Token pairs: AuthService.login (after the channel sync), refresh, logout  *)
(* and issueTokens, the refresh:{jti} keys RedisService keeps, and the user   *)
(* row whose tokenVersion and isActive decide what a token is worth.          *)
(*                                                                         *)
(* Every await is a point where other requests run.  A client may present a  *)
(* token any number of times and in overlapping requests (two tabs share the *)
(* cookie, a request is retried); an answer may never reach it.              *)
(***************************************************************************)
EXTENDS Naturals, FiniteSets

CONSTANTS
    Users,      \* accounts
    Jtis,       \* token identifiers; uuidv4 never repeats one
    Requests,   \* HTTP requests; a slot is reused when its request ended
    None,       \* no token, no key
    MaxChanges  \* bound on changes an operator makes to user rows

ASSUME SessionsAssumption ==
    /\ None \notin Users /\ None \notin Jtis
    /\ IsFiniteSet(Jtis) /\ IsFiniteSet(Requests)
    /\ MaxChanges \in Nat

VARIABLES
    tokenVersion,  \* User.tokenVersion
    isActive,      \* User.isActive
    refreshKey,    \* Redis refresh:{jti} -> user id, or None
    signed,        \* tokens signed so far
    sub, minted,   \* payload of each token: its user and tokenVersion
    parent,        \* history: the token a token replaced, None after a login
    handed,        \* tokens a client has received
    presented,     \* history: tokens some refresh or logout was started with
    raced,         \* history: tokens two refreshes of which overlapped
    expired,       \* tokens whose lifetime is over
    pc,            \* where each request stands
    tok,           \* the token it presented, None for a login
    user,          \* the user it acts for
    snapshot,      \* tokenVersion in the user row it read
    new,           \* the token it issued
    live,          \* history: was its token in Redis when it started?
    changes        \* operator changes so far

row     == <<tokenVersion, isActive, changes>>
token   == <<signed, sub, minted, parent>>
request == <<pc, tok, user, snapshot, new, live>>
vars    == <<row, refreshKey, token, handed, presented, raced, expired, request>>

Refreshing == {"get", "find", "revoke", "rotate"}
Steps      == Refreshing \cup {"issue", "respond", "drop"}

Running(r)  == pc[r] \in Steps
Issuing     == {r \in Requests : pc[r] \in Refreshing \cup {"issue"}}
SpareToken  == Cardinality(Issuing) < Cardinality(Jtis \ signed)
Busy(j)     == \E r \in Requests : tok[r] = j /\ pc[r] \in Refreshing \cup {"issue"}

-------------------------------------------------------------------------------
(* Decisions and writes of the handlers *)

\* refresh: `!ownerId || ownerId !== payload.sub` is false
KeyAccepted(j) == refreshKey[j] # None /\ refreshKey[j] = sub[j]

\* Mutant: the tokenVersion is not compared.
RowAccepts_Active(j) == isActive[sub[j]]

\* `!user || !user.isActive || user.tokenVersion !== payload.tokenVersion` is false
RowAccepts(j) == isActive[sub[j]] /\ tokenVersion[sub[j]] = minted[j]

\* Mutant: every token of the user is deleted.
Without_User(j) == [k \in Jtis |-> IF refreshKey[k] = sub[j] THEN None ELSE refreshKey[k]]

\* deleteRefreshToken
Without(j) == [refreshKey EXCEPT ![j] = None]

\* setRefreshToken
With(j, u) == [refreshKey EXCEPT ![j] = u]

Goto(r, step) == /\ pc' = [pc EXCEPT ![r] = step]
                 /\ UNCHANGED <<tok, user, snapshot, new, live>>

\* The request ends, with whatever status: what it knew is gone.
Finish(r) ==
    /\ pc' = [pc EXCEPT ![r] = "idle"]
    /\ tok' = [tok EXCEPT ![r] = None]
    /\ snapshot' = [snapshot EXCEPT ![r] = 0]
    /\ new' = [new EXCEPT ![r] = None]
    /\ live' = [live EXCEPT ![r] = FALSE]
    /\ UNCHANGED user

Begin(r, step, j, u, version) ==
    /\ ~Running(r)
    /\ pc' = [pc EXCEPT ![r] = step]
    /\ tok' = [tok EXCEPT ![r] = j]
    /\ user' = [user EXCEPT ![r] = u]
    /\ snapshot' = [snapshot EXCEPT ![r] = version]
    /\ new' = [new EXCEPT ![r] = None]
    /\ live' = [live EXCEPT ![r] = j # None /\ refreshKey[j] # None]

Init ==
    /\ tokenVersion = [u \in Users |-> 0]
    /\ isActive = [u \in Users |-> TRUE]
    /\ refreshKey = [j \in Jtis |-> None]
    /\ signed = {}
    /\ \E u \in Users : sub = [j \in Jtis |-> u] /\ user = [r \in Requests |-> u]
    /\ minted = [j \in Jtis |-> 0]
    /\ parent = [j \in Jtis |-> None]
    /\ handed = {} /\ presented = {} /\ raced = {} /\ expired = {}
    /\ pc = [r \in Requests |-> "idle"]
    /\ tok = [r \in Requests |-> None]
    /\ snapshot = [r \in Requests |-> 0]
    /\ new = [r \in Requests |-> None]
    /\ live = [r \in Requests |-> FALSE]
    /\ changes = 0

\* login: the upsert returns the user row (whatever its isActive); the channel
\* sync follows, and only then the tokens are issued from that row.
StartLogin(r, u) ==
    /\ SpareToken
    /\ Begin(r, "issue", None, u, tokenVersion[u])
    /\ UNCHANGED <<row, refreshKey, token, handed, presented, raced, expired>>

\* refresh: the signature of the presented token is good.
StartRefresh(r, j) ==
    /\ SpareToken
    /\ j \in handed
    /\ Begin(r, "get", j, sub[j], 0)
    /\ presented' = presented \cup {j}
    /\ raced' = IF Busy(j) THEN raced \cup {j} ELSE raced
    /\ UNCHANGED <<row, refreshKey, token, handed, expired>>

\* Mutant: nothing answers a request whose key is gone.
CheckKey_NoAnswer(r) ==
    /\ pc[r] = "get"
    /\ KeyAccepted(tok[r]) /\ Goto(r, "find")
    /\ UNCHANGED <<row, refreshKey, token, handed, presented, raced, expired>>

\* refresh: GET refresh:{jti}
CheckKey(r) ==
    /\ pc[r] = "get"
    /\ IF KeyAccepted(tok[r]) THEN Goto(r, "find") ELSE Finish(r)
    /\ UNCHANGED <<row, refreshKey, token, handed, presented, raced, expired>>

\* refresh: user.findUnique; the row it saw is what the new tokens are made from.
FindUser(r) ==
    /\ pc[r] = "find"
    /\ pc' = [pc EXCEPT ![r] = IF RowAccepts(tok[r]) THEN "rotate" ELSE "revoke"]
    /\ snapshot' = [snapshot EXCEPT ![r] = tokenVersion[user[r]]]
    /\ UNCHANGED <<row, refreshKey, token, handed, presented, raced, expired, tok, user, new, live>>

\* refresh: DEL of a token whose session is no longer valid.
Revoke(r) ==
    /\ pc[r] = "revoke"
    /\ refreshKey' = Without(tok[r])
    /\ Finish(r)
    /\ UNCHANGED <<row, token, handed, presented, raced, expired>>

\* Mutant: the presented token is not deleted.
Rotate_Keep(r) ==
    /\ pc[r] = "rotate"
    /\ Goto(r, "issue")
    /\ UNCHANGED <<row, refreshKey, token, handed, presented, raced, expired>>

\* refresh: DEL of the presented token, before its successor is made.
Rotate(r) ==
    /\ pc[r] = "rotate"
    /\ refreshKey' = Without(tok[r])
    /\ Goto(r, "issue")
    /\ UNCHANGED <<row, token, handed, presented, raced, expired>>

\* issueTokens: sign a pair and SET refresh:{jti}.
IssueTokens(r, j) ==
    /\ pc[r] = "issue"
    /\ j \notin signed
    /\ signed' = signed \cup {j}
    /\ sub' = [sub EXCEPT ![j] = user[r]]
    /\ minted' = [minted EXCEPT ![j] = snapshot[r]]
    /\ parent' = [parent EXCEPT ![j] = tok[r]]
    /\ refreshKey' = With(j, user[r])
    /\ pc' = [pc EXCEPT ![r] = "respond"]
    /\ new' = [new EXCEPT ![r] = j]
    /\ UNCHANGED <<row, handed, presented, raced, expired, tok, user, snapshot, live>>

\* setAuthCookies: the answer reaches the client.
Respond(r) ==
    /\ pc[r] = "respond"
    /\ handed' = handed \cup {new[r]}
    /\ Finish(r)
    /\ UNCHANGED <<row, refreshKey, token, presented, raced, expired>>

\* logout behind JwtAuthGuard, which accepts the access token issued with j.
StartLogout(r, j) ==
    /\ j \in handed
    /\ RowAccepts(j)
    /\ Begin(r, "drop", j, sub[j], 0)
    /\ presented' = presented \cup {j}
    /\ UNCHANGED <<row, refreshKey, token, handed, raced, expired>>

\* logout: DEL of the presented token.
DropToken(r) ==
    /\ pc[r] = "drop"
    /\ refreshKey' = Without(tok[r])
    /\ Finish(r)
    /\ UNCHANGED <<row, token, handed, presented, raced, expired>>

RequestStep(r) == \/ CheckKey(r) \/ FindUser(r) \/ Revoke(r) \/ Rotate(r)
                  \/ (\E j \in Jtis : IssueTokens(r, j)) \/ Respond(r) \/ DropToken(r)

\* A statement fails, the process dies or the answer is lost.
Abort(r) ==
    /\ Running(r)
    /\ Finish(r)
    /\ UNCHANGED <<row, refreshKey, token, handed, presented, raced, expired>>

\* The TTL of the key (the rest of the token's lifetime) runs out.
Expire(j) ==
    /\ refreshKey[j] # None
    /\ refreshKey' = Without(j)
    /\ expired' = expired \cup {j}
    /\ UNCHANGED <<row, token, handed, presented, raced, request>>

\* An operator revokes every session of a user, or (de)activates the user;
\* nothing under src/ writes these columns.
BumpVersion(u) ==
    /\ changes < MaxChanges
    /\ tokenVersion' = [tokenVersion EXCEPT ![u] = @ + 1]
    /\ changes' = changes + 1
    /\ UNCHANGED <<isActive, refreshKey, token, handed, presented, raced, expired, request>>

SetActive(u, b) ==
    /\ changes < MaxChanges
    /\ b # isActive[u]
    /\ isActive' = [isActive EXCEPT ![u] = b]
    /\ changes' = changes + 1
    /\ UNCHANGED <<tokenVersion, refreshKey, token, handed, presented, raced, expired, request>>

Next ==
    \/ \E r \in Requests : \/ RequestStep(r) \/ Abort(r)
                           \/ \E u \in Users : StartLogin(r, u)
                           \/ \E j \in Jtis : StartRefresh(r, j) \/ StartLogout(r, j)
    \/ \E j \in Jtis : Expire(j)
    \/ \E u \in Users : BumpVersion(u) \/ \E b \in BOOLEAN : SetActive(u, b)

\* The server goes on with every request it accepted.
Attended(r) == WF_vars(RequestStep(r))
Spec        == Init /\ [][Next]_vars
FairSpec    == Spec /\ \A r \in Requests : Attended(r)

-------------------------------------------------------------------------------
(* Properties *)

\* Types of the tables, the token payloads and the requests.
TypeOK ==
    /\ tokenVersion \in [Users -> Nat]
    /\ isActive \in [Users -> BOOLEAN]
    /\ refreshKey \in [Jtis -> Users \cup {None}]
    /\ signed \subseteq Jtis
    /\ sub \in [Jtis -> Users]
    /\ minted \in [Jtis -> Nat]
    /\ parent \in [Jtis -> Jtis \cup {None}]
    /\ handed \subseteq Jtis /\ presented \subseteq Jtis
    /\ raced \subseteq Jtis /\ expired \subseteq Jtis
    /\ pc \in [Requests -> {"idle"} \cup Steps]
    /\ tok \in [Requests -> Jtis \cup {None}]
    /\ user \in [Requests -> Users]
    /\ snapshot \in [Requests -> Nat]
    /\ new \in [Requests -> Jtis \cup {None}]
    /\ live \in [Requests -> BOOLEAN]
    /\ changes \in Nat

\* "a cada refresh, o antigo e invalidado": a token that has a successor is never in
\* Redis again, whichever requests overlap or die half-way.
SuccessorReplaces ==
    \A j \in signed : parent[j] # None => refreshKey[parent[j]] = None

\* A refresh hands the session on as it is: the successor has the user and the
\* tokenVersion of the token it replaces, so a session revoked by a version bump is
\* not lifted to the new version by a refresh in flight.
SuccessorInherits ==
    \A j \in signed : parent[j] # None =>
        sub[j] = sub[parent[j]] /\ minted[j] = minted[parent[j]]

\* "revogar = apagar do Redis": a refresh that started when its token's key was
\* already gone gets no new tokens.
RevokedStaysOut ==
    \A r \in Requests :
        tok[r] # None /\ ~live[r] => pc[r] \in {"get", "drop"}

\* A client can use what it was given: a token it received, has not presented yet and
\* that has not expired is in Redis under its user.
HandedTokenWorks ==
    \A j \in handed \ (presented \cup expired) : refreshKey[j] = sub[j]

\* "the presented refresh token is single-use": it has at most one successor.
\* Not kept by two overlapping refreshes, which both pass the GET before either DEL.
SingleUse ==
    \A i, j \in signed : parent[i] = parent[j] /\ parent[i] # None => i = j

\* What is left of single use: a token has at most one successor unless two refreshes
\* of it overlapped; presented again later, even after a lost answer, it is refused.
SingleUseUnlessRaced ==
    \A i, j \in signed :
        parent[i] = parent[j] /\ parent[i] \notin raced \cup {None} => i = j

\* Every request the server accepted ends.
Ends(r)     == Running(r) ~> ~Running(r)
RequestsEnd == \A r \in Requests : Ends(r)
===============================================================================
