------------------------------ MODULE ChannelSync ------------------------------
(***************************************************************************)
(* Department channels: AuthService.login up to the sync, LdapService's      *)
(* department lookup and ChannelSyncService.syncChannelsForUser, against a   *)
(* directory whose accounts are moved between OUs from outside.              *)
(*                                                                         *)
(* Nothing is a transaction: logins of the same or of different users        *)
(* interleave between any two statements, and any statement may fail and     *)
(* end the login where it stands.  Channel rows are identified by their      *)
(* unique name, the other unique column (adGroupDn) is data.                 *)
(***************************************************************************)
EXTENDS Naturals, FiniteSets

CONSTANTS
    Users,           \* accounts
    Depts,           \* DNs of the OUs that accounts sit in
    Names,           \* channel names (slugs of OU names, and other channels)
    SlugOf,          \* [Depts -> Names]: slug(department.name)
    Others,          \* names of channels that exist without an adGroupDn
    Logins,          \* login requests; a request slot is reused when it ended
    NoDn,            \* adGroupDn IS NULL, and the department of a non-OU account
    NoRow,           \* no channel row has this name
    MovesInLogin,    \* may an account be moved while one of its logins runs?
    MaxMoves         \* bound on moves in the directory

ASSUME SyncAssumption ==
    /\ SlugOf \in [Depts -> Names]
    /\ Others \subseteq Names
    /\ NoDn \notin Depts /\ NoRow \notin Depts /\ NoDn # NoRow
    /\ MovesInLogin \in BOOLEAN
    /\ MaxMoves \in Nat

VARIABLES
    ad,         \* the OU each account currently sits in (NoDn: not in an OU)
    adGroupDn,  \* Channel table: name -> adGroupDn, NoDn (not linked) or NoRow
    role,       \* ChannelMember table: user -> channel -> "none" or the role
    profile,    \* User.department as last written by a login
    pc,         \* where the login of each request slot stands
    who,        \* its user
    dept,       \* the OU it read from the directory
    chan,       \* the channel it is about to join
    moves       \* moves so far

request == <<pc, who, dept, chan>>
vars == <<ad, adGroupDn, role, profile, request, moves>>

Roles   == {"none", "MEMBER", "ADMIN"}
Idle    == {"idle", "ok", "failed", "aborted"}
Steps   == {"upsert", "select", "insert", "reread", "join", "prune"}
DnOrNot == Depts \cup {NoDn}

Running(l)      == pc[l] \in Steps
LoginsOf(u)     == {l \in Logins : who[l] = u /\ Running(l)}
Linked(dn)      == {n \in Names : adGroupDn[n] = dn}
AdChannels(u)   == {n \in Names : adGroupDn[n] \in Depts /\ role[u][n] # "none"}

-------------------------------------------------------------------------------
(* What the statements select and write *)

\* Mutants: the `not: null` is dropped; nothing is pruned without a department.
Pruned_Unlinked(n, dn) == adGroupDn[n] \notin {NoRow, dn}
Pruned_WithDept(n, dn) == dn # NoDn /\ adGroupDn[n] \in Depts /\ adGroupDn[n] # dn

\* deleteMany: adGroupDn not null and notIn [department.dn] (or [] without one)
Pruned(n, dn) == adGroupDn[n] \in Depts /\ adGroupDn[n] # dn

\* Mutant: a role that MemberRole does not have.
Joined_Owner(old) == IF old = "none" THEN "OWNER" ELSE old

\* createMany with skipDuplicates: an existing row keeps its role.
Joined(old) == IF old = "none" THEN "MEMBER" ELSE old

\* The unique indexes of Channel let a row (name, dn) in.
Insertable(n, dn) == adGroupDn[n] = NoRow /\ Linked(dn) = {}

Init ==
    /\ ad \in [Users -> DnOrNot]
    /\ adGroupDn = [n \in Names |-> IF n \in Others THEN NoDn ELSE NoRow]
    /\ role \in [Users -> [Names -> {"none", "MEMBER"}]]
    /\ \A u \in Users, n \in Names \ Others : role[u][n] = "none"
    /\ profile = [u \in Users |-> NoDn]
    /\ pc = [l \in Logins |-> "idle"]
    /\ \E u \in Users : who = [l \in Logins |-> u]
    /\ dept = [l \in Logins |-> NoDn]
    /\ chan = [l \in Logins |-> NoRow]
    /\ moves = 0

Goto(l, step) ==
    /\ pc' = [pc EXCEPT ![l] = step]
    /\ UNCHANGED <<who, dept, chan>>

GotoWith(l, step, n) ==
    /\ pc' = [pc EXCEPT ![l] = step]
    /\ chan' = [chan EXCEPT ![l] = n]
    /\ UNCHANGED <<who, dept>>

\* login: findUserByUsername reads the account's OU; verifyCredentials follows.
StartLogin(l, u) ==
    /\ pc[l] \in Idle
    /\ pc' = [pc EXCEPT ![l] = "upsert"]
    /\ who' = [who EXCEPT ![l] = u]
    /\ dept' = [dept EXCEPT ![l] = ad[u]]
    /\ chan' = [chan EXCEPT ![l] = NoRow]
    /\ UNCHANGED <<ad, adGroupDn, role, profile, moves>>

\* login: the user row takes the department LDAP returned.
UpsertUser(l) ==
    /\ pc[l] = "upsert"
    /\ profile' = [profile EXCEPT ![who[l]] = dept[l]]
    /\ Goto(l, IF dept[l] = NoDn THEN "prune" ELSE "select")
    /\ UNCHANGED <<ad, adGroupDn, role, moves>>

\* ensureChannel: the SELECT half of Prisma's upsert.
SelectChannel(l) ==
    /\ pc[l] = "select"
    /\ \/ /\ Linked(dept[l]) = {}
          /\ Goto(l, "insert")
       \/ \E n \in Linked(dept[l]) : GotoWith(l, "join", n)
    /\ UNCHANGED <<ad, adGroupDn, role, profile, moves>>

\* Mutant: the unique violation is not caught.
InsertChannel_NoCatch(l) ==
    LET n == SlugOf[dept[l]]
    IN  /\ pc[l] = "insert"
        /\ IF Insertable(n, dept[l])
           THEN /\ adGroupDn' = [adGroupDn EXCEPT ![n] = dept[l]]
                /\ GotoWith(l, "join", n)
           ELSE /\ Goto(l, "failed")
                /\ UNCHANGED adGroupDn
        /\ UNCHANGED <<ad, role, profile, moves>>

\* ensureChannel: the INSERT half; a unique violation is caught as P2002.
InsertChannel(l) ==
    LET n == SlugOf[dept[l]]
    IN  /\ pc[l] = "insert"
        /\ IF Insertable(n, dept[l])
           THEN /\ adGroupDn' = [adGroupDn EXCEPT ![n] = dept[l]]
                /\ GotoWith(l, "join", n)
           ELSE /\ Goto(l, "reread")
                /\ UNCHANGED adGroupDn
        /\ UNCHANGED <<ad, role, profile, moves>>

\* Mutant: the upsert is tried again instead of read again.
RereadChannel_Retry(l) ==
    /\ pc[l] = "reread"
    /\ Goto(l, "select")
    /\ UNCHANGED <<ad, adGroupDn, role, profile, moves>>

\* ensureChannel after P2002: findUniqueOrThrow by adGroupDn.
RereadChannel(l) ==
    /\ pc[l] = "reread"
    /\ \/ /\ Linked(dept[l]) = {}
          /\ Goto(l, "failed")
       \/ \E n \in Linked(dept[l]) : GotoWith(l, "join", n)
    /\ UNCHANGED <<ad, adGroupDn, role, profile, moves>>

\* syncChannelsForUser: INSERT ... ON CONFLICT DO NOTHING.
JoinChannel(l) ==
    /\ pc[l] = "join"
    /\ role' = [role EXCEPT ![who[l]][chan[l]] = Joined(@)]
    /\ GotoWith(l, "prune", NoRow)
    /\ UNCHANGED <<ad, adGroupDn, profile, moves>>

\* syncChannelsForUser: deleteMany over the other AD-linked channels; tokens follow.
PruneChannels(l) ==
    /\ pc[l] = "prune"
    /\ role' = [role EXCEPT ![who[l]] =
                   [n \in Names |-> IF Pruned(n, dept[l]) THEN "none" ELSE @[n]]]
    /\ Goto(l, "ok")
    /\ UNCHANGED <<ad, adGroupDn, profile, moves>>

LoginStep(l) == \/ UpsertUser(l) \/ SelectChannel(l) \/ InsertChannel(l)
                \/ RereadChannel(l) \/ JoinChannel(l) \/ PruneChannels(l)

\* A statement fails or the process dies: the login ends where it stands.
Abort(l) ==
    /\ Running(l)
    /\ GotoWith(l, "aborted", NoRow)
    /\ UNCHANGED <<ad, adGroupDn, role, profile, moves>>

\* The directory administrator moves an account to another OU.
MoveAccount(u, d) ==
    /\ moves < MaxMoves
    /\ MovesInLogin \/ LoginsOf(u) = {}
    /\ d # ad[u]
    /\ ad' = [ad EXCEPT ![u] = d]
    /\ moves' = moves + 1
    /\ UNCHANGED <<adGroupDn, role, profile, request>>

\* An operator makes a member a channel admin (nothing under src/ does).
Promote(u, n) ==
    /\ role[u][n] = "MEMBER"
    /\ role' = [role EXCEPT ![u][n] = "ADMIN"]
    /\ UNCHANGED <<ad, adGroupDn, profile, request, moves>>

Next ==
    \/ \E l \in Logins : LoginStep(l) \/ Abort(l) \/ \E u \in Users : StartLogin(l, u)
    \/ \E u \in Users : \/ \E d \in DnOrNot : MoveAccount(u, d)
                        \/ \E n \in Names : Promote(u, n)

\* The server goes on with every login it accepted.
Attended(l) == WF_vars(LoginStep(l))
Spec        == Init /\ [][Next]_vars
FairSpec    == Spec /\ \A l \in Logins : Attended(l)

-------------------------------------------------------------------------------
(* Properties *)

\* Types, and the two unique columns of Channel.
TypeOK ==
    /\ ad \in [Users -> DnOrNot]
    /\ adGroupDn \in [Names -> DnOrNot \cup {NoRow}]
    /\ role \in [Users -> [Names -> Roles]]
    /\ profile \in [Users -> DnOrNot]
    /\ pc \in [Logins -> Idle \cup Steps]
    /\ who \in [Logins -> Users]
    /\ dept \in [Logins -> DnOrNot]
    /\ chan \in [Logins -> Names \cup {NoRow}]
    /\ moves \in Nat
    /\ \A m, n \in Names : adGroupDn[m] \in Depts /\ adGroupDn[m] = adGroupDn[n] => m = n

\* "Keeps ChannelMember rows in lockstep with the user's current AD department".
InLockstep(u) ==
    /\ \A n \in AdChannels(u) : adGroupDn[n] = ad[u]
    /\ ad[u] # NoDn => \E n \in AdChannels(u) : adGroupDn[n] = ad[u]

\* A login that succeeds leaves its user in the channel of the department, in no
\* other department's channel and with that department in the profile, however
\* many logins of the same user overlap.
LoginEndsInLockstep ==
    [][\A l \in Logins : pc[l] # "ok" /\ pc'[l] = "ok"
          => InLockstep(who[l])' /\ profile'[who[l]] = ad'[who[l]]]_vars

\* "must be safe when the same user logs in concurrently": when every login of a
\* user has succeeded and one of them read the current OU, the lockstep holds.  (At
\* most one move: then a login's department is current iff it was read after it.)  Not
\* kept when an account moves during a login, which may then finish after a newer one.
SettlesInLockstep ==
    \A u \in Users :
        /\ \A l \in Logins : who[l] = u => pc[l] \in {"idle", "ok"}
        /\ \E l \in Logins : pc[l] = "ok" /\ who[l] = u /\ dept[l] = ad[u]
        => InLockstep(u)

\* "safe when the same user logs in concurrently": nobody is ever taken out of a
\* channel that is not AD-linked or that is their department's, nor loses a role
\* there, not even between two statements of a login.
OwnChannelsKept ==
    [][\A u \in Users, n \in Names :
          role[u][n] # "none" /\ adGroupDn[n] \in {NoDn, ad[u]}
             => role'[u][n] \in {role[u][n], "ADMIN"}]_vars

\* "one wins and the other catches the unique violation and re-reads the now-existing
\* row instead of surfacing a 500": losing the race to create a channel never fails a
\* login; only a name already taken by another row does.
FailsOnlyOnNameClash ==
    \A l \in Logins : pc[l] = "failed" =>
        adGroupDn[SlugOf[dept[l]]] \notin {NoRow, dept[l]}

\* A login the server accepted ends, with or without success.
Ends(l)   == Running(l) ~> ~Running(l)
LoginsEnd == \A l \in Logins : Ends(l)

\* How far the logins in progress have got, as long as no account moves in one.
JoinedBeforePrune ==
    \A l \in Logins :
        /\ pc[l] \in Steps => dept[l] = ad[who[l]]
        /\ pc[l] \in Steps \ {"upsert"} => profile[who[l]] = ad[who[l]]
        /\ pc[l] \in Steps \ {"upsert", "prune"} => dept[l] # NoDn
        /\ pc[l] = "join" => chan[l] \in Names /\ adGroupDn[chan[l]] = dept[l]
        /\ pc[l] = "prune" /\ dept[l] # NoDn =>
               \E n \in Names : adGroupDn[n] = dept[l] /\ role[who[l]][n] # "none"
===============================================================================
