------------------------------- MODULE Presence -------------------------------
(***************************************************************************)
(* Online presence: ChatGateway.handleConnection / handleDisconnect, the    *)
(* counter and the online set PresenceService keeps in Redis, and the set   *)
(* of online users every browser tab derives from presence:sync and         *)
(* presence:update.                                                          *)
(*                                                                         *)
(* Every API instance owns one ioredis connection, so its commands execute  *)
(* in the order they were issued and their promises resolve in that order;  *)
(* commands of different instances interleave freely in Redis.  A socket    *)
(* has at most one connection handler and one disconnect handler, and the   *)
(* two run concurrently: nothing makes the second wait for the first.       *)
(***************************************************************************)
EXTENDS Integers, Sequences, FiniteSets

CONSTANTS
    Users,       \* accounts
    Sockets,     \* socket names; a name is reused once its handlers returned
    Instances,   \* API processes behind the load balancer
    UserOf,      \* [Sockets -> Users]: the authenticated owner (socket.data.user)
    InstanceOf,  \* [Sockets -> Instances]: the process a sticky session lands on
    MaxCrashes,  \* bound on process crashes
    MaxInFlight  \* bound: no tab connects while this many updates wait on one channel

ASSUME PresenceAssumption ==
    /\ UserOf \in [Sockets -> Users]
    /\ InstanceOf \in [Sockets -> Instances]
    /\ IsFiniteSet(Sockets)
    /\ MaxCrashes \in Nat
    /\ MaxInFlight \in Nat

VARIABLES
    phase,      \* transport of each socket: "closed", "open", or "lost" in a crash
    conn,       \* where handleConnection of the socket stands
    disc,       \* where handleDisconnect of the socket stands
    queue,      \* per instance: commands issued and not yet executed by Redis
    reply,      \* per instance: answers not yet consumed by the event loop
    count,      \* Redis presence:count:{user}
    online,     \* Redis presence:online
    bus,        \* updates published by one instance, on their way to another
    view,       \* onlineUserIds of the tab behind each socket
    crashes,    \* how many crashes happened
    counted,    \* history: sockets whose INCR was executed
    discounted  \* history: sockets whose DECR was executed

redis == <<count, online, counted, discounted>>
vars  == <<phase, conn, disc, queue, reply, redis, bus, view, crashes>>

TabsOf(u)   == {s \in Sockets : UserOf[s] = u}
OpenOn(i)   == {s \in Sockets : InstanceOf[s] = i /\ phase[s] = "open"}
HasTab(u)   == \E s \in TabsOf(u) : phase[s] = "open"

ConnStates  == {"idle", "listing", "counting", "adding", "marked", "syncing"}
DiscStates  == {"idle", "counting", "removing"}
Commands    == {"incr", "decr", "sadd", "srem", "smembers"}
CommandRecs == [cmd : Commands, sock : Sockets]
ReplyRecs   == [cmd : Commands, sock : Sockets, n : Int, ids : SUBSET Users]
UpdateRecs  == [user : Users, on : BOOLEAN]

-------------------------------------------------------------------------------
(* PresenceService and RedisService, as pure decisions *)

\* Mutant: the counter is compared before the increment.
FirstSocket_Before(n) == n = 0

\* markOnline: `count === 1`
FirstSocket(n) == n = 1

\* Mutants: off by one in either direction.
LastSocket_Early(n) == n <= 1
LastSocket_Never(n) == n < 0

\* markOffline: `count === 0`
LastSocket(n) == n = 0

\* Mutants: a decrement that stops at zero; a disconnect that forgets to decrement.
CountAfter_Clamped(cmd, n) == IF cmd = "incr" THEN n + 1 ELSE IF n > 0 THEN n - 1 ELSE 0
CountAfter_UpOnly(cmd, n) == IF cmd = "incr" THEN n + 1 ELSE n

\* What INCR and DECR leave in the counter.
CountAfter(cmd, n) == IF cmd = "incr" THEN n + 1 ELSE n - 1

\* setUserOnline of the client store
Noted(ids, u, on) == IF on THEN ids \cup {u} ELSE ids \ {u}

\* Mutant: a snapshot that comes after an update is ignored.
Replaced_IfEmpty(ids, snapshot) == IF ids = {} THEN snapshot ELSE ids

\* setOnlineUsers of the client store: the snapshot replaces the set
Replaced(ids, snapshot) == snapshot

\* Hand a command to the instance's Redis connection.
Issue(i, cmd, s) == queue' = [queue EXCEPT ![i] = Append(@, [cmd |-> cmd, sock |-> s])]

\* server.emit(PRESENCE_UPDATE): local sockets at once, the others by pub/sub.
BroadcastUpdate(i, u, on) ==
    /\ view' = [s \in Sockets |-> IF s \in OpenOn(i) THEN Noted(view[s], u, on) ELSE view[s]]
    /\ bus' = [bus EXCEPT ![i] =
                  [j \in Instances |-> IF j = i THEN @[j]
                                       ELSE Append(@[j], [user |-> u, on |-> on])]]

-------------------------------------------------------------------------------
Init ==
    /\ phase = [s \in Sockets |-> "closed"]
    /\ conn = [s \in Sockets |-> "idle"]
    /\ disc = [s \in Sockets |-> "idle"]
    /\ queue = [i \in Instances |-> <<>>]
    /\ reply = [i \in Instances |-> <<>>]
    /\ count = [u \in Users |-> 0]
    /\ online = {}
    /\ bus = [i \in Instances |-> [j \in Instances |-> <<>>]]
    /\ view = [s \in Sockets |-> {}]
    /\ crashes = 0
    /\ counted = {}
    /\ discounted = {}

\* A tab connects: handleConnection starts and awaits listForUser.
Connect(s) ==
    /\ phase[s] = "closed" /\ conn[s] = "idle" /\ disc[s] = "idle"
    /\ \A i, j \in Instances : Len(bus[i][j]) < MaxInFlight
    /\ phase' = [phase EXCEPT ![s] = "open"]
    /\ conn' = [conn EXCEPT ![s] = "listing"]
    /\ counted' = counted \ {s}
    /\ discounted' = discounted \ {s}
    /\ UNCHANGED <<disc, queue, reply, count, online, bus, view, crashes>>

\* listForUser answered and the rooms are joined: markOnline issues INCR,
\* even when the socket has gone meanwhile.
ChannelsListed(s) ==
    /\ conn[s] = "listing"
    /\ conn' = [conn EXCEPT ![s] = "counting"]
    /\ Issue(InstanceOf[s], "incr", s)
    /\ UNCHANGED <<phase, disc, reply, redis, bus, view, crashes>>

\* The transport closes: handleDisconnect issues DECR at once.
Disconnect(s) ==
    /\ phase[s] = "open"
    /\ phase' = [phase EXCEPT ![s] = "closed"]
    /\ disc' = [disc EXCEPT ![s] = "counting"]
    /\ view' = [view EXCEPT ![s] = {}]
    /\ Issue(InstanceOf[s], "decr", s)
    /\ UNCHANGED <<conn, reply, redis, bus, crashes>>

\* Redis executes the next command of an instance's connection and answers with
\* a number (counters, set updates) or with a set of users.
Answer(i, number, users) ==
    reply' = [reply EXCEPT ![i] = Append(@, [cmd  |-> Head(queue[i]).cmd,
                                             sock |-> Head(queue[i]).sock,
                                             n    |-> number,
                                             ids  |-> users])]

ExecuteCount(i) ==
    LET c == Head(queue[i])
        u == UserOf[c.sock]
        n == CountAfter(c.cmd, count[u])
    IN  /\ c.cmd \in {"incr", "decr"}
        /\ count' = [count EXCEPT ![u] = n]
        /\ counted' = IF c.cmd = "incr" THEN counted \cup {c.sock} ELSE counted
        /\ discounted' = IF c.cmd = "decr" THEN discounted \cup {c.sock} ELSE discounted
        /\ Answer(i, n, {})
        /\ UNCHANGED online

ExecuteSet(i) ==
    LET c == Head(queue[i])
    IN  /\ c.cmd \in {"sadd", "srem"}
        /\ online' = Noted(online, UserOf[c.sock], c.cmd = "sadd")
        /\ Answer(i, 0, {})
        /\ UNCHANGED <<count, counted, discounted>>

ExecuteMembers(i) ==
    /\ Head(queue[i]).cmd = "smembers"
    /\ Answer(i, 0, online)
    /\ UNCHANGED redis

Execute(i) ==
    /\ queue[i] # <<>>
    /\ queue' = [queue EXCEPT ![i] = Tail(@)]
    /\ ExecuteCount(i) \/ ExecuteSet(i) \/ ExecuteMembers(i)
    /\ UNCHANGED <<phase, conn, disc, bus, view, crashes>>

\* markOnline after INCR: the first socket goes on to SADD, any other returns.
AfterIncr(i, r) ==
    /\ r.cmd = "incr"
    /\ IF FirstSocket(r.n)
       THEN /\ conn' = [conn EXCEPT ![r.sock] = "adding"]
            /\ Issue(i, "sadd", r.sock)
       ELSE /\ conn' = [conn EXCEPT ![r.sock] = "marked"]
            /\ UNCHANGED queue
    /\ UNCHANGED <<disc, bus, view>>

\* handleConnection after SADD: announce the user, then ask for the online set.
AfterSadd(i, r) ==
    /\ r.cmd = "sadd"
    /\ conn' = [conn EXCEPT ![r.sock] = "syncing"]
    /\ BroadcastUpdate(i, UserOf[r.sock], TRUE)
    /\ Issue(i, "smembers", r.sock)
    /\ UNCHANGED disc

\* handleConnection after SMEMBERS: presence:sync to this socket, if still there.
AfterMembers(i, r) ==
    /\ r.cmd = "smembers"
    /\ conn' = [conn EXCEPT ![r.sock] = "idle"]
    /\ view' = IF phase[r.sock] = "open"
               THEN [view EXCEPT ![r.sock] = Replaced(@, r.ids)] ELSE view
    /\ UNCHANGED <<disc, queue, bus>>

\* markOffline after DECR: the last socket goes on to SREM, any other returns.
AfterDecr(i, r) ==
    /\ r.cmd = "decr"
    /\ IF LastSocket(r.n)
       THEN /\ disc' = [disc EXCEPT ![r.sock] = "removing"]
            /\ Issue(i, "srem", r.sock)
       ELSE /\ disc' = [disc EXCEPT ![r.sock] = "idle"]
            /\ UNCHANGED queue
    /\ UNCHANGED <<conn, bus, view>>

\* handleDisconnect after SREM: announce that the user left.
AfterSrem(i, r) ==
    /\ r.cmd = "srem"
    /\ disc' = [disc EXCEPT ![r.sock] = "idle"]
    /\ BroadcastUpdate(i, UserOf[r.sock], FALSE)
    /\ UNCHANGED <<conn, queue>>

\* The event loop of an instance resumes the handler of the oldest answer.
Resume(i) ==
    /\ reply[i] # <<>>
    /\ reply' = [reply EXCEPT ![i] = Tail(@)]
    /\ LET r == Head(reply[i])
       IN  AfterIncr(i, r) \/ AfterSadd(i, r) \/ AfterMembers(i, r)
             \/ AfterDecr(i, r) \/ AfterSrem(i, r)
    /\ UNCHANGED <<phase, redis, crashes>>

\* handleConnection when markOnline returned false: ask for the online set.
ListOnline(s) ==
    /\ conn[s] = "marked"
    /\ conn' = [conn EXCEPT ![s] = "syncing"]
    /\ Issue(InstanceOf[s], "smembers", s)
    /\ UNCHANGED <<phase, disc, reply, redis, bus, view, crashes>>

\* The Redis adapter of instance j delivers the next update published by i.
Deliver(i, j) ==
    /\ bus[i][j] # <<>>
    /\ LET m == Head(bus[i][j])
       IN  view' = [s \in Sockets |-> IF s \in OpenOn(j) THEN Noted(view[s], m.user, m.on)
                                      ELSE view[s]]
    /\ bus' = [bus EXCEPT ![i][j] = Tail(@)]
    /\ UNCHANGED <<phase, conn, disc, queue, reply, redis, crashes>>

\* An instance dies and is restarted: its sockets and unissued work are gone,
\* what Redis executed stays, and a tail of its published updates may be lost.
Crash(i) ==
    /\ crashes < MaxCrashes
    /\ crashes' = crashes + 1
    /\ LET dead == {s \in Sockets : InstanceOf[s] = i /\ (phase[s] = "open" \/ conn[s] # "idle"
                                                                            \/ disc[s] # "idle")}
       IN  /\ phase' = [s \in Sockets |-> IF s \in dead THEN "lost" ELSE phase[s]]
           /\ conn' = [s \in Sockets |-> IF s \in dead THEN "idle" ELSE conn[s]]
           /\ disc' = [s \in Sockets |-> IF s \in dead THEN "idle" ELSE disc[s]]
           /\ view' = [s \in Sockets |-> IF s \in dead THEN {} ELSE view[s]]
    /\ queue' = [queue EXCEPT ![i] = <<>>]
    /\ reply' = [reply EXCEPT ![i] = <<>>]
    /\ \E kept \in [Instances -> UNION {0 .. Len(bus[i][j]) : j \in Instances}] :
          /\ \A j \in Instances : kept[j] <= Len(bus[i][j])
          /\ bus' = [k \in Instances |-> [j \in Instances |->
                        IF k = i THEN SubSeq(bus[i][j], 1, kept[j])
                        ELSE IF j = i THEN <<>> ELSE bus[k][j]]]
    /\ UNCHANGED redis

Next ==
    \/ \E s \in Sockets : Connect(s) \/ ChannelsListed(s) \/ ListOnline(s) \/ Disconnect(s)
    \/ \E i \in Instances : Execute(i) \/ Resume(i) \/ Crash(i)
    \/ \E i, j \in Instances : Deliver(i, j)

\* The event loop, Redis and the adapter keep working; tabs owe nothing.
Fairness ==
    /\ \A s \in Sockets : WF_vars(ChannelsListed(s)) /\ WF_vars(ListOnline(s))
    /\ \A i \in Instances : WF_vars(Execute(i)) /\ WF_vars(Resume(i))
    /\ \A i, j \in Instances : WF_vars(Deliver(i, j))

Spec == Init /\ [][Next]_vars
FairSpec == Spec /\ Fairness
-------------------------------------------------------------------------------
(* Properties *)

\* The values the state ranges over; the counter of a user may be negative while a
\* disconnect is ahead of its connect, but never off by more than the user's tabs.
TypeInv ==
    /\ phase \in [Sockets -> {"closed", "open", "lost"}]
    /\ conn \in [Sockets -> ConnStates]
    /\ disc \in [Sockets -> DiscStates]
    /\ queue \in [Instances -> Seq(CommandRecs)]
    /\ reply \in [Instances -> Seq(ReplyRecs)]
    /\ count \in [Users -> Int]
    /\ online \in SUBSET Users
    /\ bus \in [Instances -> [Instances -> Seq(UpdateRecs)]]
    /\ view \in [Sockets -> SUBSET Users]
    /\ crashes \in Nat
    /\ counted \in SUBSET Sockets
    /\ discounted \in SUBSET Sockets

TypeOK ==
    /\ TypeInv
    /\ \A u \in Users : /\ -Cardinality(TabsOf(u)) <= count[u]
                        /\ count[u] <= Cardinality(TabsOf(u))

Quiet ==
    /\ \A s \in Sockets : conn[s] = "idle" /\ disc[s] = "idle"
    /\ \A i, j \in Instances : bus[i][j] = <<>>

\* The counter in Redis is exactly the sockets that were counted in and not yet
\* counted out, in whatever order the two handlers of a socket reached Redis:
\* incrPresenceCount and decrPresenceCount never lose or repeat an update, and a
\* crash leaves behind exactly the sockets it killed.
CountExact ==
    \A u \in Users :
        count[u] = Cardinality(counted \cap TabsOf(u)) - Cardinality(discounted \cap TabsOf(u))

\* Once the handlers of a user's tabs have returned and none of the tabs died in a
\* crash, the counter is the number of connected tabs, on any number of instances
\* and although a disconnect may overtake the connect it belongs to.  (A crash
\* between the two leaves the counter off by one for ever, in either direction:
\* nothing expires presence:count.)
CountMatchesTabs ==
    \A u \in Users :
        (\A s \in TabsOf(u) : phase[s] # "lost" /\ conn[s] = "idle" /\ disc[s] = "idle") =>
            count[u] = Cardinality({s \in TabsOf(u) : phase[s] = "open"})

\* How the handlers, the command queues and the counter stay in step.  Every
\* handler waits for at most one command, on the connection of its own instance,
\* and a handler that waits for nothing has left the counter as it should be.
ConnCommands == {"incr", "sadd", "smembers"}
SameHandler(a, b) == a.sock = b.sock /\ (a.cmd \in ConnCommands <=> b.cmd \in ConnCommands)

AwaitedBy(c, cn, dc) ==
    /\ c.cmd = "incr"     => cn[c.sock] = "counting"
    /\ c.cmd = "sadd"     => cn[c.sock] = "adding"
    /\ c.cmd = "smembers" => cn[c.sock] = "syncing"
    /\ c.cmd = "decr"     => dc[c.sock] = "counting"
    /\ c.cmd = "srem"     => dc[c.sock] = "removing"

Executed(c, in, out) ==
    /\ c.cmd = "incr" => c.sock \in in
    /\ c.cmd = "decr" => c.sock \in out

NotExecuted(c, in, out) ==
    /\ c.cmd = "incr" => c.sock \notin in
    /\ c.cmd = "decr" => c.sock \notin out

QueueInv ==
    \A i \in Instances : \A k \in 1 .. Len(queue[i]) :
        /\ InstanceOf[queue[i][k].sock] = i
        /\ AwaitedBy(queue[i][k], conn, disc)
        /\ NotExecuted(queue[i][k], counted, discounted)
        /\ \A l \in 1 .. Len(queue[i]) : SameHandler(queue[i][k], queue[i][l]) => k = l

ReplyInv ==
    \A i \in Instances : \A k \in 1 .. Len(reply[i]) :
        /\ InstanceOf[reply[i][k].sock] = i
        /\ AwaitedBy(reply[i][k], conn, disc)
        /\ Executed(reply[i][k], counted, discounted)
        /\ \A l \in 1 .. Len(reply[i]) : SameHandler(reply[i][k], reply[i][l]) => k = l
        /\ \A l \in 1 .. Len(queue[i]) : ~SameHandler(reply[i][k], queue[i][l])

CountedInv ==
    \A s \in Sockets :
        /\ conn[s] = "listing" => s \notin counted
        /\ conn[s] \in {"adding", "marked", "syncing"} => s \in counted
        /\ phase[s] = "open" => disc[s] = "idle" /\ s \notin discounted
        /\ phase[s] = "open" /\ conn[s] = "idle" => s \in counted
        /\ disc[s] = "removing" => s \in discounted
        /\ phase[s] = "lost" => conn[s] = "idle" /\ disc[s] = "idle"
        /\ phase[s] = "closed" /\ conn[s] = "idle" /\ disc[s] = "idle" =>
               (s \in counted <=> s \in discounted)
        /\ phase[s] = "closed" /\ conn[s] = "idle" /\ disc[s] # "idle" => s \in counted
        /\ phase[s] = "closed" /\ conn[s] # "idle" /\ disc[s] = "idle" => s \in discounted

HandlerInv == QueueInv /\ ReplyInv /\ CountedInv

\* "multi-tab correct": whenever no handler runs, a user is in presence:online
\* exactly if one of the user's tabs is connected.
MultiTabCorrect ==
    Quiet => \A u \in Users : u \in online <=> HasTab(u)

\* Whenever no handler runs and no update is in flight, every open tab shows
\* exactly the users of the online set: the snapshot of presence:sync and the
\* increments of presence:update never overtake each other on the way.
ViewsConverge ==
    Quiet => \A s \in Sockets : phase[s] = "open" => view[s] = online

\* A user whose last tab closed for good ends up offline for good.
NoGhostUser ==
    \A u \in Users : <>[](~HasTab(u)) => <>[](u \notin online)

\* A tab that stays connected keeps finding its own user in its list: it is
\* synchronised, and no stale offline notice of another tab lasts.
TabSeesItself ==
    \A s \in Sockets : <>[](phase[s] = "open") => []<>(UserOf[s] \in view[s])

===============================================================================
