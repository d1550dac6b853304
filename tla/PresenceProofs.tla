---------------------------- MODULE PresenceProofs ----------------------------
(***************************************************************************)
(* Theorems about Presence for any users, sockets and instances and any     *)
(* number of crashes; what is online and what tabs show, while none crashed *)
(* and tabs that have to agree share an instance.                            *)
(***************************************************************************)
EXTENDS Presence, SequenceTheorems, FiniteSetTheorems, TLAPS

-------------------------------------------------------------------------------
(* Sequences *)

\* Issuing a command adds it behind the others of its instance.
LEMMA AppendAt ==
    ASSUME NEW S, NEW q \in [Instances -> Seq(S)], NEW i \in Instances, NEW e \in S,
           NEW r, r = [q EXCEPT ![i] = Append(@, e)]
    PROVE  /\ r \in [Instances -> Seq(S)]
           /\ \A j \in Instances : j # i => r[j] = q[j]
           /\ Len(r[i]) = Len(q[i]) + 1
           /\ Len(q[i]) \in Nat
           /\ \A k \in 1 .. Len(q[i]) : r[i][k] = q[i][k]
           /\ r[i][Len(q[i]) + 1] = e
<1>1. r[i] = Append(q[i], e) /\ q[i] \in Seq(S)
  OBVIOUS
<1>2. QED
  BY <1>1, AppendProperties, LenProperties

\* Taking the first element shifts the others down by one.
LEMMA TailAt ==
    ASSUME NEW S, NEW q \in [Instances -> Seq(S)], NEW i \in Instances, q[i] # <<>>,
           NEW r, r = [q EXCEPT ![i] = Tail(@)]
    PROVE  /\ r \in [Instances -> Seq(S)]
           /\ \A j \in Instances : j # i => r[j] = q[j]
           /\ Len(r[i]) = Len(q[i]) - 1
           /\ Len(q[i]) \in Nat \ {0}
           /\ \A k \in 1 .. Len(r[i]) : r[i][k] = q[i][k + 1]
           /\ Head(q[i]) = q[i][1]
           /\ Head(q[i]) \in S
<1>1. r[i] = Tail(q[i]) /\ q[i] \in Seq(S)
  OBVIOUS
<1>2. Len(q[i]) \in Nat \ {0}
  BY <1>1, EmptySeq
<1>3. Head(q[i]) \in S /\ Tail(q[i]) \in Seq(S) /\ Len(Tail(q[i])) = Len(q[i]) - 1
  BY <1>1, HeadTailProperties
<1>4. \A k \in 1 .. Len(r[i]) : r[i][k] = q[i][k + 1]
  BY <1>1, <1>2, <1>3, HeadTailProperties
<1>5. Head(q[i]) = q[i][1]
  BY <1>1
<1>6. QED
  BY <1>1, <1>2, <1>3, <1>4, <1>5

-------------------------------------------------------------------------------
(* Types *)

THEOREM TypeInvariance == Spec => []TypeInv
<1>1. Init => TypeInv
  BY PresenceAssumption, EmptySeq DEF Init, TypeInv, ConnStates, DiscStates
<1>2. TypeInv /\ [Next]_vars => TypeInv'
  <2> SUFFICES ASSUME TypeInv, [Next]_vars PROVE TypeInv'
    OBVIOUS
  <2> USE PresenceAssumption DEF TypeInv
  <2>1. ASSUME NEW s \in Sockets, NEW i \in Instances, NEW c \in Commands, Issue(i, c, s)
        PROVE  queue' \in [Instances -> Seq(CommandRecs)]
    <3>1. [cmd |-> c, sock |-> s] \in CommandRecs
      BY DEF CommandRecs
    <3>2. queue' = [queue EXCEPT ![i] = Append(@, [cmd |-> c, sock |-> s])]
      BY <2>1 DEF Issue
    <3>3. QED
      BY <3>1, <3>2, AppendAt
  <2>2. ASSUME NEW i \in Instances, NEW u \in Users, NEW on \in BOOLEAN, BroadcastUpdate(i, u, on)
        PROVE  view' \in [Sockets -> SUBSET Users]
               /\ bus' \in [Instances -> [Instances -> Seq(UpdateRecs)]]
    <3>1. view' \in [Sockets -> SUBSET Users]
      BY <2>2 DEF BroadcastUpdate, Noted
    <3>2. \A j \in Instances : Append(bus[i][j], [user |-> u, on |-> on]) \in Seq(UpdateRecs)
      <4>1. [user |-> u, on |-> on] \in UpdateRecs
        BY DEF UpdateRecs
      <4>2. QED
        BY <4>1, AppendProperties
    <3>3. bus' \in [Instances -> [Instances -> Seq(UpdateRecs)]]
      BY <2>2, <3>2 DEF BroadcastUpdate
    <3>4. QED
      BY <3>1, <3>3
  <2>3. CASE UNCHANGED vars
    BY <2>3 DEF vars, redis
  <2>4. ASSUME NEW s \in Sockets, Connect(s) PROVE TypeInv'
    BY <2>4 DEF Connect, ConnStates
  <2>5. ASSUME NEW s \in Sockets, ChannelsListed(s) PROVE TypeInv'
    BY <2>5, <2>1 DEF ChannelsListed, ConnStates, Commands, redis
  <2>6. ASSUME NEW s \in Sockets, ListOnline(s) PROVE TypeInv'
    BY <2>6, <2>1 DEF ListOnline, ConnStates, Commands, redis
  <2>7. ASSUME NEW s \in Sockets, Disconnect(s) PROVE TypeInv'
    BY <2>7, <2>1 DEF Disconnect, DiscStates, Commands, redis
  <2>8. ASSUME NEW i \in Instances, Execute(i) PROVE TypeInv'
    <3>1. queue' \in [Instances -> Seq(CommandRecs)] /\ Head(queue[i]) \in CommandRecs
      BY <2>8, TailAt DEF Execute
    <3>2. ASSUME NEW n \in Int, NEW ids \in SUBSET Users, Answer(i, n, ids)
          PROVE  reply' \in [Instances -> Seq(ReplyRecs)]
      <4>1. [cmd |-> Head(queue[i]).cmd, sock |-> Head(queue[i]).sock, n |-> n, ids |-> ids]
              \in ReplyRecs
        BY <3>1 DEF CommandRecs, ReplyRecs
      <4>2. QED
        BY <3>2, <4>1, AppendAt DEF Answer
    <3>3. UserOf[Head(queue[i]).sock] \in Users /\ Head(queue[i]).sock \in Sockets
      BY <3>1 DEF CommandRecs
    <3>4. UNCHANGED <<phase, conn, disc, bus, view, crashes>>
      BY <2>8 DEF Execute
    <3>5. CASE ExecuteCount(i)
      <4> DEFINE u == UserOf[Head(queue[i]).sock]
                 n == CountAfter(Head(queue[i]).cmd, count[u])
      <4>1. n \in Int /\ {} \in SUBSET Users
        BY <3>3 DEF CountAfter
      <4>2. count' = [count EXCEPT ![u] = n] /\ Answer(i, n, {}) /\ online' = online
        BY <3>5 DEF ExecuteCount
      <4>3. counted' \in SUBSET Sockets /\ discounted' \in SUBSET Sockets
        BY <3>5, <3>3 DEF ExecuteCount
      <4>4. reply' \in [Instances -> Seq(ReplyRecs)]
        BY <4>1, <4>2, <3>2
      <4>5. count' \in [Users -> Int]
        BY <4>1, <4>2, <3>3
      <4>6. QED
        BY <4>2, <4>3, <4>4, <4>5, <3>1, <3>4
    <3>6. CASE ExecuteSet(i)
      <4>1. Answer(i, 0, {}) /\ UNCHANGED <<count, counted, discounted>>
        BY <3>6 DEF ExecuteSet
      <4>2. online' \in SUBSET Users
        BY <3>6, <3>3 DEF ExecuteSet, Noted
      <4>3. reply' \in [Instances -> Seq(ReplyRecs)]
        BY <4>1, <3>2
      <4>4. QED
        BY <4>1, <4>2, <4>3, <3>1, <3>4
    <3>7. CASE ExecuteMembers(i)
      BY <3>1, <3>2, <3>4, <3>7 DEF ExecuteMembers, redis
    <3>8. QED
      BY <2>8, <3>5, <3>6, <3>7 DEF Execute
  <2>9. ASSUME NEW i \in Instances, Resume(i) PROVE TypeInv'
    <3> DEFINE r == Head(reply[i])
    <3>1. reply' \in [Instances -> Seq(ReplyRecs)] /\ r \in ReplyRecs
      BY <2>9, TailAt DEF Resume
    <3>2. r.sock \in Sockets /\ r.ids \in SUBSET Users /\ UserOf[r.sock] \in Users
      BY <3>1 DEF ReplyRecs
    <3> HIDE DEF r
    <3>3. UNCHANGED <<phase, redis, crashes>>
      BY <2>9 DEF Resume
    <3>4. CASE AfterIncr(i, r)
      BY <3>1, <3>2, <3>3, <3>4, <2>1 DEF AfterIncr, Commands, ConnStates, redis
    <3>5. CASE AfterSadd(i, r)
      BY <3>1, <3>2, <3>3, <3>5, <2>1, <2>2 DEF AfterSadd, Commands, ConnStates, redis
    <3>6. CASE AfterMembers(i, r)
      BY <3>1, <3>2, <3>3, <3>6 DEF AfterMembers, ConnStates, redis, Replaced
    <3>7. CASE AfterDecr(i, r)
      BY <3>1, <3>2, <3>3, <3>7, <2>1 DEF AfterDecr, Commands, DiscStates, redis
    <3>8. CASE AfterSrem(i, r)
      BY <3>1, <3>2, <3>3, <3>8, <2>2 DEF AfterSrem, DiscStates, redis
    <3>9. QED
      BY <2>9, <3>4, <3>5, <3>6, <3>7, <3>8 DEF Resume, r
  <2>10. ASSUME NEW i \in Instances, NEW j \in Instances, Deliver(i, j) PROVE TypeInv'
    <3>1. Head(bus[i][j]) \in UpdateRecs /\ Tail(bus[i][j]) \in Seq(UpdateRecs)
      BY <2>10, HeadTailProperties DEF Deliver
    <3>2. QED
      BY <2>10, <3>1 DEF Deliver, UpdateRecs, Noted, redis
  <2>11. ASSUME NEW i \in Instances, Crash(i) PROVE TypeInv'
    <3>1. PICK kept \in [Instances -> UNION {0 .. Len(bus[i][j]) : j \in Instances}] :
            /\ \A j \in Instances : kept[j] <= Len(bus[i][j])
            /\ bus' = [k \in Instances |-> [j \in Instances |->
                          IF k = i THEN SubSeq(bus[i][j], 1, kept[j])
                          ELSE IF j = i THEN <<>> ELSE bus[k][j]]]
      BY <2>11 DEF Crash
    <3>2. \A j \in Instances : kept[j] \in Int /\ kept[j] <= Len(bus[i][j])
      BY <3>1
    <3>3. \A j \in Instances : SubSeq(bus[i][j], 1, kept[j]) \in Seq(UpdateRecs)
      <4> TAKE j \in Instances
      <4>1. bus[i][j] \in Seq(UpdateRecs) /\ Len(bus[i][j]) \in Nat
        BY LenProperties
      <4>2. \A k \in 1 .. kept[j] : bus[i][j][k] \in UpdateRecs
        <5>1. \A k \in 1 .. kept[j] : k \in 1 .. Len(bus[i][j])
          BY <4>1, <3>2
        <5>2. QED
          BY <4>1, <5>1, ElementOfSeq
      <4>3. QED
        BY <4>2, <3>2, SubSeqProperties
    <3>4. bus' \in [Instances -> [Instances -> Seq(UpdateRecs)]]
      BY <3>1, <3>3, EmptySeq
    <3>5. queue' \in [Instances -> Seq(CommandRecs)] /\ reply' \in [Instances -> Seq(ReplyRecs)]
      BY <2>11, EmptySeq DEF Crash
    <3>6. phase' \in [Sockets -> {"closed", "open", "lost"}]
      BY <2>11 DEF Crash
    <3>7. conn' \in [Sockets -> ConnStates] /\ disc' \in [Sockets -> DiscStates]
      BY <2>11 DEF Crash, ConnStates, DiscStates
    <3>8. view' \in [Sockets -> SUBSET Users]
      BY <2>11 DEF Crash
    <3>9. crashes' \in Nat /\ UNCHANGED redis
      BY <2>11 DEF Crash
    <3>10. QED
      BY <3>4, <3>5, <3>6, <3>7, <3>8, <3>9 DEF redis
  <2>12. QED
    BY <2>3, <2>4, <2>5, <2>6, <2>7, <2>8, <2>9, <2>10, <2>11 DEF Next
<1>3. QED
  BY <1>1, <1>2, PTL DEF Spec
-------------------------------------------------------------------------------
(* One command per handler *)

\* The commands and answers in flight are well-formed.
LEMMA InFlightTypes ==
    ASSUME TypeInv, NEW i \in Instances
    PROVE  /\ Len(queue[i]) \in Nat /\ Len(reply[i]) \in Nat
           /\ \A k \in 1 .. Len(queue[i]) : queue[i][k].cmd \in Commands /\ queue[i][k].sock \in Sockets
           /\ \A k \in 1 .. Len(reply[i]) : reply[i][k].cmd \in Commands /\ reply[i][k].sock \in Sockets
<1>1. queue[i] \in Seq(CommandRecs) /\ reply[i] \in Seq(ReplyRecs)
  BY DEF TypeInv
<1>2. Len(queue[i]) \in Nat /\ Len(reply[i]) \in Nat
  BY <1>1, LenProperties
<1>3. /\ \A k \in 1 .. Len(queue[i]) : queue[i][k] \in CommandRecs
      /\ \A k \in 1 .. Len(reply[i]) : reply[i][k] \in ReplyRecs
  BY <1>1, ElementOfSeq
<1>4. QED
  BY <1>2, <1>3 DEF CommandRecs, ReplyRecs

\* A handler that issues a command and had none in flight keeps one in flight.
LEMMA IssueKeepsQueueInv ==
    ASSUME TypeInv, TypeInv',
           NEW i \in Instances, NEW s \in Sockets, NEW cmd \in Commands,
           InstanceOf[s] = i, Issue(i, cmd, s),
           \A j \in Instances : \A k \in 1 .. Len(queue[j]) :
               /\ InstanceOf[queue[j][k].sock] = j
               /\ AwaitedBy(queue[j][k], conn', disc')
               /\ NotExecuted(queue[j][k], counted', discounted')
               /\ ~SameHandler(queue[j][k], [cmd |-> cmd, sock |-> s])
               /\ \A l \in 1 .. Len(queue[j]) : SameHandler(queue[j][k], queue[j][l]) => k = l,
           AwaitedBy([cmd |-> cmd, sock |-> s], conn', disc'),
           NotExecuted([cmd |-> cmd, sock |-> s], counted', discounted')
    PROVE  QueueInv'
<1> DEFINE e == [cmd |-> cmd, sock |-> s]
<1>1. e \in CommandRecs /\ e.sock = s /\ e.cmd = cmd
  BY DEF CommandRecs
<1>2. queue \in [Instances -> Seq(CommandRecs)] /\ queue' = [queue EXCEPT ![i] = Append(@, e)]
  BY DEF Issue, TypeInv
<1> HIDE DEF e
<1>3. /\ \A j \in Instances : j # i => queue'[j] = queue[j]
      /\ Len(queue'[i]) = Len(queue[i]) + 1
      /\ Len(queue[i]) \in Nat
      /\ \A k \in 1 .. Len(queue[i]) : queue'[i][k] = queue[i][k]
      /\ queue'[i][Len(queue[i]) + 1] = e
  BY <1>1, <1>2, AppendAt
<1>4. SUFFICES ASSUME NEW j \in Instances, NEW k \in 1 .. Len(queue'[j])
               PROVE  /\ InstanceOf[queue'[j][k].sock] = j
                      /\ AwaitedBy(queue'[j][k], conn', disc')
                      /\ NotExecuted(queue'[j][k], counted', discounted')
                      /\ \A l \in 1 .. Len(queue'[j]) :
                            SameHandler(queue'[j][k], queue'[j][l]) => k = l
  BY DEF QueueInv
<1>5. CASE j # i
  BY <1>3, <1>5
<1>6. CASE j = i /\ k \in 1 .. Len(queue[i])
  <2>1. queue'[i][k] = queue[i][k]
    BY <1>3, <1>6
  <2>2. ASSUME NEW l \in 1 .. Len(queue'[i]), SameHandler(queue'[i][k], queue'[i][l]) PROVE k = l
    <3>1. l \in 1 .. Len(queue[i]) \/ l = Len(queue[i]) + 1
      BY <1>3
    <3>2. ~SameHandler(queue[i][k], e)
      BY <1>6 DEF e
    <3>3. QED
      BY <1>3, <1>6, <2>1, <2>2, <3>1, <3>2
  <2>3. QED
    BY <1>6, <2>1, <2>2
<1>7. CASE j = i /\ k = Len(queue[i]) + 1
  <2>1. queue'[i][k] = e
    BY <1>3, <1>7
  <2>2. ASSUME NEW l \in 1 .. Len(queue'[i]), SameHandler(e, queue'[i][l]) PROVE k = l
    <3>1. l \in 1 .. Len(queue[i]) \/ l = Len(queue[i]) + 1
      BY <1>3
    <3>2. CASE l \in 1 .. Len(queue[i])
      <4>1. ~SameHandler(queue[i][l], e)
        BY <3>2 DEF e
      <4>2. QED
        BY <1>3, <2>2, <3>2, <4>1 DEF SameHandler
    <3>3. QED
      BY <1>7, <3>1, <3>2
  <2>3. AwaitedBy(e, conn', disc') /\ NotExecuted(e, counted', discounted')
    BY DEF e
  <2>4. QED
    BY <1>1, <1>7, <2>1, <2>2, <2>3
<1>8. k \in 1 .. Len(queue[i]) \/ k = Len(queue[i]) + 1 \/ j # i
  BY <1>3
<1>9. QED
  BY <1>5, <1>6, <1>7, <1>8

\* A step of one handler disturbs no command or answer of another.
MovesOnly(cmd, s) ==
    IF cmd \in ConnCommands
    THEN disc' = disc /\ \E x \in ConnStates : conn' = [conn EXCEPT ![s] = x]
    ELSE conn' = conn /\ \E x \in DiscStates : disc' = [disc EXCEPT ![s] = x]

LEMMA OtherHandler ==
    ASSUME TypeInv, NEW s \in Sockets, NEW cmd \in Commands, MovesOnly(cmd, s),
           NEW c, c.cmd \in Commands, c.sock \in Sockets,
           ~SameHandler(c, [cmd |-> cmd, sock |-> s]),
           AwaitedBy(c, conn, disc)
    PROVE  AwaitedBy(c, conn', disc')
<1>1. CASE cmd \in ConnCommands
  <2>1. PICK x \in ConnStates : disc' = disc /\ conn' = [conn EXCEPT ![s] = x]
    BY <1>1 DEF MovesOnly
  <2>2. c.sock # s \/ c.cmd \notin ConnCommands
    BY <1>1 DEF SameHandler
  <2>3. QED
    BY <2>1, <2>2 DEF AwaitedBy, ConnCommands, Commands, TypeInv
<1>2. CASE cmd \notin ConnCommands
  <2>1. PICK x \in DiscStates : conn' = conn /\ disc' = [disc EXCEPT ![s] = x]
    BY <1>2 DEF MovesOnly
  <2>2. c.sock # s \/ c.cmd \in ConnCommands
    BY <1>2 DEF SameHandler
  <2>3. QED
    BY <2>1, <2>2 DEF AwaitedBy, ConnCommands, Commands, TypeInv
<1>3. QED
  BY <1>1, <1>2

\* A handler that moves on and issues its next command keeps QueueInv.
LEMMA IssueStep ==
    ASSUME TypeInv, TypeInv', QueueInv,
           NEW i \in Instances, NEW s \in Sockets, NEW cmd \in Commands,
           InstanceOf[s] = i, Issue(i, cmd, s), MovesOnly(cmd, s),
           UNCHANGED <<counted, discounted>>,
           \A j \in Instances : \A k \in 1 .. Len(queue[j]) :
               ~SameHandler(queue[j][k], [cmd |-> cmd, sock |-> s]),
           AwaitedBy([cmd |-> cmd, sock |-> s], conn', disc'),
           NotExecuted([cmd |-> cmd, sock |-> s], counted, discounted)
    PROVE  QueueInv'
<1>1. \A j \in Instances : \A k \in 1 .. Len(queue[j]) :
          /\ InstanceOf[queue[j][k].sock] = j
          /\ AwaitedBy(queue[j][k], conn, disc)
          /\ NotExecuted(queue[j][k], counted', discounted')
          /\ \A l \in 1 .. Len(queue[j]) : SameHandler(queue[j][k], queue[j][l]) => k = l
  BY DEF QueueInv
<1>2. \A j \in Instances : \A k \in 1 .. Len(queue[j]) : AwaitedBy(queue[j][k], conn', disc')
  BY <1>1, InFlightTypes, OtherHandler
<1>3. NotExecuted([cmd |-> cmd, sock |-> s], counted', discounted')
  OBVIOUS
<1>4. QED
  BY <1>1, <1>2, <1>3, IssueKeepsQueueInv

\* A handler that moves on without a command keeps QueueInv.
LEMMA MoveStep ==
    ASSUME TypeInv, QueueInv, NEW s \in Sockets, NEW cmd \in Commands, MovesOnly(cmd, s),
           UNCHANGED <<queue, counted, discounted>>,
           \A j \in Instances : \A k \in 1 .. Len(queue[j]) :
               ~SameHandler(queue[j][k], [cmd |-> cmd, sock |-> s])
    PROVE  QueueInv'
<1>1. \A j \in Instances : \A k \in 1 .. Len(queue[j]) : AwaitedBy(queue[j][k], conn', disc')
  BY InFlightTypes, OtherHandler DEF QueueInv
<1>2. QED
  BY <1>1 DEF QueueInv

\* What a step leaves true of the answers of instance j, before the step moves
\* the handler of s.
Untouched(j, cmd, s) ==
    \A k \in 1 .. Len(reply'[j]) :
        /\ InstanceOf[reply'[j][k].sock] = j
        /\ AwaitedBy(reply'[j][k], conn, disc)
        /\ Executed(reply'[j][k], counted, discounted)
        /\ \A l \in 1 .. Len(reply'[j]) : SameHandler(reply'[j][k], reply'[j][l]) => k = l
        /\ \A l \in 1 .. Len(queue[j]) : ~SameHandler(reply'[j][k], queue[j][l])
        /\ ~SameHandler(reply'[j][k], [cmd |-> cmd, sock |-> s])

\* Moving the handler of s, with or without a command of its own, keeps ReplyInv.
LEMMA ReplyStep ==
    ASSUME TypeInv, TypeInv', NEW s \in Sockets, NEW cmd \in Commands, MovesOnly(cmd, s),
           UNCHANGED <<counted, discounted>>,
           queue' = queue \/ Issue(InstanceOf[s], cmd, s),
           \A j \in Instances : Untouched(j, cmd, s)
    PROVE  ReplyInv'
<1> DEFINE e == [cmd |-> cmd, sock |-> s]
<1>1. SUFFICES ASSUME NEW j \in Instances, NEW k \in 1 .. Len(reply'[j])
               PROVE  /\ AwaitedBy(reply'[j][k], conn', disc')
                      /\ \A l \in 1 .. Len(queue'[j]) : ~SameHandler(reply'[j][k], queue'[j][l])
  BY DEF ReplyInv, Untouched
<1>2. reply'[j][k].cmd \in Commands /\ reply'[j][k].sock \in Sockets
  <2>1. reply'[j] \in Seq(ReplyRecs)
    BY DEF TypeInv
  <2>2. reply'[j][k] \in ReplyRecs
    BY <2>1, ElementOfSeq
  <2>3. QED
    BY <2>2 DEF ReplyRecs
<1>3. AwaitedBy(reply'[j][k], conn', disc')
  BY <1>2, OtherHandler DEF Untouched
<1>4. CASE queue' = queue
  BY <1>3, <1>4 DEF Untouched
<1>5. CASE Issue(InstanceOf[s], cmd, s)
  <2>1. e \in CommandRecs /\ InstanceOf[s] \in Instances
    BY PresenceAssumption DEF CommandRecs
  <2>2. queue \in [Instances -> Seq(CommandRecs)]
        /\ queue' = [queue EXCEPT ![InstanceOf[s]] = Append(@, e)]
    BY <1>5 DEF Issue, TypeInv
  <2> HIDE DEF e
  <2> DEFINE i == InstanceOf[s]
  <2>3. /\ \A m \in Instances : m # i => queue'[m] = queue[m]
        /\ Len(queue'[i]) = Len(queue[i]) + 1
        /\ Len(queue[i]) \in Nat
        /\ \A m \in 1 .. Len(queue[i]) : queue'[i][m] = queue[i][m]
        /\ queue'[i][Len(queue[i]) + 1] = e
    BY <2>1, <2>2, AppendAt
  <2>4. ASSUME NEW l \in 1 .. Len(queue'[j]) PROVE ~SameHandler(reply'[j][k], queue'[j][l])
    <3>1. (l \in 1 .. Len(queue[j]) /\ queue'[j][l] = queue[j][l]) \/ queue'[j][l] = e
      BY SMTT(30), <2>3
    <3>2. ~SameHandler(reply'[j][k], e)
      BY DEF Untouched, e
    <3>3. QED
      BY <3>1, <3>2 DEF Untouched
  <2>5. QED
    BY <1>3, <2>4
<1>6. QED
  BY <1>4, <1>5

\* Consuming an answer: its handler has nothing else in flight, and the remaining
\* answers are as they were.
LEMMA ResumeFacts ==
    ASSUME TypeInv, QueueInv, ReplyInv, NEW i \in Instances, reply[i] # <<>>,
           reply' = [reply EXCEPT ![i] = Tail(@)],
           NEW cmd \in Commands, cmd \in ConnCommands <=> Head(reply[i]).cmd \in ConnCommands
    PROVE  /\ Head(reply[i]).sock \in Sockets
           /\ Head(reply[i]).cmd \in Commands
           /\ InstanceOf[Head(reply[i]).sock] = i
           /\ AwaitedBy(Head(reply[i]), conn, disc)
           /\ Executed(Head(reply[i]), counted, discounted)
           /\ \A j \in Instances : \A k \in 1 .. Len(queue[j]) :
                 ~SameHandler(queue[j][k], [cmd |-> cmd, sock |-> Head(reply[i]).sock])
           /\ \A j \in Instances : Untouched(j, cmd, Head(reply[i]).sock)
<1> DEFINE r == Head(reply[i])
           e == [cmd |-> cmd, sock |-> r.sock]
<1>1. reply \in [Instances -> Seq(ReplyRecs)]
  BY DEF TypeInv
<1>2. /\ \A j \in Instances : j # i => reply'[j] = reply[j]
      /\ Len(reply'[i]) = Len(reply[i]) - 1
      /\ Len(reply[i]) \in Nat \ {0}
      /\ \A k \in 1 .. Len(reply'[i]) : reply'[i][k] = reply[i][k + 1]
      /\ r = reply[i][1]
      /\ r \in ReplyRecs
  BY <1>1, TailAt
<1>3. r.sock \in Sockets /\ r.cmd \in Commands
  BY <1>2 DEF ReplyRecs
<1>4. /\ InstanceOf[r.sock] = i
      /\ AwaitedBy(r, conn, disc)
      /\ Executed(r, counted, discounted)
      /\ \A l \in 1 .. Len(reply[i]) : SameHandler(r, reply[i][l]) => 1 = l
      /\ \A l \in 1 .. Len(queue[i]) : ~SameHandler(r, queue[i][l])
  BY <1>2 DEF ReplyInv
<1>5. \A x : SameHandler(x, e) => SameHandler(r, x)
  BY DEF SameHandler
<1> HIDE DEF r, e
<1>6. ASSUME NEW j \in Instances, NEW k \in 1 .. Len(queue[j]) PROVE ~SameHandler(queue[j][k], e)
  <2>1. CASE j = i
    BY <1>4, <1>5, <2>1
  <2>2. CASE j # i
    BY <1>4, <2>2 DEF QueueInv, SameHandler, e
  <2>3. QED
    BY <2>1, <2>2
<1>7. ASSUME NEW j \in Instances PROVE Untouched(j, cmd, r.sock)
  <2>1. CASE j # i
    <3>1. \A k \in 1 .. Len(reply[j]) : ~SameHandler(reply[j][k], e)
      BY <1>4, <2>1 DEF ReplyInv, SameHandler, e
    <3>2. QED
      BY <1>2, <2>1, <3>1 DEF ReplyInv, Untouched, e
  <2>2. CASE j = i
    <3>1. SUFFICES ASSUME NEW k \in 1 .. Len(reply'[i])
                   PROVE /\ InstanceOf[reply'[i][k].sock] = i
                         /\ AwaitedBy(reply'[i][k], conn, disc)
                         /\ Executed(reply'[i][k], counted, discounted)
                         /\ \A l \in 1 .. Len(reply'[i]) : SameHandler(reply'[i][k], reply'[i][l]) => k = l
                         /\ \A l \in 1 .. Len(queue[i]) : ~SameHandler(reply'[i][k], queue[i][l])
                         /\ ~SameHandler(reply'[i][k], e)
      BY <2>2 DEF Untouched, e
    <3>2. k + 1 \in 1 .. Len(reply[i]) /\ reply'[i][k] = reply[i][k + 1] /\ k + 1 # 1
      BY <1>2
    <3>3. ~SameHandler(reply[i][k + 1], e)
      BY <1>4, <1>5, <3>2
    <3>4. \A l \in 1 .. Len(reply'[i]) : SameHandler(reply'[i][k], reply'[i][l]) => k = l
      <4> TAKE l \in 1 .. Len(reply'[i])
      <4>1. l + 1 \in 1 .. Len(reply[i]) /\ reply'[i][l] = reply[i][l + 1]
        BY <1>2
      <4>2. SameHandler(reply[i][k + 1], reply[i][l + 1]) => k + 1 = l + 1
        BY <3>2, <4>1 DEF ReplyInv
      <4>3. QED
        BY <3>2, <4>1, <4>2
    <3>5. QED
      BY <3>2, <3>3, <3>4 DEF ReplyInv
  <2>3. QED
    BY <2>1, <2>2
<1>8. QED
  BY <1>3, <1>4, <1>6, <1>7 DEF r, e

\* Redis executes the oldest command of an instance.
LEMMA ExecuteKeepsHandlerInv ==
    ASSUME TypeInv, TypeInv', HandlerInv, NEW i \in Instances, Execute(i)
    PROVE  HandlerInv'
<1> DEFINE c == Head(queue[i])
<1> USE DEF HandlerInv
<1>1. /\ queue[i] # <<>> /\ queue' = [queue EXCEPT ![i] = Tail(@)]
      /\ UNCHANGED <<phase, conn, disc>>
  BY DEF Execute
<1>2. /\ \A j \in Instances : j # i => queue'[j] = queue[j]
      /\ Len(queue'[i]) = Len(queue[i]) - 1
      /\ Len(queue[i]) \in Nat \ {0}
      /\ \A k \in 1 .. Len(queue'[i]) : queue'[i][k] = queue[i][k + 1]
      /\ c = queue[i][1]
      /\ c \in CommandRecs
  BY <1>1, TailAt DEF TypeInv
<1>3. c.cmd \in Commands /\ c.sock \in Sockets
  BY <1>2 DEF CommandRecs
<1>4. \E n \in Int, ids \in SUBSET Users : Answer(i, n, ids)
  <2>1. UserOf[c.sock] \in Users /\ online \in SUBSET Users /\ {} \in SUBSET Users
    BY <1>3, PresenceAssumption DEF TypeInv
  <2>2. CountAfter(c.cmd, count[UserOf[c.sock]]) \in Int
    BY <2>1 DEF TypeInv, CountAfter
  <2>3. QED
    BY <2>1, <2>2 DEF Execute, ExecuteCount, ExecuteSet, ExecuteMembers
<1>5. PICK n \in Int, ids \in SUBSET Users : Answer(i, n, ids)
  BY <1>4
<1> DEFINE r == [cmd |-> c.cmd, sock |-> c.sock, n |-> n, ids |-> ids]
<1>6. r \in ReplyRecs /\ r.cmd = c.cmd /\ r.sock = c.sock
  BY <1>3 DEF ReplyRecs
<1>7. reply' = [reply EXCEPT ![i] = Append(@, r)] /\ reply \in [Instances -> Seq(ReplyRecs)]
  BY <1>5 DEF Answer, TypeInv
<1>8. /\ counted' = IF c.cmd = "incr" THEN counted \cup {c.sock} ELSE counted
      /\ discounted' = IF c.cmd = "decr" THEN discounted \cup {c.sock} ELSE discounted
  BY DEF Execute, ExecuteCount, ExecuteSet, ExecuteMembers, redis
<1>9. /\ InstanceOf[c.sock] = i
      /\ AwaitedBy(c, conn, disc)
      /\ NotExecuted(c, counted, discounted)
      /\ \A l \in 1 .. Len(queue[i]) : SameHandler(c, queue[i][l]) => 1 = l
  BY <1>2 DEF QueueInv
<1> HIDE DEF c, r
<1>10. /\ \A j \in Instances : j # i => reply'[j] = reply[j]
       /\ Len(reply'[i]) = Len(reply[i]) + 1
       /\ Len(reply[i]) \in Nat
       /\ \A k \in 1 .. Len(reply[i]) : reply'[i][k] = reply[i][k]
       /\ reply'[i][Len(reply[i]) + 1] = r
  BY <1>6, <1>7, AppendAt
<1>11. QueueInv'
  <2>1. SUFFICES ASSUME NEW j \in Instances, NEW k \in 1 .. Len(queue'[j])
                 PROVE  /\ InstanceOf[queue'[j][k].sock] = j
                        /\ AwaitedBy(queue'[j][k], conn', disc')
                        /\ NotExecuted(queue'[j][k], counted', discounted')
                        /\ \A l \in 1 .. Len(queue'[j]) :
                              SameHandler(queue'[j][k], queue'[j][l]) => k = l
    BY DEF QueueInv
  <2>2. CASE j # i
    <3>1. queue'[j] = queue[j] /\ queue[j][k].sock # c.sock
      BY <1>2, <1>9, <2>2 DEF QueueInv
    <3>2. NotExecuted(queue[j][k], counted', discounted')
      BY <1>8, <2>2, <3>1 DEF QueueInv, NotExecuted
    <3>3. QED
      BY ZenonT(30), <1>1, <3>1, <3>2 DEF QueueInv
  <2>3. CASE j = i
    <3>1. k + 1 \in 1 .. Len(queue[i]) /\ queue'[i][k] = queue[i][k + 1] /\ k + 1 # 1
      BY <1>2, <2>3
    <3>2. ~SameHandler(c, queue[i][k + 1])
      BY <1>9, <3>1
    <3>3. NotExecuted(queue[i][k + 1], counted', discounted')
      <4>1. NotExecuted(queue[i][k + 1], counted, discounted)
        BY <3>1 DEF QueueInv
      <4>2. QED
        BY <1>8, <3>2, <4>1 DEF NotExecuted, SameHandler, ConnCommands
    <3>4. ASSUME NEW l \in 1 .. Len(queue'[i]), SameHandler(queue'[i][k], queue'[i][l]) PROVE k = l
      <4>1. l + 1 \in 1 .. Len(queue[i]) /\ queue'[i][l] = queue[i][l + 1]
        BY <1>2
      <4>2. k + 1 = l + 1
        BY <3>1, <3>4, <4>1 DEF QueueInv
      <4>3. QED
        BY <3>1, <4>1, <4>2
    <3>5. QED
      BY <1>1, <2>3, <3>1, <3>3, <3>4 DEF QueueInv
  <2>4. QED
    BY <2>2, <2>3
<1>12. ReplyInv'
  <2>1. SUFFICES ASSUME NEW j \in Instances, NEW k \in 1 .. Len(reply'[j])
                 PROVE  /\ InstanceOf[reply'[j][k].sock] = j
                        /\ AwaitedBy(reply'[j][k], conn', disc')
                        /\ Executed(reply'[j][k], counted', discounted')
                        /\ \A l \in 1 .. Len(reply'[j]) :
                              SameHandler(reply'[j][k], reply'[j][l]) => k = l
                        /\ \A l \in 1 .. Len(queue'[j]) : ~SameHandler(reply'[j][k], queue'[j][l])
    BY DEF ReplyInv
  <2>2. \A x : Executed(x, counted, discounted) => Executed(x, counted', discounted')
    BY <1>8 DEF Executed
  <2>3. CASE j # i
    BY SMTT(30), <1>1, <1>2, <1>10, <2>2, <2>3 DEF ReplyInv
  <2>4. \A l \in 1 .. Len(reply[i]) : ~SameHandler(reply[i][l], r) /\ ~SameHandler(r, reply[i][l])
    BY <1>2, <1>6 DEF ReplyInv, SameHandler
  <2>5. CASE j = i /\ k \in 1 .. Len(reply[i])
    <3>1. reply'[i][k] = reply[i][k]
      BY <1>10, <2>5
    <3>2. ASSUME NEW l \in 1 .. Len(reply'[i]), SameHandler(reply'[i][k], reply'[i][l]) PROVE k = l
      <4>1. l \in 1 .. Len(reply[i]) \/ l = Len(reply[i]) + 1
        BY <1>10
      <4>2. QED
        BY <1>10, <2>4, <2>5, <3>1, <3>2, <4>1 DEF ReplyInv
    <3>3. ASSUME NEW l \in 1 .. Len(queue'[i]) PROVE ~SameHandler(reply[i][k], queue'[i][l])
      <4>1. l + 1 \in 1 .. Len(queue[i]) /\ queue'[i][l] = queue[i][l + 1]
        BY <1>2
      <4>2. QED
        BY <2>5, <4>1 DEF ReplyInv
    <3>4. QED
      BY <1>1, <2>2, <2>5, <3>1, <3>2, <3>3 DEF ReplyInv
  <2>6. CASE j = i /\ k = Len(reply[i]) + 1
    <3>1. reply'[i][k] = r
      BY <1>10, <2>6
    <3>2. AwaitedBy(r, conn, disc) /\ Executed(r, counted', discounted') /\ InstanceOf[r.sock] = i
      BY <1>6, <1>8, <1>9 DEF AwaitedBy, Executed
    <3>3. ASSUME NEW l \in 1 .. Len(reply'[i]), SameHandler(r, reply'[i][l]) PROVE k = l
      <4>1. l \in 1 .. Len(reply[i]) \/ l = Len(reply[i]) + 1
        BY <1>10
      <4>2. QED
        BY <1>10, <2>4, <2>6, <3>3, <4>1
    <3>4. ASSUME NEW l \in 1 .. Len(queue'[i]) PROVE ~SameHandler(r, queue'[i][l])
      <4>1. l + 1 \in 1 .. Len(queue[i]) /\ queue'[i][l] = queue[i][l + 1] /\ l + 1 # 1
        BY <1>2
      <4>2. ~SameHandler(c, queue[i][l + 1])
        BY <1>9, <4>1
      <4>3. QED
        BY <1>6, <4>1, <4>2 DEF SameHandler
    <3>5. QED
      BY <1>1, <2>6, <3>1, <3>2, <3>3, <3>4
  <2>7. k \in 1 .. Len(reply[i]) \/ k = Len(reply[i]) + 1 \/ j # i
    BY <1>10
  <2>8. QED
    BY <2>3, <2>5, <2>6, <2>7
<1>13. CountedInv'
  <2>1. c.cmd = "incr" => conn[c.sock] = "counting"
    BY <1>9 DEF AwaitedBy
  <2>2. c.cmd = "decr" => disc[c.sock] = "counting"
    BY <1>9 DEF AwaitedBy
  <2>3. QED
    BY <1>1, <1>3, <1>8, <2>1, <2>2 DEF CountedInv
<1>14. QED
  BY <1>11, <1>12, <1>13

\* The event loop resumes the handler of the oldest answer of an instance.
LEMMA ResumeKeepsHandlerInv ==
    ASSUME TypeInv, TypeInv', HandlerInv, NEW i \in Instances, Resume(i)
    PROVE  HandlerInv'
<1> DEFINE r == Head(reply[i])
<1> USE DEF HandlerInv
<1>1. /\ reply[i] # <<>> /\ reply' = [reply EXCEPT ![i] = Tail(@)]
      /\ UNCHANGED <<phase, counted, discounted>>
  BY DEF Resume, redis
<1>2. ASSUME NEW cmd \in Commands, cmd \in ConnCommands <=> r.cmd \in ConnCommands
      PROVE  /\ r.sock \in Sockets
             /\ r.cmd \in Commands
             /\ InstanceOf[r.sock] = i
             /\ AwaitedBy(r, conn, disc)
             /\ Executed(r, counted, discounted)
             /\ \A j \in Instances : \A k \in 1 .. Len(queue[j]) :
                   ~SameHandler(queue[j][k], [cmd |-> cmd, sock |-> r.sock])
             /\ \A j \in Instances : Untouched(j, cmd, r.sock)
  BY <1>1, <1>2, ResumeFacts
<1>3. ASSUME NEW cmd \in Commands, cmd \in ConnCommands <=> r.cmd \in ConnCommands,
             MovesOnly(cmd, r.sock),
             \/ queue' = queue
             \/ /\ Issue(i, cmd, r.sock)
                /\ cmd \notin {"incr", "decr"}
                /\ AwaitedBy([cmd |-> cmd, sock |-> r.sock], conn', disc')
      PROVE  QueueInv' /\ ReplyInv'
  <2>1. ReplyInv'
    BY <1>1, <1>2, <1>3, ReplyStep
  <2>2. CASE queue' = queue
    BY <1>1, <1>2, <1>3, <2>1, <2>2, MoveStep
  <2>3. CASE queue' # queue
    <3>1. NotExecuted([cmd |-> cmd, sock |-> r.sock], counted, discounted)
      BY <1>3, <2>3 DEF NotExecuted
    <3>2. QED
      BY <1>1, <1>2, <1>3, <2>1, <2>3, <3>1, IssueStep
  <2>4. QED
    BY <2>2, <2>3
<1>4. CASE AfterIncr(i, r)
  <2>1. r.cmd = "incr" /\ disc' = disc
    BY <1>4 DEF AfterIncr
  <2>2. r.sock \in Sockets /\ conn[r.sock] = "counting" /\ r.sock \in counted
    BY <2>1, <1>2 DEF AwaitedBy, Executed, Commands, ConnCommands
  <2>3. CASE FirstSocket(r.n)
    <3>1. conn' = [conn EXCEPT ![r.sock] = "adding"] /\ Issue(i, "sadd", r.sock)
      BY <1>4, <2>3 DEF AfterIncr
    <3>2. MovesOnly("sadd", r.sock)
      BY <2>1, <3>1 DEF MovesOnly, ConnCommands, ConnStates
    <3>3. AwaitedBy([cmd |-> "sadd", sock |-> r.sock], conn', disc')
      BY <2>2, <3>1 DEF AwaitedBy, TypeInv
    <3>4. QueueInv' /\ ReplyInv'
      BY <2>1, <3>1, <3>2, <3>3, <1>3 DEF Commands, ConnCommands
    <3>5. CountedInv'
      BY <1>1, <2>1, <2>2, <3>1 DEF CountedInv, TypeInv
    <3>6. QED
      BY <3>4, <3>5
  <2>4. CASE ~FirstSocket(r.n)
    <3>1. conn' = [conn EXCEPT ![r.sock] = "marked"] /\ queue' = queue
      BY <1>4, <2>4 DEF AfterIncr
    <3>2. MovesOnly("incr", r.sock)
      BY <2>1, <3>1 DEF MovesOnly, ConnCommands, ConnStates
    <3>3. QueueInv' /\ ReplyInv'
      BY <2>1, <3>1, <3>2, <1>3 DEF Commands
    <3>4. CountedInv'
      BY <1>1, <2>1, <2>2, <3>1 DEF CountedInv, TypeInv
    <3>5. QED
      BY <3>3, <3>4
  <2>5. QED
    BY <2>3, <2>4
<1>5. CASE AfterSadd(i, r)
  <2>1. /\ r.cmd = "sadd" /\ disc' = disc
        /\ conn' = [conn EXCEPT ![r.sock] = "syncing"] /\ Issue(i, "smembers", r.sock)
    BY <1>5 DEF AfterSadd
  <2>2. r.sock \in Sockets /\ conn[r.sock] = "adding"
    BY <2>1, <1>2 DEF AwaitedBy, Commands, ConnCommands
  <2>3. MovesOnly("smembers", r.sock)
    BY <2>1 DEF MovesOnly, ConnCommands, ConnStates
  <2>4. AwaitedBy([cmd |-> "smembers", sock |-> r.sock], conn', disc')
    BY <2>1, <2>2 DEF AwaitedBy, TypeInv
  <2>5. QueueInv' /\ ReplyInv'
    BY <2>1, <2>3, <2>4, <1>3 DEF Commands, ConnCommands
  <2>6. CountedInv'
    BY <1>1, <2>1, <2>2 DEF CountedInv, TypeInv
  <2>7. QED
    BY <2>5, <2>6
<1>6. CASE AfterMembers(i, r)
  <2>1. /\ r.cmd = "smembers" /\ disc' = disc /\ queue' = queue
        /\ conn' = [conn EXCEPT ![r.sock] = "idle"]
    BY <1>6 DEF AfterMembers
  <2>2. r.sock \in Sockets /\ conn[r.sock] = "syncing"
    BY <2>1, <1>2 DEF AwaitedBy, Commands, ConnCommands
  <2>3. MovesOnly("smembers", r.sock)
    BY <2>1 DEF MovesOnly, ConnCommands, ConnStates
  <2>4. QueueInv' /\ ReplyInv'
    BY <2>1, <2>3, <1>3 DEF Commands
  <2>5. CountedInv'
    BY <1>1, <2>1, <2>2 DEF CountedInv, TypeInv
  <2>6. QED
    BY <2>4, <2>5
<1>7. CASE AfterDecr(i, r)
  <2>1. r.cmd = "decr" /\ conn' = conn
    BY <1>7 DEF AfterDecr
  <2>2. r.sock \in Sockets /\ disc[r.sock] = "counting" /\ r.sock \in discounted
    BY <2>1, <1>2 DEF AwaitedBy, Executed, Commands, ConnCommands
  <2>3. CASE LastSocket(r.n)
    <3>1. disc' = [disc EXCEPT ![r.sock] = "removing"] /\ Issue(i, "srem", r.sock)
      BY <1>7, <2>3 DEF AfterDecr
    <3>2. MovesOnly("srem", r.sock)
      BY <2>1, <3>1 DEF MovesOnly, ConnCommands, DiscStates
    <3>3. AwaitedBy([cmd |-> "srem", sock |-> r.sock], conn', disc')
      BY <2>2, <3>1 DEF AwaitedBy, TypeInv
    <3>4. QueueInv' /\ ReplyInv'
      BY <2>1, <3>1, <3>2, <3>3, <1>3 DEF Commands, ConnCommands
    <3>5. CountedInv'
      BY <1>1, <2>1, <2>2, <3>1 DEF CountedInv, TypeInv
    <3>6. QED
      BY <3>4, <3>5
  <2>4. CASE ~LastSocket(r.n)
    <3>1. disc' = [disc EXCEPT ![r.sock] = "idle"] /\ queue' = queue
      BY <1>7, <2>4 DEF AfterDecr
    <3>2. MovesOnly("decr", r.sock)
      BY <2>1, <3>1 DEF MovesOnly, ConnCommands, DiscStates
    <3>3. QueueInv' /\ ReplyInv'
      BY <2>1, <3>1, <3>2, <1>3 DEF Commands
    <3>4. CountedInv'
      BY <1>1, <2>1, <2>2, <3>1 DEF CountedInv, TypeInv
    <3>5. QED
      BY <3>3, <3>4
  <2>5. QED
    BY <2>3, <2>4
<1>8. CASE AfterSrem(i, r)
  <2>1. /\ r.cmd = "srem" /\ conn' = conn /\ queue' = queue
        /\ disc' = [disc EXCEPT ![r.sock] = "idle"]
    BY <1>8 DEF AfterSrem
  <2>2. r.sock \in Sockets /\ disc[r.sock] = "removing"
    BY <2>1, <1>2 DEF AwaitedBy, Commands, ConnCommands
  <2>3. MovesOnly("srem", r.sock)
    BY <2>1 DEF MovesOnly, ConnCommands, DiscStates
  <2>4. QueueInv' /\ ReplyInv'
    BY <2>1, <2>3, <1>3 DEF Commands
  <2>5. CountedInv'
    BY <1>1, <2>1, <2>2 DEF CountedInv, TypeInv
  <2>6. QED
    BY <2>4, <2>5
<1>9. QED
  BY <1>4, <1>5, <1>6, <1>7, <1>8 DEF Resume

\* A handler that had nothing in flight issues a command: the answers stay put.
LEMMA FirstCommand ==
    ASSUME TypeInv, TypeInv', QueueInv, ReplyInv, NEW s \in Sockets, NEW cmd \in Commands,
           MovesOnly(cmd, s), UNCHANGED <<reply, counted, discounted>>,
           Issue(InstanceOf[s], cmd, s),
           AwaitedBy([cmd |-> cmd, sock |-> s], conn', disc'),
           NotExecuted([cmd |-> cmd, sock |-> s], counted, discounted),
           \A c : AwaitedBy(c, conn, disc) /\ c.cmd \in Commands
                    /\ SameHandler(c, [cmd |-> cmd, sock |-> s]) => FALSE
    PROVE  QueueInv' /\ ReplyInv'
<1> DEFINE e == [cmd |-> cmd, sock |-> s]
<1>1. InstanceOf[s] \in Instances
  BY PresenceAssumption
<1>2. ASSUME NEW j \in Instances, NEW k \in 1 .. Len(queue[j]) PROVE ~SameHandler(queue[j][k], e)
  BY InFlightTypes DEF QueueInv
<1>3. QueueInv'
  BY <1>1, <1>2, IssueStep
<1>4. ASSUME NEW j \in Instances PROVE Untouched(j, cmd, s)
  BY InFlightTypes DEF ReplyInv, Untouched
<1>5. ReplyInv'
  BY <1>4, ReplyStep
<1>6. QED
  BY <1>3, <1>5

\* Every handler awaits at most one command, on the connection of its own
\* instance, and the history of what was counted fits where the handlers stand.
THEOREM HandlerInvariance == Spec => []HandlerInv
<1>1. Init => HandlerInv
  BY DEF Init, HandlerInv, QueueInv, ReplyInv, CountedInv
<1>2. TypeInv /\ TypeInv' /\ HandlerInv /\ [Next]_vars => HandlerInv'
  <2> SUFFICES ASSUME TypeInv, TypeInv', HandlerInv, [Next]_vars PROVE HandlerInv'
    OBVIOUS
  <2> USE DEF HandlerInv
  <2>1. CASE UNCHANGED vars
    BY <2>1 DEF vars, redis, QueueInv, ReplyInv, CountedInv
  <2>2. ASSUME NEW s \in Sockets, Connect(s) PROVE HandlerInv'
    <3>1. /\ conn[s] = "idle" /\ disc[s] = "idle" /\ phase[s] = "closed"
          /\ phase' = [phase EXCEPT ![s] = "open"]
          /\ conn' = [conn EXCEPT ![s] = "listing"]
          /\ counted' = counted \ {s} /\ discounted' = discounted \ {s}
          /\ UNCHANGED <<disc, queue, reply>>
      BY <2>2 DEF Connect
    <3>2. ASSUME NEW c, c.cmd \in Commands, AwaitedBy(c, conn, disc) PROVE c.sock # s
      BY <3>1, <3>2 DEF AwaitedBy, Commands
    <3>3. QueueInv'
      <4>1. ASSUME NEW j \in Instances, NEW k \in 1 .. Len(queue[j])
            PROVE  AwaitedBy(queue[j][k], conn', disc')
                   /\ NotExecuted(queue[j][k], counted', discounted')
        <5>1. /\ queue[j][k].cmd \in Commands /\ queue[j][k].sock \in Sockets
              /\ AwaitedBy(queue[j][k], conn, disc)
              /\ NotExecuted(queue[j][k], counted, discounted)
          BY InFlightTypes DEF QueueInv
        <5>2. queue[j][k].sock # s
          BY <3>2, <5>1
        <5>3. QED
          BY <3>1, <5>1, <5>2 DEF AwaitedBy, NotExecuted, TypeInv
      <4>2. QED
        BY <3>1, <4>1 DEF QueueInv
    <3>4. ReplyInv'
      <4>1. ASSUME NEW j \in Instances, NEW k \in 1 .. Len(reply[j])
            PROVE  AwaitedBy(reply[j][k], conn', disc')
                   /\ Executed(reply[j][k], counted', discounted')
        <5>1. /\ reply[j][k].cmd \in Commands /\ reply[j][k].sock \in Sockets
              /\ AwaitedBy(reply[j][k], conn, disc)
              /\ Executed(reply[j][k], counted, discounted)
          BY InFlightTypes DEF ReplyInv
        <5>2. reply[j][k].sock # s
          BY <3>2, <5>1
        <5>3. QED
          BY <3>1, <5>1, <5>2 DEF AwaitedBy, Executed, TypeInv
      <4>2. QED
        BY <3>1, <4>1 DEF ReplyInv
    <3>5. CountedInv'
      BY <3>1 DEF CountedInv, TypeInv
    <3>6. QED
      BY <3>3, <3>4, <3>5
  <2>3. ASSUME NEW s \in Sockets, ChannelsListed(s) PROVE HandlerInv'
    <3>1. /\ conn[s] = "listing" /\ conn' = [conn EXCEPT ![s] = "counting"]
          /\ Issue(InstanceOf[s], "incr", s)
          /\ UNCHANGED <<phase, disc, reply, counted, discounted>>
      BY <2>3 DEF ChannelsListed, redis
    <3>2. MovesOnly("incr", s)
      BY <3>1 DEF MovesOnly, ConnCommands, ConnStates
    <3>3. AwaitedBy([cmd |-> "incr", sock |-> s], conn', disc')
          /\ NotExecuted([cmd |-> "incr", sock |-> s], counted, discounted)
      BY <3>1 DEF AwaitedBy, NotExecuted, CountedInv, TypeInv
    <3>4. \A c : AwaitedBy(c, conn, disc) /\ c.cmd \in Commands
                   /\ SameHandler(c, [cmd |-> "incr", sock |-> s]) => FALSE
      BY <3>1 DEF AwaitedBy, SameHandler, ConnCommands, Commands
    <3>5. QueueInv' /\ ReplyInv'
      BY <3>1, <3>2, <3>3, <3>4, FirstCommand DEF Commands
    <3>6. CountedInv'
      BY <3>1 DEF CountedInv, TypeInv
    <3>7. QED
      BY <3>5, <3>6
  <2>4. ASSUME NEW s \in Sockets, ListOnline(s) PROVE HandlerInv'
    <3>1. /\ conn[s] = "marked" /\ conn' = [conn EXCEPT ![s] = "syncing"]
          /\ Issue(InstanceOf[s], "smembers", s)
          /\ UNCHANGED <<phase, disc, reply, counted, discounted>>
      BY <2>4 DEF ListOnline, redis
    <3>2. MovesOnly("smembers", s)
      BY <3>1 DEF MovesOnly, ConnCommands, ConnStates
    <3>3. AwaitedBy([cmd |-> "smembers", sock |-> s], conn', disc')
          /\ NotExecuted([cmd |-> "smembers", sock |-> s], counted, discounted)
      BY <3>1 DEF AwaitedBy, NotExecuted, TypeInv
    <3>4. \A c : AwaitedBy(c, conn, disc) /\ c.cmd \in Commands
                   /\ SameHandler(c, [cmd |-> "smembers", sock |-> s]) => FALSE
      BY <3>1 DEF AwaitedBy, SameHandler, ConnCommands, Commands
    <3>5. QueueInv' /\ ReplyInv'
      BY <3>1, <3>2, <3>3, <3>4, FirstCommand DEF Commands
    <3>6. CountedInv'
      BY <3>1 DEF CountedInv, TypeInv
    <3>7. QED
      BY <3>5, <3>6
  <2>5. ASSUME NEW s \in Sockets, Disconnect(s) PROVE HandlerInv'
    <3>1. /\ phase[s] = "open" /\ phase' = [phase EXCEPT ![s] = "closed"]
          /\ disc' = [disc EXCEPT ![s] = "counting"]
          /\ Issue(InstanceOf[s], "decr", s)
          /\ UNCHANGED <<conn, reply, counted, discounted>>
      BY <2>5 DEF Disconnect, redis
    <3>2. disc[s] = "idle" /\ s \notin discounted
      BY <3>1 DEF CountedInv
    <3>3. MovesOnly("decr", s)
      BY <3>1 DEF MovesOnly, ConnCommands, DiscStates
    <3>4. AwaitedBy([cmd |-> "decr", sock |-> s], conn', disc')
          /\ NotExecuted([cmd |-> "decr", sock |-> s], counted, discounted)
      BY <3>1, <3>2 DEF AwaitedBy, NotExecuted, TypeInv
    <3>5. \A c : AwaitedBy(c, conn, disc) /\ c.cmd \in Commands
                   /\ SameHandler(c, [cmd |-> "decr", sock |-> s]) => FALSE
      BY <3>2 DEF AwaitedBy, SameHandler, ConnCommands, Commands
    <3>6. QueueInv' /\ ReplyInv'
      BY <3>1, <3>3, <3>4, <3>5, FirstCommand DEF Commands
    <3>7. CountedInv'
      BY <3>1, <3>2 DEF CountedInv, TypeInv
    <3>8. QED
      BY <3>6, <3>7
  <2>6. ASSUME NEW i \in Instances, NEW j \in Instances, Deliver(i, j) PROVE HandlerInv'
    BY <2>6 DEF Deliver, redis, QueueInv, ReplyInv, CountedInv
  <2>7. ASSUME NEW i \in Instances, Crash(i) PROVE HandlerInv'
    <3> DEFINE dead == {s \in Sockets : InstanceOf[s] = i /\ (phase[s] = "open" \/ conn[s] # "idle"
                                                                               \/ disc[s] # "idle")}
    <3>1. /\ phase' = [s \in Sockets |-> IF s \in dead THEN "lost" ELSE phase[s]]
          /\ conn' = [s \in Sockets |-> IF s \in dead THEN "idle" ELSE conn[s]]
          /\ disc' = [s \in Sockets |-> IF s \in dead THEN "idle" ELSE disc[s]]
          /\ queue' = [queue EXCEPT ![i] = <<>>]
          /\ reply' = [reply EXCEPT ![i] = <<>>]
          /\ UNCHANGED <<counted, discounted>>
      BY <2>7 DEF Crash, redis
    <3>2. ASSUME NEW c, c.cmd \in Commands, c.sock \in Sockets, InstanceOf[c.sock] # i,
                 AwaitedBy(c, conn, disc)
          PROVE  AwaitedBy(c, conn', disc')
      BY <3>1, <3>2 DEF AwaitedBy
    <3>3. /\ \A j \in Instances : j # i => queue'[j] = queue[j] /\ reply'[j] = reply[j]
          /\ queue'[i] = <<>> /\ reply'[i] = <<>>
      BY <3>1 DEF TypeInv
    <3>4. QueueInv'
      <4>1. SUFFICES ASSUME NEW j \in Instances, NEW k \in 1 .. Len(queue'[j])
                     PROVE  /\ InstanceOf[queue'[j][k].sock] = j
                            /\ AwaitedBy(queue'[j][k], conn', disc')
                            /\ NotExecuted(queue'[j][k], counted', discounted')
                            /\ \A l \in 1 .. Len(queue'[j]) :
                                  SameHandler(queue'[j][k], queue'[j][l]) => k = l
        BY DEF QueueInv
      <4>2. j # i /\ queue'[j] = queue[j]
        BY <3>3
      <4>3. AwaitedBy(queue[j][k], conn', disc')
        BY <3>2, <4>2, InFlightTypes DEF QueueInv
      <4>4. QED
        BY <3>1, <4>2, <4>3 DEF QueueInv
    <3>5. ReplyInv'
      <4>1. SUFFICES ASSUME NEW j \in Instances, NEW k \in 1 .. Len(reply'[j])
                     PROVE  /\ InstanceOf[reply'[j][k].sock] = j
                            /\ AwaitedBy(reply'[j][k], conn', disc')
                            /\ Executed(reply'[j][k], counted', discounted')
                            /\ \A l \in 1 .. Len(reply'[j]) :
                                  SameHandler(reply'[j][k], reply'[j][l]) => k = l
                            /\ \A l \in 1 .. Len(queue'[j]) : ~SameHandler(reply'[j][k], queue'[j][l])
        BY DEF ReplyInv
      <4>2. j # i /\ queue'[j] = queue[j] /\ reply'[j] = reply[j]
        BY <3>3
      <4>3. AwaitedBy(reply[j][k], conn', disc')
        BY <3>2, <4>2, InFlightTypes DEF ReplyInv
      <4>4. QED
        BY <3>1, <4>2, <4>3 DEF ReplyInv
    <3>6. CountedInv'
      BY <3>1 DEF CountedInv, TypeInv
    <3>7. QED
      BY <3>4, <3>5, <3>6
  <2>8. QED
    BY <2>1, <2>2, <2>3, <2>4, <2>5, <2>6, <2>7, ExecuteKeepsHandlerInv, ResumeKeepsHandlerInv
       DEF Next
<1>3. QED
  BY <1>1, <1>2, TypeInvariance, PTL DEF Spec

-------------------------------------------------------------------------------
(* The counter *)

LEMMA FiniteTabs ==
    ASSUME NEW u \in Users, NEW S
    PROVE  /\ IsFiniteSet(TabsOf(u))
           /\ IsFiniteSet(S \cap TabsOf(u))
           /\ Cardinality(S \cap TabsOf(u)) \in Nat
           /\ Cardinality(S \cap TabsOf(u)) <= Cardinality(TabsOf(u))
           /\ Cardinality(TabsOf(u)) \in Nat
<1>1. TabsOf(u) \in SUBSET Sockets
  BY DEF TabsOf
<1>2. IsFiniteSet(TabsOf(u))
  BY <1>1, FS_Subset, PresenceAssumption
<1>3. S \cap TabsOf(u) \in SUBSET TabsOf(u)
  OBVIOUS
<1>4. /\ IsFiniteSet(S \cap TabsOf(u))
      /\ Cardinality(S \cap TabsOf(u)) <= Cardinality(TabsOf(u))
  BY <1>2, <1>3, FS_Subset
<1>5. QED
  BY <1>2, <1>4, FS_CardinalityType

\* The counter of a user is the number of counted sockets less the number of
\* discounted ones, for any interleaving of any number of instances and crashes.
THEOREM CounterIsExact == Spec => []CountExact
<1>1. Init => CountExact
  <2> SUFFICES ASSUME Init PROVE CountExact
    OBVIOUS
  <2>1. \A u \in Users : count[u] = 0 /\ counted \cap TabsOf(u) = {} /\ discounted \cap TabsOf(u) = {}
    BY DEF Init
  <2>2. QED
    BY <2>1, FS_EmptySet DEF CountExact
<1>2. TypeInv /\ HandlerInv /\ CountExact /\ [Next]_vars => CountExact'
  <2> SUFFICES ASSUME TypeInv, HandlerInv, CountExact, [Next]_vars PROVE CountExact'
    OBVIOUS
  <2>1. ASSUME UNCHANGED <<count, counted, discounted>> PROVE CountExact'
    BY <2>1 DEF CountExact
  <2>2. ASSUME NEW s \in Sockets, Connect(s) PROVE CountExact'
    <3>1. /\ s \in counted <=> s \in discounted
          /\ count' = count /\ counted' = counted \ {s} /\ discounted' = discounted \ {s}
      BY <2>2 DEF Connect, HandlerInv, CountedInv
    <3>2. SUFFICES ASSUME NEW u \in Users
                   PROVE count[u] = Cardinality(counted' \cap TabsOf(u))
                                      - Cardinality(discounted' \cap TabsOf(u))
      BY <3>1 DEF CountExact
    <3> DEFINE In == counted \cap TabsOf(u)
               Out == discounted \cap TabsOf(u)
    <3>3. /\ counted' \cap TabsOf(u) = In \ {s}
          /\ discounted' \cap TabsOf(u) = Out \ {s}
          /\ s \in In <=> s \in Out
      BY <3>1
    <3>4. IsFiniteSet(In) /\ IsFiniteSet(Out) /\ Cardinality(In) \in Nat /\ Cardinality(Out) \in Nat
      BY FiniteTabs
    <3>5. count[u] = Cardinality(In) - Cardinality(Out)
      BY DEF CountExact
    <3> HIDE DEF In, Out
    <3>6. /\ Cardinality(In \ {s}) = IF s \in In THEN Cardinality(In) - 1 ELSE Cardinality(In)
          /\ Cardinality(Out \ {s}) = IF s \in Out THEN Cardinality(Out) - 1 ELSE Cardinality(Out)
      BY <3>4, FS_RemoveElement
    <3>7. Cardinality(In \ {s}) - Cardinality(Out \ {s}) = Cardinality(In) - Cardinality(Out)
      BY <3>3, <3>4, <3>6
    <3>8. QED
      BY <3>3, <3>5, <3>7
  <2>3. ASSUME NEW i \in Instances, Execute(i), ExecuteCount(i) PROVE CountExact'
    <3> DEFINE c == Head(queue[i])
               v == UserOf[c.sock]
    <3>1. queue[i] \in Seq(CommandRecs) /\ queue[i] # <<>>
      BY <2>3 DEF TypeInv, Execute
    <3>2. c \in CommandRecs /\ c = queue[i][1] /\ 1 \in 1 .. Len(queue[i])
      BY <3>1, HeadTailProperties, EmptySeq
    <3>3. c.sock \in Sockets /\ v \in Users /\ c.sock \in TabsOf(v)
      BY <3>2, PresenceAssumption DEF CommandRecs, TabsOf
    <3>4. NotExecuted(c, counted, discounted)
      BY <3>2 DEF HandlerInv, QueueInv
    <3>5. /\ c.cmd \in {"incr", "decr"}
          /\ count' = [count EXCEPT ![v] = CountAfter(c.cmd, count[v])]
          /\ counted' = IF c.cmd = "incr" THEN counted \cup {c.sock} ELSE counted
          /\ discounted' = IF c.cmd = "decr" THEN discounted \cup {c.sock} ELSE discounted
      BY <2>3 DEF ExecuteCount
    <3> HIDE DEF c
    <3>6. SUFFICES ASSUME NEW u \in Users
                   PROVE count'[u] = Cardinality(counted' \cap TabsOf(u))
                                       - Cardinality(discounted' \cap TabsOf(u))
      BY DEF CountExact
    <3> DEFINE In == counted \cap TabsOf(u)
               Out == discounted \cap TabsOf(u)
    <3>7. IsFiniteSet(In) /\ IsFiniteSet(Out) /\ Cardinality(In) \in Nat /\ Cardinality(Out) \in Nat
      BY FiniteTabs
    <3>8. count[u] = Cardinality(In) - Cardinality(Out) /\ count[u] \in Int
      BY DEF CountExact, TypeInv
    <3>9. CASE u # v
      <4>1. c.sock \notin TabsOf(u) /\ count'[u] = count[u]
        BY <3>3, <3>5, <3>9 DEF TabsOf, TypeInv
      <4>2. counted' \cap TabsOf(u) = In /\ discounted' \cap TabsOf(u) = Out
        BY <3>5, <4>1
      <4>3. QED
        BY <3>8, <4>1, <4>2
    <3>10. CASE u = v /\ c.cmd = "incr"
      <4>1. /\ counted' \cap TabsOf(u) = In \cup {c.sock}
            /\ discounted' \cap TabsOf(u) = Out
            /\ c.sock \notin In
        BY <3>3, <3>4, <3>5, <3>10 DEF NotExecuted
      <4>2. count'[u] = count[u] + 1
        BY <3>3, <3>5, <3>10 DEF CountAfter, TypeInv
      <4> HIDE DEF In, Out
      <4>3. Cardinality(In \cup {c.sock}) = Cardinality(In) + 1
        BY <3>7, <4>1, FS_AddElement
      <4>4. count[u] + 1 = (Cardinality(In) + 1) - Cardinality(Out)
        BY <3>7, <3>8
      <4>5. QED
        BY <4>1, <4>2, <4>3, <4>4
    <3>11. CASE u = v /\ c.cmd = "decr"
      <4>1. /\ counted' \cap TabsOf(u) = In
            /\ discounted' \cap TabsOf(u) = Out \cup {c.sock}
            /\ c.sock \notin Out
        BY <3>3, <3>4, <3>5, <3>11 DEF NotExecuted
      <4>2. count'[u] = count[u] - 1
        BY <3>3, <3>5, <3>11 DEF CountAfter, TypeInv
      <4> HIDE DEF In, Out
      <4>3. Cardinality(Out \cup {c.sock}) = Cardinality(Out) + 1
        BY <3>7, <4>1, FS_AddElement
      <4>4. count[u] - 1 = Cardinality(In) - (Cardinality(Out) + 1)
        BY <3>7, <3>8
      <4>5. QED
        BY <4>1, <4>2, <4>3, <4>4
    <3>12. QED
      BY <3>5, <3>9, <3>10, <3>11
  <2>4. ASSUME NEW i \in Instances, Execute(i), ~ExecuteCount(i) PROVE CountExact'
    BY <2>1, <2>4 DEF Execute, ExecuteSet, ExecuteMembers, redis
  <2>5. CASE UNCHANGED vars
    BY <2>1, <2>5 DEF vars, redis
  <2>6. ASSUME NEW s \in Sockets, ChannelsListed(s) \/ ListOnline(s) \/ Disconnect(s)
        PROVE  CountExact'
    BY <2>1, <2>6 DEF ChannelsListed, ListOnline, Disconnect, redis
  <2>7. ASSUME NEW i \in Instances, Resume(i) \/ Crash(i) PROVE CountExact'
    <3>1. UNCHANGED redis
      BY <2>7 DEF Resume, Crash
    <3>2. QED
      BY <2>1, <3>1 DEF redis
  <2>8. ASSUME NEW i \in Instances, NEW j \in Instances, Deliver(i, j) PROVE CountExact'
    BY <2>1, <2>8 DEF Deliver, redis
  <2>9. QED
    BY <2>2, <2>3, <2>4, <2>5, <2>6, <2>7, <2>8 DEF Next
<1>3. QED
  BY <1>1, <1>2, TypeInvariance, HandlerInvariance, PTL DEF Spec

\* The state is well-typed and no counter strays beyond its user's tabs.
THEOREM TypeCorrect == Spec => []TypeOK
<1>1. TypeInv /\ CountExact => TypeOK
  <2> SUFFICES ASSUME TypeInv, CountExact, NEW u \in Users
               PROVE /\ -Cardinality(TabsOf(u)) <= count[u]
                     /\ count[u] <= Cardinality(TabsOf(u))
    BY DEF TypeOK
  <2>1. /\ Cardinality(counted \cap TabsOf(u)) \in Nat
        /\ Cardinality(discounted \cap TabsOf(u)) \in Nat
        /\ Cardinality(counted \cap TabsOf(u)) <= Cardinality(TabsOf(u))
        /\ Cardinality(discounted \cap TabsOf(u)) <= Cardinality(TabsOf(u))
        /\ Cardinality(TabsOf(u)) \in Nat
    BY FiniteTabs
  <2>2. QED
    BY <2>1 DEF CountExact
<1>2. QED
  BY <1>1, TypeInvariance, CounterIsExact, PTL

\* Once the handlers of a user's tabs have returned and no crash killed one of
\* them, the counter is the number of connected tabs.
THEOREM CounterMatchesTabs == Spec => []CountMatchesTabs
<1>1. TypeInv /\ HandlerInv /\ CountExact => CountMatchesTabs
  <2> SUFFICES ASSUME TypeInv, HandlerInv, CountExact, NEW u \in Users,
                      \A s \in TabsOf(u) : phase[s] # "lost" /\ conn[s] = "idle" /\ disc[s] = "idle"
               PROVE  count[u] = Cardinality({s \in TabsOf(u) : phase[s] = "open"})
    BY DEF CountMatchesTabs
  <2> DEFINE In == counted \cap TabsOf(u)
             Out == discounted \cap TabsOf(u)
             Open == {s \in TabsOf(u) : phase[s] = "open"}
  <2>1. \A s \in TabsOf(u) : s \in Sockets /\ (phase[s] = "open" \/ phase[s] = "closed")
    BY DEF TabsOf, TypeInv
  <2>2. \A s \in TabsOf(u) : /\ phase[s] = "open" => s \in counted /\ s \notin discounted
                             /\ phase[s] = "closed" => (s \in counted <=> s \in discounted)
    BY <2>1 DEF HandlerInv, CountedInv
  <2>3. In = Open \cup Out /\ Open \cap Out = {}
    BY <2>1, <2>2
  <2>4. Open = Open \cap TabsOf(u)
    OBVIOUS
  <2>5. /\ IsFiniteSet(Open) /\ IsFiniteSet(Out)
        /\ Cardinality(Open) \in Nat /\ Cardinality(Out) \in Nat
    BY <2>4, FiniteTabs
  <2>6. count[u] = Cardinality(In) - Cardinality(Out)
    BY DEF CountExact
  <2> HIDE DEF In, Out, Open
  <2>7. Cardinality(Open \cup Out) = Cardinality(Open) + Cardinality(Out)
    BY <2>3, <2>5, FS_Union, FS_EmptySet
  <2>8. QED
    BY <2>3, <2>5, <2>6, <2>7 DEF Open
<1>2. QED
  BY <1>1, TypeInvariance, HandlerInvariance, CounterIsExact, PTL

-------------------------------------------------------------------------------
(* The online set *)

\* A command that settles whether u is online, and an answer that will issue one:
\* the counter of u became 1 or 0.
Verdict(c, u)  == c.cmd \in {"sadd", "srem"} /\ UserOf[c.sock] = u
Crossing(r, u) ==
    /\ UserOf[r.sock] = u
    /\ \/ r.cmd = "incr" /\ FirstSocket(r.n)
       \/ r.cmd = "decr" /\ LastSocket(r.n)

NoVerdict(i, u)  == \A l \in 1 .. Len(queue[i]) : ~Verdict(queue[i][l], u)
NoCrossing(i, u) == \A l \in 1 .. Len(reply[i]) : ~Crossing(reply[i][l], u)

LastVerdict(i, u, k) ==
    /\ Verdict(queue[i][k], u)
    /\ \A l \in k + 1 .. Len(queue[i]) : ~Verdict(queue[i][l], u)
LastCrossing(i, u, k) ==
    /\ Crossing(reply[i][k], u)
    /\ \A l \in k + 1 .. Len(reply[i]) : ~Crossing(reply[i][l], u)

\* What is decided last about u, on the instance i of all its tabs, is what the
\* counter says: the last answer that crossed, else the last command, else the set.
OnlineFollows(i, u) ==
    /\ \A k \in 1 .. Len(reply[i]) :
          LastCrossing(i, u, k) => (reply[i][k].cmd = "incr" <=> count[u] >= 1)
    /\ \A k \in 1 .. Len(queue[i]) :
          NoCrossing(i, u) /\ LastVerdict(i, u, k) =>
              (queue[i][k].cmd = "sadd" <=> count[u] >= 1)
    /\ NoCrossing(i, u) /\ NoVerdict(i, u) => (u \in online <=> count[u] >= 1)

\* The load balancer keeps the tabs of one user on one instance.
OneHomePerUser ==
    \A s, t \in Sockets : UserOf[s] = UserOf[t] => InstanceOf[s] = InstanceOf[t]

OnlineInv ==
    /\ \A s \in Sockets : OnlineFollows(InstanceOf[s], UserOf[s])
    /\ \A u \in online : \E s \in Sockets : UserOf[s] = u

\* A step that leaves the counter of u, its membership and the answers alone, and
\* at most issues a command that settles nothing about u.
LEMMA OnlineUndisturbed ==
    ASSUME TypeInv, TypeInv', NEW i \in Instances, NEW u \in Users, OnlineFollows(i, u),
           reply'[i] = reply[i], count'[u] = count[u], u \in online' <=> u \in online,
           \/ queue'[i] = queue[i]
           \/ /\ Len(queue'[i]) = Len(queue[i]) + 1
              /\ \A k \in 1 .. Len(queue[i]) : queue'[i][k] = queue[i][k]
              /\ ~Verdict(queue'[i][Len(queue[i]) + 1], u)
    PROVE  OnlineFollows(i, u)'
<1>1. Len(queue[i]) \in Nat /\ Len(queue'[i]) \in Nat
  BY InFlightTypes
<1>2. NoCrossing(i, u)' <=> NoCrossing(i, u)
  BY DEF NoCrossing
<1>3. \A k : LastCrossing(i, u, k)' => LastCrossing(i, u, k)
  BY DEF LastCrossing
<1>4. NoVerdict(i, u)' => NoVerdict(i, u)
  BY <1>1 DEF NoVerdict
<1>5. ASSUME NEW k \in 1 .. Len(queue'[i]), LastVerdict(i, u, k)'
      PROVE  k \in 1 .. Len(queue[i]) /\ queue'[i][k] = queue[i][k] /\ LastVerdict(i, u, k)
  <2>1. CASE queue'[i] = queue[i]
    BY <1>5, <2>1 DEF LastVerdict
  <2>2. CASE queue'[i] # queue[i]
    <3>1. Verdict(queue'[i][k], u)
      BY <1>5 DEF LastVerdict
    <3>2. k \in 1 .. Len(queue[i]) /\ queue'[i][k] = queue[i][k]
      BY <1>1, <2>2, <3>1
    <3>3. \A l \in k + 1 .. Len(queue[i]) :
             l \in k + 1 .. Len(queue'[i]) /\ l \in 1 .. Len(queue[i])
      BY <1>1, <2>2, <3>2
    <3>4. \A l \in k + 1 .. Len(queue[i]) : ~Verdict(queue[i][l], u)
      BY <1>5, <2>2, <3>3 DEF LastVerdict
    <3>5. QED
      BY <3>1, <3>2, <3>4 DEF LastVerdict
  <2>3. QED
    BY <2>1, <2>2
<1>6. QED
  BY <1>2, <1>3, <1>4, <1>5 DEF OnlineFollows

\* Redis executes the oldest command of the instance of u's tabs.
LEMMA OnlineAfterExecute ==
    ASSUME TypeInv, TypeInv', NEW i \in Instances, NEW u \in Users, OnlineFollows(i, u),
           Execute(i)
    PROVE  OnlineFollows(i, u)'
<1> DEFINE c == Head(queue[i])
           v == UserOf[c.sock]
<1>1. /\ Len(queue'[i]) = Len(queue[i]) - 1
      /\ Len(queue[i]) \in Nat \ {0}
      /\ \A k \in 1 .. Len(queue'[i]) : queue'[i][k] = queue[i][k + 1]
      /\ c = queue[i][1]
      /\ c \in CommandRecs
  BY TailAt DEF TypeInv, Execute
<1>2. c.cmd \in Commands /\ c.sock \in Sockets /\ v \in Users
  BY <1>1, PresenceAssumption DEF CommandRecs
<1> HIDE DEF c, v
<1>3. PICK n \in Int, ids \in SUBSET Users :
         /\ Answer(i, n, ids)
         /\ c.cmd \in {"incr", "decr"} => n = CountAfter(c.cmd, count[v])
                                          /\ count' = [count EXCEPT ![v] = n]
         /\ c.cmd \notin {"incr", "decr"} => count' = count
         /\ c.cmd \in {"sadd", "srem"} => online' = Noted(online, v, c.cmd = "sadd")
         /\ c.cmd \notin {"sadd", "srem"} => online' = online
  <2>1. CASE ExecuteCount(i)
    <3>1. CountAfter(c.cmd, count[v]) \in Int /\ {} \in SUBSET Users
      <4>1. count[v] \in Int
        BY <1>2 DEF TypeInv
      <4>2. QED
        BY <4>1 DEF CountAfter
    <3>2. /\ c.cmd \in {"incr", "decr"}
          /\ count' = [count EXCEPT ![v] = CountAfter(c.cmd, count[v])]
          /\ Answer(i, CountAfter(c.cmd, count[v]), {})
          /\ online' = online
      BY <2>1 DEF ExecuteCount, c, v
    <3>3. QED
      BY <3>1, <3>2
  <2>2. CASE ExecuteSet(i)
    <3>1. /\ c.cmd \in {"sadd", "srem"}
          /\ online' = Noted(online, v, c.cmd = "sadd")
          /\ Answer(i, 0, {})
          /\ count' = count
      BY <2>2 DEF ExecuteSet, c, v
    <3>2. 0 \in Int /\ {} \in SUBSET Users
      OBVIOUS
    <3>3. QED
      BY <3>1, <3>2
  <2>3. CASE ExecuteMembers(i)
    <3>1. c.cmd = "smembers" /\ Answer(i, 0, online) /\ count' = count /\ online' = online
      BY <2>3 DEF ExecuteMembers, redis, c
    <3>2. 0 \in Int /\ online \in SUBSET Users
      BY DEF TypeInv
    <3>3. QED
      BY <3>1, <3>2
  <2>4. QED
    BY <2>1, <2>2, <2>3 DEF Execute
<1> DEFINE r == [cmd |-> c.cmd, sock |-> c.sock, n |-> n, ids |-> ids]
<1>4. r \in ReplyRecs /\ r.cmd = c.cmd /\ r.sock = c.sock /\ r.n = n
  BY <1>2, <1>3 DEF ReplyRecs
<1>5. reply' = [reply EXCEPT ![i] = Append(@, r)] /\ reply \in [Instances -> Seq(ReplyRecs)]
  BY <1>3 DEF Answer, TypeInv, c
<1> HIDE DEF r
<1>6. /\ Len(reply'[i]) = Len(reply[i]) + 1
      /\ Len(reply[i]) \in Nat
      /\ \A k \in 1 .. Len(reply[i]) : reply'[i][k] = reply[i][k]
      /\ reply'[i][Len(reply[i]) + 1] = r
  BY <1>4, <1>5, AppendAt
<1>7. count[u] \in Int /\ count'[u] \in Int /\ count[v] \in Int
  BY <1>2 DEF TypeInv
<1>8. CASE Crossing(r, u)
  <2>1. count'[u] = n /\ (c.cmd = "incr" => n = 1) /\ (c.cmd # "incr" => n = 0)
    BY <1>2, <1>3, <1>4, <1>8 DEF Crossing, FirstSocket, LastSocket, TypeInv, v
  <2>2. ~NoCrossing(i, u)'
    BY <1>6, <1>8 DEF NoCrossing
  <2>3. ASSUME NEW k \in 1 .. Len(reply'[i]), LastCrossing(i, u, k)'
        PROVE  reply'[i][k].cmd = "incr" <=> count'[u] >= 1
    <3>1. k = Len(reply[i]) + 1
      <4>1. SUFFICES ASSUME k \in 1 .. Len(reply[i]) PROVE FALSE
        BY <1>6
      <4>2. Len(reply[i]) + 1 \in k + 1 .. Len(reply'[i])
        BY <1>6, <4>1
      <4>3. QED
        BY <1>6, <1>8, <2>3, <4>2 DEF LastCrossing
    <3>2. QED
      BY <1>4, <1>6, <2>1, <3>1
  <2>4. QED
    BY <2>2, <2>3 DEF OnlineFollows
<1>9. CASE ~Crossing(r, u)
  <2>1. count'[u] >= 1 <=> count[u] >= 1
    <3>1. CASE c.cmd \in {"incr", "decr"} /\ v = u
      BY <1>2, <1>3, <1>4, <1>7, <1>9, <3>1
         DEF Crossing, CountAfter, FirstSocket, LastSocket, TypeInv, v
    <3>2. CASE ~(c.cmd \in {"incr", "decr"} /\ v = u)
      BY <1>2, <1>3, <3>2 DEF TypeInv
    <3>3. QED
      BY <3>1, <3>2
  <2>2. NoCrossing(i, u)' => NoCrossing(i, u)
    BY <1>6 DEF NoCrossing
  <2>3. ASSUME NEW k \in 1 .. Len(reply'[i]), LastCrossing(i, u, k)'
        PROVE  k \in 1 .. Len(reply[i]) /\ reply'[i][k] = reply[i][k] /\ LastCrossing(i, u, k)
    <3>1. Crossing(reply'[i][k], u)
      BY <2>3 DEF LastCrossing
    <3>2. k \in 1 .. Len(reply[i]) /\ reply'[i][k] = reply[i][k]
      BY <1>6, <1>9, <3>1
    <3>3. \A l \in k + 1 .. Len(reply[i]) :
             l \in k + 1 .. Len(reply'[i]) /\ l \in 1 .. Len(reply[i])
      BY <1>6, <3>2
    <3>4. \A l \in k + 1 .. Len(reply[i]) : ~Crossing(reply[i][l], u)
      BY <1>6, <2>3, <3>3 DEF LastCrossing
    <3>5. QED
      BY <3>1, <3>2, <3>4 DEF LastCrossing
  <2>4. ASSUME NEW k \in 1 .. Len(queue'[i]), LastVerdict(i, u, k)'
        PROVE  k + 1 \in 1 .. Len(queue[i]) /\ queue'[i][k] = queue[i][k + 1]
               /\ LastVerdict(i, u, k + 1)
    <3>1. k + 1 \in 1 .. Len(queue[i]) /\ queue'[i][k] = queue[i][k + 1]
      BY <1>1
    <3>2. ASSUME NEW l \in (k + 1) + 1 .. Len(queue[i]) PROVE ~Verdict(queue[i][l], u)
      <4>1. l - 1 \in k + 1 .. Len(queue'[i]) /\ l - 1 \in 1 .. Len(queue'[i]) /\ (l - 1) + 1 = l
        BY <1>1
      <4>2. queue'[i][l - 1] = queue[i][l]
        BY <1>1, <4>1
      <4>3. QED
        BY <2>4, <4>1, <4>2 DEF LastVerdict
    <3>3. QED
      BY <2>4, <3>1, <3>2 DEF LastVerdict
  <2>5. ASSUME NoVerdict(i, u)' PROVE \A l \in 2 .. Len(queue[i]) : ~Verdict(queue[i][l], u)
    <3>1. SUFFICES ASSUME NEW l \in 2 .. Len(queue[i]) PROVE ~Verdict(queue[i][l], u)
      OBVIOUS
    <3>2. l - 1 \in 1 .. Len(queue'[i]) /\ (l - 1) + 1 = l
      BY <1>1
    <3>3. QED
      BY <1>1, <2>5, <3>2 DEF NoVerdict
  <2>6. ASSUME NoCrossing(i, u), NoVerdict(i, u)' PROVE u \in online' <=> count[u] >= 1
    <3>1. CASE Verdict(c, u)
      <4>1. 1 \in 1 .. Len(queue[i]) /\ 1 + 1 = 2
        BY <1>1
      <4>2. LastVerdict(i, u, 1)
        BY <1>1, <2>5, <2>6, <3>1, <4>1 DEF LastVerdict
      <4>3. c.cmd = "sadd" <=> count[u] >= 1
        BY <1>1, <2>6, <4>1, <4>2 DEF OnlineFollows
      <4>4. u \in online' <=> c.cmd = "sadd"
        BY <1>3, <3>1 DEF Verdict, Noted, v
      <4>5. QED
        BY <4>3, <4>4
    <3>2. CASE ~Verdict(c, u)
      <4>1. u \in online' <=> u \in online
        BY <1>3, <3>2 DEF Verdict, Noted, v
      <4>2. NoVerdict(i, u)
        <5>1. \A l \in 1 .. Len(queue[i]) : l = 1 \/ l \in 2 .. Len(queue[i])
          BY <1>1
        <5>2. QED
          BY <1>1, <2>5, <2>6, <3>2, <5>1 DEF NoVerdict
      <4>3. QED
        BY <2>6, <4>1, <4>2 DEF OnlineFollows
    <3>3. QED
      BY <3>1, <3>2
  <2>7. QED
    BY <2>1, <2>2, <2>3, <2>4, <2>6 DEF OnlineFollows
<1>10. QED
  BY <1>8, <1>9

\* An instance resumes the handler of its oldest answer.
LEMMA OnlineAfterResume ==
    ASSUME TypeInv, TypeInv', NEW i \in Instances, NEW u \in Users, OnlineFollows(i, u),
           Resume(i)
    PROVE  OnlineFollows(i, u)'
<1> DEFINE r == Head(reply[i])
<1>1. /\ Len(reply'[i]) = Len(reply[i]) - 1
      /\ Len(reply[i]) \in Nat \ {0}
      /\ \A k \in 1 .. Len(reply'[i]) : reply'[i][k] = reply[i][k + 1]
      /\ r = reply[i][1]
      /\ r \in ReplyRecs
  BY TailAt DEF TypeInv, Resume
<1>2. r.cmd \in Commands /\ r.sock \in Sockets
  BY <1>1 DEF ReplyRecs
<1>3. count' = count /\ online' = online
  BY DEF Resume, redis
<1>4. Len(queue[i]) \in Nat /\ Len(queue'[i]) \in Nat
  BY InFlightTypes
<1>5. AfterIncr(i, r) \/ AfterSadd(i, r) \/ AfterMembers(i, r) \/ AfterDecr(i, r) \/ AfterSrem(i, r)
  BY DEF Resume
<1> HIDE DEF r
<1>6. ASSUME NEW cmd \in Commands, Issue(i, cmd, r.sock)
      PROVE  /\ Len(queue'[i]) = Len(queue[i]) + 1
             /\ \A k \in 1 .. Len(queue[i]) : queue'[i][k] = queue[i][k]
             /\ queue'[i][Len(queue[i]) + 1] = [cmd |-> cmd, sock |-> r.sock]
  <2>1. [cmd |-> cmd, sock |-> r.sock] \in CommandRecs
    BY <1>2 DEF CommandRecs
  <2>2. queue' = [queue EXCEPT ![i] = Append(@, [cmd |-> cmd, sock |-> r.sock])]
    BY <1>6 DEF Issue
  <2>3. QED
    BY <2>1, <2>2, AppendAt DEF TypeInv
<1>7. ASSUME NEW k \in 1 .. Len(reply'[i]), LastCrossing(i, u, k)'
      PROVE  k + 1 \in 1 .. Len(reply[i]) /\ reply'[i][k] = reply[i][k + 1]
             /\ LastCrossing(i, u, k + 1)
  <2>1. k + 1 \in 1 .. Len(reply[i]) /\ reply'[i][k] = reply[i][k + 1]
    BY <1>1
  <2>2. ASSUME NEW l \in (k + 1) + 1 .. Len(reply[i]) PROVE ~Crossing(reply[i][l], u)
    <3>1. l - 1 \in k + 1 .. Len(reply'[i]) /\ l - 1 \in 1 .. Len(reply'[i]) /\ (l - 1) + 1 = l
      BY <1>1
    <3>2. reply'[i][l - 1] = reply[i][l]
      BY <1>1, <3>1
    <3>3. QED
      BY <1>7, <3>1, <3>2 DEF LastCrossing
  <2>3. QED
    BY <1>7, <2>1, <2>2 DEF LastCrossing
<1>8. ASSUME NoCrossing(i, u)' PROVE \A l \in 2 .. Len(reply[i]) : ~Crossing(reply[i][l], u)
  <2>1. SUFFICES ASSUME NEW l \in 2 .. Len(reply[i]) PROVE ~Crossing(reply[i][l], u)
    OBVIOUS
  <2>2. l - 1 \in 1 .. Len(reply'[i]) /\ (l - 1) + 1 = l
    BY <1>1
  <2>3. QED
    BY <1>1, <1>8, <2>2 DEF NoCrossing
<1>9. CASE Crossing(r, u)
  <2>1. ASSUME NoCrossing(i, u)' PROVE r.cmd = "incr" <=> count[u] >= 1
    <3>1. 1 \in 1 .. Len(reply[i]) /\ 1 + 1 = 2
      BY <1>1
    <3>2. LastCrossing(i, u, 1)
      BY <1>1, <1>8, <1>9, <2>1, <3>1 DEF LastCrossing
    <3>3. QED
      BY <1>1, <3>1, <3>2 DEF OnlineFollows
  <2>2. /\ Len(queue'[i]) = Len(queue[i]) + 1
        /\ queue'[i][Len(queue[i]) + 1].cmd = "sadd" <=> r.cmd = "incr"
        /\ Verdict(queue'[i][Len(queue[i]) + 1], u)
    <3>1. CASE r.cmd = "incr"
      <4>1. Issue(i, "sadd", r.sock)
        BY <1>5, <1>9, <3>1
           DEF Crossing, AfterIncr, AfterSadd, AfterMembers, AfterDecr, AfterSrem
      <4>2. QED
        BY <1>6, <1>9, <3>1, <4>1 DEF Crossing, Verdict, Commands
    <3>2. CASE r.cmd = "decr"
      <4>1. Issue(i, "srem", r.sock)
        BY <1>5, <1>9, <3>2
           DEF Crossing, AfterIncr, AfterSadd, AfterMembers, AfterDecr, AfterSrem
      <4>2. QED
        BY <1>6, <1>9, <3>2, <4>1 DEF Crossing, Verdict, Commands
    <3>3. QED
      BY <1>9, <3>1, <3>2 DEF Crossing
  <2>3. ~NoVerdict(i, u)'
    BY <1>4, <2>2 DEF NoVerdict
  <2>4. ASSUME NEW k \in 1 .. Len(queue'[i]), LastVerdict(i, u, k)' PROVE k = Len(queue[i]) + 1
    <3>1. SUFFICES ASSUME k \in 1 .. Len(queue[i]) PROVE FALSE
      BY <1>4, <2>2
    <3>2. Len(queue[i]) + 1 \in k + 1 .. Len(queue'[i])
      BY <1>4, <2>2, <3>1
    <3>3. QED
      BY <2>2, <2>4, <3>2 DEF LastVerdict
  <2>5. QED
    BY <1>3, <1>7, <2>1, <2>2, <2>3, <2>4 DEF OnlineFollows
<1>10. CASE ~Crossing(r, u)
  <2>1. ASSUME NoCrossing(i, u)' PROVE NoCrossing(i, u)
    <3>1. \A l \in 1 .. Len(reply[i]) : l = 1 \/ l \in 2 .. Len(reply[i])
      BY <1>1
    <3>2. QED
      BY <1>1, <1>8, <1>10, <2>1, <3>1 DEF NoCrossing
  <2>2. \/ queue' = queue
        \/ /\ Len(queue'[i]) = Len(queue[i]) + 1
           /\ \A k \in 1 .. Len(queue[i]) : queue'[i][k] = queue[i][k]
           /\ ~Verdict(queue'[i][Len(queue[i]) + 1], u)
    <3>1. CASE AfterIncr(i, r)
      BY <1>6, <1>10, <3>1 DEF AfterIncr, Crossing, Verdict, Commands
    <3>2. CASE AfterSadd(i, r)
      BY <1>6, <3>2 DEF AfterSadd, Verdict, Commands
    <3>3. CASE AfterMembers(i, r)
      BY <3>3 DEF AfterMembers
    <3>4. CASE AfterDecr(i, r)
      BY <1>6, <1>10, <3>4 DEF AfterDecr, Crossing, Verdict, Commands
    <3>5. CASE AfterSrem(i, r)
      BY <3>5 DEF AfterSrem
    <3>6. QED
      BY <1>5, <3>1, <3>2, <3>3, <3>4, <3>5
  <2>3. NoVerdict(i, u)' => NoVerdict(i, u)
    BY <1>4, <2>2 DEF NoVerdict
  <2>4. ASSUME NEW k \in 1 .. Len(queue'[i]), LastVerdict(i, u, k)'
        PROVE  k \in 1 .. Len(queue[i]) /\ queue'[i][k] = queue[i][k] /\ LastVerdict(i, u, k)
    <3>1. Verdict(queue'[i][k], u)
      BY <2>4 DEF LastVerdict
    <3>2. k \in 1 .. Len(queue[i]) /\ queue'[i][k] = queue[i][k]
      BY <1>4, <2>2, <3>1
    <3>3. \A l \in k + 1 .. Len(queue[i]) :
             l \in k + 1 .. Len(queue'[i]) /\ l \in 1 .. Len(queue[i])
      BY <1>4, <2>2, <3>2
    <3>4. \A l \in k + 1 .. Len(queue[i]) : ~Verdict(queue[i][l], u)
      BY <2>2, <2>4, <3>3 DEF LastVerdict
    <3>5. QED
      BY <3>1, <3>2, <3>4 DEF LastVerdict
  <2>5. QED
    BY <1>3, <1>7, <2>1, <2>3, <2>4 DEF OnlineFollows
<1>11. QED
  BY <1>9, <1>10

\* While no instance has crashed and every user's tabs share one, the online set
\* follows the counter through whatever the handlers have in flight.
THEOREM OnlineInvariance ==
    ASSUME OneHomePerUser PROVE Spec => [](crashes = 0 => OnlineInv)
<1> USE PresenceAssumption
<1>1. Init => OnlineInv
  BY DEF Init, OnlineInv, OnlineFollows, NoCrossing, NoVerdict
<1>2. TypeInv /\ TypeInv' /\ HandlerInv /\ (crashes = 0 => OnlineInv) /\ [Next]_vars
         => (crashes = 0 => OnlineInv)'
  <2> SUFFICES ASSUME TypeInv, TypeInv', HandlerInv, crashes = 0 => OnlineInv, [Next]_vars,
                      crashes' = 0
               PROVE  OnlineInv'
    OBVIOUS
  <2>1. crashes = 0 /\ OnlineInv /\ \A i \in Instances : ~Crash(i)
    <3>1. \A i \in Instances : ~Crash(i)
      BY DEF Crash, TypeInv
    <3>2. crashes' = crashes
      BY <3>1 DEF Next, vars, Connect, ChannelsListed, ListOnline, Disconnect, Execute, Resume,
                  Deliver
    <3>3. QED
      BY <3>1, <3>2
  <2>2. \A s \in Sockets : InstanceOf[s] \in Instances /\ UserOf[s] \in Users
    OBVIOUS
  <2>3. ASSUME online' = online, count' = count, reply' = reply,
               \A j \in Instances :
                  \/ queue'[j] = queue[j]
                  \/ \E cmd \in Commands \ {"sadd", "srem"}, s \in Sockets :
                        /\ Issue(j, cmd, s)
        PROVE  OnlineInv'
    <3>1. SUFFICES ASSUME NEW t \in Sockets PROVE OnlineFollows(InstanceOf[t], UserOf[t])'
      BY <2>1, <2>3 DEF OnlineInv
    <3> DEFINE i == InstanceOf[t]
               u == UserOf[t]
    <3>2. i \in Instances /\ u \in Users /\ OnlineFollows(i, u)
      BY <2>1, <2>2 DEF OnlineInv
    <3> HIDE DEF i, u
    <3>3. \/ queue'[i] = queue[i]
          \/ /\ Len(queue'[i]) = Len(queue[i]) + 1
             /\ \A k \in 1 .. Len(queue[i]) : queue'[i][k] = queue[i][k]
             /\ ~Verdict(queue'[i][Len(queue[i]) + 1], u)
      <4>1. ASSUME NEW cmd \in Commands \ {"sadd", "srem"}, NEW s \in Sockets, Issue(i, cmd, s)
            PROVE  /\ Len(queue'[i]) = Len(queue[i]) + 1
                   /\ \A k \in 1 .. Len(queue[i]) : queue'[i][k] = queue[i][k]
                   /\ ~Verdict(queue'[i][Len(queue[i]) + 1], u)
        <5> DEFINE e == [cmd |-> cmd, sock |-> s]
        <5>1. e \in CommandRecs /\ ~Verdict(e, u)
          BY DEF CommandRecs, Verdict
        <5>2. queue \in [Instances -> Seq(CommandRecs)]
              /\ queue' = [queue EXCEPT ![i] = Append(@, e)]
          BY <4>1 DEF Issue, TypeInv
        <5> HIDE DEF e
        <5>3. QED
          BY <3>2, <5>1, <5>2, AppendAt
      <4>2. QED
        BY <2>3, <3>2, <4>1
    <3>4. OnlineFollows(i, u)'
      BY <2>3, <3>2, <3>3, OnlineUndisturbed
    <3>5. QED
      BY <3>4 DEF i, u
  <2>4. CASE UNCHANGED vars
    BY <2>3, <2>4 DEF vars, redis
  <2>5. ASSUME NEW s \in Sockets, Connect(s) PROVE OnlineInv'
    BY <2>3, <2>5 DEF Connect
  <2>6. ASSUME NEW s \in Sockets, NEW cmd \in Commands \ {"sadd", "srem"},
               Issue(InstanceOf[s], cmd, s), UNCHANGED <<reply, redis>>
        PROVE  OnlineInv'
    <3>1. \A j \in Instances : queue'[j] = queue[j] \/ Issue(j, cmd, s)
      <4>1. \A j \in Instances : j # InstanceOf[s] => queue'[j] = queue[j]
        BY <2>6 DEF Issue, TypeInv
      <4>2. QED
        BY <2>6, <4>1
    <3>2. QED
      BY <2>3, <2>6, <3>1 DEF redis
  <2>7. ASSUME NEW s \in Sockets, ChannelsListed(s) \/ ListOnline(s) \/ Disconnect(s)
        PROVE  OnlineInv'
    <3>1. CASE ChannelsListed(s)
      BY <2>6, <3>1 DEF ChannelsListed, Commands
    <3>2. CASE ListOnline(s)
      BY <2>6, <3>2 DEF ListOnline, Commands
    <3>3. CASE Disconnect(s)
      BY <2>6, <3>3 DEF Disconnect, Commands
    <3>4. QED
      BY <2>7, <3>1, <3>2, <3>3
  <2>8. ASSUME NEW i \in Instances, NEW j \in Instances, Deliver(i, j) PROVE OnlineInv'
    BY <2>3, <2>8 DEF Deliver, redis
  <2>9. ASSUME NEW j \in Instances, Execute(j) PROVE OnlineInv'
    <3> DEFINE c == Head(queue[j])
    <3>1. c.sock \in Sockets /\ InstanceOf[c.sock] = j
      <4>1. Len(queue[j]) \in Nat \ {0} /\ c = queue[j][1] /\ c \in CommandRecs
        BY <2>9, TailAt DEF Execute, TypeInv
      <4>2. QED
        BY <4>1 DEF HandlerInv, QueueInv, CommandRecs
    <3>2. /\ count' = count \/ \E n : count' = [count EXCEPT ![UserOf[c.sock]] = n]
          /\ \/ online' = online
             \/ online' = online \cup {UserOf[c.sock]}
             \/ online' = online \ {UserOf[c.sock]}
      BY <2>9 DEF Execute, ExecuteCount, ExecuteSet, ExecuteMembers, redis, Noted
    <3>3. \A i \in Instances : i # j => queue'[i] = queue[i] /\ reply'[i] = reply[i]
      BY <2>9 DEF Execute, ExecuteCount, ExecuteSet, ExecuteMembers, Answer, TypeInv
    <3> HIDE DEF c
    <3>4. ASSUME NEW t \in Sockets PROVE OnlineFollows(InstanceOf[t], UserOf[t])'
      <4> DEFINE i == InstanceOf[t]
                 u == UserOf[t]
      <4>1. i \in Instances /\ u \in Users /\ OnlineFollows(i, u)
        BY <2>1, <2>2 DEF OnlineInv
      <4>2. i # j => u # UserOf[c.sock]
        BY <3>1 DEF OneHomePerUser
      <4> HIDE DEF i, u
      <4>3. CASE i = j
        BY <2>9, <4>1, <4>3, OnlineAfterExecute DEF i, u
      <4>4. CASE i # j
        <5>1. count'[u] = count[u] /\ (u \in online' <=> u \in online)
          BY <3>2, <4>1, <4>2, <4>4 DEF TypeInv
        <5>2. OnlineFollows(i, u)'
          BY <3>3, <4>1, <4>4, <5>1, OnlineUndisturbed
        <5>3. QED
          BY <5>2 DEF i, u
      <4>5. QED
        BY <4>3, <4>4
    <3>5. \A u \in online' : \E s \in Sockets : UserOf[s] = u
      BY <2>1, <3>1, <3>2 DEF OnlineInv
    <3>6. QED
      BY <3>4, <3>5 DEF OnlineInv
  <2>10. ASSUME NEW j \in Instances, Resume(j) PROVE OnlineInv'
    <3>1. count' = count /\ online' = online
      BY <2>10 DEF Resume, redis
    <3>2. \A i \in Instances : i # j => queue'[i] = queue[i] /\ reply'[i] = reply[i]
      BY <2>10 DEF Resume, AfterIncr, AfterSadd, AfterMembers, AfterDecr, AfterSrem, Issue, TypeInv
    <3>3. ASSUME NEW t \in Sockets PROVE OnlineFollows(InstanceOf[t], UserOf[t])'
      <4> DEFINE i == InstanceOf[t]
                 u == UserOf[t]
      <4>1. i \in Instances /\ u \in Users /\ OnlineFollows(i, u)
        BY <2>1, <2>2 DEF OnlineInv
      <4> HIDE DEF i, u
      <4>2. CASE i = j
        BY <2>10, <4>1, <4>2, OnlineAfterResume DEF i, u
      <4>3. CASE i # j
        BY <3>1, <3>2, <4>1, <4>3, OnlineUndisturbed DEF i, u
      <4>4. QED
        BY <4>2, <4>3
    <3>4. QED
      BY <2>1, <3>1, <3>3 DEF OnlineInv
  <2>11. QED
    BY <2>1, <2>4, <2>5, <2>7, <2>8, <2>9, <2>10 DEF Next
<1>3. QED
  BY <1>1, <1>2, TypeInvariance, HandlerInvariance, PTL DEF Spec

\* Without a crash no tab is lost with its process.
NoneLost == \A s \in Sockets : phase[s] # "lost"

THEOREM NobodyLost == Spec => [](crashes = 0 => NoneLost)
<1>1. Init => NoneLost
  BY DEF Init, NoneLost
<1>2. TypeInv /\ (crashes = 0 => NoneLost) /\ [Next]_vars => (crashes = 0 => NoneLost)'
  <2> SUFFICES ASSUME TypeInv, crashes = 0 => NoneLost, [Next]_vars, crashes' = 0
               PROVE  NoneLost'
    OBVIOUS
  <2>1. \A i \in Instances : ~Crash(i)
    BY DEF Crash, TypeInv
  <2>2. /\ crashes' = crashes
        /\ \/ phase' = phase
           \/ \E s \in Sockets : \E p \in {"open", "closed"} : phase' = [phase EXCEPT ![s] = p]
    BY <2>1 DEF Next, vars, Connect, ChannelsListed, ListOnline, Disconnect, Execute, Resume,
                Deliver
  <2>3. QED
    BY <2>2 DEF NoneLost, TypeInv
<1>3. QED
  BY <1>1, <1>2, TypeInvariance, PTL DEF Spec

\* When no handler runs, nothing is in flight to or from Redis.
LEMMA QuietInFlight ==
    ASSUME TypeInv, HandlerInv, Quiet, NEW i \in Instances
    PROVE  Len(queue[i]) = 0 /\ Len(reply[i]) = 0
<1>1. /\ Len(queue[i]) \in Nat /\ Len(reply[i]) \in Nat
      /\ \A k \in 1 .. Len(queue[i]) : queue[i][k].cmd \in Commands /\ queue[i][k].sock \in Sockets
      /\ \A k \in 1 .. Len(reply[i]) : reply[i][k].cmd \in Commands /\ reply[i][k].sock \in Sockets
  BY InFlightTypes
<1>2. \A c : c.cmd \in Commands /\ c.sock \in Sockets => ~AwaitedBy(c, conn, disc)
  BY DEF Quiet, AwaitedBy, Commands
<1>3. /\ \A k \in 1 .. Len(queue[i]) : AwaitedBy(queue[i][k], conn, disc)
      /\ \A k \in 1 .. Len(reply[i]) : AwaitedBy(reply[i][k], conn, disc)
  BY DEF HandlerInv, QueueInv, ReplyInv
<1>4. QED
  BY <1>1, <1>2, <1>3

\* "multi-tab correct", for any users, tabs and instances as long as the tabs of
\* one user share an instance and none has crashed: whenever no handler runs, a
\* user is online exactly if one of the user's tabs is connected.  (With a user's
\* tabs on two instances it is false: the run presence_replicas.)
THEOREM MultiTab ==
    ASSUME OneHomePerUser PROVE Spec => [](crashes = 0 => MultiTabCorrect)
<1> USE PresenceAssumption
<1>1. ASSUME TypeInv, HandlerInv, CountMatchesTabs, OnlineInv, NoneLost
      PROVE  MultiTabCorrect
  <2> SUFFICES ASSUME Quiet, NEW u \in Users PROVE u \in online <=> HasTab(u)
    BY DEF MultiTabCorrect
  <2> DEFINE Open == {s \in TabsOf(u) : phase[s] = "open"}
  <2>1. count[u] = Cardinality(Open)
    BY <1>1 DEF CountMatchesTabs, Quiet, TabsOf, NoneLost
  <2>2. HasTab(u) <=> Open # {}
    BY DEF HasTab
  <2>3. IsFiniteSet(Open) /\ Cardinality(Open) \in Nat
    <3>1. Open = Open \cap TabsOf(u)
      OBVIOUS
    <3>2. QED
      BY <3>1, FiniteTabs
  <2>4. HasTab(u) <=> count[u] >= 1
    <3> HIDE DEF Open
    <3>1. Cardinality(Open) = 0 <=> Open = {}
      BY <2>3, FS_EmptySet
    <3>2. QED
      BY <2>1, <2>2, <2>3, <3>1
  <2>5. CASE \E s \in Sockets : UserOf[s] = u
    <3>1. PICK s \in Sockets : UserOf[s] = u
      BY <2>5
    <3>2. InstanceOf[s] \in Instances /\ OnlineFollows(InstanceOf[s], u)
      BY <1>1, <3>1 DEF OnlineInv
    <3>3. Len(queue[InstanceOf[s]]) = 0 /\ Len(reply[InstanceOf[s]]) = 0
      BY <1>1, <3>2, QuietInFlight
    <3>4. NoCrossing(InstanceOf[s], u) /\ NoVerdict(InstanceOf[s], u)
      BY <3>3 DEF NoCrossing, NoVerdict
    <3>5. QED
      BY <2>4, <3>2, <3>4 DEF OnlineFollows
  <2>6. CASE ~\E s \in Sockets : UserOf[s] = u
    BY <1>1, <2>6 DEF OnlineInv, HasTab, TabsOf
  <2>7. QED
    BY <2>5, <2>6
<1>2. QED
  BY <1>1, TypeInvariance, HandlerInvariance, CounterMatchesTabs, OnlineInvariance, NobodyLost, PTL

-------------------------------------------------------------------------------
(* What the tabs show *)

\* The answers that will tell the tab of s about u: a change of u that the instance
\* is about to announce, and the snapshot the tab itself is waiting for.
Informs(r, s, u) ==
    \/ r.cmd \in {"sadd", "srem"} /\ UserOf[r.sock] = u
    \/ r.cmd = "smembers" /\ r.sock = s
ShowsOnline(r, u) == r.cmd = "sadd" \/ (r.cmd = "smembers" /\ u \in r.ids)

NoNews(i, s, u) == \A l \in 1 .. Len(reply[i]) : ~Informs(reply[i][l], s, u)
LastNews(i, s, u, k) ==
    /\ Informs(reply[i][k], s, u)
    /\ \A l \in k + 1 .. Len(reply[i]) : ~Informs(reply[i][l], s, u)

\* The last news on the way to s about u is what Redis holds, and a synchronised
\* tab that awaits none already shows it.
NewsCurrent(i, s, u) ==
    \A k \in 1 .. Len(reply[i]) :
        LastNews(i, s, u, k) => (ShowsOnline(reply[i][k], u) <=> u \in online)
ShownCurrent(i, s, u) ==
    phase[s] = "open" /\ conn[s] = "idle" /\ NoNews(i, s, u) => (u \in view[s] <=> u \in online)

\* All tabs live on one instance: the deployment with a single API process.
OneHome == \A s, t \in Sockets : InstanceOf[s] = InstanceOf[t]

ViewInv ==
    \A s \in Sockets, u \in Users :
        NewsCurrent(InstanceOf[s], s, u) /\ ShownCurrent(InstanceOf[s], s, u)

\* Only the instance of the tabs publishes, and to the others.
BusInv ==
    \A i, j \in Instances : bus[i][j] # <<>> => i # j /\ \E s \in Sockets : InstanceOf[s] = i

\* A step that neither answers nor consumes an answer keeps ViewInv, if no tab
\* becomes synchronised by it and the tabs that stay open keep what they show.
LEMMA ViewUndisturbed ==
    ASSUME ViewInv, reply' = reply, online' = online,
           \A s \in Sockets : phase'[s] = "open" /\ conn'[s] = "idle" =>
               phase[s] = "open" /\ conn[s] = "idle" /\ view'[s] = view[s]
    PROVE  ViewInv'
BY DEF ViewInv, NewsCurrent, ShownCurrent, NoNews, LastNews

\* Redis answers the oldest command of the tabs' instance.
LEMMA ViewAfterExecute ==
    ASSUME TypeInv, HandlerInv, ViewInv, OneHome, NEW j \in Instances, Execute(j)
    PROVE  ViewInv'
<1> USE PresenceAssumption
<1> DEFINE c == Head(queue[j])
           v == UserOf[c.sock]
<1>1. c = queue[j][1] /\ c \in CommandRecs /\ Len(queue[j]) \in Nat \ {0}
  BY TailAt DEF Execute, TypeInv
<1>2. c.cmd \in Commands /\ c.sock \in Sockets /\ v \in Users /\ InstanceOf[c.sock] = j
  BY <1>1 DEF CommandRecs, HandlerInv, QueueInv
<1> HIDE DEF c, v
<1>3. PICK n \in Int, ids \in SUBSET Users :
         /\ Answer(j, n, ids)
         /\ c.cmd = "smembers" => ids = online
         /\ c.cmd \in {"sadd", "srem"} => online' = Noted(online, v, c.cmd = "sadd")
         /\ c.cmd \notin {"sadd", "srem"} => online' = online
  <2>1. CASE ExecuteCount(j)
    <3>1. count[v] \in Int
      BY <1>2 DEF TypeInv
    <3>2. CountAfter(c.cmd, count[v]) \in Int /\ {} \in SUBSET Users
      BY <3>1 DEF CountAfter
    <3>3. /\ c.cmd \in {"incr", "decr"} /\ Answer(j, CountAfter(c.cmd, count[v]), {})
          /\ online' = online
      BY <2>1 DEF ExecuteCount, c, v
    <3>4. QED
      BY <3>2, <3>3
  <2>2. CASE ExecuteSet(j)
    <3>1. /\ c.cmd \in {"sadd", "srem"} /\ Answer(j, 0, {})
          /\ online' = Noted(online, v, c.cmd = "sadd")
      BY <2>2 DEF ExecuteSet, c, v
    <3>2. 0 \in Int /\ {} \in SUBSET Users
      OBVIOUS
    <3>3. QED
      BY <3>1, <3>2
  <2>3. CASE ExecuteMembers(j)
    <3>1. c.cmd = "smembers" /\ Answer(j, 0, online) /\ online' = online
      BY <2>3 DEF ExecuteMembers, redis, c
    <3>2. 0 \in Int /\ online \in SUBSET Users
      BY DEF TypeInv
    <3>3. QED
      BY <3>1, <3>2
  <2>4. QED
    BY <2>1, <2>2, <2>3 DEF Execute
<1> DEFINE r == [cmd |-> c.cmd, sock |-> c.sock, n |-> n, ids |-> ids]
<1>4. r \in ReplyRecs /\ r.cmd = c.cmd /\ r.sock = c.sock /\ r.ids = ids
  BY <1>2, <1>3 DEF ReplyRecs
<1>5. reply' = [reply EXCEPT ![j] = Append(@, r)] /\ reply \in [Instances -> Seq(ReplyRecs)]
  BY <1>3 DEF Answer, TypeInv, c
<1>6. phase' = phase /\ conn' = conn /\ view' = view
  BY DEF Execute
<1> HIDE DEF r
<1>7. /\ Len(reply'[j]) = Len(reply[j]) + 1
      /\ Len(reply[j]) \in Nat
      /\ \A k \in 1 .. Len(reply[j]) : reply'[j][k] = reply[j][k]
      /\ reply'[j][Len(reply[j]) + 1] = r
  BY <1>4, <1>5, AppendAt
<1>8. SUFFICES ASSUME NEW s \in Sockets, NEW u \in Users
               PROVE  NewsCurrent(InstanceOf[s], s, u)' /\ ShownCurrent(InstanceOf[s], s, u)'
  BY DEF ViewInv
<1>9. InstanceOf[s] = j
  BY <1>2 DEF OneHome
<1>10. NewsCurrent(j, s, u) /\ ShownCurrent(j, s, u)
  BY <1>9 DEF ViewInv
<1>11. CASE Informs(r, s, u)
  <2>1. ShowsOnline(r, u) <=> u \in online'
    <3>1. CASE c.cmd \in {"sadd", "srem"}
      BY <1>3, <1>4, <1>11, <3>1 DEF Informs, ShowsOnline, Noted, v
    <3>2. CASE c.cmd = "smembers"
      BY <1>3, <1>4, <3>2 DEF ShowsOnline
    <3>3. QED
      BY <1>4, <1>11, <3>1, <3>2 DEF Informs
  <2>2. ~NoNews(j, s, u)'
    BY <1>7, <1>11 DEF NoNews
  <2>3. ASSUME NEW k \in 1 .. Len(reply'[j]), LastNews(j, s, u, k)' PROVE k = Len(reply[j]) + 1
    <3>1. SUFFICES ASSUME k \in 1 .. Len(reply[j]) PROVE FALSE
      BY <1>7
    <3>2. Len(reply[j]) + 1 \in k + 1 .. Len(reply'[j])
      BY <1>7, <3>1
    <3>3. QED
      BY <1>7, <1>11, <2>3, <3>2 DEF LastNews
  <2>4. QED
    BY <1>7, <1>9, <2>1, <2>2, <2>3 DEF NewsCurrent, ShownCurrent
<1>12. CASE ~Informs(r, s, u)
  <2>1. u \in online' <=> u \in online
    BY <1>3, <1>4, <1>12 DEF Informs, Noted, v
  <2>2. NoNews(j, s, u)' => NoNews(j, s, u)
    BY <1>7 DEF NoNews
  <2>3. ASSUME NEW k \in 1 .. Len(reply'[j]), LastNews(j, s, u, k)'
        PROVE  k \in 1 .. Len(reply[j]) /\ reply'[j][k] = reply[j][k] /\ LastNews(j, s, u, k)
    <3>1. Informs(reply'[j][k], s, u)
      BY <2>3 DEF LastNews
    <3>2. k \in 1 .. Len(reply[j]) /\ reply'[j][k] = reply[j][k]
      BY <1>7, <1>12, <3>1
    <3>3. \A l \in k + 1 .. Len(reply[j]) :
             l \in k + 1 .. Len(reply'[j]) /\ l \in 1 .. Len(reply[j])
      BY <1>7, <3>2
    <3>4. \A l \in k + 1 .. Len(reply[j]) : ~Informs(reply[j][l], s, u)
      BY <1>7, <2>3, <3>3 DEF LastNews
    <3>5. QED
      BY <3>1, <3>2, <3>4 DEF LastNews
  <2>4. QED
    BY <1>6, <1>9, <1>10, <2>1, <2>2, <2>3 DEF NewsCurrent, ShownCurrent
<1>13. QED
  BY <1>11, <1>12

\* The instance consumes its oldest answer, and announces or shows what it says.
LEMMA ViewAfterResume ==
    ASSUME TypeInv, HandlerInv, ViewInv, OneHome, NEW j \in Instances, Resume(j)
    PROVE  ViewInv'
<1> USE PresenceAssumption
<1> DEFINE r == Head(reply[j])
<1>1. /\ Len(reply'[j]) = Len(reply[j]) - 1
      /\ Len(reply[j]) \in Nat \ {0}
      /\ \A k \in 1 .. Len(reply'[j]) : reply'[j][k] = reply[j][k + 1]
      /\ r = reply[j][1]
      /\ r \in ReplyRecs
  BY TailAt DEF TypeInv, Resume
<1>2. /\ r.cmd \in Commands /\ r.sock \in Sockets /\ InstanceOf[r.sock] = j
      /\ AwaitedBy(r, conn, disc) /\ r.ids \in SUBSET Users
  BY <1>1 DEF ReplyRecs, HandlerInv, ReplyInv
<1>3. phase' = phase /\ online' = online
  BY DEF Resume, redis
<1>4. AfterIncr(j, r) \/ AfterSadd(j, r) \/ AfterMembers(j, r) \/ AfterDecr(j, r) \/ AfterSrem(j, r)
  BY DEF Resume
<1> HIDE DEF r
<1>5. SUFFICES ASSUME NEW s \in Sockets, NEW u \in Users
               PROVE  NewsCurrent(InstanceOf[s], s, u)' /\ ShownCurrent(InstanceOf[s], s, u)'
  BY DEF ViewInv
<1>6. InstanceOf[s] = j
  BY <1>2 DEF OneHome
<1>7. NewsCurrent(j, s, u) /\ ShownCurrent(j, s, u)
  BY <1>6 DEF ViewInv
<1>8. ASSUME NEW k \in 1 .. Len(reply'[j]), LastNews(j, s, u, k)'
      PROVE  k + 1 \in 1 .. Len(reply[j]) /\ reply'[j][k] = reply[j][k + 1]
             /\ LastNews(j, s, u, k + 1)
  <2>1. k + 1 \in 1 .. Len(reply[j]) /\ reply'[j][k] = reply[j][k + 1]
    BY <1>1
  <2>2. ASSUME NEW l \in (k + 1) + 1 .. Len(reply[j]) PROVE ~Informs(reply[j][l], s, u)
    <3>1. l - 1 \in k + 1 .. Len(reply'[j]) /\ l - 1 \in 1 .. Len(reply'[j]) /\ (l - 1) + 1 = l
      BY <1>1
    <3>2. reply'[j][l - 1] = reply[j][l]
      BY <1>1, <3>1
    <3>3. QED
      BY <1>8, <3>1, <3>2 DEF LastNews
  <2>3. QED
    BY <1>8, <2>1, <2>2 DEF LastNews
<1>9. NewsCurrent(j, s, u)'
  BY <1>3, <1>7, <1>8 DEF NewsCurrent
<1>10. ASSUME phase'[s] = "open", conn'[s] = "idle", NoNews(j, s, u)'
       PROVE  u \in view'[s] <=> u \in online
  <2>1. \A l \in 2 .. Len(reply[j]) : ~Informs(reply[j][l], s, u)
    <3>1. SUFFICES ASSUME NEW l \in 2 .. Len(reply[j]) PROVE ~Informs(reply[j][l], s, u)
      OBVIOUS
    <3>2. l - 1 \in 1 .. Len(reply'[j]) /\ (l - 1) + 1 = l
      BY <1>1
    <3>3. QED
      BY <1>1, <1>10, <3>2 DEF NoNews
  <2>2. phase[s] = "open" /\ s \in OpenOn(j)
    BY <1>3, <1>6, <1>10 DEF OpenOn
  <2>3. CASE Informs(r, s, u)
    <3>1. 1 \in 1 .. Len(reply[j]) /\ 1 + 1 = 2
      BY <1>1
    <3>2. LastNews(j, s, u, 1)
      BY <1>1, <2>1, <2>3, <3>1 DEF LastNews
    <3>3. ShowsOnline(r, u) <=> u \in online
      BY <1>1, <1>7, <3>1, <3>2 DEF NewsCurrent
    <3>4. u \in view'[s] <=> ShowsOnline(r, u)
      <4>1. CASE AfterSadd(j, r)
        BY <2>2, <2>3, <4>1
           DEF AfterSadd, BroadcastUpdate, Noted, Informs, ShowsOnline, TypeInv
      <4>2. CASE AfterSrem(j, r)
        BY <2>2, <2>3, <4>2
           DEF AfterSrem, BroadcastUpdate, Noted, Informs, ShowsOnline, TypeInv
      <4>3. CASE AfterMembers(j, r)
        BY <2>2, <2>3, <4>3 DEF AfterMembers, Replaced, Informs, ShowsOnline, TypeInv
      <4>4. QED
        BY <1>4, <2>3, <4>1, <4>2, <4>3 DEF Informs, AfterIncr, AfterDecr
    <3>5. QED
      BY <3>3, <3>4
  <2>4. CASE ~Informs(r, s, u)
    <3>1. NoNews(j, s, u)
      <4>1. \A l \in 1 .. Len(reply[j]) : l = 1 \/ l \in 2 .. Len(reply[j])
        BY <1>1
      <4>2. QED
        BY <1>1, <2>1, <2>4, <4>1 DEF NoNews
    <3>2. conn[s] = "idle" /\ (u \in view'[s] <=> u \in view[s])
      <4>1. CASE AfterSadd(j, r)
        BY <1>2, <1>10, <2>2, <2>4, <4>1
           DEF AfterSadd, BroadcastUpdate, Noted, Informs, TypeInv
      <4>2. CASE AfterSrem(j, r)
        BY <1>10, <2>2, <2>4, <4>2 DEF AfterSrem, BroadcastUpdate, Noted, Informs, TypeInv
      <4>3. CASE AfterMembers(j, r)
        BY <1>2, <1>10, <2>4, <4>3 DEF AfterMembers, Informs, TypeInv
      <4>4. CASE AfterIncr(j, r)
        BY <1>2, <1>10, <4>4 DEF AfterIncr, TypeInv
      <4>5. CASE AfterDecr(j, r)
        BY <1>10, <4>5 DEF AfterDecr
      <4>6. QED
        BY <1>4, <4>1, <4>2, <4>3, <4>4, <4>5
    <3>3. QED
      BY <1>7, <2>2, <3>1, <3>2 DEF ShownCurrent
  <2>5. QED
    BY <2>3, <2>4
<1>11. QED
  BY <1>3, <1>6, <1>9, <1>10 DEF ShownCurrent

\* The bus carries nothing to the instance of the tabs.
LEMMA BusStep ==
    ASSUME TypeInv, HandlerInv, BusInv, [Next]_vars, \A i \in Instances : ~Crash(i)
    PROVE  BusInv'
<1> USE PresenceAssumption
<1>1. ASSUME NEW j \in Instances, NEW r, r.sock \in Sockets, InstanceOf[r.sock] = j,
             NEW on \in BOOLEAN, BroadcastUpdate(j, UserOf[r.sock], on)
      PROVE  BusInv'
  <2>1. SUFFICES ASSUME NEW i \in Instances, NEW k \in Instances, bus'[i][k] # <<>>
                 PROVE  i # k /\ \E s \in Sockets : InstanceOf[s] = i
    BY DEF BusInv
  <2>2. CASE i # j
    BY <1>1, <2>1, <2>2 DEF BroadcastUpdate, BusInv, TypeInv
  <2>3. CASE i = j
    BY <1>1, <2>1, <2>3 DEF BroadcastUpdate, BusInv, TypeInv
  <2>4. QED
    BY <2>2, <2>3
<1>2. CASE bus' = bus
  BY <1>2 DEF BusInv
<1>3. ASSUME NEW j \in Instances, Resume(j) PROVE BusInv'
  <2> DEFINE r == Head(reply[j])
  <2>1. r = reply[j][1] /\ r \in ReplyRecs /\ Len(reply[j]) \in Nat \ {0}
    BY <1>3, TailAt DEF TypeInv, Resume
  <2>2. r.sock \in Sockets /\ InstanceOf[r.sock] = j
    BY <2>1 DEF ReplyRecs, HandlerInv, ReplyInv
  <2>3. bus' = bus \/ BroadcastUpdate(j, UserOf[r.sock], TRUE)
          \/ BroadcastUpdate(j, UserOf[r.sock], FALSE)
    BY <1>3 DEF Resume, AfterIncr, AfterSadd, AfterMembers, AfterDecr, AfterSrem
  <2> HIDE DEF r
  <2>4. QED
    BY <1>1, <1>2, <2>2, <2>3
<1>4. ASSUME NEW i \in Instances, NEW j \in Instances, Deliver(i, j) PROVE BusInv'
  <2>1. bus[i][j] # <<>> /\ bus' = [bus EXCEPT ![i][j] = Tail(@)]
    BY <1>4 DEF Deliver
  <2>2. \A k, m \in Instances : bus'[k][m] # <<>> => bus[k][m] # <<>>
    BY <2>1 DEF TypeInv
  <2>3. QED
    BY <2>2 DEF BusInv
<1>5. QED
  BY <1>2, <1>3, <1>4
     DEF Next, vars, Connect, ChannelsListed, ListOnline, Disconnect, Execute

\* While no instance has crashed and all tabs share one, whatever a tab will still
\* be told ends with what Redis holds.
THEOREM ViewInvariance ==
    ASSUME OneHome PROVE Spec => [](crashes = 0 => ViewInv /\ BusInv)
<1> USE PresenceAssumption
<1>1. Init => ViewInv /\ BusInv
  BY DEF Init, ViewInv, BusInv, NewsCurrent, ShownCurrent, NoNews, LastNews
<1>2. TypeInv /\ HandlerInv /\ (crashes = 0 => ViewInv /\ BusInv) /\ [Next]_vars
         => (crashes = 0 => ViewInv /\ BusInv)'
  <2> SUFFICES ASSUME TypeInv, HandlerInv, crashes = 0 => ViewInv /\ BusInv, [Next]_vars,
                      crashes' = 0
               PROVE  ViewInv' /\ BusInv'
    OBVIOUS
  <2>1. crashes = 0 /\ ViewInv /\ BusInv /\ \A i \in Instances : ~Crash(i)
    <3>1. \A i \in Instances : ~Crash(i)
      BY DEF Crash, TypeInv
    <3>2. crashes' = crashes
      BY <3>1 DEF Next, vars, Connect, ChannelsListed, ListOnline, Disconnect, Execute, Resume,
                  Deliver
    <3>3. QED
      BY <3>1, <3>2
  <2>2. BusInv'
    BY <2>1, BusStep
  <2>3. ASSUME UNCHANGED vars PROVE ViewInv'
    BY <2>1, <2>3, ViewUndisturbed DEF vars, redis
  <2>4. ASSUME NEW s \in Sockets, Connect(s) PROVE ViewInv'
    BY <2>1, <2>4, ViewUndisturbed DEF Connect, TypeInv
  <2>5. ASSUME NEW s \in Sockets, ChannelsListed(s) PROVE ViewInv'
    BY <2>1, <2>5, ViewUndisturbed DEF ChannelsListed, redis, TypeInv
  <2>6. ASSUME NEW s \in Sockets, ListOnline(s) PROVE ViewInv'
    BY <2>1, <2>6, ViewUndisturbed DEF ListOnline, redis, TypeInv
  <2>7. ASSUME NEW s \in Sockets, Disconnect(s) PROVE ViewInv'
    <3>1. /\ phase' = [phase EXCEPT ![s] = "closed"]
          /\ view' = [view EXCEPT ![s] = {}]
          /\ conn' = conn /\ reply' = reply /\ online' = online
      BY <2>7 DEF Disconnect, redis
    <3>2. \A t \in Sockets : phase'[t] = "open" => phase[t] = "open" /\ view'[t] = view[t]
      BY <3>1 DEF TypeInv
    <3>3. QED
      BY <2>1, <3>1, <3>2, ViewUndisturbed
  <2>8. ASSUME NEW i \in Instances, NEW j \in Instances, Deliver(i, j) PROVE ViewInv'
    <3>1. i # j /\ \E s \in Sockets : InstanceOf[s] = i
      BY <2>1, <2>8 DEF Deliver, BusInv
    <3>2. OpenOn(j) = {}
      BY <3>1 DEF OpenOn, OneHome
    <3>3. view' = view
      BY <2>8, <3>2 DEF Deliver, TypeInv
    <3>4. QED
      BY <2>1, <2>8, <3>3, ViewUndisturbed DEF Deliver, redis
  <2>9. QED
    BY <2>1, <2>2, <2>3, <2>4, <2>5, <2>6, <2>7, <2>8, ViewAfterExecute, ViewAfterResume DEF Next
<1>3. QED
  BY <1>1, <1>2, TypeInvariance, HandlerInvariance, PTL DEF Spec

\* Whenever no handler runs and no update is in flight, every open tab shows exactly
\* the online set, for any users and tabs on one instance that has not crashed: no
\* snapshot of presence:sync and no presence:update overtakes a newer one.
THEOREM Views ==
    ASSUME OneHome PROVE Spec => [](crashes = 0 => ViewsConverge)
<1> USE PresenceAssumption
<1>1. ASSUME TypeInv, HandlerInv, ViewInv PROVE ViewsConverge
  <2> SUFFICES ASSUME Quiet, NEW s \in Sockets, phase[s] = "open" PROVE view[s] = online
    BY DEF ViewsConverge
  <2>1. InstanceOf[s] \in Instances /\ conn[s] = "idle"
    BY DEF Quiet
  <2>2. Len(reply[InstanceOf[s]]) = 0
    BY <1>1, <2>1, QuietInFlight
  <2>3. \A u \in Users : u \in view[s] <=> u \in online
    BY <1>1, <2>1, <2>2 DEF ViewInv, ShownCurrent, NoNews
  <2>4. view[s] \in SUBSET Users /\ online \in SUBSET Users
    BY <1>1 DEF TypeInv
  <2>5. QED
    BY <2>3, <2>4
<1>2. QED
  BY <1>1, TypeInvariance, HandlerInvariance, ViewInvariance, PTL

===============================================================================
