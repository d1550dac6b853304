---------------------------- MODULE MessagingProofs ----------------------------
(***************************************************************************)
(* Theorems about Messaging for any users, channels, messages and overlapping *)
(* handlers, and the proof that it implements MessageLog.  Shape ties the     *)
(* handlers and jobs to the rows; CalmInv adds what holds where nothing raced. *)
(***************************************************************************)
EXTENDS Messaging, TLAPS

\* What each handler carries at each step.
Carried ==
    \A r \in Requests :
        /\ pc[r] = "idle" => op[r] = None /\ reply[r] = None /\ ~late[r]
        /\ pc[r] # "idle" => who[r] \in Users /\ op[r] \in AllOps
        /\ op[r] = "send" =>
              /\ pc[r] \in {"member", "store", "enqueue", "cursor", "emit"}
              /\ chan[r] \in Channels /\ text[r] \in Texts
              /\ pc[r] \in {"member", "store"} => msg[r] = None /\ reply[r] = None
              /\ pc[r] \notin {"member", "store"} => msg[r] \in Msgs /\ reply[r] \in Dtos
        /\ op[r] \in {"edit", "delete"} =>
              /\ pc[r] \in {"load", "write", "emit"} /\ msg[r] \in Msgs
              /\ op[r] = "edit" => text[r] \in Texts
              /\ pc[r] = "emit" <=> reply[r] # None
        /\ op[r] = "read" =>
              /\ pc[r] \in {"member", "load", "cursor"}
              /\ chan[r] \in Channels /\ msg[r] \in Msgs /\ reply[r] = None

\* Handlers and jobs are about messages that exist, and act for their authors.
Grounded ==
    /\ \A r \in Requests : msg[r] \in Msgs =>
          /\ Exists(msg[r])
          /\ pc[r] \in {"enqueue", "cursor"} => channel[msg[r]] = chan[r]
          /\ op[r] \in {"edit", "delete"} /\ pc[r] \in {"write", "emit"} =>
                author[msg[r]] = who[r]
    /\ \A m \in Msgs :
          /\ job[m] # "none" => Exists(m)
          /\ job[m] = "emit" => snap[m] \in Dtos
          /\ ~Exists(m) => ~deleted[m] /\ shown[m] = None /\ preview[m] = "none"
                             /\ author[m] = None /\ writer[m] = None

Shape == TypeOK /\ Carried /\ Grounded

\* Rows, handlers and jobs fit together in every reachable state.
THEOREM ShapeInvariance == Spec => []Shape
<1>1. Init => Shape
  <2> SUFFICES ASSUME Init PROVE Shape
    OBVIOUS
  <2> USE MessagingAssumption DEF Init
  <2>1. TypeOK
    BY DEF TypeOK
  <2>2. Carried
    BY DEF Carried, AllOps
  <2>3. Grounded
    BY DEF Grounded, Exists
  <2>4. QED
    BY <2>1, <2>2, <2>3 DEF Shape
<1>2. Shape /\ [Next]_vars => Shape'
  <2> SUFFICES ASSUME Shape, [Next]_vars PROVE Shape'
    OBVIOUS
  <2> USE MessagingAssumption DEF Shape
  <2>1. CASE UNCHANGED vars
    BY <2>1 DEF vars, rows, cursors, request, worker, TypeOK, Carried, Grounded, Exists
  <2>2. ASSUME NEW r \in Requests, NEW u \in Users, NEW c \in Channels, NEW t \in Texts,
              StartSend(r, u, c, t)
       PROVE  Shape'
    <3>1. TypeOK'
      BY <2>2 DEF StartSend, Begin, rows, cursors, worker, Running, TypeOK
    <3>2. Carried'
      BY <2>2 DEF StartSend, Begin, rows, cursors, worker, Running, AllOps, TypeOK,
         Carried
    <3>3. Grounded'
      BY <2>2 DEF StartSend, Begin, rows, cursors, worker, Exists, Running, AllOps,
         TypeOK, Carried, Grounded
    <3>4. QED
      BY <3>1, <3>2, <3>3
  <2>3. ASSUME NEW r \in Requests, NEW u \in Users, NEW c \in Channels, NEW m \in Msgs,
              StartRead(r, u, c, m)
       PROVE  Shape'
    <3>1. TypeOK'
      BY <2>3 DEF StartRead, Begin, rows, cursors, worker, Exists, Running, TypeOK
    <3>2. Carried'
      BY <2>3 DEF StartRead, Begin, rows, cursors, worker, Exists, Running, AllOps,
         TypeOK, Carried
    <3>3. Grounded'
      BY <2>3 DEF StartRead, Begin, rows, cursors, worker, Exists, Running, AllOps,
         TypeOK, Carried, Grounded
    <3>4. QED
      BY <3>1, <3>2, <3>3
  <2>4. ASSUME NEW r \in Requests, NEW u \in Users, NEW m \in Msgs, StartDelete(r, u, m)
       PROVE  Shape'
    <3>1. TypeOK'
      BY <2>4 DEF StartDelete, Begin, rows, cursors, worker, Exists, Running, TypeOK
    <3>2. Carried'
      BY <2>4 DEF StartDelete, Begin, rows, cursors, worker, Exists, Running, AllOps,
         TypeOK, Carried
    <3>3. Grounded'
      BY <2>4 DEF StartDelete, Begin, rows, cursors, worker, Exists, Running, AllOps,
         TypeOK, Carried, Grounded
    <3>4. QED
      BY <3>1, <3>2, <3>3
  <2>5. ASSUME NEW r \in Requests, NEW u \in Users, NEW m \in Msgs, NEW t \in Texts,
              StartEdit(r, u, m, t)
       PROVE  Shape'
    <3>1. TypeOK'
      BY <2>5 DEF StartEdit, Begin, rows, cursors, worker, Exists, Running, TypeOK
    <3>2. Carried'
      BY <2>5 DEF StartEdit, Begin, rows, cursors, worker, Exists, Running, AllOps,
         TypeOK, Carried
    <3>3. Grounded'
      BY <2>5 DEF StartEdit, Begin, rows, cursors, worker, Exists, Running, AllOps,
         TypeOK, Carried, Grounded
    <3>4. QED
      BY <3>1, <3>2, <3>3
  <2>6. ASSUME NEW r \in Requests, CheckMember(r) PROVE Shape'
    <3>1. TypeOK'
      <4>1. CASE Finish(r)
        BY <2>6, <4>1 DEF CheckMember, Finish, rows, cursors, worker, TypeOK
      <4>2. CASE Goto(r, IF op[r] = "send" THEN "store" ELSE "load")
        BY <2>6, <4>2 DEF CheckMember, Goto, rows, cursors, worker, TypeOK
      <4>3. QED
        BY <2>6, <4>1, <4>2 DEF CheckMember
    <3>2. Carried'
      <4>1. CASE Finish(r)
        BY <2>6, <4>1 DEF Finish, TypeOK, Carried, AllOps
      <4>2. CASE chan[r] \in memberOf[who[r]]
        <5>1. pc' = [pc EXCEPT ![r] = IF op[r] = "send" THEN "store" ELSE "load"]
          BY <2>6, <4>2 DEF CheckMember, Goto
        <5>2. UNCHANGED <<op, who, chan, msg, text, reply, late>> /\ pc[r] = "member"
          BY <2>6, <4>2 DEF CheckMember, Goto
        <5>3. op[r] \in {"send", "read"}
          BY <5>2 DEF Carried, AllOps
        <5>4. QED
          BY <5>1, <5>2, <5>3 DEF TypeOK, Carried, AllOps
      <4>3. QED
        BY <2>6, <4>1, <4>2 DEF CheckMember
    <3>3. Grounded'
      BY <2>6 DEF CheckMember, Goto, Finish, rows, cursors, worker, Exists, AllOps,
         TypeOK, Carried, Grounded
    <3>4. QED
      BY <3>1, <3>2, <3>3
  <2>7. ASSUME NEW r \in Requests, NEW m \in Msgs, StoreMessage(r, m) PROVE Shape'
    <3>1. TypeOK'
      BY <2>7 DEF StoreMessage, Dto, Dtos, cursors, worker, Exists, AllOps, TypeOK,
         Carried
    <3>2. Carried'
      BY <2>7 DEF StoreMessage, Dto, Dtos, cursors, worker, Exists, AllOps, TypeOK, Carried
    <3>3. Grounded'
      BY <2>7 DEF StoreMessage, Dto, Dtos, cursors, worker, Exists, AllOps, TypeOK, Carried,
         Grounded
    <3>4. QED
      BY <3>1, <3>2, <3>3
  <2>8. ASSUME NEW r \in Requests, EnqueuePreview(r) PROVE Shape'
    <3>1. TypeOK'
      BY <2>8 DEF EnqueuePreview, Goto, rows, cursors, TypeOK
    <3>2. Carried'
      BY <2>8 DEF EnqueuePreview, Goto, rows, cursors, AllOps, TypeOK, Carried
    <3>3. Grounded'
      <4>1. msg[r] \in Msgs
        BY <2>8 DEF EnqueuePreview, TypeOK, Carried, AllOps
      <4>2. QED
        <5>1. /\ Exists(msg[r]) /\ op[r] = "send"
              /\ job' = [job EXCEPT ![msg[r]] = "queued"] /\ pc' = [pc EXCEPT ![r] = "cursor"]
              /\ UNCHANGED <<createdAt, author, channel, deleted, writer, preview, op, who, chan,
                             msg, snap, shown>>
          BY <2>8, <4>1 DEF EnqueuePreview, Goto, rows, TypeOK, Grounded, Carried, AllOps
        <5>2. channel[msg[r]] = chan[r]
          BY <2>8, <4>1, <5>1 DEF EnqueuePreview, Grounded
        <5>3. QED
          BY <4>1, <5>1, <5>2 DEF Exists, TypeOK, Grounded
    <3>4. QED
      BY <3>1, <3>2, <3>3
  <2>9. ASSUME NEW r \in Requests, MarkRead(r) PROVE Shape'
    <3>1. TypeOK'
      <4>1. who[r] \in Users /\ chan[r] \in Channels /\ msg[r] \in Msgs
        BY <2>9 DEF MarkRead, TypeOK, Carried, AllOps
      <4>2. createdAt[msg[r]] \in Nat
        BY <4>1 DEF TypeOK
      <4>3. dropped' \subseteq Msgs
        BY <2>9, <4>1 DEF MarkRead, TypeOK
      <4>4. /\ lastRead' \in [Users -> [Channels -> Msgs \cup {None}]]
            /\ lastReadAt' \in [Users -> [Channels -> Nat]]
        <5>1. CASE chan[r] \in memberOf[who[r]]
          <6>1. /\ lastRead' = [lastRead EXCEPT ![who[r]][chan[r]] = msg[r]]
                /\ lastReadAt' = [lastReadAt EXCEPT ![who[r]][chan[r]] = createdAt[msg[r]]]
            BY <2>9, <5>1 DEF MarkRead
          <6>2. QED
            BY <4>1, <4>2, <6>1 DEF TypeOK
        <5>2. CASE chan[r] \notin memberOf[who[r]]
          BY <2>9, <5>2 DEF MarkRead, TypeOK
        <5>3. QED
          BY <5>1, <5>2
      <4>5. Finish(r) \/ Goto(r, "emit")
        BY <2>9 DEF MarkRead
      <4>6. UNCHANGED <<rows, preview, memberOf, clock, worker, shown, raced, prunes>>
        BY <2>9 DEF MarkRead
      <4>7. CASE Finish(r)
        BY <4>3, <4>4, <4>6, <4>7 DEF Finish, rows, worker, TypeOK
      <4>8. CASE Goto(r, "emit")
        BY <4>3, <4>4, <4>6, <4>8 DEF Goto, rows, worker, TypeOK
      <4>9. QED
        BY <4>5, <4>7, <4>8
    <3>2. Carried'
      BY <2>9 DEF MarkRead, Goto, Finish, rows, worker, AllOps, TypeOK, Carried
    <3>3. Grounded'
      BY <2>9 DEF MarkRead, Goto, Finish, rows, worker, Exists, AllOps, TypeOK, Carried,
         Grounded
    <3>4. QED
      BY <3>1, <3>2, <3>3
  <2>10. ASSUME NEW r \in Requests, LoadMessage(r) PROVE Shape'
    <3>1. TypeOK'
      <4>1. CASE Finish(r)
        BY <2>10, <4>1 DEF LoadMessage, Finish, rows, cursors, worker, TypeOK
      <4>2. CASE Goto(r, IF op[r] = "read" THEN "cursor" ELSE "write")
        BY <2>10, <4>2 DEF LoadMessage, Goto, rows, cursors, worker, TypeOK
      <4>3. QED
        BY <2>10, <4>1, <4>2 DEF LoadMessage
    <3>2. Carried'
      BY SMTT(30), <2>10 DEF LoadMessage, Goto, Finish, Allowed, MayEdit, MayDelete, MayMarkRead,
         rows, cursors, worker, Exists, AllOps, TypeOK, Carried
    <3>3. Grounded'
      BY <2>10 DEF LoadMessage, Goto, Finish, Allowed, MayEdit, MayDelete, MayMarkRead,
         rows, cursors, worker, Exists, AllOps, TypeOK, Carried, Grounded
    <3>4. QED
      BY <3>1, <3>2, <3>3
  <2>11. ASSUME NEW r \in Requests, WriteEdit(r) PROVE Shape'
    <3>1. TypeOK'
      BY <2>11 DEF WriteEdit, Dto, Dtos, cursors, worker, AllOps, TypeOK, Carried
    <3>2. Carried'
      BY <2>11 DEF WriteEdit, Dto, Dtos, cursors, worker, AllOps, TypeOK, Carried
    <3>3. Grounded'
      BY <2>11 DEF WriteEdit, Dto, cursors, worker, Exists, AllOps, TypeOK, Carried,
         Grounded
    <3>4. QED
      BY <3>1, <3>2, <3>3
  <2>12. ASSUME NEW r \in Requests, WriteDelete(r) PROVE Shape'
    <3>1. TypeOK'
      BY <2>12 DEF WriteDelete, Dto, Dtos, Emptied, cursors, worker, AllOps, TypeOK,
         Carried
    <3>2. Carried'
      <4>1. msg[r] \in Msgs /\ who[r] \in Users
        BY <2>12 DEF WriteDelete, TypeOK, Carried
      <4>2. reply'[r] \in Dtos
        BY <2>12, <4>1 DEF WriteDelete, TypeOK, Dto, Dtos, Emptied
      <4>3. reply' = [reply EXCEPT ![r] = reply'[r]]
        BY <2>12 DEF WriteDelete, TypeOK
      <4>4. QED
        <5>1. /\ op[r] = "delete" /\ pc[r] = "write" /\ pc' = [pc EXCEPT ![r] = "emit"]
              /\ UNCHANGED <<op, who, chan, msg, text, late>>
          BY <2>12 DEF WriteDelete
        <5>2. QED
          BY <4>1, <4>2, <4>3, <5>1 DEF TypeOK, Carried, AllOps
    <3>3. Grounded'
      BY <2>12 DEF WriteDelete, Dto, Emptied, cursors, worker, Exists, AllOps, TypeOK,
         Carried, Grounded
    <3>4. QED
      BY <3>1, <3>2, <3>3
  <2>13. ASSUME NEW r \in Requests, Emit(r) PROVE Shape'
    <3>1. TypeOK'
      BY <2>13 DEF Emit, Finish, Dtos, Updated, rows, cursors, worker, AllOps, TypeOK,
         Carried
    <3>2. Carried'
      BY <2>13 DEF Emit, Finish, Updated, rows, cursors, worker, AllOps, TypeOK, Carried
    <3>3. Grounded'
      BY <2>13 DEF Emit, Finish, Updated, rows, cursors, worker, Exists, AllOps, TypeOK,
         Carried, Grounded
    <3>4. QED
      BY <3>1, <3>2, <3>3
  <2>14. ASSUME NEW r \in Requests, RefuseSend(r) PROVE Shape'
    <3>1. TypeOK'
      BY <2>14 DEF RefuseSend, Finish, rows, cursors, worker, TypeOK
    <3>2. Carried'
      BY <2>14 DEF RefuseSend, Finish, rows, cursors, worker, AllOps, TypeOK, Carried
    <3>3. Grounded'
      BY <2>14 DEF RefuseSend, Finish, rows, cursors, worker, Exists, AllOps, TypeOK,
         Carried, Grounded
    <3>4. QED
      BY <3>1, <3>2, <3>3
  <2>15. ASSUME NEW r \in Requests, Fail(r) PROVE Shape'
    <3>1. TypeOK'
      BY <2>15 DEF Fail, Finish, Dtos, rows, cursors, worker, Running, AllOps, TypeOK,
         Carried
    <3>2. Carried'
      BY <2>15 DEF Fail, Finish, rows, cursors, worker, Running, AllOps, TypeOK, Carried
    <3>3. Grounded'
      BY <2>15 DEF Fail, Finish, rows, cursors, worker, Exists, Running, AllOps, TypeOK,
         Carried, Grounded
    <3>4. QED
      BY <3>1, <3>2, <3>3
  <2>16. ASSUME NEW m \in Msgs, NEW s \in {"READY", "FAILED"}, SavePreview(m, s) PROVE Shape'
    <3>1. TypeOK'
      BY <2>16 DEF SavePreview, Dtos, rows, cursors, request, AllOps, TypeOK, Carried
    <3>2. Carried'
      BY <2>16 DEF SavePreview, rows, cursors, request, AllOps, TypeOK, Carried
    <3>3. Grounded'
      BY <2>16 DEF SavePreview, rows, cursors, request, Exists, AllOps, TypeOK, Carried,
         Grounded
    <3>4. QED
      BY <3>1, <3>2, <3>3
  <2>17. ASSUME NEW m \in Msgs, LoadForPreview(m) PROVE Shape'
    <3>1. TypeOK'
      BY <2>17 DEF LoadForPreview, Dto, DtoOf, Dtos, rows, cursors, request, AllOps,
         TypeOK, Carried
    <3>2. Carried'
      BY <2>17 DEF LoadForPreview, Dto, DtoOf, rows, cursors, request, AllOps, TypeOK,
         Carried
    <3>3. Grounded'
      BY <2>17 DEF LoadForPreview, Dto, Dtos, DtoOf, rows, cursors, request, Exists, AllOps,
         TypeOK, Carried, Grounded
    <3>4. QED
      BY <3>1, <3>2, <3>3
  <2>18. ASSUME NEW m \in Msgs, EmitPreview(m) PROVE Shape'
    <3>1. TypeOK'
      BY <2>18 DEF EmitPreview, Updated, rows, cursors, request, TypeOK
    <3>2. Carried'
      BY <2>18 DEF EmitPreview, Updated, rows, cursors, request, AllOps, TypeOK, Carried
    <3>3. Grounded'
      BY <2>18 DEF EmitPreview, Updated, rows, cursors, request, Exists, AllOps, TypeOK,
         Carried, Grounded
    <3>4. QED
      BY <3>1, <3>2, <3>3
  <2>19. ASSUME NEW m \in Msgs, JobFails(m) PROVE Shape'
    <3>1. TypeOK'
      <4>1. /\ job' \in [Msgs -> {"none", "queued", "load", "emit"}]
            /\ retries' \in [Msgs -> Nat]
        <5>1. CASE retries[m] < MaxRetries
          <6>1. retries' = [retries EXCEPT ![m] = @ + 1] /\ job' = [job EXCEPT ![m] = "queued"]
            <7>1. retries[m] \in Nat /\ MaxRetries \in Nat
              BY DEF TypeOK
            <7>2. ~(retries[m] >= MaxRetries)
              BY <5>1, <7>1
            <7>3. QED
              BY <2>19, <7>2 DEF JobFails
          <6>2. QED
            BY <6>1 DEF TypeOK
        <5>2. CASE retries[m] >= MaxRetries
          BY <2>19, <5>2 DEF JobFails, TypeOK
        <5>3. QED
          BY <2>19, <5>1, <5>2 DEF JobFails
      <4>2. dropped' \subseteq Msgs
        BY <2>19 DEF JobFails, TypeOK
      <4>3. QED
        BY <2>19, <4>1, <4>2 DEF JobFails, rows, cursors, request, TypeOK
    <3>2. Carried'
      BY <2>19 DEF JobFails, rows, cursors, request, AllOps, TypeOK, Carried
    <3>3. Grounded'
      BY <2>19 DEF JobFails, rows, cursors, request, Exists, AllOps, TypeOK, Carried,
         Grounded
    <3>4. QED
      BY <3>1, <3>2, <3>3
  <2>20. ASSUME Tick PROVE Shape'
    <3>1. TypeOK'
      BY <2>20 DEF Tick, rows, cursors, request, worker, TypeOK
    <3>2. Carried'
      BY <2>20 DEF Tick, rows, cursors, request, worker, AllOps, TypeOK, Carried
    <3>3. Grounded'
      BY <2>20 DEF Tick, rows, cursors, request, worker, Exists, AllOps, TypeOK,
         Carried, Grounded
    <3>4. QED
      BY <3>1, <3>2, <3>3
  <2>21. ASSUME NEW u \in Users, NEW c \in Channels, Prune(u, c) PROVE Shape'
    <3>1. TypeOK'
      BY <2>21 DEF Prune, rows, request, worker, TypeOK
    <3>2. Carried'
      BY <2>21 DEF Prune, rows, request, worker, AllOps, TypeOK, Carried
    <3>3. Grounded'
      BY <2>21 DEF Prune, rows, request, worker, Exists, AllOps, TypeOK, Carried,
         Grounded
    <3>4. QED
      BY <3>1, <3>2, <3>3
  <2>22. QED
    BY <2>1, <2>2, <2>3, <2>4, <2>5, <2>6, <2>7, <2>8, <2>9, <2>10, <2>11, <2>12, <2>13,
       <2>14, <2>15, <2>16, <2>17, <2>18, <2>19, <2>20, <2>21 DEF Next, HandlerStep, JobStep
<1>3. QED
  BY <1>1, <1>2, PTL DEF Spec

-------------------------------------------------------------------------------
(* Read cursors and late edits *)

\* An edit that started after the delete finds the message deleted.
LateInv ==
    \A r \in Requests : op[r] = "edit" /\ late[r] =>
        deleted[msg[r]] /\ pc[r] \notin {"write", "emit"}

\* markRead only stores a message that was checked against the channel, and rows keep
\* their channel and time.
THEOREM CursorInvariance == Spec => []CursorPointsHome
<1>1. Init => CursorPointsHome
  BY MessagingAssumption DEF Init, CursorPointsHome
<1>2. Shape /\ Shape' /\ CursorPointsHome /\ [Next]_vars => CursorPointsHome'
  <2> SUFFICES ASSUME Shape, Shape', CursorPointsHome, [Next]_vars PROVE CursorPointsHome'
    OBVIOUS
  <2> USE MessagingAssumption DEF Shape
  <2>1. CASE UNCHANGED vars
    BY <2>1 DEF vars, rows, cursors, request, worker, Exists, DtoOf, Dto, TypeOK,
       CursorPointsHome
  <2>2. ASSUME NEW r \in Requests, NEW u \in Users, NEW c \in Channels, NEW t \in Texts,
              StartSend(r, u, c, t)
       PROVE  CursorPointsHome'
    BY <2>2 DEF StartSend, Begin, rows, cursors, worker, Running, TypeOK, Grounded, Exists,
       CursorPointsHome
  <2>3. ASSUME NEW r \in Requests, NEW u \in Users, NEW c \in Channels, NEW m \in Msgs,
              StartRead(r, u, c, m)
       PROVE  CursorPointsHome'
    BY <2>3 DEF StartRead, Begin, rows, cursors, worker, Exists, Running, TypeOK, Grounded,
       CursorPointsHome
  <2>4. ASSUME NEW r \in Requests, NEW u \in Users, NEW m \in Msgs, StartDelete(r, u, m)
       PROVE  CursorPointsHome'
    BY <2>4 DEF StartDelete, Begin, rows, cursors, worker, Exists, Running, Handled,
       Contended, TypeOK, Grounded, CursorPointsHome
  <2>5. ASSUME NEW r \in Requests, NEW u \in Users, NEW m \in Msgs, NEW t \in Texts,
              StartEdit(r, u, m, t)
       PROVE  CursorPointsHome'
    BY <2>5 DEF StartEdit, Begin, rows, cursors, worker, Exists, Running, Handled,
       Contended, TypeOK, Grounded, CursorPointsHome
  <2>6. ASSUME NEW r \in Requests, CheckMember(r) PROVE CursorPointsHome'
    BY <2>6 DEF CheckMember, Goto, Finish, rows, cursors, worker, TypeOK, Grounded, Exists,
       CursorPointsHome
  <2>7. ASSUME NEW r \in Requests, NEW m \in Msgs, StoreMessage(r, m)
       PROVE  CursorPointsHome'
    BY <2>7 DEF StoreMessage, Dto, cursors, worker, Exists, TypeOK, Grounded,
       CursorPointsHome
  <2>8. ASSUME NEW r \in Requests, EnqueuePreview(r) PROVE CursorPointsHome'
    BY <2>8 DEF EnqueuePreview, Goto, rows, cursors, TypeOK, Grounded, Exists,
       CursorPointsHome
  <2>9. ASSUME NEW r \in Requests, MarkRead(r) PROVE CursorPointsHome'
    <3>1. who[r] \in Users /\ chan[r] \in Channels /\ msg[r] \in Msgs
      BY <2>9 DEF MarkRead, TypeOK, Carried, AllOps
    <3>2. createdAt[msg[r]] # 0 /\ channel[msg[r]] = chan[r]
      BY <2>9, <3>1 DEF MarkRead, Grounded, Exists
    <3>3. createdAt' = createdAt /\ channel' = channel
      BY <2>9 DEF MarkRead, rows
    <3>4. CASE chan[r] \in memberOf[who[r]]
      <4>1. /\ lastRead' = [lastRead EXCEPT ![who[r]][chan[r]] = msg[r]]
            /\ lastReadAt' = [lastReadAt EXCEPT ![who[r]][chan[r]] = createdAt[msg[r]]]
        BY <2>9, <3>4 DEF MarkRead
      <4>2. QED
        BY <3>1, <3>2, <3>3, <4>1 DEF TypeOK, CursorPointsHome
    <3>5. CASE chan[r] \notin memberOf[who[r]]
      BY <2>9, <3>3, <3>5 DEF MarkRead, CursorPointsHome
    <3>6. QED
      BY <3>4, <3>5
  <2>10. ASSUME NEW r \in Requests, LoadMessage(r) PROVE CursorPointsHome'
    BY <2>10 DEF LoadMessage, Goto, Finish, Allowed, MayEdit, MayDelete, MayMarkRead, rows,
       cursors, worker, Exists, TypeOK, Grounded, CursorPointsHome
  <2>11. ASSUME NEW r \in Requests, WriteEdit(r) PROVE CursorPointsHome'
    BY <2>11 DEF WriteEdit, Dto, cursors, worker, TypeOK, Grounded, Exists, CursorPointsHome
  <2>12. ASSUME NEW r \in Requests, WriteDelete(r) PROVE CursorPointsHome'
    BY <2>12 DEF WriteDelete, Dto, Emptied, cursors, worker, TypeOK, Grounded, Exists,
       CursorPointsHome
  <2>13. ASSUME NEW r \in Requests, Emit(r) PROVE CursorPointsHome'
    BY <2>13 DEF Emit, Finish, Updated, rows, cursors, worker, TypeOK, Grounded, Exists,
       CursorPointsHome
  <2>14. ASSUME NEW r \in Requests, RefuseSend(r) PROVE CursorPointsHome'
    BY <2>14 DEF RefuseSend, Finish, rows, cursors, worker, TypeOK, Grounded, Exists,
       CursorPointsHome
  <2>15. ASSUME NEW r \in Requests, Fail(r) PROVE CursorPointsHome'
    BY <2>15 DEF Fail, Finish, rows, cursors, worker, Running, TypeOK, Grounded, Exists,
       CursorPointsHome
  <2>16. ASSUME NEW m \in Msgs, NEW s \in {"READY", "FAILED"}, SavePreview(m, s)
       PROVE  CursorPointsHome'
    BY <2>16 DEF SavePreview, rows, cursors, request, Handled, TypeOK, Grounded, Exists,
       CursorPointsHome
  <2>17. ASSUME NEW m \in Msgs, LoadForPreview(m) PROVE CursorPointsHome'
    BY <2>17 DEF LoadForPreview, Dto, DtoOf, rows, cursors, request, TypeOK, Grounded,
       Exists, CursorPointsHome
  <2>18. ASSUME NEW m \in Msgs, EmitPreview(m) PROVE CursorPointsHome'
    BY <2>18 DEF EmitPreview, Updated, rows, cursors, request, TypeOK, Grounded, Exists,
       CursorPointsHome
  <2>19. ASSUME NEW m \in Msgs, JobFails(m) PROVE CursorPointsHome'
    BY <2>19 DEF JobFails, rows, cursors, request, TypeOK, Grounded, Exists,
       CursorPointsHome
  <2>20. ASSUME Tick PROVE CursorPointsHome'
    BY <2>20 DEF Tick, rows, cursors, request, worker, TypeOK, Grounded, Exists,
       CursorPointsHome
  <2>21. ASSUME NEW u \in Users, NEW c \in Channels, Prune(u, c) PROVE CursorPointsHome'
    BY <2>21 DEF Prune, rows, request, worker, TypeOK, Grounded, Exists, CursorPointsHome
  <2>22. QED
    BY <2>1, <2>2, <2>3, <2>4, <2>5, <2>6, <2>7, <2>8, <2>9, <2>10, <2>11, <2>12, <2>13,
       <2>14, <2>15, <2>16, <2>17, <2>18, <2>19, <2>20, <2>21 DEF Next, HandlerStep,
       JobStep
<1>3. QED
  BY <1>1, <1>2, ShapeInvariance, PTL DEF Spec

\* An edit that starts late fails the check on the row it loads: no row is ever undeleted.
THEOREM LateInvariance == Spec => []LateInv
<1>1. Init => LateInv
  BY MessagingAssumption DEF Init, LateInv
<1>2. Shape /\ Shape' /\ LateInv /\ [Next]_vars => LateInv'
  <2> SUFFICES ASSUME Shape, Shape', LateInv, [Next]_vars PROVE LateInv'
    OBVIOUS
  <2> USE MessagingAssumption DEF Shape
  <2>1. CASE UNCHANGED vars
    BY <2>1 DEF vars, rows, cursors, request, worker, Exists, DtoOf, Dto, TypeOK, LateInv
  <2>2. ASSUME NEW r \in Requests, NEW u \in Users, NEW c \in Channels, NEW t \in Texts,
              StartSend(r, u, c, t)
       PROVE  LateInv'
    BY <2>2 DEF StartSend, Begin, rows, cursors, worker, Running, TypeOK, Carried, AllOps,
       LateInv
  <2>3. ASSUME NEW r \in Requests, NEW u \in Users, NEW c \in Channels, NEW m \in Msgs,
              StartRead(r, u, c, m)
       PROVE  LateInv'
    BY <2>3 DEF StartRead, Begin, rows, cursors, worker, Exists, Running, TypeOK, Carried,
       AllOps, LateInv
  <2>4. ASSUME NEW r \in Requests, NEW u \in Users, NEW m \in Msgs, StartDelete(r, u, m)
       PROVE  LateInv'
    BY <2>4 DEF StartDelete, Begin, rows, cursors, worker, Exists, Running, Handled,
       Contended, TypeOK, Carried, AllOps, LateInv
  <2>5. ASSUME NEW r \in Requests, NEW u \in Users, NEW m \in Msgs, NEW t \in Texts,
              StartEdit(r, u, m, t)
       PROVE  LateInv'
    BY <2>5 DEF StartEdit, Begin, rows, cursors, worker, Exists, Running, Handled,
       Contended, TypeOK, Carried, AllOps, LateInv
  <2>6. ASSUME NEW r \in Requests, CheckMember(r) PROVE LateInv'
    BY <2>6 DEF CheckMember, Goto, Finish, rows, cursors, worker, TypeOK, Carried, AllOps,
       LateInv
  <2>7. ASSUME NEW r \in Requests, NEW m \in Msgs, StoreMessage(r, m) PROVE LateInv'
    BY <2>7 DEF StoreMessage, Dto, cursors, worker, Exists, TypeOK, Carried, AllOps, LateInv
  <2>8. ASSUME NEW r \in Requests, EnqueuePreview(r) PROVE LateInv'
    BY <2>8 DEF EnqueuePreview, Goto, rows, cursors, TypeOK, Carried, AllOps, LateInv
  <2>9. ASSUME NEW r \in Requests, MarkRead(r) PROVE LateInv'
    BY <2>9 DEF MarkRead, Goto, Finish, rows, worker, TypeOK, Carried, AllOps, LateInv
  <2>10. ASSUME NEW r \in Requests, LoadMessage(r) PROVE LateInv'
    BY <2>10 DEF LoadMessage, Goto, Finish, Allowed, MayEdit, MayDelete, MayMarkRead, rows,
       cursors, worker, Exists, TypeOK, Carried, AllOps, LateInv
  <2>11. ASSUME NEW r \in Requests, WriteEdit(r) PROVE LateInv'
    BY <2>11 DEF WriteEdit, Dto, cursors, worker, TypeOK, Carried, AllOps, LateInv
  <2>12. ASSUME NEW r \in Requests, WriteDelete(r) PROVE LateInv'
    BY <2>12 DEF WriteDelete, Dto, Emptied, cursors, worker, TypeOK, Carried, AllOps,
       LateInv
  <2>13. ASSUME NEW r \in Requests, Emit(r) PROVE LateInv'
    BY <2>13 DEF Emit, Finish, Updated, rows, cursors, worker, TypeOK, Carried, AllOps,
       LateInv
  <2>14. ASSUME NEW r \in Requests, RefuseSend(r) PROVE LateInv'
    BY <2>14 DEF RefuseSend, Finish, rows, cursors, worker, TypeOK, Carried, AllOps, LateInv
  <2>15. ASSUME NEW r \in Requests, Fail(r) PROVE LateInv'
    BY <2>15 DEF Fail, Finish, rows, cursors, worker, Running, TypeOK, Carried, AllOps,
       LateInv
  <2>16. ASSUME NEW m \in Msgs, NEW s \in {"READY", "FAILED"}, SavePreview(m, s)
       PROVE  LateInv'
    BY <2>16 DEF SavePreview, rows, cursors, request, Handled, TypeOK, Carried, AllOps,
       LateInv
  <2>17. ASSUME NEW m \in Msgs, LoadForPreview(m) PROVE LateInv'
    BY <2>17 DEF LoadForPreview, Dto, DtoOf, rows, cursors, request, TypeOK, Carried,
       AllOps, LateInv
  <2>18. ASSUME NEW m \in Msgs, EmitPreview(m) PROVE LateInv'
    BY <2>18 DEF EmitPreview, Updated, rows, cursors, request, TypeOK, Carried, AllOps,
       LateInv
  <2>19. ASSUME NEW m \in Msgs, JobFails(m) PROVE LateInv'
    BY <2>19 DEF JobFails, rows, cursors, request, TypeOK, Carried, AllOps, LateInv
  <2>20. ASSUME Tick PROVE LateInv'
    BY <2>20 DEF Tick, rows, cursors, request, worker, TypeOK, Carried, AllOps, LateInv
  <2>21. ASSUME NEW u \in Users, NEW c \in Channels, Prune(u, c) PROVE LateInv'
    BY <2>21 DEF Prune, rows, request, worker, TypeOK, Carried, AllOps, LateInv
  <2>22. QED
    BY <2>1, <2>2, <2>3, <2>4, <2>5, <2>6, <2>7, <2>8, <2>9, <2>10, <2>11, <2>12, <2>13,
       <2>14, <2>15, <2>16, <2>17, <2>18, <2>19, <2>20, <2>21 DEF Next, HandlerStep,
       JobStep
<1>3. QED
  BY <1>1, <1>2, ShapeInvariance, PTL DEF Spec

-------------------------------------------------------------------------------
(* Messages on which nothing raced *)

Handles(r, m) == op[r] \in {"send", "edit", "delete"} /\ msg[r] = m

\* Such a message has one handler at a time, and none while its preview is announced.
Alone ==
    \A m \in Msgs \ raced :
        /\ \A r, s \in Requests : Handles(r, m) /\ Handles(s, m) => r = s
        /\ job[m] \in {"load", "emit"} => \A r \in Requests : ~Handles(r, m)

\* What its handler or the worker is about to write or to announce is up to date.
Fresh ==
    /\ \A r \in Requests : msg[r] \in Msgs \ raced =>
          /\ op[r] = "edit" /\ pc[r] = "write" => ~deleted[msg[r]]
          /\ op[r] \in {"send", "edit", "delete"} /\ pc[r] \in {"enqueue", "cursor", "emit"} =>
                reply[r] = DtoOf(msg[r])
    /\ \A m \in Msgs \ raced : job[m] = "emit" => snap[m] = DtoOf(m)

\* A tab that shows it shows it as it is, unless an announcement is still to come.
Shows ==
    /\ \A m \in Msgs : job[m] \in {"load", "emit"} => preview[m] # "none"
    /\ \A m \in Msgs \ (raced \cup dropped) :
          /\ shown[m] # None
          /\ job[m] = "none" \/ (job[m] = "queued" /\ preview[m] = "none")
          /\ \A r \in Requests : Handles(r, m) => pc[r] # "emit"
          => shown[m] = DtoOf(m)

CalmInv == Alone /\ Fresh /\ Shows /\ DeletedIsEmptyUnlessRaced

\* A message is stored under an id nothing knows of yet.
LEMMA NewMessage ==
    ASSUME Shape, NEW r \in Requests, NEW m \in Msgs, StoreMessage(r, m)
    PROVE  /\ pc[r] = "store" /\ op[r] = "send" /\ msg[r] = None /\ deleted[m] = FALSE
           /\ preview[m] = "none" /\ shown[m] = None /\ job[m] = "none"
           /\ \A s \in Requests : msg[s] # m
<1> USE DEF Shape
<1>1. pc[r] = "store" /\ ~Exists(m)
  BY DEF StoreMessage
<1>2. op[r] = "send"
  BY <1>1 DEF Carried, AllOps
<1>3. msg[r] = None
  BY <1>1, <1>2 DEF Carried
<1>4. deleted[m] = FALSE
  BY <1>1 DEF Grounded, TypeOK
<1>5. preview[m] = "none" /\ shown[m] = None /\ job[m] = "none"
  BY <1>1 DEF Grounded
<1>6. \A s \in Requests : msg[s] # m
  BY <1>1 DEF Grounded
<1>7. QED
  BY <1>1, <1>2, <1>3, <1>4, <1>5, <1>6

\* Where nothing raced, handlers, worker and tab stay in step with the row.
THEOREM CalmInvariance == Spec => []CalmInv
<1>1. Init => CalmInv
  BY MessagingAssumption DEF Init, CalmInv, Alone, Fresh, Shows, DeletedIsEmptyUnlessRaced, Handles
<1>2. Shape /\ Shape' /\ CalmInv /\ [Next]_vars => CalmInv'
  <2> SUFFICES ASSUME Shape, Shape', CalmInv, [Next]_vars PROVE CalmInv'
    OBVIOUS
  <2> USE MessagingAssumption DEF Shape, CalmInv
  <2>1. CASE UNCHANGED vars
    BY <2>1 DEF vars, rows, cursors, request, worker, Exists, DtoOf, Dto, TypeOK, Alone,
       Fresh, Shows, DeletedIsEmptyUnlessRaced, Handles
  <2>2. ASSUME NEW r \in Requests, NEW u \in Users, NEW c \in Channels, NEW t \in Texts,
              StartSend(r, u, c, t)
       PROVE  CalmInv'
    <3>1. Alone'
      BY <2>2 DEF StartSend, Begin, rows, cursors, worker, Running, TypeOK, Carried,
         Grounded, Exists, AllOps, Dto, DtoOf, Alone, Fresh, Shows,
         DeletedIsEmptyUnlessRaced, Handles
    <3>2. Fresh'
      BY <2>2 DEF StartSend, Begin, rows, cursors, worker, Running, TypeOK, Carried,
         Grounded, Exists, AllOps, Dto, DtoOf, Alone, Fresh, Shows,
         DeletedIsEmptyUnlessRaced, Handles
    <3>3. Shows'
      <4>1. UNCHANGED <<content, deleted, preview, job, shown, raced, dropped>>
        BY <2>2 DEF StartSend, rows, worker
      <4>2. \A s \in Requests, m \in Msgs : Handles(s, m) => Handles(s, m)' /\ pc'[s] = pc[s]
        BY <2>2 DEF StartSend, Begin, Running, TypeOK, Carried, AllOps, Handles
      <4>3. QED
        BY <4>1, <4>2 DEF Shows, DtoOf, Dto
    <3>4. DeletedIsEmptyUnlessRaced'
      BY <2>2 DEF StartSend, Begin, rows, cursors, worker, Running, TypeOK, Carried,
         Grounded, Exists, AllOps, Dto, DtoOf, Alone, Fresh, Shows,
         DeletedIsEmptyUnlessRaced, Handles
    <3>5. QED
      BY <3>1, <3>2, <3>3, <3>4
  <2>3. ASSUME NEW r \in Requests, NEW u \in Users, NEW c \in Channels, NEW m \in Msgs,
              StartRead(r, u, c, m)
       PROVE  CalmInv'
    <3>1. Alone'
      BY <2>3 DEF StartRead, Begin, rows, cursors, worker, Exists, Running, TypeOK, Carried,
         Grounded, AllOps, Dto, DtoOf, Alone, Fresh, Shows, DeletedIsEmptyUnlessRaced,
         Handles
    <3>2. Fresh'
      BY <2>3 DEF StartRead, Begin, rows, cursors, worker, Exists, Running, TypeOK, Carried,
         Grounded, AllOps, Dto, DtoOf, Alone, Fresh, Shows, DeletedIsEmptyUnlessRaced,
         Handles
    <3>3. Shows'
      BY <2>3 DEF StartRead, Begin, rows, cursors, worker, Exists, Running, TypeOK, Carried,
         Grounded, AllOps, Dto, DtoOf, Alone, Fresh, Shows, DeletedIsEmptyUnlessRaced,
         Handles
    <3>4. DeletedIsEmptyUnlessRaced'
      BY <2>3 DEF StartRead, Begin, rows, cursors, worker, Exists, Running, TypeOK, Carried,
         Grounded, AllOps, Dto, DtoOf, Alone, Fresh, Shows, DeletedIsEmptyUnlessRaced,
         Handles
    <3>5. QED
      BY <3>1, <3>2, <3>3, <3>4
  <2>4. ASSUME NEW r \in Requests, NEW u \in Users, NEW m \in Msgs, StartDelete(r, u, m)
       PROVE  CalmInv'
    <3>1. Alone'
      BY <2>4 DEF StartDelete, Begin, rows, cursors, worker, Exists, Running, Handled,
         Contended, TypeOK, Carried, Grounded, AllOps, Dto, DtoOf, Alone, Fresh, Shows,
         DeletedIsEmptyUnlessRaced, Handles
    <3>2. Fresh'
      BY <2>4 DEF StartDelete, Begin, rows, cursors, worker, Exists, Running, Handled,
         Contended, TypeOK, Carried, Grounded, AllOps, Dto, DtoOf, Alone, Fresh, Shows,
         DeletedIsEmptyUnlessRaced, Handles
    <3>3. Shows'
      BY <2>4 DEF StartDelete, Begin, rows, cursors, worker, Exists, Running, Handled,
         Contended, TypeOK, Carried, Grounded, AllOps, Dto, DtoOf, Alone, Fresh, Shows,
         DeletedIsEmptyUnlessRaced, Handles
    <3>4. DeletedIsEmptyUnlessRaced'
      BY <2>4 DEF StartDelete, Begin, rows, cursors, worker, Exists, Running, Handled,
         Contended, TypeOK, Carried, Grounded, AllOps, Dto, DtoOf, Alone, Fresh, Shows,
         DeletedIsEmptyUnlessRaced, Handles
    <3>5. QED
      BY <3>1, <3>2, <3>3, <3>4
  <2>5. ASSUME NEW r \in Requests, NEW u \in Users, NEW m \in Msgs, NEW t \in Texts,
              StartEdit(r, u, m, t)
       PROVE  CalmInv'
    <3>1. Alone'
      BY <2>5 DEF StartEdit, Begin, rows, cursors, worker, Exists, Running, Handled,
         Contended, TypeOK, Carried, Grounded, AllOps, Dto, DtoOf, Alone, Fresh, Shows,
         DeletedIsEmptyUnlessRaced, Handles
    <3>2. Fresh'
      BY <2>5 DEF StartEdit, Begin, rows, cursors, worker, Exists, Running, Handled,
         Contended, TypeOK, Carried, Grounded, AllOps, Dto, DtoOf, Alone, Fresh, Shows,
         DeletedIsEmptyUnlessRaced, Handles
    <3>3. Shows'
      BY <2>5 DEF StartEdit, Begin, rows, cursors, worker, Exists, Running, Handled,
         Contended, TypeOK, Carried, Grounded, AllOps, Dto, DtoOf, Alone, Fresh, Shows,
         DeletedIsEmptyUnlessRaced, Handles
    <3>4. DeletedIsEmptyUnlessRaced'
      BY <2>5 DEF StartEdit, Begin, rows, cursors, worker, Exists, Running, Handled,
         Contended, TypeOK, Carried, Grounded, AllOps, Dto, DtoOf, Alone, Fresh, Shows,
         DeletedIsEmptyUnlessRaced, Handles
    <3>5. QED
      BY <3>1, <3>2, <3>3, <3>4
  <2>6. ASSUME NEW r \in Requests, CheckMember(r) PROVE CalmInv'
    <3>1. Alone'
      <4>1. UNCHANGED <<job, raced>>
        BY <2>6 DEF CheckMember, worker
      <4>2. \A s \in Requests, m \in Msgs : Handles(s, m)' => Handles(s, m)
        BY <2>6 DEF CheckMember, Goto, Finish, TypeOK, Handles
      <4>3. QED
        BY <4>1, <4>2 DEF Alone
    <3>2. Fresh'
      BY <2>6 DEF CheckMember, Goto, Finish, rows, cursors, worker, TypeOK, Carried,
         Grounded, Exists, AllOps, Dto, DtoOf, Alone, Fresh, Shows,
         DeletedIsEmptyUnlessRaced, Handles
    <3>3. Shows'
      <4>1. UNCHANGED <<content, deleted, preview, job, shown, raced, dropped>>
        BY <2>6 DEF CheckMember, rows, worker
      <4>2. \A s \in Requests, m \in Msgs : Handles(s, m) => Handles(s, m)' /\ pc'[s] = pc[s]
        <5>1. \A m \in Msgs : ~Handles(r, m)
          BY <2>6 DEF CheckMember, Carried, Handles
        <5>2. \A s \in Requests \ {r} : /\ op'[s] = op[s] /\ msg'[s] = msg[s]
                                         /\ pc'[s] = pc[s]
          BY <2>6 DEF CheckMember, Goto, Finish, TypeOK
        <5>3. QED
          BY <5>1, <5>2 DEF Handles
      <4>3. QED
        BY <4>1, <4>2 DEF Shows, DtoOf, Dto
    <3>4. DeletedIsEmptyUnlessRaced'
      BY <2>6 DEF CheckMember, Goto, Finish, rows, cursors, worker, TypeOK, Carried,
         Grounded, Exists, AllOps, Dto, DtoOf, Alone, Fresh, Shows,
         DeletedIsEmptyUnlessRaced, Handles
    <3>5. QED
      BY <3>1, <3>2, <3>3, <3>4
  <2>7. ASSUME NEW r \in Requests, NEW m \in Msgs, StoreMessage(r, m) PROVE CalmInv'
    <3>1. Alone'
      BY <2>7 DEF StoreMessage, Dto, cursors, worker, Exists, TypeOK, Carried, Grounded,
         AllOps, DtoOf, Alone, Fresh, Shows, DeletedIsEmptyUnlessRaced, Handles
    <3>2. Fresh'
      <4>1. /\ pc[r] = "store" /\ op[r] = "send" /\ msg[r] = None /\ deleted[m] = FALSE
            /\ preview[m] = "none" /\ shown[m] = None /\ job[m] = "none"
            /\ \A s \in Requests : msg[s] # m
        BY ZenonT(30), <2>7, NewMessage
      <4>2. /\ content' = [content EXCEPT ![m] = text[r]]
            /\ msg' = [msg EXCEPT ![r] = m]
            /\ reply' = [reply EXCEPT ![r] = Dto(text[r], FALSE, "none")]
            /\ pc' = [pc EXCEPT ![r] = IF text[r] \in Links THEN "enqueue" ELSE "cursor"]
            /\ UNCHANGED <<deleted, preview, op, job, snap, shown, raced, dropped>>
        BY <2>7 DEF StoreMessage, worker
      <4>3. \A n \in Msgs \ {m} : DtoOf(n)' = DtoOf(n)
        BY <4>2 DEF TypeOK, DtoOf, Dto
      <4>4. DtoOf(m)' = Dto(text[r], FALSE, "none")
        BY ZenonT(30), <4>1, <4>2 DEF TypeOK, DtoOf, Dto
      <4>5. QED
        <5>1. ASSUME NEW s \in Requests \ {r}, msg[s]' \in Msgs \ raced'
              PROVE  /\ msg[s] \in Msgs \ raced /\ msg[s] # m
                     /\ op'[s] = op[s] /\ pc'[s] = pc[s] /\ reply'[s] = reply[s]
                     /\ deleted'[msg[s]] = deleted[msg[s]] /\ DtoOf(msg[s])' = DtoOf(msg[s])
                     /\ msg'[s] = msg[s]
          BY <4>1, <4>2, <4>3, <5>1 DEF TypeOK
        <5>2. /\ msg'[r] = m /\ op'[r] = "send"
              /\ reply'[r] = DtoOf(m)'
          BY <4>1, <4>2, <4>4 DEF TypeOK
        <5>3. \A n \in Msgs \ raced' : job'[n] = "emit" => snap'[n] = DtoOf(n)'
          BY <4>1, <4>2, <4>3 DEF Fresh
        <5>4. ASSUME NEW s \in Requests \ {r}, msg[s]' \in Msgs \ raced'
              PROVE  /\ op[s]' = "edit" /\ pc[s]' = "write" => ~deleted[msg[s]]'
                     /\ op[s]' \in {"send", "edit", "delete"}
                           /\ pc[s]' \in {"enqueue", "cursor", "emit"} =>
                              reply[s]' = DtoOf(msg[s])'
          <6>1. DtoOf(msg[s])' = DtoOf(msg[s])
            BY <5>1, <5>4
          <6>2. QED
            BY <5>1, <5>4, <6>1 DEF Fresh
        <5>5. QED
          BY <5>2, <5>3, <5>4 DEF Fresh
    <3>3. Shows'
      <4>1. /\ pc[r] = "store" /\ op[r] = "send" /\ msg[r] = None /\ deleted[m] = FALSE
            /\ preview[m] = "none" /\ shown[m] = None /\ job[m] = "none"
            /\ \A s \in Requests : msg[s] # m
        BY ZenonT(30), <2>7, NewMessage
      <4>2. /\ content' = [content EXCEPT ![m] = text[r]]
            /\ msg' = [msg EXCEPT ![r] = m]
            /\ reply' = [reply EXCEPT ![r] = Dto(text[r], FALSE, "none")]
            /\ pc' = [pc EXCEPT ![r] = IF text[r] \in Links THEN "enqueue" ELSE "cursor"]
            /\ UNCHANGED <<deleted, preview, op, job, snap, shown, raced, dropped>>
        BY <2>7 DEF StoreMessage, worker
      <4>3. \A n \in Msgs \ {m} : DtoOf(n)' = DtoOf(n)
        BY <4>2 DEF TypeOK, DtoOf, Dto
      <4>4. \A s \in Requests, n \in Msgs \ {m} :
               Handles(s, n) => Handles(s, n)' /\ pc'[s] = pc[s]
        BY <4>1, <4>2 DEF TypeOK, Handles
      <4>5. QED
        BY <4>1, <4>2, <4>3, <4>4 DEF TypeOK, Shows
    <3>4. DeletedIsEmptyUnlessRaced'
      BY <2>7 DEF StoreMessage, Dto, cursors, worker, Exists, TypeOK, Carried, Grounded,
         AllOps, DtoOf, Alone, Fresh, Shows, DeletedIsEmptyUnlessRaced, Handles
    <3>5. QED
      BY <3>1, <3>2, <3>3, <3>4
  <2>8. ASSUME NEW r \in Requests, EnqueuePreview(r) PROVE CalmInv'
    <3>1. Alone'
      BY <2>8 DEF EnqueuePreview, Goto, rows, cursors, TypeOK, Carried, Grounded, Exists,
         AllOps, Dto, DtoOf, Alone, Fresh, Shows, DeletedIsEmptyUnlessRaced, Handles
    <3>2. Fresh'
      BY <2>8 DEF EnqueuePreview, Goto, rows, cursors, TypeOK, Carried, Grounded, Exists,
         AllOps, Dto, DtoOf, Alone, Fresh, Shows, DeletedIsEmptyUnlessRaced, Handles
    <3>3. Shows'
      BY <2>8 DEF EnqueuePreview, Goto, rows, cursors, TypeOK, Carried, Grounded, Exists,
         AllOps, Dto, DtoOf, Alone, Fresh, Shows, DeletedIsEmptyUnlessRaced, Handles
    <3>4. DeletedIsEmptyUnlessRaced'
      BY <2>8 DEF EnqueuePreview, Goto, rows, cursors, TypeOK, Carried, Grounded, Exists,
         AllOps, Dto, DtoOf, Alone, Fresh, Shows, DeletedIsEmptyUnlessRaced, Handles
    <3>5. QED
      BY <3>1, <3>2, <3>3, <3>4
  <2>9. ASSUME NEW r \in Requests, MarkRead(r) PROVE CalmInv'
    <3>1. Alone'
      <4>1. UNCHANGED <<job, raced>>
        BY <2>9 DEF MarkRead, worker
      <4>2. \A s \in Requests, m \in Msgs : Handles(s, m)' => Handles(s, m)
        BY <2>9 DEF MarkRead, Goto, Finish, TypeOK, Handles
      <4>3. QED
        BY <4>1, <4>2 DEF Alone
    <3>2. Fresh'
      BY <2>9 DEF MarkRead, Goto, Finish, rows, worker, TypeOK, Carried, Grounded, Exists,
         AllOps, Dto, DtoOf, Alone, Fresh, Shows, DeletedIsEmptyUnlessRaced, Handles
    <3>3. Shows'
      BY <2>9 DEF MarkRead, Goto, Finish, rows, worker, TypeOK, Carried, Grounded, Exists,
         AllOps, Dto, DtoOf, Alone, Fresh, Shows, DeletedIsEmptyUnlessRaced, Handles
    <3>4. DeletedIsEmptyUnlessRaced'
      BY <2>9 DEF MarkRead, Goto, Finish, rows, worker, TypeOK, Carried, Grounded, Exists,
         AllOps, Dto, DtoOf, Alone, Fresh, Shows, DeletedIsEmptyUnlessRaced, Handles
    <3>5. QED
      BY <3>1, <3>2, <3>3, <3>4
  <2>10. ASSUME NEW r \in Requests, LoadMessage(r) PROVE CalmInv'
    <3>1. Alone'
      <4>1. UNCHANGED <<job, raced>>
        BY <2>10 DEF LoadMessage, worker
      <4>2. \A s \in Requests, m \in Msgs : Handles(s, m)' => Handles(s, m)
        BY <2>10 DEF LoadMessage, Goto, Finish, TypeOK, Handles
      <4>3. QED
        BY <4>1, <4>2 DEF Alone
    <3>2. Fresh'
      BY <2>10 DEF LoadMessage, Goto, Finish, Allowed, MayEdit, MayDelete, MayMarkRead,
         rows, cursors, worker, Exists, TypeOK, Carried, Grounded, AllOps, Dto, DtoOf,
         Alone, Fresh, Shows, DeletedIsEmptyUnlessRaced, Handles
    <3>3. Shows'
      BY <2>10 DEF LoadMessage, Goto, Finish, Allowed, MayEdit, MayDelete, MayMarkRead,
         rows, cursors, worker, Exists, TypeOK, Carried, Grounded, AllOps, Dto, DtoOf,
         Alone, Fresh, Shows, DeletedIsEmptyUnlessRaced, Handles
    <3>4. DeletedIsEmptyUnlessRaced'
      BY <2>10 DEF LoadMessage, Goto, Finish, Allowed, MayEdit, MayDelete, MayMarkRead,
         rows, cursors, worker, Exists, TypeOK, Carried, Grounded, AllOps, Dto, DtoOf,
         Alone, Fresh, Shows, DeletedIsEmptyUnlessRaced, Handles
    <3>5. QED
      BY <3>1, <3>2, <3>3, <3>4
  <2>11. ASSUME NEW r \in Requests, WriteEdit(r) PROVE CalmInv'
    <3>1. Alone'
      BY <2>11 DEF WriteEdit, Dto, cursors, worker, TypeOK, Carried, Grounded, Exists,
         AllOps, DtoOf, Alone, Fresh, Shows, DeletedIsEmptyUnlessRaced, Handles
    <3>2. Fresh'
      BY <2>11 DEF WriteEdit, Dto, cursors, worker, TypeOK, Carried, Grounded, Exists,
         AllOps, DtoOf, Alone, Fresh, Shows, DeletedIsEmptyUnlessRaced, Handles
    <3>3. Shows'
      BY <2>11 DEF WriteEdit, Dto, cursors, worker, TypeOK, Carried, Grounded, Exists,
         AllOps, DtoOf, Alone, Fresh, Shows, DeletedIsEmptyUnlessRaced, Handles
    <3>4. DeletedIsEmptyUnlessRaced'
      BY <2>11 DEF WriteEdit, Dto, cursors, worker, TypeOK, Carried, Grounded, Exists,
         AllOps, DtoOf, Alone, Fresh, Shows, DeletedIsEmptyUnlessRaced, Handles
    <3>5. QED
      BY <3>1, <3>2, <3>3, <3>4
  <2>12. ASSUME NEW r \in Requests, WriteDelete(r) PROVE CalmInv'
    <3>1. Alone'
      BY <2>12 DEF WriteDelete, Dto, Emptied, cursors, worker, TypeOK, Carried, Grounded,
         Exists, AllOps, DtoOf, Alone, Fresh, Shows, DeletedIsEmptyUnlessRaced, Handles
    <3>2. Fresh'
      <4>1. /\ pc[r] = "write" /\ op[r] = "delete" /\ msg[r] \in Msgs /\ Handles(r, msg[r])
        BY <2>12 DEF WriteDelete, TypeOK, Carried, Handles
      <4>2. /\ content' = [content EXCEPT ![msg[r]] = Blank]
            /\ deleted' = [deleted EXCEPT ![msg[r]] = TRUE]
            /\ reply' = [reply EXCEPT ![r] = Dto(Blank, TRUE, preview[msg[r]])]
            /\ pc' = [pc EXCEPT ![r] = "emit"]
            /\ UNCHANGED <<preview, op, msg, job, snap, shown, raced, dropped>>
        BY <2>12 DEF WriteDelete, Emptied, worker
      <4>3. \A n \in Msgs \ {msg[r]} : DtoOf(n)' = DtoOf(n)
        BY <4>2 DEF TypeOK, DtoOf, Dto
      <4>4. DtoOf(msg[r])' = Dto(Blank, TRUE, preview[msg[r]])
        BY <4>1, <4>2 DEF TypeOK, DtoOf, Dto
      <4>5. QED
        <5>1. ASSUME NEW s \in Requests \ {r}, Handles(s, msg[s]), msg[s] \in Msgs \ raced
              PROVE  msg[s] # msg[r]
          BY <4>1, <5>1 DEF Alone, Handles
        <5>2. job[msg[r]] = "emit" => msg[r] \in raced
          BY <4>1 DEF Alone
        <5>3. \A n \in Msgs \ raced' : job'[n] = "emit" => snap'[n] = DtoOf(n)'
          BY <4>1, <4>2, <4>3, <5>2 DEF Fresh
        <5>4. /\ msg'[r] = msg[r] /\ op'[r] = "delete" /\ reply'[r] = DtoOf(msg[r])'
          BY <4>1, <4>2, <4>4 DEF TypeOK
        <5>5. \A s \in Requests \ {r} : reply'[s] = reply[s] /\ pc'[s] = pc[s]
          BY <4>2 DEF TypeOK
        <5>6. ASSUME NEW s \in Requests \ {r}, msg[s]' \in Msgs \ raced'
              PROVE  /\ op[s]' = "edit" /\ pc[s]' = "write" => ~deleted[msg[s]]'
                     /\ op[s]' \in {"send", "edit", "delete"}
                           /\ pc[s]' \in {"enqueue", "cursor", "emit"} =>
                              reply[s]' = DtoOf(msg[s])'
          <6>1. CASE op[s] \in {"send", "edit", "delete"}
            <7>1. msg[s] \in Msgs \ raced /\ msg[s] # msg[r]
              BY <4>2, <5>1, <5>6, <6>1 DEF Handles
            <7>2. DtoOf(msg[s])' = DtoOf(msg[s]) /\ deleted'[msg[s]] = deleted[msg[s]]
              BY <4>1, <4>2, <4>3, <7>1 DEF TypeOK
            <7>3. QED
              BY <4>2, <5>5, <7>1, <7>2 DEF Fresh
          <6>2. QED
            BY <4>2, <6>1
        <5>7. QED
          BY <5>3, <5>4, <5>6 DEF Fresh
    <3>3. Shows'
      <4>1. /\ pc[r] = "write" /\ op[r] = "delete" /\ msg[r] \in Msgs /\ Handles(r, msg[r])
        BY <2>12 DEF WriteDelete, TypeOK, Carried, Handles
      <4>2. /\ content' = [content EXCEPT ![msg[r]] = Blank]
            /\ deleted' = [deleted EXCEPT ![msg[r]] = TRUE]
            /\ reply' = [reply EXCEPT ![r] = Dto(Blank, TRUE, preview[msg[r]])]
            /\ pc' = [pc EXCEPT ![r] = "emit"]
            /\ UNCHANGED <<preview, op, msg, job, snap, shown, raced, dropped>>
        BY <2>12 DEF WriteDelete, Emptied, worker
      <4>3. \A n \in Msgs \ {msg[r]} : DtoOf(n)' = DtoOf(n)
        BY <4>2 DEF TypeOK, DtoOf, Dto
      <4>4. DtoOf(msg[r])' = Dto(Blank, TRUE, preview[msg[r]])
        BY <4>1, <4>2 DEF TypeOK, DtoOf, Dto
      <4>5. \A s \in Requests, n \in Msgs :
               Handles(s, n) => Handles(s, n)' /\ (s # r => pc'[s] = pc[s])
        BY <4>1, <4>2 DEF TypeOK, Handles
      <4>6. Handles(r, msg[r])' /\ pc'[r] = "emit" /\ (\A n \in Msgs \ {msg[r]} : ~Handles(r, n))
        BY <4>1, <4>2 DEF TypeOK, Handles
      <4>7. QED
        BY <4>2, <4>3, <4>5, <4>6 DEF Shows
    <3>4. DeletedIsEmptyUnlessRaced'
      BY <2>12 DEF WriteDelete, Dto, Emptied, cursors, worker, TypeOK, Carried, Grounded,
         Exists, AllOps, DtoOf, Alone, Fresh, Shows, DeletedIsEmptyUnlessRaced, Handles
    <3>5. QED
      BY <3>1, <3>2, <3>3, <3>4
  <2>13. ASSUME NEW r \in Requests, Emit(r) PROVE CalmInv'
    <3>1. Alone'
      BY <2>13 DEF Emit, Finish, Updated, rows, cursors, worker, TypeOK, Carried, Grounded,
         Exists, AllOps, Dto, DtoOf, Alone, Fresh, Shows, DeletedIsEmptyUnlessRaced, Handles
    <3>2. Fresh'
      BY <2>13 DEF Emit, Finish, Updated, rows, cursors, worker, TypeOK, Carried, Grounded,
         Exists, AllOps, Dto, DtoOf, Alone, Fresh, Shows, DeletedIsEmptyUnlessRaced, Handles
    <3>3. Shows'
      <4>1. pc[r] = "emit" /\ op[r] \in {"send", "edit", "delete"} /\ msg[r] \in Msgs
        BY <2>13 DEF Emit, TypeOK, Carried, AllOps
      <4>2. /\ UNCHANGED <<content, deleted, preview, job, raced, dropped>>
            /\ \A n \in Msgs \ {msg[r]} : shown'[n] = shown[n]
            /\ shown'[msg[r]] \in {reply[r], None}
        BY <2>13, <4>1 DEF Emit, Updated, rows, worker, TypeOK
      <4>3. \A s \in Requests, n \in Msgs \ {msg[r]} :
               Handles(s, n) => Handles(s, n)' /\ pc'[s] = pc[s]
        BY <2>13, <4>1 DEF Emit, Finish, TypeOK, Handles
      <4>4. msg[r] \notin raced => reply[r] = DtoOf(msg[r])
        BY <4>1 DEF Fresh
      <4>5. \A n \in Msgs : DtoOf(n)' = DtoOf(n)
        BY <4>2 DEF DtoOf, Dto
      <4>6. QED
        BY <4>1, <4>2, <4>3, <4>4, <4>5 DEF Shows
    <3>4. DeletedIsEmptyUnlessRaced'
      BY <2>13 DEF Emit, Finish, Updated, rows, cursors, worker, TypeOK, Carried, Grounded,
         Exists, AllOps, Dto, DtoOf, Alone, Fresh, Shows, DeletedIsEmptyUnlessRaced, Handles
    <3>5. QED
      BY <3>1, <3>2, <3>3, <3>4
  <2>14. ASSUME NEW r \in Requests, RefuseSend(r) PROVE CalmInv'
    <3>1. Alone'
      BY <2>14 DEF RefuseSend, Finish, rows, cursors, worker, TypeOK, Carried, Grounded,
         Exists, AllOps, Dto, DtoOf, Alone, Fresh, Shows, DeletedIsEmptyUnlessRaced, Handles
    <3>2. Fresh'
      BY <2>14 DEF RefuseSend, Finish, rows, cursors, worker, TypeOK, Carried, Grounded,
         Exists, AllOps, Dto, DtoOf, Alone, Fresh, Shows, DeletedIsEmptyUnlessRaced, Handles
    <3>3. Shows'
      BY <2>14 DEF RefuseSend, Finish, rows, cursors, worker, TypeOK, Carried, Grounded,
         Exists, AllOps, Dto, DtoOf, Alone, Fresh, Shows, DeletedIsEmptyUnlessRaced, Handles
    <3>4. DeletedIsEmptyUnlessRaced'
      BY <2>14 DEF RefuseSend, Finish, rows, cursors, worker, TypeOK, Carried, Grounded,
         Exists, AllOps, Dto, DtoOf, Alone, Fresh, Shows, DeletedIsEmptyUnlessRaced, Handles
    <3>5. QED
      BY <3>1, <3>2, <3>3, <3>4
  <2>15. ASSUME NEW r \in Requests, Fail(r) PROVE CalmInv'
    <3>1. Alone'
      BY <2>15 DEF Fail, Finish, rows, cursors, worker, Running, TypeOK, Carried, Grounded,
         Exists, AllOps, Dto, DtoOf, Alone, Fresh, Shows, DeletedIsEmptyUnlessRaced, Handles
    <3>2. Fresh'
      BY <2>15 DEF Fail, Finish, rows, cursors, worker, Running, TypeOK, Carried, Grounded,
         Exists, AllOps, Dto, DtoOf, Alone, Fresh, Shows, DeletedIsEmptyUnlessRaced, Handles
    <3>3. Shows'
      BY <2>15 DEF Fail, Finish, rows, cursors, worker, Running, TypeOK, Carried, Grounded,
         Exists, AllOps, Dto, DtoOf, Alone, Fresh, Shows, DeletedIsEmptyUnlessRaced, Handles
    <3>4. DeletedIsEmptyUnlessRaced'
      BY <2>15 DEF Fail, Finish, rows, cursors, worker, Running, TypeOK, Carried, Grounded,
         Exists, AllOps, Dto, DtoOf, Alone, Fresh, Shows, DeletedIsEmptyUnlessRaced, Handles
    <3>5. QED
      BY <3>1, <3>2, <3>3, <3>4
  <2>16. ASSUME NEW m \in Msgs, NEW s \in {"READY", "FAILED"}, SavePreview(m, s)
       PROVE  CalmInv'
    <3>1. Alone'
      BY <2>16 DEF SavePreview, rows, cursors, request, Handled, TypeOK, Carried, Grounded,
         Exists, AllOps, Dto, DtoOf, Alone, Fresh, Shows, DeletedIsEmptyUnlessRaced, Handles
    <3>2. Fresh'
      BY <2>16 DEF SavePreview, rows, cursors, request, Handled, TypeOK, Carried, Grounded,
         Exists, AllOps, Dto, DtoOf, Alone, Fresh, Shows, DeletedIsEmptyUnlessRaced, Handles
    <3>3. Shows'
      BY <2>16 DEF SavePreview, rows, cursors, request, Handled, TypeOK, Carried, Grounded,
         Exists, AllOps, Dto, DtoOf, Alone, Fresh, Shows, DeletedIsEmptyUnlessRaced, Handles
    <3>4. DeletedIsEmptyUnlessRaced'
      BY <2>16 DEF SavePreview, rows, cursors, request, Handled, TypeOK, Carried, Grounded,
         Exists, AllOps, Dto, DtoOf, Alone, Fresh, Shows, DeletedIsEmptyUnlessRaced, Handles
    <3>5. QED
      BY <3>1, <3>2, <3>3, <3>4
  <2>17. ASSUME NEW m \in Msgs, LoadForPreview(m) PROVE CalmInv'
    <3>1. Alone'
      BY <2>17 DEF LoadForPreview, Dto, DtoOf, rows, cursors, request, TypeOK, Carried,
         Grounded, Exists, AllOps, Alone, Fresh, Shows, DeletedIsEmptyUnlessRaced, Handles
    <3>2. Fresh'
      BY <2>17 DEF LoadForPreview, Dto, DtoOf, rows, cursors, request, TypeOK, Carried,
         Grounded, Exists, AllOps, Alone, Fresh, Shows, DeletedIsEmptyUnlessRaced, Handles
    <3>3. Shows'
      BY <2>17 DEF LoadForPreview, Dto, DtoOf, rows, cursors, request, TypeOK, Carried,
         Grounded, Exists, AllOps, Alone, Fresh, Shows, DeletedIsEmptyUnlessRaced, Handles
    <3>4. DeletedIsEmptyUnlessRaced'
      BY <2>17 DEF LoadForPreview, Dto, DtoOf, rows, cursors, request, TypeOK, Carried,
         Grounded, Exists, AllOps, Alone, Fresh, Shows, DeletedIsEmptyUnlessRaced, Handles
    <3>5. QED
      BY <3>1, <3>2, <3>3, <3>4
  <2>18. ASSUME NEW m \in Msgs, EmitPreview(m) PROVE CalmInv'
    <3>1. Alone'
      BY <2>18 DEF EmitPreview, Updated, rows, cursors, request, TypeOK, Carried, Grounded,
         Exists, AllOps, Dto, DtoOf, Alone, Fresh, Shows, DeletedIsEmptyUnlessRaced, Handles
    <3>2. Fresh'
      BY <2>18 DEF EmitPreview, Updated, rows, cursors, request, TypeOK, Carried, Grounded,
         Exists, AllOps, Dto, DtoOf, Alone, Fresh, Shows, DeletedIsEmptyUnlessRaced, Handles
    <3>3. Shows'
      <4>1. /\ UNCHANGED <<content, deleted, preview, raced, dropped, pc, op, msg>>
            /\ \A n \in Msgs \ {m} : shown'[n] = shown[n] /\ job'[n] = job[n]
            /\ shown'[m] \in {snap[m], None} /\ job'[m] = "none" /\ job[m] = "emit"
        BY <2>18 DEF EmitPreview, Updated, rows, request, TypeOK
      <4>2. m \notin raced => snap[m] = DtoOf(m)
        BY <4>1 DEF Fresh
      <4>3. \A n \in Msgs : DtoOf(n)' = DtoOf(n)
        BY <4>1 DEF DtoOf, Dto
      <4>4. \A s \in Requests, n \in Msgs : Handles(s, n)' <=> Handles(s, n)
        BY <4>1 DEF Handles
      <4>5. QED
        BY <4>1, <4>2, <4>3, <4>4 DEF Shows
    <3>4. DeletedIsEmptyUnlessRaced'
      BY <2>18 DEF EmitPreview, Updated, rows, cursors, request, TypeOK, Carried, Grounded,
         Exists, AllOps, Dto, DtoOf, Alone, Fresh, Shows, DeletedIsEmptyUnlessRaced, Handles
    <3>5. QED
      BY <3>1, <3>2, <3>3, <3>4
  <2>19. ASSUME NEW m \in Msgs, JobFails(m) PROVE CalmInv'
    <3>1. Alone'
      BY SMTT(30), <2>19 DEF JobFails, rows, cursors, request, TypeOK, Carried, Grounded, Exists,
         AllOps, Dto, DtoOf, Alone, Fresh, Shows, DeletedIsEmptyUnlessRaced, Handles
    <3>2. Fresh'
      BY <2>19 DEF JobFails, rows, cursors, request, TypeOK, Carried, Grounded, Exists,
         AllOps, Dto, DtoOf, Alone, Fresh, Shows, DeletedIsEmptyUnlessRaced, Handles
    <3>3. Shows'
      BY <2>19 DEF JobFails, rows, cursors, request, TypeOK, Carried, Grounded, Exists,
         AllOps, Dto, DtoOf, Alone, Fresh, Shows, DeletedIsEmptyUnlessRaced, Handles
    <3>4. DeletedIsEmptyUnlessRaced'
      BY <2>19 DEF JobFails, rows, cursors, request, TypeOK, Carried, Grounded, Exists,
         AllOps, Dto, DtoOf, Alone, Fresh, Shows, DeletedIsEmptyUnlessRaced, Handles
    <3>5. QED
      BY <3>1, <3>2, <3>3, <3>4
  <2>20. ASSUME Tick PROVE CalmInv'
    <3>1. Alone'
      BY <2>20 DEF Tick, rows, cursors, request, worker, TypeOK, Carried, Grounded, Exists,
         AllOps, Dto, DtoOf, Alone, Fresh, Shows, DeletedIsEmptyUnlessRaced, Handles
    <3>2. Fresh'
      BY <2>20 DEF Tick, rows, cursors, request, worker, TypeOK, Carried, Grounded, Exists,
         AllOps, Dto, DtoOf, Alone, Fresh, Shows, DeletedIsEmptyUnlessRaced, Handles
    <3>3. Shows'
      BY <2>20 DEF Tick, rows, cursors, request, worker, TypeOK, Carried, Grounded, Exists,
         AllOps, Dto, DtoOf, Alone, Fresh, Shows, DeletedIsEmptyUnlessRaced, Handles
    <3>4. DeletedIsEmptyUnlessRaced'
      BY <2>20 DEF Tick, rows, cursors, request, worker, TypeOK, Carried, Grounded, Exists,
         AllOps, Dto, DtoOf, Alone, Fresh, Shows, DeletedIsEmptyUnlessRaced, Handles
    <3>5. QED
      BY <3>1, <3>2, <3>3, <3>4
  <2>21. ASSUME NEW u \in Users, NEW c \in Channels, Prune(u, c) PROVE CalmInv'
    <3>1. Alone'
      BY <2>21 DEF Prune, rows, request, worker, TypeOK, Carried, Grounded, Exists, AllOps,
         Dto, DtoOf, Alone, Fresh, Shows, DeletedIsEmptyUnlessRaced, Handles
    <3>2. Fresh'
      BY <2>21 DEF Prune, rows, request, worker, TypeOK, Carried, Grounded, Exists, AllOps,
         Dto, DtoOf, Alone, Fresh, Shows, DeletedIsEmptyUnlessRaced, Handles
    <3>3. Shows'
      BY <2>21 DEF Prune, rows, request, worker, TypeOK, Carried, Grounded, Exists, AllOps,
         Dto, DtoOf, Alone, Fresh, Shows, DeletedIsEmptyUnlessRaced, Handles
    <3>4. DeletedIsEmptyUnlessRaced'
      BY <2>21 DEF Prune, rows, request, worker, TypeOK, Carried, Grounded, Exists, AllOps,
         Dto, DtoOf, Alone, Fresh, Shows, DeletedIsEmptyUnlessRaced, Handles
    <3>5. QED
      BY <3>1, <3>2, <3>3, <3>4
  <2>22. QED
    BY <2>1, <2>2, <2>3, <2>4, <2>5, <2>6, <2>7, <2>8, <2>9, <2>10, <2>11, <2>12, <2>13,
       <2>14, <2>15, <2>16, <2>17, <2>18, <2>19, <2>20, <2>21 DEF Next, HandlerStep,
       JobStep
<1>3. QED
  BY <1>1, <1>2, ShapeInvariance, PTL DEF Spec

-------------------------------------------------------------------------------
(* The results *)

\* Every state of Messaging is well typed.
THEOREM TypeCorrect == Spec => []TypeOK
BY ShapeInvariance, PTL DEF Shape

\* A read cursor always points at a message of its own channel, with its time.
THEOREM CursorsPointHome == Spec => []CursorPointsHome
BY CursorInvariance, PTL

\* An edit that starts after the delete never gets to write, whatever overlaps it.
THEOREM LateEditsAreRefused == Spec => []LateEditRefused
<1>1. LateInv => LateEditRefused
  BY DEF LateInv, LateEditRefused
<1>2. QED
  BY <1>1, LateInvariance, PTL

\* A deleted message has content only if handlers, or the worker, raced on it.
THEOREM DeletedStaysEmpty == Spec => []DeletedIsEmptyUnlessRaced
<1>1. CalmInv => DeletedIsEmptyUnlessRaced
  BY DEF CalmInv
<1>2. QED
  BY <1>1, CalmInvariance, PTL

\* When nothing is in progress a tab shows what the database has, but for messages
\* on which something raced or whose announcement was lost.
THEOREM TabsConverge == Spec => []TabsConvergeUnlessRaced
<1>1. Shape /\ CalmInv => TabsConvergeUnlessRaced
  BY DEF Shape, Carried, CalmInv, Shows, Handles, Quiet, Running, TabsConvergeUnlessRaced
<1>2. QED
  BY <1>1, ShapeInvariance, CalmInvariance, PTL

-------------------------------------------------------------------------------
(* Messaging implements MessageLog *)

\* A step that changes no row is a stutter of the log.
LEMMA LogStutters ==
    ASSUME UNCHANGED <<createdAt, content, deleted, author, writer>>
    PROVE  UNCHANGED Log!vars
BY DEF Log!vars, Visible, Exists

\* The log is posted to, edited and cleaned up by StoreMessage, WriteEdit and WriteDelete,
\* and a late edit of a deleted message shows as a second removal.
THEOREM ImplementsLog == Spec => LogSpec
<1> USE MessagingAssumption
<1>1. Init => Log!Init
  BY DEF Init, Log!Init, Visible, Exists
<1>2. Shape /\ [Next]_vars => [Log!Next]_(Log!vars)
  <2> SUFFICES ASSUME Shape, [Next]_vars PROVE [Log!Next]_(Log!vars)
    OBVIOUS
  <2> USE DEF Shape
  <2>1. CASE UNCHANGED vars
    BY <2>1, LogStutters DEF vars, rows
  <2>2. ASSUME NEW r \in Requests, NEW m \in Msgs, StoreMessage(r, m) PROVE Log!Next
    <3>1. who[r] \in Users /\ text[r] \in Texts
      BY <2>2 DEF StoreMessage, Carried, AllOps
    <3>2. Visible[m] = None
      BY <2>2 DEF StoreMessage, Visible
    <3>3. Visible' = [Visible EXCEPT ![m] = text[r]]
      BY <2>2 DEF StoreMessage, Visible, Exists, TypeOK, Grounded
    <3>4. Log!Post(who[r], m, text[r])
      BY <2>2, <3>2, <3>3 DEF StoreMessage, Log!Post
    <3>5. QED
      BY <3>1, <3>4 DEF Log!Next
  <2>3. ASSUME NEW r \in Requests, WriteEdit(r) PROVE Log!Next
    <3>1. /\ who[r] \in Users /\ text[r] \in Texts /\ msg[r] \in Msgs
          /\ Exists(msg[r]) /\ author[msg[r]] = who[r]
      BY <2>3 DEF WriteEdit, Carried, Grounded
    <3>2. CASE deleted[msg[r]]
      <4>1. Visible[msg[r]] = Tombstone
        BY <3>1, <3>2 DEF Visible
      <4>2. Visible' = [Visible EXCEPT ![msg[r]] = Tombstone]
        BY <2>3, <3>1, <3>2 DEF WriteEdit, Visible, Exists, TypeOK
      <4>3. Log!Remove(who[r], msg[r])
        BY <2>3, <3>1, <4>1, <4>2 DEF WriteEdit, Log!Remove
      <4>4. QED
        BY <3>1, <4>3 DEF Log!Next
    <3>3. CASE ~deleted[msg[r]]
      <4>1. Visible[msg[r]] \in Texts \cup {Blank}
        BY <3>1, <3>3 DEF Visible, TypeOK
      <4>2. Visible' = [Visible EXCEPT ![msg[r]] = text[r]]
        BY ZenonT(30), <2>3, <3>1, <3>3 DEF WriteEdit, Visible, Exists, TypeOK
      <4>3. Log!Edit(who[r], msg[r], text[r])
        BY <2>3, <3>1, <4>1, <4>2 DEF WriteEdit, Log!Edit
      <4>4. QED
        BY <3>1, <4>3 DEF Log!Next
    <3>4. QED
      BY <3>2, <3>3
  <2>4. ASSUME NEW r \in Requests, WriteDelete(r) PROVE Log!Next
    <3>1. /\ who[r] \in Users /\ msg[r] \in Msgs
          /\ Exists(msg[r]) /\ author[msg[r]] = who[r]
      BY <2>4 DEF WriteDelete, Carried, Grounded
    <3>2. Visible[msg[r]] # None
      BY <3>1 DEF Visible, TypeOK
    <3>3. Visible' = [Visible EXCEPT ![msg[r]] = Tombstone]
      BY <2>4, <3>1 DEF WriteDelete, Visible, Exists, TypeOK
    <3>4. Log!Remove(who[r], msg[r])
      BY <2>4, <3>1, <3>2, <3>3 DEF WriteDelete, Log!Remove
    <3>5. QED
      BY <3>1, <3>4 DEF Log!Next
  <2>5. ASSUME NEW r \in Requests,
               \/ CheckMember(r) \/ EnqueuePreview(r) \/ MarkRead(r) \/ LoadMessage(r)
               \/ Emit(r) \/ RefuseSend(r) \/ Fail(r)
        PROVE  UNCHANGED Log!vars
    BY <2>5, LogStutters DEF CheckMember, EnqueuePreview, MarkRead, LoadMessage, Emit,
       RefuseSend, Fail, rows
  <2>6. ASSUME NEW r \in Requests, NEW u \in Users,
               \/ \E c \in Channels : \/ \E t \in Texts : StartSend(r, u, c, t)
                                      \/ \E m \in Msgs : StartRead(r, u, c, m)
               \/ \E m \in Msgs : StartDelete(r, u, m) \/ \E t \in Texts : StartEdit(r, u, m, t)
        PROVE  UNCHANGED Log!vars
    BY <2>6, LogStutters DEF StartSend, StartRead, StartDelete, StartEdit, rows
  <2>7. ASSUME NEW m \in Msgs, JobStep(m) \/ JobFails(m) PROVE UNCHANGED Log!vars
    BY <2>7, LogStutters DEF JobStep, SavePreview, LoadForPreview, EmitPreview, JobFails, rows
  <2>8. CASE Tick
    BY <2>8, LogStutters DEF Tick, rows
  <2>9. ASSUME NEW u \in Users, NEW c \in Channels, Prune(u, c) PROVE UNCHANGED Log!vars
    BY <2>9, LogStutters DEF Prune, rows
  <2>10. QED
    BY <2>1, <2>2, <2>3, <2>4, <2>5, <2>6, <2>7, <2>8, <2>9 DEF Next, HandlerStep
<1>3. QED
  BY <1>1, <1>2, ShapeInvariance, PTL DEF Spec, LogSpec, Log!Spec

-------------------------------------------------------------------------------
(* Work ends *)

\* A message is queued for a preview once: it has one sender, and while that sender
\* is about to queue it there is no job for it.
FirstJob ==
    \A r \in Requests : op[r] = "send" /\ msg[r] # None =>
        /\ \A s \in Requests : op[s] = "send" /\ msg[s] = msg[r] => s = r
        /\ pc[r] = "enqueue" => job[msg[r]] = "none"

LEMMA FirstJobInvariance == Spec => []FirstJob
<1> USE MessagingAssumption
<1>1. Init => FirstJob
  BY DEF Init, FirstJob
<1>2. Shape /\ FirstJob /\ [Next]_vars => FirstJob'
  <2> SUFFICES ASSUME Shape, FirstJob, [Next]_vars PROVE FirstJob'
    OBVIOUS
  <2> USE DEF Shape
  <2>1. ASSUME UNCHANGED <<request, job>> PROVE FirstJob'
    BY <2>1 DEF request, FirstJob
  <2>2. ASSUME NEW r \in Requests, Finish(r), UNCHANGED job PROVE FirstJob'
    BY <2>2 DEF Finish, TypeOK, FirstJob
  <2>3. ASSUME NEW r \in Requests, NEW step \in {"store", "load", "cursor", "write", "emit"},
               Goto(r, step), UNCHANGED job
        PROVE  FirstJob'
    BY <2>3 DEF Goto, TypeOK, FirstJob
  <2>4. ASSUME NEW r \in Requests, NEW step \in {"member", "load"}, NEW what, NEW u, NEW c, NEW m,
               NEW t, Begin(r, step, what, u, c, m, t), what = "send" => m = None, UNCHANGED job
        PROVE  FirstJob'
    BY <2>4 DEF Begin, TypeOK, FirstJob
  <2>5. ASSUME NEW r \in Requests, NEW m \in Msgs, StoreMessage(r, m) PROVE FirstJob'
    <3>1. job[m] = "none" /\ \A s \in Requests : msg[s] # m
      BY ZenonT(30), <2>5, NewMessage
    <3>2. /\ msg' = [msg EXCEPT ![r] = m] /\ op' = op /\ job' = job
          /\ \A s \in Requests : s # r => pc'[s] = pc[s]
      BY <2>5 DEF StoreMessage, worker, TypeOK
    <3>3. QED
      BY <3>1, <3>2 DEF TypeOK, FirstJob
  <2>6. ASSUME NEW r \in Requests, EnqueuePreview(r) PROVE FirstJob'
    <3>1. op[r] = "send" /\ msg[r] \in Msgs
      BY <2>6 DEF EnqueuePreview, Carried, AllOps
    <3>2. /\ job' = [job EXCEPT ![msg[r]] = "queued"] /\ pc' = [pc EXCEPT ![r] = "cursor"]
          /\ op' = op /\ msg' = msg
      BY <2>6 DEF EnqueuePreview, Goto
    <3>3. QED
      BY <3>1, <3>2 DEF TypeOK, FirstJob
  <2>7. ASSUME NEW r \in Requests, CheckMember(r) \/ MarkRead(r) \/ LoadMessage(r) PROVE FirstJob'
    <3>1. CASE CheckMember(r)
      BY <2>2, <2>3, <3>1 DEF CheckMember, worker
    <3>2. CASE MarkRead(r) \/ LoadMessage(r)
      BY <2>2, <2>3, <3>2 DEF MarkRead, LoadMessage, worker
    <3>3. QED
      BY <2>7, <3>1, <3>2
  <2>8. ASSUME NEW r \in Requests, WriteEdit(r) \/ WriteDelete(r) PROVE FirstJob'
    BY ZenonT(30), <2>8 DEF WriteEdit, WriteDelete, worker, TypeOK, FirstJob
  <2>9. ASSUME NEW r \in Requests, Emit(r) \/ RefuseSend(r) \/ Fail(r) PROVE FirstJob'
    BY <2>2, <2>9 DEF Emit, RefuseSend, Fail, worker
  <2>10. ASSUME NEW m \in Msgs, JobStep(m) \/ JobFails(m) PROVE FirstJob'
    <3>1. /\ job[m] # "none" /\ \A k \in Msgs : k # m => job'[k] = job[k]
          /\ UNCHANGED request
      BY <2>10 DEF JobStep, SavePreview, LoadForPreview, EmitPreview, JobFails, TypeOK
    <3>2. QED
      BY <3>1 DEF request, TypeOK, FirstJob
  <2>11. ASSUME NEW r \in Requests, NEW u \in Users,
                \/ \E c \in Channels : \/ \E t \in Texts : StartSend(r, u, c, t)
                                       \/ \E m \in Msgs : StartRead(r, u, c, m)
                \/ \E m \in Msgs : StartDelete(r, u, m) \/ \E t \in Texts : StartEdit(r, u, m, t)
         PROVE  FirstJob'
    BY <2>4, <2>11 DEF StartSend, StartRead, StartDelete, StartEdit, worker
  <2>12. ASSUME Tick \/ (\E u \in Users, c \in Channels : Prune(u, c)) \/ UNCHANGED vars
         PROVE  FirstJob'
    BY <2>1, <2>12 DEF Tick, Prune, worker, vars
  <2>13. QED
    BY <2>5, <2>6, <2>7, <2>8, <2>9, <2>10, <2>11, <2>12 DEF Next, HandlerStep
<1>3. QED
  BY <1>1, <1>2, ShapeInvariance, PTL DEF Spec

\* The longest way a handler has from where it stands to its return.
StepsLeft == [idle |-> 0, emit |-> 1, write |-> 2, cursor |-> 2, enqueue |-> 3, load |-> 3,
              store |-> 4, member |-> 5]

Left(r) == StepsLeft[pc[r]]

\* The longest way of a job; with one attempt left it may start again.
JobStepsLeft == [none |-> 0, emit |-> 1, load |-> 2, queued |-> 3]

JobLeft(m) == JobStepsLeft[job[m]]
                + (IF job[m] # "none" /\ retries[m] < MaxRetries THEN 3 ELSE 0)

\* What the prover knows nothing of: every step of a handler or a job has an outcome
\* whenever its guard holds, so it can be taken.
Ready(r)      == Running(r) /\ (pc[r] = "write" => op[r] \in {"edit", "delete"})
CanStep(r)    == ENABLED <<HandlerStep(r) \/ RefuseSend(r)>>_vars
CanWork(m)    == ENABLED <<JobStep(m)>>_vars
GuardsSuffice == /\ \A r \in Requests : Ready(r) => CanStep(r)
                 /\ \A m \in Msgs : job[m] # "none" => CanWork(m)

\* No step takes a handler back; its own steps take it on.
LEMMA Advances ==
    ASSUME Shape, NEW r \in Requests, Running(r)
    PROVE  /\ [Next]_vars => Left(r)' <= Left(r)
           /\ HandlerStep(r) \/ RefuseSend(r) => Left(r)' < Left(r)
<1> USE DEF Left, StepsLeft, Running, Shape, TypeOK
<1>1. ASSUME NEW q \in Requests, HandlerStep(q) \/ RefuseSend(q)
      PROVE  Left(r)' <= Left(r) /\ (q = r => Left(r)' < Left(r))
  <2>1. ASSUME Finish(q), Running(q) PROVE Left(r)' <= Left(r) /\ (q = r => Left(r)' < Left(r))
    BY <2>1 DEF Finish
  <2>2. CASE CheckMember(q)
    <3>1. CASE Finish(q)
      BY <2>1, <2>2, <3>1 DEF CheckMember
    <3>2. CASE Goto(q, IF op[q] = "send" THEN "store" ELSE "load")
      BY <2>2, <3>2 DEF CheckMember, Goto
    <3>3. QED
      BY <2>2, <3>1, <3>2 DEF CheckMember
  <2>3. CASE LoadMessage(q) \/ MarkRead(q)
    <3>1. CASE Finish(q)
      BY <2>1, <2>3, <3>1 DEF LoadMessage, MarkRead
    <3>2. CASE LoadMessage(q) /\ Goto(q, IF op[q] = "read" THEN "cursor" ELSE "write")
      BY <3>2 DEF LoadMessage, Goto
    <3>3. CASE MarkRead(q) /\ Goto(q, "emit")
      BY <3>3 DEF MarkRead, Goto
    <3>4. QED
      BY <2>3, <3>1, <3>2, <3>3 DEF LoadMessage, MarkRead
  <2>4. CASE EnqueuePreview(q) \/ \E m \in Msgs : StoreMessage(q, m)
    <3>1. \/ pc[q] = "enqueue" /\ pc' = [pc EXCEPT ![q] = "cursor"]
          \/ pc[q] = "store" /\ \E step \in {"enqueue", "cursor"} : pc' = [pc EXCEPT ![q] = step]
      BY <2>4 DEF EnqueuePreview, Goto, StoreMessage
    <3>2. QED
      BY <3>1
  <2>5. CASE WriteEdit(q) \/ WriteDelete(q)
    <3>1. pc[q] = "write" /\ pc' = [pc EXCEPT ![q] = "emit"]
      BY <2>5 DEF WriteEdit, WriteDelete
    <3>2. QED
      BY <3>1
  <2>6. CASE Emit(q) \/ RefuseSend(q)
    BY <2>1, <2>6 DEF Emit, RefuseSend
  <2>7. QED
    BY <1>1, <2>2, <2>3, <2>4, <2>5, <2>6 DEF HandlerStep
<1>2. ASSUME NEW q \in Requests, Fail(q) PROVE Left(r)' <= Left(r)
  BY <1>2 DEF Fail, Finish
<1>3. ASSUME NEW q \in Requests, NEW step \in {"member", "load"}, NEW what, NEW u, NEW c, NEW m,
             NEW t, Begin(q, step, what, u, c, m, t)
      PROVE  Left(r)' <= Left(r)
  BY <1>3 DEF Begin
<1>4. ASSUME NEW q \in Requests, NEW u \in Users,
             \/ \E c \in Channels : \/ \E t \in Texts : StartSend(q, u, c, t)
                                    \/ \E m \in Msgs : StartRead(q, u, c, m)
             \/ \E m \in Msgs : StartDelete(q, u, m) \/ \E t \in Texts : StartEdit(q, u, m, t)
      PROVE  Left(r)' <= Left(r)
  BY <1>3, <1>4 DEF StartSend, StartRead, StartDelete, StartEdit
<1>5. ASSUME pc' = pc PROVE Left(r)' <= Left(r)
  BY <1>5
<1>6. ASSUME \/ \E m \in Msgs : JobStep(m) \/ JobFails(m)
             \/ Tick \/ (\E u \in Users, c \in Channels : Prune(u, c)) \/ UNCHANGED vars
      PROVE  Left(r)' <= Left(r)
  BY <1>5, <1>6 DEF JobStep, SavePreview, LoadForPreview, EmitPreview, JobFails, Tick, Prune, vars,
                    request
<1> HIDE DEF Left, StepsLeft, Running, Shape, TypeOK
<1>7. QED
  BY <1>1, <1>2, <1>4, <1>6 DEF Next

\* No step takes a job back further than its second attempt; its own steps take it on.
LEMMA JobAdvances ==
    ASSUME MaxRetries \in 0..1, Shape, FirstJob, NEW m \in Msgs, job[m] # "none"
    PROVE  /\ [Next]_vars => JobLeft(m)' <= JobLeft(m)
           /\ JobStep(m) => JobLeft(m)' < JobLeft(m)
<1> USE DEF JobLeft, JobStepsLeft, Shape, TypeOK
<1>1. ASSUME NEW k \in Msgs, JobStep(k)
      PROVE  JobLeft(m)' <= JobLeft(m) /\ (k = m => JobLeft(m)' < JobLeft(m))
  <2>1. CASE \E s \in {"READY", "FAILED"} : SavePreview(k, s)
    BY <2>1 DEF SavePreview
  <2>2. CASE LoadForPreview(k) \/ EmitPreview(k)
    BY <2>2 DEF LoadForPreview, EmitPreview
  <2>3. QED
    BY <1>1, <2>1, <2>2 DEF JobStep
<1>2. ASSUME NEW k \in Msgs, JobFails(k) PROVE JobLeft(m)' <= JobLeft(m)
  BY <1>2 DEF JobFails
<1>3. ASSUME NEW r \in Requests, EnqueuePreview(r) PROVE JobLeft(m)' <= JobLeft(m)
  <2>1. msg[r] # m
    BY <1>3, MessagingAssumption DEF EnqueuePreview, FirstJob, Carried, AllOps
  <2>2. job'[m] = job[m] /\ retries' = retries
    BY <1>3, <2>1 DEF EnqueuePreview
  <2>3. QED
    BY <2>2
<1>4. ASSUME UNCHANGED worker PROVE JobLeft(m)' <= JobLeft(m)
  BY <1>4 DEF worker
<1> HIDE DEF JobLeft, JobStepsLeft, Shape, TypeOK
<1>5. ASSUME NEW r \in Requests, HandlerStep(r) \/ RefuseSend(r) \/ Fail(r)
      PROVE  JobLeft(m)' <= JobLeft(m)
  BY <1>3, <1>4, <1>5 DEF HandlerStep, CheckMember, StoreMessage, MarkRead, LoadMessage,
                          WriteEdit, WriteDelete, Emit, RefuseSend, Fail
<1>6. ASSUME NEW r \in Requests, NEW u \in Users,
             \/ \E c \in Channels : \/ \E t \in Texts : StartSend(r, u, c, t)
                                    \/ \E k \in Msgs : StartRead(r, u, c, k)
             \/ \E k \in Msgs : StartDelete(r, u, k) \/ \E t \in Texts : StartEdit(r, u, k, t)
      PROVE  JobLeft(m)' <= JobLeft(m)
  BY <1>4, <1>6 DEF StartSend, StartRead, StartDelete, StartEdit
<1>7. ASSUME Tick \/ (\E u \in Users, c \in Channels : Prune(u, c)) \/ UNCHANGED vars
      PROVE  JobLeft(m)' <= JobLeft(m)
  BY <1>4, <1>7 DEF Tick, Prune, vars
<1>8. QED
  BY <1>1, <1>2, <1>5, <1>6, <1>7 DEF Next

\* A handler in its k-th step before the return gets beyond it.
Falls(r, k) == Left(r) = k ~> Left(r) < k

LEMMA Descends ==
    ASSUME NEW r \in Requests, NEW k \in 1..5
    PROVE  Spec /\ Attended(r) /\ [](Ready(r) => CanStep(r)) => Falls(r, k)
<1> DEFINE Step == HandlerStep(r) \/ RefuseSend(r)
<1>1. Shape /\ Left(r) = k => Running(r) /\ Ready(r)
  BY DEF Left, StepsLeft, Shape, TypeOK, Running, Ready, Carried, AllOps
<1>2. Shape /\ Shape' /\ Left(r) = k /\ [Next]_vars => (Left(r) = k)' \/ (Left(r) < k)'
  <2> SUFFICES ASSUME Shape, Shape', Left(r) = k, [Next]_vars PROVE Left(r)' = k \/ Left(r)' < k
    OBVIOUS
  <2>1. Left(r)' <= k
    BY <1>1, Advances
  <2>2. Left(r)' \in Nat
    BY DEF Left, StepsLeft, Shape, TypeOK
  <2>3. QED
    BY <2>1, <2>2
<1>3. Shape /\ Left(r) = k /\ <<Step>>_vars => (Left(r) < k)'
  BY <1>1, Advances
<1>4. QED
  BY <1>1, <1>2, <1>3, ShapeInvariance, PTL DEF Spec, Attended, CanStep, Falls

\* A handler the event loop goes on with returns.
LEMMA EachReturns ==
    ASSUME NEW r \in Requests
    PROVE  Spec /\ Attended(r) /\ [](Ready(r) => CanStep(r)) => Returns(r)
<1>1. Shape => /\ Running(r) => Left(r) \in 1..5
               /\ Left(r) \in Nat
               /\ Left(r) < 1 => ~Running(r)
  BY DEF Shape, TypeOK, Running, Left, StepsLeft
<1>2. Shape => /\ Running(r) => Left(r) = 5 \/ Left(r) < 5
               /\ Left(r) < 5 => Left(r) = 4 \/ Left(r) < 4
               /\ Left(r) < 4 => Left(r) = 3 \/ Left(r) < 3
               /\ Left(r) < 3 => Left(r) = 2 \/ Left(r) < 2
               /\ Left(r) < 2 => Left(r) = 1 \/ Left(r) < 1
               /\ Left(r) < 1 => ~Running(r)
  BY <1>1
<1>3. ASSUME NEW k \in 1..5
      PROVE  Spec /\ Attended(r) /\ [](Ready(r) => CanStep(r)) => Falls(r, k)
  BY <1>3, Descends
<1>4. Spec /\ Attended(r) /\ [](Ready(r) => CanStep(r)) =>
          Falls(r, 1) /\ Falls(r, 2) /\ Falls(r, 3) /\ Falls(r, 4) /\ Falls(r, 5)
  BY <1>3
<1>5. QED
  BY <1>2, <1>4, ShapeInvariance, PTL DEF Returns, Falls

\* The same for the jobs, which the code lets fail once.
JobFalls(m, k) == JobLeft(m) = k ~> JobLeft(m) < k

LEMMA JobDescends ==
    ASSUME MaxRetries \in 0..1, NEW m \in Msgs, NEW k \in 1..6
    PROVE  Spec /\ Worked(m) /\ [](job[m] # "none" => CanWork(m)) => JobFalls(m, k)
<1>1. Shape /\ JobLeft(m) = k => job[m] # "none"
  BY DEF JobLeft, JobStepsLeft, Shape, TypeOK
<1>2. /\ Shape /\ Shape' /\ FirstJob /\ JobLeft(m) = k /\ [Next]_vars
      => (JobLeft(m) = k)' \/ (JobLeft(m) < k)'
  <2> SUFFICES ASSUME Shape, Shape', FirstJob, JobLeft(m) = k, [Next]_vars
               PROVE  JobLeft(m)' = k \/ JobLeft(m)' < k
    OBVIOUS
  <2>1. JobLeft(m)' <= k
    BY <1>1, JobAdvances
  <2>2. JobLeft(m)' \in Nat
    BY DEF JobLeft, JobStepsLeft, Shape, TypeOK
  <2>3. QED
    BY <2>1, <2>2
<1>3. Shape /\ FirstJob /\ JobLeft(m) = k /\ <<JobStep(m)>>_vars => (JobLeft(m) < k)'
  BY <1>1, JobAdvances
<1>4. QED
  BY <1>1, <1>2, <1>3, ShapeInvariance, FirstJobInvariance, PTL
     DEF Spec, Worked, CanWork, JobFalls

LEMMA EachServed ==
    ASSUME MaxRetries \in 0..1, NEW m \in Msgs
    PROVE  Spec /\ Worked(m) /\ [](job[m] # "none" => CanWork(m)) => Served(m)
<1>1. Shape => /\ job[m] # "none" => JobLeft(m) \in 1..6
               /\ JobLeft(m) \in Nat
               /\ JobLeft(m) < 1 => job[m] = "none"
  BY DEF Shape, TypeOK, JobLeft, JobStepsLeft
<1>2. Shape => /\ job[m] # "none" => JobLeft(m) = 6 \/ JobLeft(m) < 6
               /\ JobLeft(m) < 6 => JobLeft(m) = 5 \/ JobLeft(m) < 5
               /\ JobLeft(m) < 5 => JobLeft(m) = 4 \/ JobLeft(m) < 4
               /\ JobLeft(m) < 4 => JobLeft(m) = 3 \/ JobLeft(m) < 3
               /\ JobLeft(m) < 3 => JobLeft(m) = 2 \/ JobLeft(m) < 2
               /\ JobLeft(m) < 2 => JobLeft(m) = 1 \/ JobLeft(m) < 1
               /\ JobLeft(m) < 1 => job[m] = "none"
  BY <1>1
<1>3. ASSUME NEW k \in 1..6
      PROVE  Spec /\ Worked(m) /\ [](job[m] # "none" => CanWork(m)) => JobFalls(m, k)
  BY <1>3, JobDescends
<1>4. Spec /\ Worked(m) /\ [](job[m] # "none" => CanWork(m)) =>
          /\ JobFalls(m, 1) /\ JobFalls(m, 2) /\ JobFalls(m, 3)
          /\ JobFalls(m, 4) /\ JobFalls(m, 5) /\ JobFalls(m, 6)
  BY <1>3
<1>5. QED
  BY <1>2, <1>4, ShapeInvariance, PTL DEF Served, JobFalls

\* Every handler returns and, with the two attempts the code gives a job (`attempts: 2`),
\* every link preview is announced or given up, however handlers overlap and fail.
THEOREM WorkFinishes ==
    ASSUME MaxRetries \in 0..1
    PROVE  FairSpec /\ []GuardsSuffice => WorkEnds
<1>1. ASSUME NEW r \in Requests
      PROVE  Spec /\ Attended(r) /\ []GuardsSuffice => Returns(r)
  <2>1. GuardsSuffice => (Ready(r) => CanStep(r))
    BY DEF GuardsSuffice
  <2>2. QED
    BY <2>1, EachReturns, PTL
<1>2. ASSUME NEW m \in Msgs
      PROVE  Spec /\ Worked(m) /\ []GuardsSuffice => Served(m)
  <2>1. GuardsSuffice => (job[m] # "none" => CanWork(m))
    BY DEF GuardsSuffice
  <2>2. QED
    BY <2>1, EachServed, PTL
<1>3. QED
  BY <1>1, <1>2 DEF FairSpec, WorkEnds
===============================================================================
