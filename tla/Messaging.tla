-------------------------------- MODULE Messaging --------------------------------
(***************************************************************************)
(* Messages: the message:send, message:edit, message:delete and channel:read  *)
(* handlers of ChatGateway with what MessagesService and ChannelsService do   *)
(* for them, the link-preview worker, and what a tab that stays in the room   *)
(* shows after MESSAGE_NEW and MESSAGE_UPDATED.                              *)
(*                                                                         *)
(* Every await is a point where other handlers run; each statement may fail,  *)
(* which ends its handler without an answer.  Events of one API process reach *)
(* the tab in the order they were emitted.                                   *)
(***************************************************************************)
EXTENDS Naturals, FiniteSets

CONSTANTS
    Users,       \* accounts
    Channels,    \* channels everybody is a member of at the start
    Msgs,        \* message ids; uuid never repeats one
    Texts,       \* contents a client sends
    Links,       \* those that contain a URL
    Blank,       \* the empty content of a deleted message
    None,        \* null, and a message or dto that is not there
    Requests,    \* handlers; a slot is reused when its handler returned
    Ops,         \* the events clients send: a subset of AllOps
    MaxClock,    \* bound on distinct createdAt values
    MaxRetries,  \* BullMQ attempts after the first (attempts: 2 allows one)
    MaxPrunes    \* bound on memberships removed by a login elsewhere

AllOps    == {"send", "edit", "delete", "read"}
Tombstone == "tombstone"   \* what a reader sees of a deleted message
Dtos      == [content : Texts \cup {Blank}, deleted : BOOLEAN,
              preview : {"none", "READY", "FAILED"}]

ASSUME MessagingAssumption ==
    /\ Links \subseteq Texts
    /\ Blank \notin Texts
    /\ None \notin Texts \cup Users \cup Channels \cup Msgs \cup Dtos \cup AllOps \cup {Blank}
    /\ Tombstone \notin Texts \cup {Blank, None}
    /\ Ops \subseteq AllOps
    /\ MaxClock \in Nat \ {0} /\ MaxRetries \in Nat /\ MaxPrunes \in Nat

VARIABLES
    createdAt, author, channel,   \* Message table; createdAt is 0 without a row
    content, edited, deleted,     \* the columns edit and delete write
    writer,      \* history: who last wrote each message
    preview,     \* LinkPreview table: "none" or its status
    memberOf,    \* ChannelMember table: the channels of each user
    lastRead,    \* ChannelMember.lastReadMessageId, with lastReadAt beside it
    lastReadAt,  \* 0 when null
    clock,       \* the database clock, in the resolution of TIMESTAMP(3)
    pc, op, who, chan, msg, text,  \* the handlers: where each stands and its input
    reply,       \* the dto a handler is about to emit and acknowledge
    late,        \* history: was the message deleted when the handler started?
    job,         \* link-preview job of each message: where the worker stands
    retries,     \* failed attempts of the job
    snap,        \* the dto the worker is about to emit
    shown,       \* the dto the tab shows, None before MESSAGE_NEW
    dropped,     \* history: messages whose change was committed and never emitted
    raced,       \* history: messages on which a handler overlapped with something else
    prunes       \* memberships removed so far

rows    == <<createdAt, author, channel, content, edited, deleted, writer>>
cursors == <<memberOf, lastRead, lastReadAt>>
request == <<pc, op, who, chan, msg, text, reply, late>>
worker  == <<job, retries, snap>>
vars    == <<rows, preview, cursors, clock, request, worker, shown, dropped, raced, prunes>>

Exists(m)  == createdAt[m] # 0
Running(r) == pc[r] # "idle"
Handled(m) == \E r \in Requests : op[r] \in {"send", "edit", "delete"} /\ msg[r] = m
Quiet      == (\A r \in Requests : ~Running(r)) /\ \A m \in Msgs : job[m] = "none"

-------------------------------------------------------------------------------
(* Decisions of the handlers *)

\* toMessageDto: a deleted message is sent without its preview.
Dto(text_, gone, status) ==
    [content |-> text_, deleted |-> gone, preview |-> IF gone THEN "none" ELSE status]

DtoOf(m) == Dto(content[m], deleted[m], preview[m])

\* Mutant: anybody's message can be deleted.
MayDelete_Any(m, u) == Exists(m)

\* handleMessageEdit, handleMessageDelete: the checks on the row that was loaded
MayEdit(m, u)   == Exists(m) /\ author[m] = u /\ ~deleted[m]
MayDelete(m, u) == Exists(m) /\ author[m] = u

\* Mutant: the channel of the message is not compared.
MayMarkRead_Any(m, c) == Exists(m)

\* handleChannelRead: `!message || message.channelId !== channelId` is false
MayMarkRead(m, c) == Exists(m) /\ channel[m] = c

\* Mutant: the content is left in the row.
Emptied_Kept(old) == old

\* softDelete: content is emptied
Emptied(old) == Blank

\* Mutant: the preview the tab already has is kept.
Updated_Merged(old, dto) == IF old = None THEN None ELSE [dto EXCEPT !.preview = old.preview]

\* updateMessageInCache: a message the tab does not have is left out
Updated(old, dto) == IF old = None THEN None ELSE dto

Init ==
    /\ createdAt = [m \in Msgs |-> 0]
    /\ author = [m \in Msgs |-> None]
    /\ channel = [m \in Msgs |-> None]
    /\ writer = [m \in Msgs |-> None]
    /\ content = [m \in Msgs |-> Blank]
    /\ edited = [m \in Msgs |-> FALSE]
    /\ deleted = [m \in Msgs |-> FALSE]
    /\ preview = [m \in Msgs |-> "none"]
    /\ memberOf = [u \in Users |-> Channels]
    /\ lastRead = [u \in Users |-> [c \in Channels |-> None]]
    /\ lastReadAt = [u \in Users |-> [c \in Channels |-> 0]]
    /\ clock = 1
    /\ pc = [r \in Requests |-> "idle"]
    /\ op = [r \in Requests |-> None]
    /\ who = [r \in Requests |-> None]
    /\ chan = [r \in Requests |-> None]
    /\ msg = [r \in Requests |-> None]
    /\ text = [r \in Requests |-> None]
    /\ reply = [r \in Requests |-> None]
    /\ late = [r \in Requests |-> FALSE]
    /\ job = [m \in Msgs |-> "none"]
    /\ retries = [m \in Msgs |-> 0]
    /\ snap = [m \in Msgs |-> None]
    /\ shown = [m \in Msgs |-> None]
    /\ dropped = {}
    /\ raced = {}
    /\ prunes = 0

Goto(r, step) == /\ pc' = [pc EXCEPT ![r] = step]
                 /\ UNCHANGED <<op, who, chan, msg, text, reply, late>>

Begin(r, step, what, u, c, m, t) ==
    /\ ~Running(r) /\ what \in Ops
    /\ pc' = [pc EXCEPT ![r] = step]
    /\ op' = [op EXCEPT ![r] = what]
    /\ who' = [who EXCEPT ![r] = u]
    /\ chan' = [chan EXCEPT ![r] = c]
    /\ msg' = [msg EXCEPT ![r] = m]
    /\ text' = [text EXCEPT ![r] = t]
    /\ late' = [late EXCEPT ![r] = m # None /\ deleted[m]]
    /\ UNCHANGED reply

\* The handler returns (an acknowledgement, an error or an exception).
Finish(r) ==
    /\ pc' = [pc EXCEPT ![r] = "idle"]
    /\ op' = [op EXCEPT ![r] = None]
    /\ who' = [who EXCEPT ![r] = None]
    /\ chan' = [chan EXCEPT ![r] = None]
    /\ msg' = [msg EXCEPT ![r] = None]
    /\ text' = [text EXCEPT ![r] = None]
    /\ reply' = [reply EXCEPT ![r] = None]
    /\ late' = [late EXCEPT ![r] = FALSE]

-------------------------------------------------------------------------------
(* The handlers *)

\* Something else is at work on a message: another handler, or the worker.
Contended(m) == Handled(m) \/ job[m] # "none"

StartSend(r, u, c, t) ==
    /\ Begin(r, "member", "send", u, c, None, t)
    /\ UNCHANGED <<rows, preview, cursors, clock, worker, shown, dropped, raced, prunes>>

StartEdit(r, u, m, t) ==
    /\ Exists(m)
    /\ Begin(r, "load", "edit", u, None, m, t)
    /\ raced' = IF Contended(m) THEN raced \cup {m} ELSE raced
    /\ UNCHANGED <<rows, preview, cursors, clock, worker, shown, dropped, prunes>>

StartDelete(r, u, m) ==
    /\ Exists(m)
    /\ Begin(r, "load", "delete", u, None, m, None)
    /\ raced' = IF Contended(m) THEN raced \cup {m} ELSE raced
    /\ UNCHANGED <<rows, preview, cursors, clock, worker, shown, dropped, prunes>>

StartRead(r, u, c, m) ==
    /\ Exists(m)
    /\ Begin(r, "member", "read", u, c, m, None)
    /\ UNCHANGED <<rows, preview, cursors, clock, worker, shown, dropped, raced, prunes>>

\* send, read: isMember
CheckMember(r) ==
    /\ pc[r] = "member"
    /\ \/ /\ chan[r] \in memberOf[who[r]]
          /\ Goto(r, IF op[r] = "send" THEN "store" ELSE "load")
       \/ chan[r] \notin memberOf[who[r]] /\ Finish(r)
    /\ UNCHANGED <<rows, preview, cursors, clock, worker, shown, dropped, raced, prunes>>

\* send: an attachment is not in storage, or GLPI is unreachable.
RefuseSend(r) ==
    /\ pc[r] = "store"
    /\ Finish(r)
    /\ UNCHANGED <<rows, preview, cursors, clock, worker, shown, dropped, raced, prunes>>

\* send: MessagesService.create inserts the row; its answer is what will be emitted.
StoreMessage(r, m) ==
    /\ pc[r] = "store"
    /\ ~Exists(m)
    /\ createdAt' = [createdAt EXCEPT ![m] = clock]
    /\ author' = [author EXCEPT ![m] = who[r]]
    /\ writer' = [writer EXCEPT ![m] = who[r]]
    /\ channel' = [channel EXCEPT ![m] = chan[r]]
    /\ content' = [content EXCEPT ![m] = text[r]]
    /\ msg' = [msg EXCEPT ![r] = m]
    /\ reply' = [reply EXCEPT ![r] = Dto(text[r], FALSE, "none")]
    /\ pc' = [pc EXCEPT ![r] = IF text[r] \in Links THEN "enqueue" ELSE "cursor"]
    /\ UNCHANGED <<edited, deleted, preview, cursors, clock, op, who, chan, text, late,
                   worker, shown, dropped, raced, prunes>>

\* send: linkPreviewQueue.add
EnqueuePreview(r) ==
    /\ pc[r] = "enqueue"
    /\ job' = [job EXCEPT ![msg[r]] = "queued"]
    /\ Goto(r, "cursor")
    /\ UNCHANGED <<rows, preview, cursors, clock, retries, snap, shown, dropped, raced, prunes>>

\* send, read: markRead; without the membership row the update throws.
MarkRead(r) ==
    /\ pc[r] = "cursor"
    /\ \/ /\ chan[r] \in memberOf[who[r]]
          /\ lastRead' = [lastRead EXCEPT ![who[r]][chan[r]] = msg[r]]
          /\ lastReadAt' = [lastReadAt EXCEPT ![who[r]][chan[r]] = createdAt[msg[r]]]
          /\ IF op[r] = "send" THEN Goto(r, "emit") ELSE Finish(r)
          /\ UNCHANGED dropped
       \/ /\ chan[r] \notin memberOf[who[r]]
          /\ Finish(r)
          /\ dropped' = dropped \cup (IF op[r] = "send" THEN {msg[r]} ELSE {})
          /\ UNCHANGED <<lastRead, lastReadAt>>
    /\ UNCHANGED <<rows, preview, memberOf, clock, worker, shown, raced, prunes>>

\* edit, delete, read: getById and the checks on what it returned.
Allowed(r) ==
    \/ op[r] = "edit"   /\ MayEdit(msg[r], who[r])
    \/ op[r] = "delete" /\ MayDelete(msg[r], who[r])
    \/ op[r] = "read"   /\ MayMarkRead(msg[r], chan[r])

LoadMessage(r) ==
    /\ pc[r] = "load"
    /\ \/ Allowed(r) /\ Goto(r, IF op[r] = "read" THEN "cursor" ELSE "write")
       \/ ~Allowed(r) /\ Finish(r)
    /\ UNCHANGED <<rows, preview, cursors, clock, worker, shown, dropped, raced, prunes>>

\* edit, delete: MessagesService.update and softDelete, unconditional by id.
WriteEdit(r) ==
    LET m == msg[r]
    IN  /\ pc[r] = "write" /\ op[r] = "edit"
        /\ content' = [content EXCEPT ![m] = text[r]]
        /\ edited' = [edited EXCEPT ![m] = TRUE]
        /\ writer' = [writer EXCEPT ![m] = who[r]]
        /\ reply' = [reply EXCEPT ![r] = Dto(text[r], deleted[m], preview[m])]
        /\ pc' = [pc EXCEPT ![r] = "emit"]
        /\ UNCHANGED <<createdAt, author, channel, deleted, preview, cursors, clock, op, who,
                       chan, msg, text, late, worker, shown, dropped, raced, prunes>>

WriteDelete(r) ==
    LET m == msg[r]
    IN  /\ pc[r] = "write" /\ op[r] = "delete"
        /\ content' = [content EXCEPT ![m] = Emptied(@)]
        /\ deleted' = [deleted EXCEPT ![m] = TRUE]
        /\ writer' = [writer EXCEPT ![m] = who[r]]
        /\ reply' = [reply EXCEPT ![r] = Dto(Emptied(content[m]), TRUE, preview[m])]
        /\ pc' = [pc EXCEPT ![r] = "emit"]
        /\ UNCHANGED <<createdAt, author, channel, edited, preview, cursors, clock, op, who,
                       chan, msg, text, late, worker, shown, dropped, raced, prunes>>

\* MESSAGE_NEW or MESSAGE_UPDATED to the room, then the acknowledgement.
Emit(r) ==
    /\ pc[r] = "emit"
    /\ shown' = [shown EXCEPT ![msg[r]] =
                    IF op[r] = "send" THEN reply[r] ELSE Updated(@, reply[r])]
    /\ Finish(r)
    /\ UNCHANGED <<rows, preview, cursors, clock, worker, dropped, raced, prunes>>

HandlerStep(r) ==
    \/ CheckMember(r) \/ (\E m \in Msgs : StoreMessage(r, m)) \/ EnqueuePreview(r)
    \/ MarkRead(r) \/ LoadMessage(r) \/ WriteEdit(r) \/ WriteDelete(r) \/ Emit(r)

\* A statement fails or its answer is lost: the handler ends without emitting.
Fail(r) ==
    /\ Running(r)
    /\ dropped' = dropped \cup (IF reply[r] # None THEN {msg[r]} ELSE {})
    /\ Finish(r)
    /\ UNCHANGED <<rows, preview, cursors, clock, worker, shown, raced, prunes>>

-------------------------------------------------------------------------------
(* The link-preview worker *)

\* LinkPreviewProcessor: the page was fetched (or not) and the preview upserted.
SavePreview(m, status) ==
    /\ job[m] = "queued"
    /\ raced' = IF Handled(m) THEN raced \cup {m} ELSE raced
    /\ preview' = [preview EXCEPT ![m] = status]
    /\ job' = [job EXCEPT ![m] = "load"]
    /\ UNCHANGED <<rows, cursors, clock, request, retries, snap, shown, dropped, prunes>>

\* LinkPreviewProcessor: getById
LoadForPreview(m) ==
    /\ job[m] = "load"
    /\ snap' = [snap EXCEPT ![m] = DtoOf(m)]
    /\ job' = [job EXCEPT ![m] = "emit"]
    /\ UNCHANGED <<rows, preview, cursors, clock, request, retries, shown, dropped, raced, prunes>>

\* LinkPreviewProcessor: MESSAGE_UPDATED to the room.
EmitPreview(m) ==
    /\ job[m] = "emit"
    /\ shown' = [shown EXCEPT ![m] = Updated(@, snap[m])]
    /\ job' = [job EXCEPT ![m] = "none"]
    /\ snap' = [snap EXCEPT ![m] = None]
    /\ UNCHANGED <<rows, preview, cursors, clock, request, retries, dropped, raced, prunes>>

\* Mutant: the attempts are not counted.
JobFails_Uncounted(m) ==
    /\ job[m] \in {"queued", "load"}
    /\ job' = [job EXCEPT ![m] = "queued"]
    /\ UNCHANGED <<rows, preview, cursors, clock, request, retries, snap, shown, dropped, raced, prunes>>

\* The job throws: BullMQ runs it again from the start, or gives it up.
JobFails(m) ==
    /\ job[m] \in {"queued", "load"}
    /\ \/ /\ retries[m] < MaxRetries
          /\ retries' = [retries EXCEPT ![m] = @ + 1]
          /\ job' = [job EXCEPT ![m] = "queued"]
          /\ UNCHANGED dropped
       \/ /\ retries[m] >= MaxRetries
          /\ job' = [job EXCEPT ![m] = "none"]
          /\ dropped' = dropped \cup (IF preview[m] # "none" THEN {m} ELSE {})
          /\ UNCHANGED retries
    /\ UNCHANGED <<rows, preview, cursors, clock, request, snap, shown, raced, prunes>>

JobStep(m) == (\E s \in {"READY", "FAILED"} : SavePreview(m, s)) \/ LoadForPreview(m)
                \/ EmitPreview(m)

\* The clock moves on to the next millisecond.
Tick ==
    /\ clock < MaxClock
    /\ clock' = clock + 1
    /\ UNCHANGED <<rows, preview, cursors, request, worker, shown, dropped, raced, prunes>>

\* A login on another device takes the user out of a channel (ChannelSync).
Prune(u, c) ==
    /\ prunes < MaxPrunes
    /\ c \in memberOf[u]
    /\ memberOf' = [memberOf EXCEPT ![u] = @ \ {c}]
    /\ lastRead' = [lastRead EXCEPT ![u][c] = None]
    /\ lastReadAt' = [lastReadAt EXCEPT ![u][c] = 0]
    /\ prunes' = prunes + 1
    /\ UNCHANGED <<rows, preview, clock, request, worker, shown, dropped, raced>>

Next ==
    \/ \E r \in Requests, u \in Users :
          \/ \E c \in Channels : \/ \E t \in Texts : StartSend(r, u, c, t)
                                 \/ \E m \in Msgs : StartRead(r, u, c, m)
          \/ \E m \in Msgs : StartDelete(r, u, m) \/ \E t \in Texts : StartEdit(r, u, m, t)
    \/ \E r \in Requests : HandlerStep(r) \/ RefuseSend(r) \/ Fail(r)
    \/ \E m \in Msgs : JobStep(m) \/ JobFails(m)
    \/ Tick
    \/ \E u \in Users, c \in Channels : Prune(u, c)

\* The event loop goes on with every handler and the worker with every job.
Attended(r) == WF_vars(HandlerStep(r) \/ RefuseSend(r))
Worked(m)   == WF_vars(JobStep(m))
Spec        == Init /\ [][Next]_vars
FairSpec    == Spec /\ (\A r \in Requests : Attended(r)) /\ \A m \in Msgs : Worked(m)

-------------------------------------------------------------------------------
(* Properties *)

\* Types of the tables, the handlers, the jobs and what the tab shows.
TypeOK ==
    /\ createdAt \in [Msgs -> Nat]
    /\ author \in [Msgs -> Users \cup {None}] /\ writer \in [Msgs -> Users \cup {None}]
    /\ channel \in [Msgs -> Channels \cup {None}]
    /\ content \in [Msgs -> Texts \cup {Blank}]
    /\ edited \in [Msgs -> BOOLEAN] /\ deleted \in [Msgs -> BOOLEAN]
    /\ preview \in [Msgs -> {"none", "READY", "FAILED"}]
    /\ memberOf \in [Users -> SUBSET Channels]
    /\ lastRead \in [Users -> [Channels -> Msgs \cup {None}]]
    /\ lastReadAt \in [Users -> [Channels -> Nat]]
    /\ clock \in Nat \ {0}
    /\ pc \in [Requests -> {"idle", "member", "store", "enqueue", "cursor", "load", "write",
                            "emit"}]
    /\ op \in [Requests -> AllOps \cup {None}]
    /\ who \in [Requests -> Users \cup {None}]
    /\ chan \in [Requests -> Channels \cup {None}]
    /\ msg \in [Requests -> Msgs \cup {None}]
    /\ text \in [Requests -> Texts \cup {None}]
    /\ reply \in [Requests -> Dtos \cup {None}]
    /\ late \in [Requests -> BOOLEAN]
    /\ job \in [Msgs -> {"none", "queued", "load", "emit"}]
    /\ retries \in [Msgs -> Nat]
    /\ snap \in [Msgs -> Dtos \cup {None}] /\ shown \in [Msgs -> Dtos \cup {None}]
    /\ dropped \subseteq Msgs /\ raced \subseteq Msgs
    /\ prunes \in Nat

\* "soft delete - a mensagem e esvaziada, nao removida": a deleted message has no content.
\* Not kept by update(), which does not repeat the check its handler made an await earlier.
DeletedIsEmpty == \A m \in Msgs : deleted[m] => content[m] = Blank

\* What is left of it: a deleted message has content only if a handler raced another
\* one, or the worker, on it.
DeletedIsEmptyUnlessRaced == \A m \in Msgs \ raced : deleted[m] => content[m] = Blank

\* "Cannot edit a deleted message": an edit that starts after the message was deleted
\* never gets to write, whatever overlaps it.
LateEditRefused ==
    \A r \in Requests : op[r] = "edit" /\ late[r] => pc[r] \notin {"write", "emit"}

\* A read cursor points into its own channel, at a row, with that row's time beside it.
CursorPointsHome ==
    \A u \in Users, c \in Channels :
        LET m == lastRead[u][c]
        IN  IF m = None THEN lastReadAt[u][c] = 0
            ELSE channel[m] = c /\ lastReadAt[u][c] = createdAt[m] /\ createdAt[m] # 0

\* "a user's own outgoing message would show up as 1 unread": when no handler runs,
\* nobody has an announced message of their own among the unread ones.  Not kept by two
\* overlapping sends of one user, whose markRead calls may arrive in the other order.
OwnMessageRead ==
    Quiet => \A m \in Msgs :
        shown[m] # None /\ ~deleted[m] /\ channel[m] \in memberOf[author[m]]
            => createdAt[m] <= lastReadAt[author[m]][channel[m]]

\* Whenever nothing is in progress, a tab that stayed in the room shows every message
\* as the database has it, but for changes whose broadcast was lost and for messages on
\* which a handler raced another one or the worker (which may announce the preview of a
\* message before the message, or an old version after a new one).
TabsConvergeUnlessRaced ==
    Quiet => \A m \in Msgs \ (dropped \cup raced) : shown[m] # None => shown[m] = DtoOf(m)

\* Every handler returns and every link-preview job is done or given up.
Returns(r) == Running(r) ~> ~Running(r)
Served(m)  == job[m] # "none" ~> job[m] = "none"
WorkEnds   == (\A r \in Requests : Returns(r)) /\ \A m \in Msgs : Served(m)

\* What MessageItem renders: the content, or the tombstone of a deleted message.
Visible == [m \in Msgs |-> IF ~Exists(m) THEN None
                           ELSE IF deleted[m] THEN Tombstone ELSE content[m]]
Log == INSTANCE MessageLog WITH Absent <- None, owner <- author, by <- writer,
                                visible <- Visible

\* Readers are promised a message log: a message appears once, only its author changes
\* it and a removed one never comes back, even when an edit overtakes a delete.
LogSpec == Log!Spec
===============================================================================
