----------------------------- MODULE Integrations -----------------------------
(* The API's two integrations: Tactical RMM delivers alerts, which become     *)
(* messages of a channel and, from a severity on, tickets of GLPI; GLPI tells *)
(* of its tickets' changes, and the API reads the new status back. Every      *)
(* request is a process that other requests overtake at each of its awaits.   *)
(* All calls to GLPI share one cached session token. Channels, members and    *)
(* the sender's read cursor are Messaging's; here a message is what it is     *)
(* about (an alert or a user's /ticket command), its ticket and its status.   *)
EXTENDS Integers, FiniteSets, Sequences

CONSTANTS Alerts,       \* the alert ids of Tactical RMM
          Commands,     \* the /ticket messages users send, each once
          Severities,   \* the severities alerts are delivered with
          Threshold,    \* RMM_AUTO_TICKET_SEVERITY, a severity or "off"
          Codes,        \* the status codes GLPI gives tickets
          MaxAtOnce,    \* bound: requests under way at a time
          MaxRequests,  \* bound: requests in one behaviour
          MaxChanges,   \* bound: status changes in GLPI
          MaxMishaps    \* bound: expiring sessions, failing calls, restarts

SEVERITY_RANK == [info |-> 0, warning |-> 1, error |-> 2]

ASSUME IntegrationsAssumption ==
    /\ Severities \subseteq DOMAIN SEVERITY_RANK
    /\ Threshold \in DOMAIN SEVERITY_RANK \cup {"off"}
    /\ Alerts \cap Commands = {}
    /\ MaxAtOnce \in Nat
    /\ Codes \subseteq Nat \ {0}

VARIABLES req,           \* the requests under way: their handlers' state
          sessionToken,  \* the token the API holds, 0 before the first
          sessions,      \* the tokens GLPI accepts
          issued,        \* how many tokens GLPI has given out
          tickets,       \* GLPI's tickets: what each is about, its status code
          due,           \* tickets whose change GLPI has yet to tell of
          messages,      \* the stored messages, with their TicketRef
          ref,           \* RmmAlertRef.messageId of each alert, 0 if no row
          resolved,      \* alerts whose RmmAlertRef is resolved
          room,          \* per message: the status the clients last got
          delivered,     \* history: alerts and commands that arrived
          crossed,       \* history: subjects with two requests at a time
          troubled,      \* history: subjects one of whose requests failed
          lapsed,        \* history: requests whose latest token expired unused
          bounds         \* history: requests, changes and mishaps so far

arrivals == <<delivered, crossed>>
glpi == <<tickets, due>>
session == <<sessionToken, sessions, issued, lapsed>>
store == <<messages, ref, resolved>>
vars == <<req, arrivals, glpi, session, store, room, troubled, bounds>>

Requests == 1 .. MaxAtOnce
Subjects == Alerts \cup Commands
Steps == {"free", "token", "init", "send", "answer", "store", "track",
          "update", "reload", "emit"}
Purged == 0          \* the code of a ticket GLPI no longer has
Unseen == "unseen"
Free == [kind |-> "free", about |-> "nothing", pc |-> "free", token |-> 0,
         renewed |-> FALSE, ans |-> "none", ticket |-> 0, msg |-> 0,
         dto |-> Unseen]

TypeOK ==
    /\ \A r \in Requests :
          /\ req[r].kind \in {"free", "alert", "resolve", "ticket", "command"}
          /\ req[r].pc \in Steps
          /\ req[r].kind # "free" => req[r].about \in Subjects
          /\ req[r].ticket \in 0 .. Len(tickets)
          /\ req[r].msg \in 0 .. Len(messages)
    /\ sessionToken \in 0 .. issued /\ sessions \subseteq 1 .. issued
    /\ due \subseteq 1 .. Len(tickets)
    /\ ref \in [Alerts -> 0 .. Len(messages)]
    /\ \A a \in resolved : ref[a] # 0
    /\ Len(room) = Len(messages)

Init ==
    /\ req = [r \in Requests |-> Free]
    /\ sessionToken = 0 /\ sessions = {} /\ issued = 0
    /\ tickets = <<>> /\ due = {}
    /\ messages = <<>> /\ ref = [a \in Alerts |-> 0] /\ resolved = {}
    /\ room = <<>>
    /\ delivered = {} /\ crossed = {} /\ troubled = {} /\ lapsed = {}
    /\ bounds = [requests |-> 0, changes |-> 0, mishaps |-> 0]

Active(r) == req[r].pc # "free"

\* The request after its call to GLPI, which needs its token no more.
Called(r, pc, ans) ==
    [req[r] EXCEPT !.pc = pc, !.token = 0, !.renewed = FALSE, !.ans = ans]

shouldAutoTicket(severity) ==
    /\ Threshold # "off"
    /\ SEVERITY_RANK[severity] >= SEVERITY_RANK[Threshold]

GLPI_STATUS_LABELS ==
    <<"New", "Processing", "Processing", "Pending", "Solved", "Closed">>

\* The labels of unknown codes, `Status ${code}`, are one label here.
mapGlpiStatus(code) ==
    IF code \in DOMAIN GLPI_STATUS_LABELS THEN GLPI_STATUS_LABELS[code]
    ELSE IF code = 10 THEN "Approval" ELSE "Status"

Mishap ==
    /\ bounds.mishaps < MaxMishaps
    /\ bounds' = [bounds EXCEPT !.mishaps = @ + 1]

-------------------------------------------------------------------------------
(* Requests arrive: each does its first read, which decides what it will do   *)

Arrive(kind, about) ==
    /\ bounds.requests < MaxRequests
    /\ bounds' = [bounds EXCEPT !.requests = @ + 1]
    /\ delivered' = IF kind \in {"alert", "command"} THEN delivered \cup {about}
                    ELSE delivered
    /\ crossed' = IF \E q \in Requests : req[q].about = about
                  THEN crossed \cup {about} ELSE crossed
    /\ UNCHANGED <<session, store, room, troubled>>

\* The request goes on at pc, in a handler of its own.
GoOn(kind, about, pc, ticket, msg) ==
    \E r \in Requests :
        /\ req[r].pc = "free" /\ \A q \in 1 .. r - 1 : Active(q)
        /\ req' = [req EXCEPT ![r] =
                     [Free EXCEPT !.kind = kind, !.about = about, !.pc = pc,
                                  !.ticket = ticket, !.msg = msg]]

\* Mutant: the handler goes on although the alert is tracked already.
existingRef_Unread(a) == FALSE

\* Mutant: a resolution is taken for one of a tracked alert.
existingRef_Assumed(a) == TRUE

existingRef(a) == ref[a] # 0

handleAlertWebhook(a, severity) ==
    /\ Arrive("alert", a)
    /\ IF existingRef(a) THEN UNCHANGED req
       ELSE GoOn("alert", a,
                 IF shouldAutoTicket(severity) THEN "token" ELSE "store", 0, 0)
    /\ UNCHANGED glpi

\* A resolution of an alert that was never tracked is ignored.
handleResolved(a) ==
    /\ Arrive("resolve", a)
    /\ IF ~existingRef(a) THEN UNCHANGED req
       ELSE GoOn("resolve", a, "update", 0, ref[a])
    /\ UNCHANGED glpi

\* A user's /ticket message; the sender's membership is Messaging's.
handleMessageSend(c) ==
    /\ c \notin delivered
    /\ Arrive("command", c)
    /\ GoOn("command", c, "token", 0, 0)
    /\ UNCHANGED glpi

\* GLPI tells of a change; a ticket no message refers to is answered with 404.
handleTicketWebhook(t) ==
    /\ t \in due
    /\ due' = due \ {t}
    /\ Arrive("ticket", tickets[t].about)
    /\ LET refs == {m \in DOMAIN messages : messages[m].ticket = t}
       IN IF refs = {} THEN UNCHANGED req
          ELSE \E m \in refs : GoOn("ticket", tickets[t].about, "token", t, m)
    /\ UNCHANGED tickets

-------------------------------------------------------------------------------
(* A call to GLPI: withSession around createTicket or getTicket               *)

UseSession(r) ==
    /\ req[r].pc = "token"
    /\ req' = [req EXCEPT ![r].pc = IF sessionToken = 0 THEN "init" ELSE "send",
                          ![r].token = sessionToken]
    /\ UNCHANGED <<arrivals, glpi, session, store, room, troubled, bounds>>

\* The tokens that matter: the cached one and those of calls under way.
Held == {sessionToken} \cup {req[r].token : r \in {q \in Requests : Active(q)}}

\* Mutant: the retry sends the token it had.
FreshToken_Same(r) == IF req[r].renewed THEN req[r].token ELSE issued + 1

FreshToken(r) == issued + 1

initSession(r) ==
    /\ req[r].pc = "init"
    /\ issued' = issued + 1
    /\ sessions' = (sessions \cap Held) \cup {issued + 1}
    /\ sessionToken' = issued + 1
    /\ lapsed' = lapsed \ {r}
    /\ req' = [req EXCEPT ![r].pc = "send", ![r].token = FreshToken(r)]
    /\ UNCHANGED <<arrivals, glpi, store, room, troubled, bounds>>

\* GLPI serves the request: a new ticket, a ticket's status, or a refusal.
GlpiServes(r) ==
    /\ req[r].pc = "send"
    /\ \/ /\ req[r].token \notin sessions
          /\ req' = [req EXCEPT ![r].pc = "answer", ![r].ans = "unauthorised"]
          /\ UNCHANGED tickets
       \/ /\ req[r].token \in sessions /\ req[r].kind # "ticket"
          /\ tickets' = Append(tickets, [about |-> req[r].about, code |-> 1])
          /\ req' = [req EXCEPT ![r].pc = "answer", ![r].ans = "created",
                                ![r].ticket = Len(tickets) + 1]
       \/ /\ req[r].token \in sessions /\ req[r].kind = "ticket"
          /\ LET code == tickets[req[r].ticket].code
             IN req' = [req EXCEPT ![r].pc = "answer", ![r].ans =
                           IF code = Purged THEN "gone" ELSE mapGlpiStatus(code)]
          /\ UNCHANGED tickets
    /\ UNCHANGED <<arrivals, due, session, store, room, troubled, bounds>>

\* GlpiUnavailableError: an alert is announced without a ticket, a command
\* gets an error, the webhook a 502.
Unavailable(r) ==
    /\ req' = [req EXCEPT ![r] =
                 IF req[r].kind = "alert"
                 THEN [Called(r, "store", "none") EXCEPT !.ticket = 0] ELSE Free]
    /\ troubled' = troubled \cup {req[r].about}

GlpiAnswered(r) ==
    /\ req[r].pc = "answer"
    /\ \/ /\ req[r].ans = "unauthorised" /\ ~req[r].renewed
          /\ req' = [req EXCEPT ![r].pc = "init", ![r].renewed = TRUE]
          /\ UNCHANGED troubled
       \/ /\ req[r].ans = "unauthorised" /\ req[r].renewed
          /\ Unavailable(r)
       \/ /\ req[r].ans = "created"
          /\ req' = [req EXCEPT ![r] = Called(r, "store", "none")]
          /\ UNCHANGED troubled
       \/ /\ req[r].ans = "gone"
          /\ req' = [req EXCEPT ![r] = Free]
          /\ UNCHANGED troubled
       \/ /\ req[r].ans \notin {"unauthorised", "created", "gone"}
          /\ req' = [req EXCEPT ![r] = Called(r, "update", req[r].ans)]
          /\ UNCHANGED troubled
    /\ UNCHANGED <<arrivals, glpi, session, store, room, bounds>>

\* The call fails or times out, before GLPI served it or after.
GlpiFails(r) ==
    /\ req[r].pc \in {"init", "send", "answer"}
    /\ Mishap
    /\ Unavailable(r)
    /\ UNCHANGED <<arrivals, glpi, session, store, room>>

-------------------------------------------------------------------------------
(* The database and the channel's room                                        *)

\* What changes in what toMessageDto makes of message m: its ticket's status.
\* MESSAGE_INCLUDE loads no RmmAlertRef: an alert's state is no part of it.
Dto(m) == messages[m].status

\* createTicketMessage and createSystemMessage: the row with its TicketRef.
StoreMessage(r) ==
    /\ req[r].pc = "store"
    /\ LET status == IF req[r].ticket = 0 THEN "none" ELSE mapGlpiStatus(1)
       IN /\ messages' = Append(messages, [about |-> req[r].about,
                                           ticket |-> req[r].ticket,
                                           status |-> status])
          /\ req' = [req EXCEPT
                ![r].pc = IF req[r].kind = "alert" THEN "track" ELSE "emit",
                ![r].msg = Len(messages) + 1,
                ![r].dto = status]
    /\ room' = Append(room, Unseen)
    /\ UNCHANGED <<arrivals, glpi, session, ref, resolved, troubled, bounds>>

\* Mutant: the alert id is not unique in the table, so a second row is made.
Tracked_NotUnique(a) == FALSE

Tracked(a) == ref[a] # 0

\* RmmAlertRef.create: a row for the same alert makes it throw.
trackAndBroadcast(r) ==
    /\ req[r].pc = "track"
    /\ IF Tracked(req[r].about)
       THEN /\ req' = [req EXCEPT ![r] = Free]
            /\ UNCHANGED ref
       ELSE /\ req' = [req EXCEPT ![r].pc = "reload"]
            /\ ref' = [ref EXCEPT ![req[r].about] = req[r].msg]
    /\ UNCHANGED <<arrivals, glpi, session, messages, resolved, room, troubled,
                   bounds>>

NewStatus(r) == req[r].ans

UpdateRef(r) ==
    /\ req[r].pc = "update"
    /\ req' = [req EXCEPT ![r].pc = "reload", ![r].ans = "none"]
    /\ IF req[r].kind = "resolve"
       THEN /\ resolved' = resolved \cup {req[r].about}
            /\ UNCHANGED messages
       ELSE /\ messages' = [messages EXCEPT ![req[r].msg].status = NewStatus(r)]
            /\ UNCHANGED resolved
    /\ UNCHANGED <<arrivals, glpi, session, ref, room, troubled, bounds>>

getById(r) ==
    /\ req[r].pc = "reload"
    /\ req' = [req EXCEPT ![r].pc = "emit", ![r].dto = Dto(req[r].msg)]
    /\ UNCHANGED <<arrivals, glpi, session, store, room, troubled, bounds>>

\* Mutant: a client appends nothing for MESSAGE_UPDATED and replaces nothing.
Shown_NewOnly(r) == IF room[req[r].msg] = Unseen THEN req[r].dto
                    ELSE room[req[r].msg]

\* MESSAGE_NEW is appended; MESSAGE_UPDATED replaces a message a client has.
Shown(r) ==
    IF req[r].kind \in {"alert", "command"} \/ room[req[r].msg] # Unseen
    THEN req[r].dto ELSE Unseen

Emit(r) ==
    /\ req[r].pc = "emit"
    /\ room' = [room EXCEPT ![req[r].msg] = Shown(r)]
    /\ req' = [req EXCEPT ![r] = Free]
    /\ UNCHANGED <<arrivals, glpi, session, store, troubled, bounds>>

\* A query throws, or the body of a good answer of GLPI's cannot be read: the
\* request ends with a 500, what it did stays.
RequestThrows(r) ==
    /\ \/ req[r].pc \in {"store", "track", "update", "reload"}
       \/ req[r].pc = "answer" /\ req[r].ans \notin {"unauthorised", "gone"}
    /\ Mishap
    /\ troubled' = troubled \cup {req[r].about}
    /\ req' = [req EXCEPT ![r] = Free]
    /\ UNCHANGED <<arrivals, glpi, session, store, room>>

\* The API process restarts: requests and the cached token are gone.
Restart ==
    /\ Mishap
    /\ troubled' = troubled \cup
                     {req[r].about : r \in {q \in Requests : Active(q)}}
    /\ req' = [r \in Requests |-> Free]
    /\ sessionToken' = 0
    /\ UNCHANGED <<arrivals, glpi, sessions, issued, lapsed, store, room>>

-------------------------------------------------------------------------------
(* GLPI on its own                                                            *)

TicketChanges(t, code) ==
    /\ bounds.changes < MaxChanges
    /\ bounds' = [bounds EXCEPT !.changes = @ + 1]
    /\ tickets[t].code \notin {code, Purged}
    /\ tickets' = [tickets EXCEPT ![t].code = code]
    /\ due' = due \cup {t}
    /\ UNCHANGED <<req, arrivals, session, store, room, troubled>>

SessionLapses(token) ==
    /\ token \in Held
    /\ Mishap
    /\ sessions' = sessions \ {token}
    /\ lapsed' = lapsed \cup
                   {r \in Requests : req[r].pc = "send" /\ req[r].token = token}
    /\ UNCHANGED <<req, arrivals, glpi, sessionToken, issued, store, room, troubled>>

Next ==
    \/ \E a \in Alerts : \/ \E severity \in Severities :
                               handleAlertWebhook(a, severity)
                        \/ handleResolved(a)
    \/ \E c \in Commands : handleMessageSend(c)
    \/ \E t \in DOMAIN tickets :
          \/ handleTicketWebhook(t)
          \/ \E code \in Codes \cup {Purged} : TicketChanges(t, code)
    \/ \E r \in Requests :
          \/ UseSession(r) \/ initSession(r) \/ GlpiServes(r)
          \/ GlpiAnswered(r) \/ GlpiFails(r)
          \/ StoreMessage(r) \/ trackAndBroadcast(r) \/ UpdateRef(r)
          \/ getById(r) \/ Emit(r) \/ RequestThrows(r)
    \/ \E token \in sessions : SessionLapses(token)
    \/ Restart

Spec == Init /\ [][Next]_vars

-------------------------------------------------------------------------------
(* Properties                                                                 *)

Quiet == \A r \in Requests : ~Active(r)

MessagesAbout(s) == {m \in DOMAIN messages : messages[m].about = s}
TicketsAbout(s) == {t \in DOMAIN tickets : tickets[t].about = s}

(* However often and however closely Tactical RMM repeats an alert, its      *)
(* channel hears of one message for it; an alert delivered without a fault   *)
(* has been announced when nothing is under way any more                     *)
(* (rmm-webhook.controller.ts:97, :179).                                     *)
AnnouncedOnce ==
    \A a \in Alerts :
        LET told == {m \in MessagesAbout(a) : room[m] # Unseen}
        IN /\ Cardinality(told) <= 1
           /\ Quiet /\ a \in delivered \ troubled
              => \E m \in told : ref[a] = m

(* An alert or a command leaves a second message, a second ticket or one     *)
(* without the other only if two of its requests overlapped or one failed:   *)
(* the GLPI ticket, the message and the RmmAlertRef are three writes.        *)
StoredOnce ==
    \A s \in Subjects \ (crossed \cup troubled) :
        /\ Cardinality(MessagesAbout(s)) <= 1
        /\ Cardinality(TicketsAbout(s)) <= 1
        /\ Quiet => {messages[m].ticket : m \in MessagesAbout(s)} \ {0}
                       = TicketsAbout(s)

(* When the requests are through, the clients of the channel show every      *)
(* announced message with the status its TicketRef has, and that is the one  *)
(* GLPI last told of, unless requests about it overlapped or failed: an      *)
(* older reading is never stored or sent after a newer one                   *)
(* (rmm-webhook.controller.ts:112-124, glpi-webhook.controller.ts:67-92).    *)
RoomUpToDate ==
    Quiet => \A m \in DOMAIN messages :
        LET t == messages[m].ticket
        IN room[m] # Unseen /\ messages[m].about \notin crossed \cup troubled
           => /\ room[m] = Dto(m)
              /\ \/ t \in {0} \cup due \/ tickets[t].code = Purged
                 \/ room[m] = mapGlpiStatus(tickets[t].code)

(* "Quando o status muda no GLPI, o webhook atualiza o card em tempo real    *)
(* via WebSocket" (docs/estrutura-do-codigo.md:261-262): the broadcast of    *)
(* the last webhook under way leaves the card with the status of GLPI.  Not  *)
(* kept by two webhooks that overlap: what was read first may be stored and  *)
(* sent last.                                                                *)
LastWebhookTells ==
    [][ \A r \in Requests :
            LET t == req[r].ticket
            IN /\ req[r].kind = "ticket" /\ Emit(r) /\ Quiet'
               /\ t \notin due /\ tickets[t].code # Purged
               => room'[req[r].msg] = mapGlpiStatus(tickets[t].code) ]_vars

(* "a later "resolved" webhook can find and update the original chat         *)
(* message" (rmm/README.md:14): when an alert becomes resolved, what its     *)
(* message is broadcast as becomes something else.  Not kept by toMessageDto, *)
(* which has nothing of the alert's state.                                    *)
ResolutionShows ==
    [][ \A a \in resolved' \ resolved : (Dto(ref[a]))' # Dto(ref[a]) ]_vars

(* A call fails only through a fault or because the session it had just      *)
(* opened for its retry expired at once: a token gone stale in the cache,    *)
(* or replaced by another call, is never a reason (glpi.session.ts:54-66).   *)
RetryHeals ==
    \A r \in Requests :
        req[r].pc = "answer" /\ req[r].ans = "unauthorised" /\ req[r].renewed
        => r \in lapsed
===============================================================================
