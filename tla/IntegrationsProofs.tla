-------------------------- MODULE IntegrationsProofs --------------------------
(* Theorems about Integrations for any alerts, commands, severities and       *)
(* numbers of overlapping requests, failing calls and restarts.               *)
EXTENDS Integrations, FiniteSetTheorems, TLAPS

Labels == {"New", "Processing", "Pending", "Solved", "Closed", "Approval", "Status"}
Kinds == {"free", "alert", "resolve", "ticket", "command"}
Dtos == Labels \cup {"none"}
Records == [kind : Kinds, about : Subjects \cup {"nothing"}, pc : Steps, token : Nat,
            renewed : BOOLEAN, ans : Labels \cup {"none", "unauthorised", "created", "gone"},
            ticket : Nat, msg : Nat, dto : Dtos \cup {Unseen}]
Rows == [about : Subjects, ticket : Nat, status : Labels \cup {"none"}]

Tickets == [about : Subjects, code : Nat]

Types ==
    /\ req \in [Requests -> Records]
    /\ messages \in Seq(Rows)
    /\ room \in Seq(Dtos \cup {Unseen}) /\ Len(room) = Len(messages)
    /\ ref \in [Alerts -> 0 .. Len(messages)]
    /\ tickets \in Seq(Tickets)
    /\ due \subseteq 1 .. Len(tickets)
    /\ issued \in Nat /\ sessionToken \in 0 .. issued /\ sessions \subseteq 1 .. issued

\* What holds of a request q, given the tickets ts, the messages ms and the refs.
Request(q, ts, ms, rf) ==
    /\ q.kind = "free" <=> q.pc = "free"
    /\ q.kind # "free" => q.about \in Subjects
    /\ q.kind \in {"alert", "resolve"} => q.about \in Alerts
    /\ q.kind = "command" => q.about \in Commands
    /\ q.ticket <= Len(ts) /\ q.msg <= Len(ms)
    /\ q.kind = "ticket" => q.ticket # 0 /\ q.msg # 0
    /\ q.pc \in {"track", "update", "reload", "emit"} => q.msg # 0
    /\ q.pc \in {"token", "init", "send", "answer"} => q.kind \in {"alert", "command", "ticket"}
    /\ q.pc = "token" => ~q.renewed
    /\ q.pc = "answer" => IF q.kind = "ticket" THEN q.ans \in Labels \cup {"unauthorised", "gone"}
                                               ELSE q.ans \in {"unauthorised", "created"}
    /\ q.pc = "store" => q.kind \in {"alert", "command"}
    /\ q.pc = "track" => q.kind = "alert" /\ ms[q.msg].about = q.about
    /\ q.pc = "update" => \/ q.kind = "resolve" /\ rf[q.about] = q.msg
                          \/ q.kind = "ticket" /\ q.ans \in Labels
    /\ q.kind = "alert" /\ q.pc \in {"reload", "emit"} => rf[q.about] = q.msg
    /\ q.kind = "command" /\ q.pc = "emit" => ms[q.msg].about = q.about
    /\ q.pc = "reload" => q.kind # "command"
    /\ q.pc = "emit" => q.dto \in Dtos

HandlerInv == \A r \in Requests : Request(req[r], tickets, messages, ref)

\* A retry has a token GLPI accepts, unless that has expired since.
SessionInv ==
    \A r \in Requests :
        /\ req[r].token <= issued
        /\ /\ req[r].pc = "send" /\ req[r].renewed
           /\ req[r].token \notin sessions
           => r \in lapsed

\* Only the message an alert's row names is announced.
RefInv ==
    /\ \A m \in 1 .. Len(messages) :
          messages[m].about \in Alerts /\ room[m] # Unseen => ref[messages[m].about] = m
    /\ \A a \in Alerts : ref[a] # 0 => messages[ref[a]].about = a
    /\ \A a \in resolved : a \in Alerts /\ ref[a] # 0

\* An alert that has arrived or has a row, without trouble, has been announced or
\* a handler is going to: the one that made its row, or any before there is one.
Announcing(a) ==
    \/ ref[a] # 0 /\ room[ref[a]] # Unseen
    \/ \E r \in Requests : /\ req[r].kind = "alert" /\ req[r].about = a
                           /\ ref[a] = 0 \/ req[r].pc \in {"reload", "emit"}

DeliveryInv == \A a \in Alerts : (a \in delivered \/ ref[a] # 0) /\ a \notin troubled
                                  => Announcing(a)

IInv == Types /\ HandlerInv /\ SessionInv /\ RetryHeals /\ RefInv /\ DeliveryInv

-------------------------------------------------------------------------------
LEMMA StatusLabel == ASSUME NEW code \in Nat PROVE mapGlpiStatus(code) \in Labels
BY DEF mapGlpiStatus, GLPI_STATUS_LABELS, Labels

LEMMA FreeRecord == Free \in Records /\ Free.pc = "free" /\ Free.kind = "free"
BY DEF Free, Records, Kinds, Steps

\* Tables only grow, and a row of RmmAlertRef stays.
Grown ==
    /\ Len(tickets) <= Len(tickets') /\ Len(messages) <= Len(messages')
    /\ \A m \in 1 .. Len(messages) : messages'[m].about = messages[m].about
    /\ \A a \in Alerts : ref[a] # 0 => ref'[a] = ref[a]

LEMMA StillRequest ==
    ASSUME Types, Grown, tickets' \in Seq(Tickets),
           messages' \in Seq(Rows)
    PROVE  \A q \in Records : Request(q, tickets, messages, ref)
                              => Request(q, tickets', messages', ref')
BY DEF Types, Grown, Request, Records

\* A step of one request, with the tables grown.
LEMMA OneRequest ==
    ASSUME Types, HandlerInv, Grown, NEW r \in Requests, NEW q \in Records,
           tickets' \in Seq(Tickets), messages' \in Seq(Rows),
           req' = [req EXCEPT ![r] = q], Request(q, tickets', messages', ref')
    PROVE  req' \in [Requests -> Records] /\ HandlerInv'
<1>1. req' \in [Requests -> Records]
  BY DEF Types
<1>2. ASSUME NEW s \in Requests PROVE Request(req'[s], tickets', messages', ref')
  <2>1. req'[s] = IF s = r THEN q ELSE req[s]
    BY DEF Types
  <2>2. req[s] \in Records /\ Request(req[s], tickets, messages, ref)
    BY DEF Types, HandlerInv
  <2>3. QED
    BY <2>1, <2>2, StillRequest
<1>3. QED
  BY <1>1, <1>2 DEF HandlerInv

\* The request that makes a step keeps the promise about its alert, if it stays
\* as it was or goes on before the row is made.
LEMMA StillAnnouncing ==
    ASSUME Types, HandlerInv, DeliveryInv, NEW r \in Requests, NEW q \in Records,
           req' = [req EXCEPT ![r] = q], UNCHANGED <<delivered, ref>>,
           troubled \subseteq troubled',
           \A a \in Alerts : ref[a] # 0 /\ room[ref[a]] # Unseen => room'[ref[a]] # Unseen,
           \/ /\ q.kind = req[r].kind /\ q.about = req[r].about
              /\ req[r].pc \in {"reload", "emit"} => q.pc \in {"reload", "emit"}
           \/ req[r].kind # "alert"
           \/ req[r].about \in troubled'
           \/ ref[req[r].about] # 0 /\ req[r].pc \notin {"reload", "emit"}
           \/ ref[req[r].about] # 0 /\ room'[ref[req[r].about]] # Unseen
    PROVE  DeliveryInv'
<1> SUFFICES ASSUME NEW a \in Alerts, a \in delivered' \/ ref'[a] # 0, a \notin troubled'
             PROVE  Announcing(a)'
  BY DEF DeliveryInv
<1>1. Announcing(a)
  BY DEF DeliveryInv
<1>2. CASE ref[a] # 0 /\ room[ref[a]] # Unseen
  BY <1>2 DEF Announcing
<1>3. CASE \E s \in Requests : /\ req[s].kind = "alert" /\ req[s].about = a
                               /\ ref[a] = 0 \/ req[s].pc \in {"reload", "emit"}
  <2>1. PICK s \in Requests : /\ req[s].kind = "alert" /\ req[s].about = a
                              /\ ref[a] = 0 \/ req[s].pc \in {"reload", "emit"}
    BY <1>3
  <2>2. CASE s # r
    <3>1. req'[s] = req[s]
      BY <2>2 DEF Types
    <3>2. QED
      BY <2>1, <3>1 DEF Announcing
  <2>3. CASE s = r
    <3>1. req'[s] = q
      BY <2>3 DEF Types
    <3>2. QED
      BY <2>1, <2>3, <3>1 DEF Announcing
  <2>4. QED
    BY <2>2, <2>3
<1>4. QED
  BY <1>1, <1>2, <1>3 DEF Announcing

\* A step of one request that leaves the session alone.
LEMMA SameSession ==
    ASSUME Types, SessionInv, RetryHeals, NEW r \in Requests, NEW q \in Records,
           req' = [req EXCEPT ![r] = q], UNCHANGED session, q.token <= issued,
           q.pc = "send" /\ q.renewed => q.token \in sessions \/ r \in lapsed,
           q.pc = "answer" /\ q.ans = "unauthorised" /\ q.renewed => r \in lapsed
    PROVE  SessionInv' /\ RetryHeals'
<1>1. \A s \in Requests : req'[s] = IF s = r THEN q ELSE req[s]
  BY DEF Types
<1>2. UNCHANGED <<sessions, issued, lapsed>>
  BY DEF session
<1>3. SessionInv'
  BY <1>1, <1>2 DEF SessionInv
<1>4. RetryHeals'
  BY <1>1, <1>2 DEF RetryHeals
<1>5. QED
  BY <1>3, <1>4

\* A step of one request that leaves the database, GLPI and the room alone.
LEMMA QuietStep ==
    ASSUME IInv, NEW r \in Requests, NEW q \in Records,
           req' = [req EXCEPT ![r] = q],
           UNCHANGED <<tickets, due, session, store, room, delivered>>,
           troubled \subseteq troubled',
           Request(q, tickets, messages, ref), q.token <= issued,
           q.pc = "send" /\ q.renewed => q.token \in sessions \/ r \in lapsed,
           q.pc = "answer" /\ q.ans = "unauthorised" /\ q.renewed => r \in lapsed,
           \/ /\ q.kind = req[r].kind /\ q.about = req[r].about
              /\ req[r].pc \in {"reload", "emit"} => q.pc \in {"reload", "emit"}
           \/ req[r].kind # "alert"
           \/ req[r].about \in troubled'
           \/ ref[req[r].about] # 0 /\ req[r].pc \notin {"reload", "emit"}
    PROVE  IInv'
<1>1. UNCHANGED <<messages, ref, resolved, room, tickets, due>>
  BY DEF store
<1>2. UNCHANGED <<sessionToken, sessions, issued>>
  BY DEF session
<1>3. Grown /\ tickets' \in Seq(Tickets) /\ messages' \in Seq(Rows)
  BY <1>1 DEF Grown, Types, IInv
<1>4. req' \in [Requests -> Records] /\ HandlerInv'
  BY <1>1, <1>3, OneRequest DEF IInv
<1>5. Types'
  BY <1>1, <1>2, <1>4 DEF Types, IInv
<1>6. SessionInv' /\ RetryHeals'
  BY SameSession DEF IInv
<1>7. RefInv'
  BY <1>1 DEF RefInv, IInv
<1>8. \A a \in Alerts : ref[a] # 0 /\ room[ref[a]] # Unseen => room'[ref[a]] # Unseen
  BY <1>1
<1>9. DeliveryInv'
  BY <1>1, <1>8, StillAnnouncing DEF IInv
<1>10. QED
  BY <1>4, <1>5, <1>6, <1>7, <1>9 DEF IInv

\* What the induction hypothesis says of one request.
LEMMA OfRequest ==
    ASSUME IInv, NEW r \in Requests
    PROVE  /\ req[r] \in Records /\ Request(req[r], tickets, messages, ref)
           /\ req[r].token <= issued /\ issued \in Nat
           /\ sessionToken \in Nat /\ sessionToken <= issued
BY DEF IInv, Types, HandlerInv, SessionInv

LEMMA FreeRequest == IInv => Request(Free, tickets, messages, ref)
BY DEF IInv, Types, Request, Free

LEMMA UseSessionInv == ASSUME IInv, NEW r \in Requests, UseSession(r) PROVE IInv'
<1> DEFINE q == [req[r] EXCEPT !.pc = IF sessionToken = 0 THEN "init" ELSE "send",
                               !.token = sessionToken]
<1>1. req[r].pc = "token"
  BY DEF UseSession
<1>2. q \in Records /\ q.token <= issued
  BY OfRequest DEF Records, Steps
<1>3. Request(q, tickets, messages, ref)
  BY <1>1, OfRequest DEF Request, Records
<1>4. req' = [req EXCEPT ![r] = q]
  BY DEF UseSession, IInv, Types
<1>5. UNCHANGED <<tickets, due, session, store, room, delivered, troubled>>
  BY DEF UseSession, glpi, arrivals
<1>6. ~q.renewed /\ q.pc \in {"init", "send"} /\ q.kind = req[r].kind
      /\ q.about = req[r].about
  BY <1>1, OfRequest DEF Request, Records
<1> HIDE DEF q
<1>7. QED
  BY <1>1, <1>2, <1>3, <1>4, <1>5, <1>6, QuietStep

\* The request has failed: an alert is announced without a ticket.
LEMMA UnavailableInv ==
    ASSUME IInv, NEW r \in Requests, Unavailable(r),
           req[r].pc \in {"init", "send", "answer"},
           UNCHANGED <<arrivals, glpi, session, store, room>>
    PROVE  IInv'
<1> DEFINE q == IF req[r].kind = "alert"
                THEN [Called(r, "store", "none") EXCEPT !.ticket = 0] ELSE Free
<1>1. q \in Records /\ q.token <= issued
  <2>1. CASE req[r].kind = "alert"
    <3>1. q = [req[r] EXCEPT !.pc = "store", !.token = 0, !.renewed = FALSE,
                             !.ans = "none", !.ticket = 0]
      BY <2>1, OfRequest DEF Records, Called
    <3> HIDE DEF q
    <3>2. q \in Records
      BY <3>1, OfRequest DEF Records, Steps
    <3>3. q.token = 0
      BY <3>1, OfRequest DEF Records
    <3>4. QED
      BY <3>2, <3>3, OfRequest
  <2>2. CASE req[r].kind # "alert"
    <3>1. Free.token = 0
      BY DEF Free
    <3>2. QED
      BY <2>2, <3>1, OfRequest, FreeRecord
  <2>3. QED
    BY <2>1, <2>2
<1>2. Request(q, tickets, messages, ref)
  <2>1. CASE req[r].kind = "alert"
    <3>1. q = [Called(r, "store", "none") EXCEPT !.ticket = 0]
      BY <2>1
    <3>2. /\ q.kind = "alert" /\ q.about = req[r].about /\ q.msg = req[r].msg
          /\ q.pc = "store" /\ q.ticket = 0
      BY <2>1, <3>1, OfRequest DEF Called, Records
    <3>3. Len(tickets) \in Nat
      BY DEF IInv, Types
    <3> HIDE DEF q
    <3>4. QED
      BY <2>1, <3>2, <3>3, OfRequest DEF Request
  <2>2. CASE req[r].kind # "alert"
    BY <2>2, FreeRequest
  <2>3. QED
    BY <2>1, <2>2
<1>3. req' = [req EXCEPT ![r] = q] /\ troubled \subseteq troubled'
      /\ req[r].about \in troubled'
  BY DEF Unavailable
<1>4. UNCHANGED <<tickets, due, session, store, room, delivered>>
  BY DEF glpi, arrivals
<1>5. q.pc \in {"free", "store"}
  BY OfRequest DEF Called, Free, Records
<1> HIDE DEF q
<1>6. QED
  BY <1>1, <1>2, <1>3, <1>4, <1>5, QuietStep

LEMMA GlpiFailsInv == ASSUME IInv, NEW r \in Requests, GlpiFails(r) PROVE IInv'
BY UnavailableInv DEF GlpiFails

LEMMA RequestThrowsInv == ASSUME IInv, NEW r \in Requests, RequestThrows(r) PROVE IInv'
<1>1. req' = [req EXCEPT ![r] = Free] /\ troubled \subseteq troubled'
      /\ req[r].about \in troubled'
  BY DEF RequestThrows
<1>2. UNCHANGED <<tickets, due, session, store, room, delivered>>
  BY DEF RequestThrows, glpi, arrivals
<1>3. Free.token <= issued /\ Free.pc = "free"
  BY OfRequest DEF Free
<1>4. QED
  BY <1>1, <1>2, <1>3, FreeRecord, FreeRequest, QuietStep

LEMMA getByIdInv == ASSUME IInv, NEW r \in Requests, getById(r) PROVE IInv'
<1> DEFINE q == [req[r] EXCEPT !.pc = "emit", !.dto = Dto(req[r].msg)]
<1>1. req[r].pc = "reload"
  BY DEF getById
<1>2. req[r].msg \in 1 .. Len(messages)
  BY <1>1, OfRequest DEF Request, Records, IInv, Types
<1>3. Dto(req[r].msg) \in Dtos
  <2>1. messages[req[r].msg] \in Rows
    <3>1. messages \in Seq(Rows)
      BY DEF IInv, Types
    <3>2. QED
      BY <1>2, <3>1
  <2>2. QED
    BY <2>1 DEF Dto, Dtos, Rows
<1>4. q \in Records /\ q.token <= issued
  BY <1>3, OfRequest DEF Records, Steps
<1>5. Request(q, tickets, messages, ref)
  BY <1>1, <1>3, OfRequest DEF Request, Records
<1>6. req' = [req EXCEPT ![r] = q]
  BY DEF getById, IInv, Types
<1>7. UNCHANGED <<tickets, due, session, store, room, delivered, troubled>>
  BY DEF getById, glpi, arrivals
<1>8. q.pc = "emit" /\ q.kind = req[r].kind /\ q.about = req[r].about
  BY <1>1, OfRequest DEF Records
<1> HIDE DEF q
<1>9. QED
  BY <1>4, <1>5, <1>6, <1>7, <1>8, QuietStep

\* GLPI answered: what the request does next depends on the answer.
LEMMA GlpiAnsweredInv == ASSUME IInv, NEW r \in Requests, GlpiAnswered(r) PROVE IInv'
<1>1. req[r].pc = "answer" /\ UNCHANGED <<arrivals, glpi, session, store, room, bounds>>
  BY DEF GlpiAnswered
<1>2. UNCHANGED <<tickets, due, session, store, room, delivered>>
  BY <1>1 DEF glpi, arrivals
<1>3. req[r].kind # "ticket" => req[r].ans \in {"unauthorised", "created"}
  BY <1>1, OfRequest DEF Request
<1>4. CASE req[r].ans = "unauthorised" /\ ~req[r].renewed
  <2> DEFINE q == [req[r] EXCEPT !.pc = "init", !.renewed = TRUE]
  <2>1. req' = [req EXCEPT ![r] = q] /\ troubled' = troubled
    <3>1. /\ req' = [req EXCEPT ![r].pc = "init", ![r].renewed = TRUE]
          /\ troubled' = troubled
      BY <1>4 DEF GlpiAnswered
    <3>2. QED
      BY <3>1 DEF IInv, Types
  <2>2. q \in Records /\ q.token <= issued
    BY OfRequest DEF Records, Steps
  <2>3. Request(q, tickets, messages, ref)
    BY <1>1, OfRequest DEF Request, Records
  <2>4. q.pc = "init" /\ q.kind = req[r].kind /\ q.about = req[r].about
    BY OfRequest DEF Records
  <2> HIDE DEF q
  <2>5. QED
    BY <1>1, <1>2, <2>1, <2>2, <2>3, <2>4, QuietStep
<1>5. CASE req[r].ans = "unauthorised" /\ req[r].renewed
  <2>1. Unavailable(r)
    BY <1>5 DEF GlpiAnswered
  <2>2. QED
    BY <1>1, <2>1, UnavailableInv
<1>6. CASE req[r].ans = "gone"
  <2>1. req' = [req EXCEPT ![r] = Free] /\ troubled' = troubled
    BY <1>6 DEF GlpiAnswered
  <2>2. req[r].kind # "alert"
    BY <1>3, <1>6
  <2>3. Free.token <= issued /\ Free.pc = "free"
    BY OfRequest DEF Free
  <2>4. QED
    BY <1>2, <2>1, <2>2, <2>3, FreeRecord, FreeRequest, QuietStep
<1>7. CASE req[r].ans \notin {"unauthorised", "gone"}
  <2> DEFINE pc == IF req[r].ans = "created" THEN "store" ELSE "update"
             ans == IF req[r].ans = "created" THEN "none" ELSE req[r].ans
             q == [req[r] EXCEPT !.pc = pc, !.token = 0, !.renewed = FALSE, !.ans = ans]
  <2>1. req' = [req EXCEPT ![r] = q] /\ troubled' = troubled
    BY <1>7 DEF GlpiAnswered, Called
  <2>2. q \in Records /\ q.token <= issued
    <3>1. q \in Records /\ q.token = 0
      BY OfRequest DEF Records, Steps
    <3>2. QED
      BY <3>1, OfRequest
  <2>3. req[r].ans = "created" => req[r].kind \in {"alert", "command"}
    BY <1>1, OfRequest DEF Request, Labels
  <2>4. req[r].ans # "created" => req[r].kind = "ticket" /\ req[r].ans \in Labels
    BY <1>1, <1>7, OfRequest DEF Request
  <2>5. Request(q, tickets, messages, ref)
    BY <1>1, <2>3, <2>4, OfRequest DEF Request, Records
  <2>6. q.pc \in {"store", "update"} /\ q.kind = req[r].kind /\ q.about = req[r].about
    BY OfRequest DEF Records
  <2> HIDE DEF q
  <2>7. QED
    BY <1>1, <1>2, <2>1, <2>2, <2>5, <2>6, QuietStep
<1>8. QED
  BY <1>4, <1>5, <1>6, <1>7

\* A new session: the request goes on with a token GLPI accepts.
LEMMA initSessionInv == ASSUME IInv, NEW r \in Requests, initSession(r) PROVE IInv'
<1> DEFINE q == [req[r] EXCEPT !.pc = "send", !.token = FreshToken(r)]
<1>1. /\ req[r].pc = "init" /\ issued' = issued + 1 /\ sessionToken' = issued + 1
      /\ sessions' = (sessions \cap Held) \cup {issued + 1} /\ lapsed' = lapsed \ {r}
  BY DEF initSession
<1>2. UNCHANGED <<tickets, due, messages, ref, resolved, room, delivered, troubled>>
  BY DEF initSession, glpi, store, arrivals
<1>3. req' = [req EXCEPT ![r] = q]
  BY DEF initSession, IInv, Types
<1>4. q \in Records /\ q.token = issued + 1 /\ q.pc = "send"
      /\ q.kind = req[r].kind /\ q.about = req[r].about
  <2>1. FreshToken(r) = issued + 1 /\ issued + 1 \in Nat
    BY OfRequest DEF FreshToken
  <2> HIDE DEF FreshToken
  <2>2. QED
    BY <2>1, OfRequest DEF Records, Steps
<1>5. Request(q, tickets, messages, ref)
  BY <1>1, OfRequest DEF Request, Records
<1> HIDE DEF q
<1>6. Grown /\ tickets' \in Seq(Tickets) /\ messages' \in Seq(Rows)
  BY <1>2 DEF Grown, Types, IInv
<1>7. req' \in [Requests -> Records] /\ HandlerInv'
  BY <1>2, <1>3, <1>4, <1>5, <1>6, OneRequest DEF IInv
<1>8. Types'
  <2>1. issued \in Nat /\ sessions \subseteq 1 .. issued
    BY DEF IInv, Types
  <2>2. issued' \in Nat /\ sessionToken' \in 0 .. issued'
    BY <1>1, <2>1
  <2>3. ASSUME NEW t \in sessions' PROVE t \in 1 .. issued'
    <3>1. t \in sessions \/ t = issued + 1
      BY <1>1
    <3>2. t \in 1 .. issued \/ t = issued + 1
      BY <2>1, <3>1
    <3>3. QED
      BY <1>1, <2>1, <3>2
  <2>4. QED
    BY <1>2, <1>7, <2>2, <2>3 DEF IInv, Types
<1>9. \A s \in Requests : req'[s] = IF s = r THEN q ELSE req[s]
  BY <1>3 DEF IInv, Types
<1>10. SessionInv'
  <2> SUFFICES ASSUME NEW s \in Requests
               PROVE  /\ req'[s].token <= issued'
                      /\ /\ req'[s].pc = "send" /\ req'[s].renewed
                         /\ req'[s].token \notin sessions'
                         => s \in lapsed'
    BY DEF SessionInv
  <2>1. CASE s = r
    BY <1>1, <1>4, <1>9, <2>1, OfRequest
  <2>2. CASE s # r
    <3>1. req'[s] = req[s] /\ req[s].token <= issued /\ req[s].token \in Nat
      BY <1>9, <2>2, OfRequest DEF Records
    <3>2. req[s].pc = "send" => req[s].token \in Held
      BY DEF Held, Active
    <3>3. req[s].pc = "send" /\ req[s].renewed /\ req[s].token \notin sessions => s \in lapsed
      BY DEF IInv, SessionInv
    <3>4. QED
      BY <1>1, <2>2, <3>1, <3>2, <3>3, OfRequest
  <2>3. QED
    BY <2>1, <2>2
<1>11. RetryHeals'
  BY <1>1, <1>4, <1>9 DEF RetryHeals, IInv
<1>12. RefInv'
  BY <1>2 DEF RefInv, IInv
<1>13. DeliveryInv'
  BY <1>1, <1>2, <1>3, <1>4, StillAnnouncing DEF IInv
<1>14. QED
  BY <1>7, <1>8, <1>10, <1>11, <1>12, <1>13 DEF IInv

\* GLPI serves the request: a refusal and a reading change nothing of GLPI.
LEMMA GlpiServesInv == ASSUME IInv, NEW r \in Requests, GlpiServes(r) PROVE IInv'
<1>1. /\ req[r].pc = "send"
      /\ UNCHANGED <<due, session, store, room, delivered, troubled>>
  BY DEF GlpiServes, arrivals
<1>2. ASSUME NEW ans \in Labels \cup {"unauthorised", "gone"}, UNCHANGED tickets,
             req' = [req EXCEPT ![r].pc = "answer", ![r].ans = ans],
             ans = "unauthorised" => req[r].token \notin sessions,
             ans # "unauthorised" => req[r].kind = "ticket"
      PROVE  IInv'
  <2> DEFINE q == [req[r] EXCEPT !.pc = "answer", !.ans = ans]
  <2>1. req' = [req EXCEPT ![r] = q]
    BY <1>2 DEF IInv, Types
  <2>2. q \in Records
    BY OfRequest DEF Records, Steps
  <2>3. /\ q.token = req[r].token /\ q.renewed = req[r].renewed /\ q.ans = ans
        /\ q.pc = "answer" /\ q.kind = req[r].kind /\ q.about = req[r].about
    BY OfRequest DEF Records
  <2>4. Request(q, tickets, messages, ref)
    BY <1>1, <1>2, OfRequest DEF Request, Records
  <2>5. ans = "unauthorised" /\ req[r].renewed => r \in lapsed
    BY <1>1, <1>2 DEF IInv, SessionInv
  <2> HIDE DEF q
  <2>6. QED
    BY <1>1, <1>2, <2>1, <2>2, <2>3, <2>4, <2>5, OfRequest, QuietStep
<1>3. CASE req[r].token \notin sessions
  <2>1. req' = [req EXCEPT ![r].pc = "answer", ![r].ans = "unauthorised"] /\ UNCHANGED tickets
    BY <1>3 DEF GlpiServes
  <2>2. QED
    BY <1>2, <1>3, <2>1
<1>4. CASE req[r].token \in sessions /\ req[r].kind = "ticket"
  <2> DEFINE code == tickets[req[r].ticket].code
             ans == IF code = Purged THEN "gone" ELSE mapGlpiStatus(code)
  <2>1. req' = [req EXCEPT ![r].pc = "answer", ![r].ans = ans] /\ UNCHANGED tickets
    BY <1>4 DEF GlpiServes
  <2>2. req[r].ticket \in 1 .. Len(tickets)
    BY <1>4, OfRequest DEF Request, Records, IInv, Types
  <2>3. tickets \in Seq(Tickets)
    BY DEF IInv, Types
  <2>4. code \in Nat
    <3>1. tickets[req[r].ticket] \in Tickets
      BY <2>2, <2>3
    <3>2. QED
      BY <3>1 DEF Tickets
  <2>5. ans \in Labels \cup {"gone"} /\ ans # "unauthorised"
    BY <2>4, StatusLabel DEF Labels
  <2> HIDE DEF ans
  <2>6. QED
    BY <1>2, <1>4, <2>1, <2>5
<1>5. CASE req[r].token \in sessions /\ req[r].kind # "ticket"
  <2> DEFINE q == [req[r] EXCEPT !.pc = "answer", !.ans = "created",
                                 !.ticket = Len(tickets) + 1]
             new == [about |-> req[r].about, code |-> 1]
  <2>1. /\ tickets' = Append(tickets, new)
        /\ req' = [req EXCEPT ![r].pc = "answer", ![r].ans = "created",
                              ![r].ticket = Len(tickets) + 1]
    BY <1>5 DEF GlpiServes
  <2>2. req' = [req EXCEPT ![r] = q]
    BY <2>1 DEF IInv, Types
  <2>3. /\ tickets \in Seq(Tickets) /\ Len(tickets) \in Nat
        /\ messages \in Seq(Rows)
    BY DEF IInv, Types
  <2>4. req[r].kind \in {"alert", "command"} /\ req[r].about \in Subjects
    BY <1>1, <1>5, OfRequest DEF Request
  <2>5. /\ tickets' \in Seq(Tickets)
        /\ Len(tickets') = Len(tickets) + 1
    <3>1. new \in Tickets
      BY <2>4 DEF Tickets
    <3> HIDE DEF new
    <3>2. QED
      BY <2>1, <2>3, <3>1
  <2>6. UNCHANGED <<messages, ref, resolved>>
    BY <1>1 DEF store
  <2>7. Grown /\ messages' \in Seq(Rows)
    BY <2>3, <2>5, <2>6 DEF Grown, IInv, Types
  <2>8. q \in Records
    <3>1. Len(tickets) + 1 \in Nat
      BY <2>3
    <3>2. QED
      BY <3>1, OfRequest DEF Records, Steps
  <2>9. /\ q.token = req[r].token /\ q.ans = "created" /\ q.pc = "answer"
        /\ q.kind = req[r].kind /\ q.about = req[r].about
    BY OfRequest DEF Records
  <2>10. Request(q, tickets', messages', ref')
    BY <1>1, <2>3, <2>4, <2>5, <2>6, OfRequest DEF Request, Records
  <2> HIDE DEF q, new
  <2>11. req' \in [Requests -> Records] /\ HandlerInv'
    BY <2>2, <2>5, <2>7, <2>8, <2>10, OneRequest DEF IInv
  <2>12. due' \subseteq 1 .. Len(tickets')
    BY <1>1, <2>3, <2>5 DEF IInv, Types
  <2>13. Types'
    BY <1>1, <2>5, <2>6, <2>7, <2>11, <2>12 DEF IInv, Types, session
  <2>14. SessionInv' /\ RetryHeals'
    BY <1>1, <2>2, <2>8, <2>9, OfRequest, SameSession DEF IInv
  <2>15. RefInv'
    BY <1>1, <2>6 DEF IInv, RefInv
  <2>16. DeliveryInv'
    BY <1>1, <2>2, <2>6, <2>8, <2>9, StillAnnouncing DEF IInv
  <2>17. QED
    BY <2>11, <2>13, <2>14, <2>15, <2>16 DEF IInv
<1>6. QED
  BY <1>3, <1>4, <1>5

LEMMA TicketChangesInv ==
    ASSUME IInv, NEW t \in DOMAIN tickets, NEW code \in Nat, TicketChanges(t, code)
    PROVE  IInv'
<1>1. /\ tickets' = [tickets EXCEPT ![t].code = code] /\ due' = due \cup {t}
      /\ UNCHANGED <<req, delivered, session, store, room, troubled>>
  BY DEF TicketChanges, arrivals
<1>2. tickets \in Seq(Tickets) /\ t \in 1 .. Len(tickets)
  BY DEF IInv, Types
<1>3. tickets' \in Seq(Tickets) /\ Len(tickets') = Len(tickets)
  <2> DEFINE row == [tickets[t] EXCEPT !.code = code]
  <2>1. tickets[t] \in Tickets
    BY <1>2
  <2>2. row \in Tickets
    BY <2>1 DEF Tickets
  <2>3. tickets' = [tickets EXCEPT ![t] = row]
    BY <1>1, <1>2
  <2> HIDE DEF row
  <2>4. QED
    BY <1>2, <2>2, <2>3
<1>4. UNCHANGED <<messages, ref, resolved, sessionToken, sessions, issued, lapsed>>
  BY <1>1 DEF store, session
<1>5. Types'
  BY <1>1, <1>2, <1>3, <1>4 DEF IInv, Types
<1>6. Grown /\ messages' \in Seq(Rows)
  BY <1>3, <1>4 DEF Grown, IInv, Types
<1>7. HandlerInv'
  BY <1>1, <1>3, <1>6, OfRequest, StillRequest DEF IInv, HandlerInv
<1>8. SessionInv' /\ RetryHeals'
  BY <1>1, <1>4 DEF IInv, SessionInv, RetryHeals
<1>9. RefInv' /\ DeliveryInv'
  BY <1>1, <1>4 DEF IInv, RefInv, DeliveryInv, Announcing
<1>10. QED
  BY <1>5, <1>7, <1>8, <1>9 DEF IInv

LEMMA SessionLapsesInv ==
    ASSUME IInv, NEW token \in sessions, SessionLapses(token) PROVE IInv'
<1>1. /\ sessions' = sessions \ {token}
      /\ lapsed' = lapsed \cup {r \in Requests : req[r].pc = "send" /\ req[r].token = token}
      /\ UNCHANGED <<req, delivered, tickets, due, sessionToken, issued, store, room,
                     troubled>>
  BY DEF SessionLapses, glpi, arrivals
<1>2. UNCHANGED <<messages, ref, resolved>>
  BY <1>1 DEF store
<1>3. Types' /\ HandlerInv'
  BY <1>1, <1>2 DEF IInv, Types, HandlerInv
<1>4. SessionInv' /\ RetryHeals'
  BY <1>1 DEF IInv, SessionInv, RetryHeals
<1>5. RefInv' /\ DeliveryInv'
  BY <1>1, <1>2 DEF IInv, RefInv, DeliveryInv, Announcing
<1>6. QED
  BY <1>3, <1>4, <1>5 DEF IInv

\* A restart ends every request, each of which counts as failed.
LEMMA RestartInv == ASSUME IInv, Restart PROVE IInv'
<1>1. /\ req' = [r \in Requests |-> Free] /\ sessionToken' = 0
      /\ troubled' = troubled \cup {req[r].about : r \in {q \in Requests : Active(q)}}
      /\ UNCHANGED <<delivered, tickets, due, sessions, issued, lapsed, messages, ref,
                     resolved, room>>
  BY DEF Restart, arrivals, glpi, store
<1>2. Types'
  BY <1>1, FreeRecord DEF IInv, Types
<1>3. HandlerInv'
  BY <1>1, FreeRequest DEF HandlerInv
<1>4. SessionInv' /\ RetryHeals'
  BY <1>1, <1>2 DEF IInv, Types, SessionInv, RetryHeals, Free
<1>5. RefInv'
  BY <1>1 DEF IInv, RefInv
<1>6. ASSUME NEW a \in Alerts, a \in delivered' \/ ref'[a] # 0, a \notin troubled'
      PROVE  Announcing(a)'
  <2>1. Announcing(a)
    BY <1>1, <1>6 DEF IInv, DeliveryInv
  <2>2. \A r \in Requests : req[r].about = a => ~Active(r)
    BY <1>1, <1>6
  <2>3. \A r \in Requests : req[r].kind = "alert" => Active(r)
    BY OfRequest DEF Request, Active
  <2>4. ref[a] # 0 /\ room[ref[a]] # Unseen
    BY <2>1, <2>2, <2>3 DEF Announcing
  <2>5. QED
    BY <1>1, <2>4 DEF Announcing
<1>7. QED
  BY <1>2, <1>3, <1>4, <1>5, <1>6 DEF IInv, DeliveryInv

\* createTicketMessage and createSystemMessage: nothing is announced yet.
LEMMA StoreMessageInv == ASSUME IInv, NEW r \in Requests, StoreMessage(r) PROVE IInv'
<1> DEFINE status == IF req[r].ticket = 0 THEN "none" ELSE mapGlpiStatus(1)
           row == [about |-> req[r].about, ticket |-> req[r].ticket, status |-> status]
           pc == IF req[r].kind = "alert" THEN "track" ELSE "emit"
           dto == status
           q == [req[r] EXCEPT !.pc = pc, !.msg = Len(messages) + 1, !.dto = dto]
<1>1. /\ req[r].pc = "store" /\ messages' = Append(messages, row)
      /\ req' = [req EXCEPT ![r].pc = pc, ![r].msg = Len(messages) + 1, ![r].dto = dto]
      /\ room' = Append(room, Unseen)
      /\ UNCHANGED <<delivered, tickets, due, session, ref, resolved, troubled>>
  BY DEF StoreMessage, arrivals, glpi
<1>2. req' = [req EXCEPT ![r] = q]
  BY <1>1 DEF IInv, Types
<1>3. /\ messages \in Seq(Rows) /\ room \in Seq(Dtos \cup {Unseen})
      /\ Len(room) = Len(messages) /\ Len(messages) \in Nat /\ tickets \in Seq(Tickets)
      /\ ref \in [Alerts -> 0 .. Len(messages)]
  BY DEF IInv, Types
<1>4. status \in Labels \cup {"none"}
  BY StatusLabel
<1> HIDE DEF status
<1>5. req[r].kind \in {"alert", "command"} /\ req[r].about \in Subjects
  BY <1>1, OfRequest DEF Request
<1>6. row \in Rows /\ dto \in Dtos /\ row.about = req[r].about
  BY <1>4, <1>5, OfRequest DEF Rows, Dtos, Records
<1> HIDE DEF row, dto
<1>7. /\ messages' \in Seq(Rows) /\ Len(messages') = Len(messages) + 1
      /\ \A m \in 1 .. Len(messages) : messages'[m] = messages[m]
      /\ messages'[Len(messages) + 1] = row
  BY <1>1, <1>3, <1>6
<1>8. /\ room' \in Seq(Dtos \cup {Unseen}) /\ Len(room') = Len(messages')
      /\ \A m \in 1 .. Len(messages) : room'[m] = room[m]
      /\ room'[Len(messages) + 1] = Unseen
  BY <1>1, <1>3, <1>7
<1>9. Grown /\ tickets' \in Seq(Tickets)
  BY <1>1, <1>3, <1>7 DEF Grown
<1>10. q \in Records
  <2>1. Len(messages) + 1 \in Nat
    BY <1>3
  <2>2. QED
    BY <1>6, <2>1, OfRequest DEF Records, Steps
<1>11. /\ q.token = req[r].token /\ q.pc = pc /\ q.kind = req[r].kind
       /\ q.about = req[r].about /\ q.msg = Len(messages) + 1 /\ q.dto = dto
       /\ q.ticket = req[r].ticket
  BY OfRequest DEF Records
<1> HIDE DEF q
<1>12. Request(q, tickets', messages', ref')
  BY <1>1, <1>3, <1>5, <1>6, <1>7, <1>11, OfRequest DEF Request
<1>13. req' \in [Requests -> Records] /\ HandlerInv'
  BY <1>2, <1>7, <1>9, <1>10, <1>12, OneRequest DEF IInv
<1>14. ref' \in [Alerts -> 0 .. Len(messages')]
  BY <1>1, <1>3, <1>7
<1>15. Types'
  BY <1>1, <1>7, <1>8, <1>9, <1>13, <1>14 DEF IInv, Types, session
<1>16. SessionInv' /\ RetryHeals'
  BY <1>1, <1>2, <1>10, <1>11, OfRequest, SameSession DEF IInv
<1>17. RefInv'
  <2>1. ASSUME NEW m \in 1 .. Len(messages'), messages'[m].about \in Alerts,
               room'[m] # Unseen
        PROVE  ref'[messages'[m].about] = m
    <3>1. m \in 1 .. Len(messages)
      BY <1>3, <1>7, <1>8, <2>1
    <3>2. QED
      BY <1>1, <1>7, <1>8, <2>1, <3>1 DEF IInv, RefInv
  <2>2. ASSUME NEW a \in Alerts, ref'[a] # 0 PROVE messages'[ref'[a]].about = a
    BY <1>1, <1>3, <1>7, <2>2 DEF IInv, RefInv
  <2>3. QED
    BY <1>1, <2>1, <2>2 DEF IInv, RefInv
<1>18. \A a \in Alerts : ref[a] # 0 /\ room[ref[a]] # Unseen => room'[ref[a]] # Unseen
  BY <1>3, <1>8
<1>19. DeliveryInv'
  BY <1>1, <1>2, <1>10, <1>11, <1>18, StillAnnouncing DEF IInv
<1>20. QED
  BY <1>13, <1>15, <1>16, <1>17, <1>19 DEF IInv

\* The first handler of an alert makes its row, and goes on to announce it.
LEMMA trackAndBroadcastInv ==
    ASSUME IInv, NEW r \in Requests, trackAndBroadcast(r) PROVE IInv'
<1>1. /\ req[r].pc = "track"
      /\ UNCHANGED <<delivered, tickets, due, session, messages, resolved, room, troubled>>
  BY DEF trackAndBroadcast, arrivals, glpi
<1>2. /\ req[r].kind = "alert" /\ req[r].about \in Alerts
      /\ messages[req[r].msg].about = req[r].about /\ req[r].msg \in 1 .. Len(messages)
  BY <1>1, OfRequest DEF Request, Records, IInv, Types
<1>3. CASE ref[req[r].about] # 0
  <2>1. req' = [req EXCEPT ![r] = Free] /\ UNCHANGED store
    BY <1>1, <1>3 DEF trackAndBroadcast, Tracked, store
  <2>2. Free.token <= issued /\ Free.pc = "free"
    BY OfRequest DEF Free
  <2>3. QED
    BY <1>1, <1>3, <2>1, <2>2, FreeRecord, FreeRequest, QuietStep
<1>4. CASE ref[req[r].about] = 0
  <2> DEFINE q == [req[r] EXCEPT !.pc = "reload"]
  <2>1. /\ req' = [req EXCEPT ![r] = q]
        /\ ref' = [ref EXCEPT ![req[r].about] = req[r].msg]
    <3>1. /\ req' = [req EXCEPT ![r].pc = "reload"]
          /\ ref' = [ref EXCEPT ![req[r].about] = req[r].msg]
      BY <1>4 DEF trackAndBroadcast, Tracked
    <3>2. QED
      BY <3>1 DEF IInv, Types
  <2>2. ref \in [Alerts -> 0 .. Len(messages)] /\ Len(messages) \in Nat
    BY DEF IInv, Types
  <2>3. ref' \in [Alerts -> 0 .. Len(messages')]
    BY <1>1, <1>2, <2>1, <2>2
  <2>4. \A a \in Alerts : ref'[a] = IF a = req[r].about THEN req[r].msg ELSE ref[a]
    BY <2>1, <2>2
  <2>5. q \in Records /\ q.pc = "reload" /\ q.kind = "alert" /\ q.token = req[r].token
        /\ q.about = req[r].about /\ q.msg = req[r].msg
    BY <1>2, OfRequest DEF Records, Steps
  <2>6. Grown /\ tickets' \in Seq(Tickets) /\ messages' \in Seq(Rows)
    BY <1>1, <1>4, <2>4 DEF Grown, IInv, Types
  <2>7. Request(q, tickets', messages', ref')
    BY <1>1, <1>2, <2>4, OfRequest DEF Request, Records
  <2> HIDE DEF q
  <2>8. req' \in [Requests -> Records] /\ HandlerInv'
    BY <2>1, <2>5, <2>6, <2>7, OneRequest DEF IInv
  <2>9. Types'
    BY <1>1, <2>3, <2>8 DEF IInv, Types, session
  <2>10. SessionInv' /\ RetryHeals'
    BY <1>1, <2>1, <2>5, OfRequest, SameSession DEF IInv
  <2>11. RefInv'
    <3>1. ASSUME NEW m \in 1 .. Len(messages), messages[m].about \in Alerts, room[m] # Unseen
          PROVE  ref'[messages[m].about] = m
      <4>1. ref[messages[m].about] = m
        BY <3>1 DEF IInv, RefInv
      <4>2. QED
        BY <1>4, <2>2, <2>4, <3>1, <4>1
    <3>2. ASSUME NEW a \in Alerts, ref'[a] # 0 PROVE messages[ref'[a]].about = a
      BY <1>2, <2>4, <3>2 DEF IInv, RefInv
    <3>3. \A a \in resolved : a \in Alerts /\ ref'[a] # 0
      BY <1>2, <2>4 DEF IInv, RefInv
    <3>4. QED
      BY <1>1, <3>1, <3>2, <3>3 DEF RefInv
  <2>12. ASSUME NEW a \in Alerts, a \in delivered' \/ ref'[a] # 0, a \notin troubled'
         PROVE  Announcing(a)'
    <3>1. \A s \in Requests : req'[s] = IF s = r THEN q ELSE req[s]
      BY <2>1 DEF IInv, Types
    <3>2. CASE a = req[r].about
      BY <2>5, <3>1, <3>2 DEF Announcing
    <3>3. CASE a # req[r].about
      <4>1. Announcing(a) /\ ref'[a] = ref[a]
        BY <1>1, <2>4, <2>12, <3>3 DEF IInv, DeliveryInv
      <4>2. CASE ref[a] # 0 /\ room[ref[a]] # Unseen
        BY <1>1, <4>1, <4>2 DEF Announcing
      <4>3. CASE ~(ref[a] # 0 /\ room[ref[a]] # Unseen)
        <5>1. PICK s \in Requests : /\ req[s].kind = "alert" /\ req[s].about = a
                                    /\ ref[a] = 0 \/ req[s].pc \in {"reload", "emit"}
          BY <4>1, <4>3 DEF Announcing
        <5>2. req'[s] = req[s]
          BY <3>1, <3>3, <5>1
        <5>3. QED
          BY <4>1, <5>1, <5>2 DEF Announcing
      <4>4. QED
        BY <4>2, <4>3
    <3>4. QED
      BY <3>2, <3>3
  <2>13. QED
    BY <2>8, <2>9, <2>10, <2>11, <2>12 DEF IInv, DeliveryInv
<1>5. QED
  BY <1>3, <1>4

\* A resolution marks the alert's row; a GLPI webhook stores a status.
LEMMA UpdateRefInv == ASSUME IInv, NEW r \in Requests, UpdateRef(r) PROVE IInv'
<1> DEFINE q == [req[r] EXCEPT !.pc = "reload", !.ans = "none"]
<1>1. /\ req[r].pc = "update" /\ req' = [req EXCEPT ![r].pc = "reload", ![r].ans = "none"]
      /\ UNCHANGED <<delivered, tickets, due, session, ref, room, troubled>>
  BY DEF UpdateRef, arrivals, glpi
<1>2. req' = [req EXCEPT ![r] = q]
  BY <1>1 DEF IInv, Types
<1>3. req[r].msg \in 1 .. Len(messages) /\ req[r].kind \in {"resolve", "ticket"}
  BY <1>1, OfRequest DEF Request, Records, IInv, Types
<1>4. req[r].kind = "resolve" => req[r].about \in Alerts /\ ref[req[r].about] # 0
  BY <1>1, <1>3, OfRequest DEF Request, Labels
<1>5. messages \in Seq(Rows) /\ tickets' \in Seq(Tickets)
  BY <1>1 DEF IInv, Types
<1>6. /\ messages' \in Seq(Rows) /\ Len(messages') = Len(messages)
      /\ \A m \in 1 .. Len(messages) : messages'[m].about = messages[m].about
  <2>1. CASE req[r].kind = "resolve"
    BY <1>5, <2>1 DEF UpdateRef
  <2>2. CASE req[r].kind # "resolve"
    <3> DEFINE row == [messages[req[r].msg] EXCEPT !.status = req[r].ans]
    <3>1. messages' = [messages EXCEPT ![req[r].msg] = row]
      BY <1>3, <1>5, <2>2 DEF UpdateRef, NewStatus
    <3>2. messages[req[r].msg] \in Rows
      BY <1>3, <1>5
    <3>3. req[r].ans \in Labels
      BY <1>1, <2>2, OfRequest DEF Request
    <3>4. row \in Rows /\ row.about = messages[req[r].msg].about
      BY <3>2, <3>3 DEF Rows
    <3> HIDE DEF row
    <3>5. QED
      BY <1>3, <1>5, <3>1, <3>4
  <2>3. QED
    BY <2>1, <2>2
<1>7. Grown
  BY <1>1, <1>6 DEF Grown, IInv, Types
<1>8. q \in Records /\ q.pc = "reload" /\ q.kind = req[r].kind /\ q.token = req[r].token
      /\ q.about = req[r].about /\ q.msg = req[r].msg /\ q.ticket = req[r].ticket
  BY OfRequest DEF Records, Steps
<1> HIDE DEF q
<1>9. Request(q, tickets', messages', ref')
  BY <1>1, <1>3, <1>6, <1>8, OfRequest DEF Request
<1>10. req' \in [Requests -> Records] /\ HandlerInv'
  BY <1>2, <1>5, <1>6, <1>7, <1>8, <1>9, OneRequest DEF IInv
<1>11. Types'
  BY <1>1, <1>6, <1>10 DEF IInv, Types, session
<1>12. SessionInv' /\ RetryHeals'
  BY <1>1, <1>2, <1>8, OfRequest, SameSession DEF IInv
<1>13. RefInv'
  <2>1. resolved' \subseteq resolved \cup {req[r].about} /\ (req[r].kind # "resolve" => resolved' = resolved)
    BY DEF UpdateRef
  <2>2. \A a \in Alerts : ref[a] \in 0 .. Len(messages)
    BY DEF IInv, Types
  <2>3. \A a \in resolved' : a \in Alerts /\ ref[a] # 0
    BY <1>3, <1>4, <2>1 DEF IInv, RefInv
  <2>4. \A a \in Alerts : ref[a] # 0 => messages'[ref[a]].about = a
    BY <1>6, <2>2 DEF IInv, RefInv
  <2>5. QED
    BY <1>1, <1>6, <2>3, <2>4 DEF IInv, RefInv
<1>14. DeliveryInv'
  BY <1>1, <1>2, <1>3, <1>8, StillAnnouncing DEF IInv
<1>15. QED
  BY <1>10, <1>11, <1>12, <1>13, <1>14 DEF IInv

\* The room hears of a message: a new one is an alert's own, or a command's.
LEMMA EmitInv == ASSUME IInv, NEW r \in Requests, Emit(r) PROVE IInv'
<1>1. /\ req[r].pc = "emit" /\ req' = [req EXCEPT ![r] = Free]
      /\ room' = [room EXCEPT ![req[r].msg] = Shown(r)]
      /\ UNCHANGED <<delivered, tickets, due, session, messages, ref, resolved, troubled>>
  BY DEF Emit, arrivals, glpi, store
<1>2. /\ req[r].msg \in 1 .. Len(messages) /\ req[r].dto \in Dtos
      /\ req[r].kind # "free"
      /\ req[r].kind \in {"alert", "resolve"} => req[r].about \in Alerts
      /\ req[r].kind = "alert" => ref[req[r].about] = req[r].msg
      /\ req[r].kind = "command" => messages[req[r].msg].about \in Commands
  BY <1>1, OfRequest DEF Request, Records, IInv, Types
<1>3. room \in Seq(Dtos \cup {Unseen}) /\ Len(room) = Len(messages)
  BY DEF IInv, Types
<1>4. Unseen \notin Dtos
  BY DEF Unseen, Dtos, Labels
<1>5. /\ Shown(r) \in Dtos \cup {Unseen}
      /\ room[req[r].msg] # Unseen \/ req[r].kind = "alert" => Shown(r) # Unseen
      /\ Shown(r) # Unseen => \/ room[req[r].msg] # Unseen
                              \/ req[r].kind \in {"alert", "command"}
  BY <1>2, <1>4 DEF Shown
<1>6. /\ room' \in Seq(Dtos \cup {Unseen}) /\ Len(room') = Len(messages)
      /\ \A m \in 1 .. Len(messages) :
            room'[m] = IF m = req[r].msg THEN Shown(r) ELSE room[m]
  BY <1>1, <1>2, <1>3, <1>5
<1>7. Grown /\ tickets' \in Seq(Tickets) /\ messages' \in Seq(Rows)
  BY <1>1 DEF Grown, IInv, Types
<1>8. Request(Free, tickets', messages', ref')
  BY <1>1, FreeRequest
<1>9. req' \in [Requests -> Records] /\ HandlerInv'
  BY <1>1, <1>7, <1>8, FreeRecord, OneRequest DEF IInv
<1>10. Types'
  BY <1>1, <1>6, <1>9 DEF IInv, Types, session
<1>11. Free.token <= issued /\ Free.pc = "free"
  BY OfRequest DEF Free
<1>12. SessionInv' /\ RetryHeals'
  BY <1>1, <1>11, FreeRecord, SameSession DEF IInv
<1>13. RefInv'
  <2>1. ASSUME NEW m \in 1 .. Len(messages), messages[m].about \in Alerts, room'[m] # Unseen
        PROVE  ref[messages[m].about] = m
    <3>1. CASE room[m] # Unseen
      BY <2>1, <3>1 DEF IInv, RefInv
    <3>2. CASE room[m] = Unseen
      <4>1. m = req[r].msg /\ req[r].kind \in {"alert", "command"}
        BY <1>5, <1>6, <2>1, <3>2
      <4>2. req[r].kind = "alert"
        BY <1>2, <2>1, <4>1, IntegrationsAssumption DEF IntegrationsAssumption
      <4>3. messages[m].about = req[r].about
        BY <1>2, <4>1, <4>2 DEF IInv, RefInv
      <4>4. QED
        BY <1>2, <4>1, <4>2, <4>3
    <3>3. QED
      BY <3>1, <3>2
  <2>2. QED
    BY <1>1, <2>1 DEF IInv, RefInv
<1>14. ASSUME NEW a \in Alerts, ref[a] # 0, room[ref[a]] # Unseen PROVE room'[ref[a]] # Unseen
  <2>1. ref[a] \in 1 .. Len(messages)
    BY <1>14 DEF IInv, Types
  <2>2. QED
    BY <1>5, <1>6, <1>14, <2>1
<1>15. req[r].kind = "alert" => ref[req[r].about] # 0 /\ room'[ref[req[r].about]] # Unseen
  BY <1>2, <1>5, <1>6
<1>16. DeliveryInv'
  BY <1>1, <1>14, <1>15, FreeRecord, StillAnnouncing DEF IInv
<1>17. QED
  BY <1>9, <1>10, <1>12, <1>13, <1>16 DEF IInv

\* A delivery that starts no handler: what it delivers is announced or was.
LEMMA IgnoredInv ==
    ASSUME IInv, NEW kind, NEW about, Arrive(kind, about),
           UNCHANGED req, UNCHANGED tickets, due' \subseteq due,
           \A a \in Alerts : a \in delivered' => a \in delivered \/ ref[a] # 0
    PROVE  IInv'
<1>1. UNCHANGED <<req, tickets, sessionToken, sessions, issued, lapsed, messages, ref,
                  resolved, room, troubled>>
  BY DEF Arrive, session, store
<1>2. Types' /\ HandlerInv' /\ SessionInv' /\ RetryHeals' /\ RefInv'
  BY <1>1 DEF IInv, Types, HandlerInv, SessionInv, RetryHeals, RefInv
<1>3. DeliveryInv'
  BY <1>1 DEF IInv, DeliveryInv, Announcing
<1>4. QED
  BY <1>2, <1>3 DEF IInv

\* A newly delivered alert is handled by q.
HandledBy(q) ==
    \A a \in Alerts : a \in delivered' \ delivered
                     => ref[a] # 0 \/ (q.kind = "alert" /\ q.about = a)

\* A delivery whose handler goes on, as request q.
LEMMA GoOnInv ==
    ASSUME IInv, NEW r \in Requests, NEW q \in Records, req[r].pc = "free",
           req' = [req EXCEPT ![r] = q],
           UNCHANGED <<tickets, session, store, room, troubled>>, due' \subseteq due,
           Request(q, tickets, messages, ref), q.token = 0, q.renewed = FALSE,
           HandledBy(q)
    PROVE  IInv'
<1>1. UNCHANGED <<messages, ref, resolved>>
  BY DEF store
<1>2. Grown /\ tickets' \in Seq(Tickets) /\ messages' \in Seq(Rows)
  BY <1>1 DEF Grown, IInv, Types
<1>3. req' \in [Requests -> Records] /\ HandlerInv'
  BY <1>1, <1>2, OneRequest DEF IInv
<1>4. Types'
  BY <1>1, <1>3 DEF IInv, Types, session
<1>5. q.token <= issued
  BY OfRequest
<1>6. SessionInv' /\ RetryHeals'
  BY <1>5, SameSession DEF IInv
<1>7. RefInv'
  BY <1>1 DEF IInv, RefInv
<1>8. ASSUME NEW a \in Alerts, a \in delivered' \/ ref'[a] # 0, a \notin troubled'
      PROVE  Announcing(a)'
  <2>1. \A s \in Requests : req'[s] = IF s = r THEN q ELSE req[s]
    BY DEF IInv, Types
  <2>2. CASE a \in delivered \/ ref[a] # 0
    <3>1. Announcing(a)
      BY <1>8, <2>2 DEF IInv, DeliveryInv
    <3>2. req[r].kind # "alert"
      BY OfRequest DEF Request
    <3>3. QED
      BY <1>1, <2>1, <3>1, <3>2 DEF Announcing
  <2>3. CASE a \notin delivered /\ ref[a] = 0
    <3>1. q.kind = "alert" /\ q.about = a
      BY <1>1, <1>8, <2>3 DEF HandledBy
    <3>2. QED
      BY <1>1, <2>1, <2>3, <3>1 DEF Announcing
  <2>4. QED
    BY <2>2, <2>3
<1>9. QED
  BY <1>3, <1>4, <1>6, <1>7, <1>8 DEF IInv, DeliveryInv

LEMMA handleAlertWebhookInv ==
    ASSUME IInv, NEW a \in Alerts, NEW severity, handleAlertWebhook(a, severity) PROVE IInv'
<1>1. /\ UNCHANGED <<tickets, due, session, store, room, troubled>>
      /\ delivered' = delivered \cup {a} /\ a \in Subjects /\ Arrive("alert", a)
  BY DEF handleAlertWebhook, Arrive, glpi, Subjects
<1>2. CASE ref[a] # 0
  <2>1. UNCHANGED req
    BY <1>2 DEF handleAlertWebhook, existingRef
  <2>2. QED
    BY <1>1, <1>2, <2>1, IgnoredInv
<1>3. CASE ref[a] = 0
  <2> DEFINE pc == IF shouldAutoTicket(severity) THEN "token" ELSE "store"
             q == [Free EXCEPT !.kind = "alert", !.about = a, !.pc = pc,
                               !.ticket = 0, !.msg = 0]
  <2>1. PICK r \in Requests : req[r].pc = "free" /\ req' = [req EXCEPT ![r] = q]
    BY <1>3 DEF handleAlertWebhook, existingRef, GoOn
  <2>2. pc \in {"token", "store"}
    OBVIOUS
  <2> HIDE DEF pc
  <2>3. /\ q \in Records /\ q.kind = "alert" /\ q.about = a /\ q.pc = pc
        /\ q.ticket = 0 /\ q.msg = 0 /\ q.token = 0 /\ q.renewed = FALSE
    BY <1>1, <2>2 DEF Free, Records, Kinds, Steps
  <2> HIDE DEF q
  <2>4. Request(q, tickets, messages, ref)
    BY <1>1, <2>2, <2>3 DEF Request, IInv, Types
  <2>5. HandledBy(q)
    BY <1>1, <2>3 DEF HandledBy
  <2>6. QED
    BY <1>1, <2>1, <2>3, <2>4, <2>5, GoOnInv
<1>4. QED
  BY <1>2, <1>3

LEMMA handleResolvedInv ==
    ASSUME IInv, NEW a \in Alerts, handleResolved(a) PROVE IInv'
<1>1. /\ UNCHANGED <<tickets, due, session, store, room, troubled, delivered>>
      /\ a \in Subjects /\ Arrive("resolve", a)
  BY DEF handleResolved, Arrive, glpi, Subjects
<1>2. CASE ref[a] = 0
  <2>1. UNCHANGED req
    BY <1>2 DEF handleResolved, existingRef
  <2>2. QED
    BY <1>1, <2>1, IgnoredInv
<1>3. CASE ref[a] # 0
  <2> DEFINE q == [Free EXCEPT !.kind = "resolve", !.about = a, !.pc = "update",
                               !.ticket = 0, !.msg = ref[a]]
  <2>1. PICK r \in Requests : req[r].pc = "free" /\ req' = [req EXCEPT ![r] = q]
    BY <1>3 DEF handleResolved, existingRef, GoOn
  <2>2. ref[a] \in Nat /\ ref[a] <= Len(messages) /\ Len(tickets) \in Nat
    BY DEF IInv, Types
  <2>3. /\ q \in Records /\ q.kind = "resolve" /\ q.about = a /\ q.pc = "update"
        /\ q.ticket = 0 /\ q.msg = ref[a] /\ q.token = 0 /\ q.renewed = FALSE
    BY <1>1, <2>2 DEF Free, Records, Kinds, Steps
  <2> HIDE DEF q
  <2>4. Request(q, tickets, messages, ref)
    BY <1>1, <1>3, <2>2, <2>3 DEF Request
  <2>5. HandledBy(q)
    BY <1>1, <2>3 DEF HandledBy
  <2>6. QED
    BY <1>1, <2>1, <2>3, <2>4, <2>5, GoOnInv
<1>4. QED
  BY <1>2, <1>3

LEMMA handleMessageSendInv ==
    ASSUME IInv, NEW c \in Commands, handleMessageSend(c) PROVE IInv'
<1>1. /\ UNCHANGED <<tickets, due, session, store, room, troubled>>
      /\ delivered' = delivered \cup {c} /\ c \in Subjects
  BY DEF handleMessageSend, Arrive, glpi, Subjects
<1>2. \A a \in Alerts : a # c
  BY IntegrationsAssumption DEF IntegrationsAssumption
<1> DEFINE q == [Free EXCEPT !.kind = "command", !.about = c, !.pc = "token",
                             !.ticket = 0, !.msg = 0]
<1>3. PICK r \in Requests : req[r].pc = "free" /\ req' = [req EXCEPT ![r] = q]
  BY DEF handleMessageSend, GoOn
<1>4. /\ q \in Records /\ q.kind = "command" /\ q.about = c /\ q.pc = "token"
      /\ q.ticket = 0 /\ q.msg = 0 /\ q.token = 0 /\ q.renewed = FALSE
  BY <1>1 DEF Free, Records, Kinds, Steps
<1> HIDE DEF q
<1>5. Request(q, tickets, messages, ref)
  BY <1>1, <1>4 DEF Request, IInv, Types
<1>6. HandledBy(q)
  BY <1>1, <1>2 DEF HandledBy
<1>7. QED
  BY <1>1, <1>3, <1>4, <1>5, <1>6, GoOnInv

LEMMA handleTicketWebhookInv ==
    ASSUME IInv, NEW t \in DOMAIN tickets, handleTicketWebhook(t) PROVE IInv'
<1>1. /\ UNCHANGED <<tickets, delivered, session, store, room, troubled>>
      /\ due' \subseteq due /\ Arrive("ticket", tickets[t].about)
  BY DEF handleTicketWebhook, Arrive
<1>2. t \in 1 .. Len(tickets) /\ tickets \in Seq(Tickets) /\ messages \in Seq(Rows)
  BY DEF IInv, Types
<1>3. tickets[t] \in Tickets
  BY <1>2
<1>4. tickets[t].about \in Subjects
  BY <1>3 DEF Tickets
<1>5. CASE UNCHANGED req
  BY <1>1, <1>5, IgnoredInv
<1>6. CASE \E m \in DOMAIN messages : GoOn("ticket", tickets[t].about, "token", t, m)
  <2>1. PICK m \in DOMAIN messages : GoOn("ticket", tickets[t].about, "token", t, m)
    BY <1>6
  <2>2. m \in 1 .. Len(messages)
    BY <1>2, <2>1
  <2> DEFINE q == [Free EXCEPT !.kind = "ticket", !.about = tickets[t].about,
                               !.pc = "token", !.ticket = t, !.msg = m]
  <2>3. PICK r \in Requests : req[r].pc = "free" /\ req' = [req EXCEPT ![r] = q]
    BY <2>1 DEF GoOn
  <2>4. /\ t \in Nat /\ t # 0 /\ t <= Len(tickets)
        /\ m \in Nat /\ m # 0 /\ m <= Len(messages)
    BY <1>2, <2>2
  <2>5. /\ q \in Records /\ q.kind = "ticket" /\ q.about = tickets[t].about
        /\ q.pc = "token" /\ q.ticket = t /\ q.msg = m /\ q.token = 0 /\ q.renewed = FALSE
    BY <1>4, <2>4 DEF Free, Records, Kinds, Steps
  <2> HIDE DEF q
  <2>6. Request(q, tickets, messages, ref)
    BY <1>4, <2>4, <2>5 DEF Request
  <2>7. HandledBy(q)
    BY <1>1, <2>5 DEF HandledBy
  <2>8. QED
    BY <1>1, <2>3, <2>5, <2>6, <2>7, GoOnInv
<1>7. QED
  BY <1>5, <1>6 DEF handleTicketWebhook

LEMMA InitInv == Init => IInv
<1> SUFFICES ASSUME Init PROVE IInv
  OBVIOUS
<1>1. /\ req = [r \in Requests |-> Free] /\ sessionToken = 0 /\ sessions = {}
      /\ issued = 0 /\ tickets = <<>> /\ due = {} /\ messages = <<>>
      /\ ref = [a \in Alerts |-> 0] /\ resolved = {} /\ room = <<>> /\ delivered = {}
  BY DEF Init
<1>2. Types
  BY <1>1, FreeRecord DEF Types
<1>3. Request(Free, tickets, messages, ref)
  BY <1>1 DEF Request, Free
<1>4. HandlerInv /\ SessionInv /\ RetryHeals /\ RefInv /\ DeliveryInv
  BY <1>1, <1>3 DEF HandlerInv, SessionInv, RetryHeals, RefInv, DeliveryInv, Free
<1>5. QED
  BY <1>2, <1>4 DEF IInv

LEMMA Stutter == IInv /\ UNCHANGED vars => IInv'
BY DEF IInv, Types, HandlerInv, SessionInv, RetryHeals, RefInv, DeliveryInv, Announcing,
       vars, arrivals, glpi, session, store

LEMMA NextInv == IInv /\ Next => IInv'
<1> SUFFICES ASSUME IInv, Next PROVE IInv'
  OBVIOUS
<1>1. ASSUME NEW a \in Alerts, NEW severity \in Severities, handleAlertWebhook(a, severity)
      PROVE  IInv'
  BY <1>1, handleAlertWebhookInv
<1>2. ASSUME NEW a \in Alerts, handleResolved(a) PROVE IInv'
  BY <1>2, handleResolvedInv
<1>3. ASSUME NEW c \in Commands, handleMessageSend(c) PROVE IInv'
  BY <1>3, handleMessageSendInv
<1>4. ASSUME NEW t \in DOMAIN tickets, handleTicketWebhook(t) PROVE IInv'
  BY <1>4, handleTicketWebhookInv
<1>5. ASSUME NEW t \in DOMAIN tickets, NEW code \in Codes \cup {Purged}, TicketChanges(t, code)
      PROVE  IInv'
  <2>1. code \in Nat
    BY IntegrationsAssumption DEF IntegrationsAssumption, Purged
  <2>2. QED
    BY <1>5, <2>1, TicketChangesInv
<1>6. ASSUME NEW r \in Requests,
             \/ UseSession(r) \/ initSession(r) \/ GlpiServes(r)
             \/ GlpiAnswered(r) \/ GlpiFails(r)
             \/ StoreMessage(r) \/ trackAndBroadcast(r) \/ UpdateRef(r)
             \/ getById(r) \/ Emit(r) \/ RequestThrows(r)
      PROVE  IInv'
  BY <1>6, UseSessionInv, initSessionInv, GlpiServesInv, GlpiAnsweredInv, GlpiFailsInv,
     StoreMessageInv, trackAndBroadcastInv, UpdateRefInv, getByIdInv, EmitInv, RequestThrowsInv
<1>7. ASSUME NEW token \in sessions, SessionLapses(token) PROVE IInv'
  BY <1>7, SessionLapsesInv
<1>8. ASSUME Restart PROVE IInv'
  BY <1>8, RestartInv
<1>9. QED
  BY <1>1, <1>2, <1>3, <1>4, <1>5, <1>6, <1>7, <1>8 DEF Next

\* Deliveries, handlers, GLPI and the database stay in step: what a handler carries at
\* each of its statements is what the statements before it wrote (IInv).
THEOREM Inductive == Spec => []IInv
<1>1. IInv /\ [Next]_vars => IInv'
  BY NextInv, Stutter
<1>2. QED
  BY <1>1, InitInv, PTL DEF Spec

(* The requests, tables, tickets and session keep their types                 *)
(* (rmm-webhook.controller.ts:66-194, glpi.session.ts:11-66).                 *)
THEOREM TypeCorrect == Spec => []TypeOK
<1>1. IInv => TypeOK
  <2> SUFFICES ASSUME IInv PROVE TypeOK
    OBVIOUS
  <2>1. ASSUME NEW r \in Requests
        PROVE  /\ req[r].kind \in {"free", "alert", "resolve", "ticket", "command"}
               /\ req[r].pc \in Steps
               /\ req[r].kind # "free" => req[r].about \in Subjects
               /\ req[r].ticket \in 0 .. Len(tickets)
               /\ req[r].msg \in 0 .. Len(messages)
    <3>1. Len(tickets) \in Nat /\ Len(messages) \in Nat
      BY DEF IInv, Types
    <3>2. QED
      BY <3>1, OfRequest DEF Request, Records, Kinds
  <2>2. QED
    BY <2>1 DEF TypeOK, IInv, Types, RefInv
<1>2. QED
  BY <1>1, Inductive, PTL

(* An alert is announced at most once, however often and however closely      *)
(* Tactical RMM repeats it and however many replicas' requests overlap, and   *)
(* an alert delivered without a fault is announced when all is quiet          *)
(* (rmm-webhook.controller.ts:97, :179).                                      *)
THEOREM AlertsAnnouncedOnce == Spec => []AnnouncedOnce
<1>1. IInv => AnnouncedOnce
  <2> SUFFICES ASSUME IInv, NEW a \in Alerts
               PROVE  LET told == {m \in MessagesAbout(a) : room[m] # Unseen}
                      IN /\ Cardinality(told) <= 1
                         /\ Quiet /\ a \in delivered \ troubled => \E m \in told : ref[a] = m
    BY DEF AnnouncedOnce
  <2> DEFINE told == {m \in MessagesAbout(a) : room[m] # Unseen}
  <2>1. told \subseteq {ref[a]}
    BY DEF IInv, RefInv, MessagesAbout, Types
  <2>2. Cardinality(told) <= 1
    <3>1. IsFiniteSet({ref[a]}) /\ Cardinality({ref[a]}) = 1
      BY FS_Singleton
    <3>2. Cardinality(told) <= Cardinality({ref[a]})
      BY <2>1, <3>1, FS_Subset
    <3>3. QED
      BY <3>1, <3>2
  <2>3. ASSUME Quiet, a \in delivered \ troubled PROVE ref[a] \in told
    <3>1. \A r \in Requests : req[r].kind # "alert"
      BY <2>3, OfRequest DEF Quiet, Active, Request
    <3>2. ref[a] # 0 /\ room[ref[a]] # Unseen
      BY <2>3, <3>1 DEF IInv, DeliveryInv, Announcing
    <3>3. ref[a] \in DOMAIN messages
      BY <3>2 DEF IInv, Types
    <3>4. messages[ref[a]].about = a
      BY <3>2 DEF IInv, RefInv
    <3>5. QED
      BY <3>2, <3>3, <3>4 DEF MessagesAbout
  <2>4. QED
    BY <2>2, <2>3
<1>2. QED
  BY <1>1, Inductive, PTL

(* A call refused after its retry was refused because the session opened for  *)
(* it expired, never because another call replaced the cached token           *)
(* (glpi.session.ts:54-66).                                                   *)
THEOREM RetriesHeal == Spec => []RetryHeals
<1>1. IInv => RetryHeals
  BY DEF IInv
<1>2. QED
  BY <1>1, Inductive, PTL
-------------------------------------------------------------------------------
(* One message and one ticket per subject, and a room that is up to date      *)

\* Neither overlapping nor failed requests: what the guarantees are about.
Clean(s) == s \notin crossed /\ s \notin troubled

\* The requests about a subject come one after the other.
Serial ==
    \A r, q \in Requests :
        Active(r) /\ Active(q) /\ req[r].about = req[q].about /\ req[r].about \notin crossed
        => r = q

\* A request q, its message and its ticket are about one thing, given the tickets
\* ts, the messages ms and the deliveries dl.
Coherent(q, ts, ms, dl) ==
    /\ q.msg # 0 => ms[q.msg].about = q.about
    /\ q.ticket # 0 => ts[q.ticket].about = q.about
    /\ q.kind = "ticket" => ms[q.msg].ticket = q.ticket
    /\ q.kind = "command" => q.about \in dl

AboutInv ==
    /\ \A r \in Requests : Active(r) => Coherent(req[r], tickets, messages, delivered)
    /\ \A m \in 1 .. Len(messages) : messages[m].ticket # 0 =>
          /\ messages[m].ticket <= Len(tickets)
          /\ tickets[messages[m].ticket].about = messages[m].about

\* The last condition of RoomUpToDate, of given tables.
Fresh(status, t, ts, d) ==
    t \in d \/ ts[t].code = Purged \/ status = mapGlpiStatus(ts[t].code)

\* What the tables hold of a subject: nothing, or a message with its ticket, if any.
Empty(s)    == MessagesAbout(s) = {} /\ TicketsAbout(s) = {}
Whole(s, m) == MessagesAbout(s) = {m} /\ TicketsAbout(s) = {messages[m].ticket} \ {0}
Settled(s)  == (s \in Alerts => ref[s] # 0) /\ (s \in Commands => s \in delivered)
Synced(m)   == room[m] # Unseen => room[m] = messages[m].status
FreshRow(m) == messages[m].ticket # 0
               => Fresh(messages[m].status, messages[m].ticket, tickets, due)

\* No request about s is under way.
Idle(s) ==
    \/ Empty(s)
    \/ /\ Settled(s)
       /\ \E m \in 1 .. Len(messages) : Whole(s, m) /\ Synced(m) /\ FreshRow(m)

\* Request q, about s, is before its message: at most its ticket exists.
Early(q) == /\ q.kind \in {"alert", "command"}
            /\ q.pc \in {"token", "init", "send", "answer", "store"}
WithTicket(q) == q.pc \in {"answer", "store"} /\ q.ans # "unauthorised" /\ q.ticket # 0
Making(q, s) ==
    IF WithTicket(q)
    THEN /\ MessagesAbout(s) = {} /\ TicketsAbout(s) = {q.ticket}
         /\ Fresh(mapGlpiStatus(1), q.ticket, tickets, due)
    ELSE /\ Empty(s) /\ q.ticket = 0
         /\ q.pc = "answer" => q.ans = "unauthorised"

\* It has a message, which it is reading the status for, updating or announcing.
Reading(q) == q.kind = "ticket" /\ q.pc \in {"token", "init", "send", "answer", "update"}
Status(q) ==
    IF Reading(q)
    THEN \/ q.pc \in {"token", "init", "send"} \/ q.ans = "unauthorised"
         \/ Fresh(q.ans, q.ticket, tickets, due)
    ELSE FreshRow(q.msg)
Holding(q, s) ==
    /\ q.msg \in 1 .. Len(messages)
    /\ Whole(s, q.msg)
    /\ q.pc # "track" => Settled(s)
    /\ q.pc \notin {"reload", "emit"} => Synced(q.msg)
    /\ q.pc = "emit" => q.dto = messages[q.msg].status
    /\ Status(q)

Busy(q, s) == IF Early(q) THEN Making(q, s) ELSE Holding(q, s)

About(r, s) == Active(r) /\ req[r].about = s

Sub(s) ==
    Clean(s) => /\ \A r \in Requests : About(r, s) => Busy(req[r], s)
                /\ (\A r \in Requests : ~About(r, s)) => Idle(s)

JInv == Serial /\ AboutInv /\ \A s \in Subjects : Sub(s)

\* What the type invariant says of the tables' rows.
LEMMA RowTypes ==
    ASSUME IInv
    PROVE  /\ Len(messages) \in Nat /\ DOMAIN messages = 1 .. Len(messages)
           /\ Len(tickets) \in Nat /\ DOMAIN tickets = 1 .. Len(tickets)
           /\ \A m \in 1 .. Len(messages) : messages[m] \in Rows
           /\ \A t \in 1 .. Len(tickets) : tickets[t] \in Tickets
           /\ \A a \in Alerts : ref[a] \in 0 .. Len(messages)
BY DEF IInv, Types

\* A step that changes nothing the tables hold of a subject, but possibly more of
\* its tickets' changes being on their way.
KeptTables(s) ==
    /\ MessagesAbout(s)' = MessagesAbout(s) /\ TicketsAbout(s)' = TicketsAbout(s)
    /\ Len(messages) <= Len(messages')
    /\ \A m \in MessagesAbout(s) : messages'[m] = messages[m] /\ room'[m] = room[m]
    /\ \A t \in TicketsAbout(s) : \A x :
          Fresh(x, t, tickets, due) => Fresh(x, t, tickets', due')
    /\ Settled(s) => Settled(s)'

\* The same of its requests.
KeptRequests(s) ==
    /\ Clean(s)' => Clean(s)
    /\ \A r \in Requests : About(r, s)' => About(r, s)
    /\ \A r \in Requests : About(r, s) => About(r, s)' /\ req'[r] = req[r]

LEMMA SameRow ==
    ASSUME IInv, IInv', NEW s \in Subjects, KeptTables(s),
           NEW m \in 1 .. Len(messages), Whole(s, m)
    PROVE  /\ m \in 1 .. Len(messages') /\ messages'[m] = messages[m] /\ Whole(s, m)'
           /\ Synced(m) => Synced(m)'
           /\ FreshRow(m) => FreshRow(m)'
<1>1. Len(messages) \in Nat /\ Len(messages') \in Nat /\ Len(messages) <= Len(messages')
  BY RowTypes DEF KeptTables, IInv, Types
<1>2. m \in MessagesAbout(s) /\ TicketsAbout(s) = {messages[m].ticket} \ {0}
  BY DEF Whole
<1>3. messages'[m] = messages[m] /\ room'[m] = room[m]
  BY <1>2 DEF KeptTables
<1>4. Whole(s, m)'
  BY <1>3 DEF Whole, KeptTables
<1>5. Synced(m) => Synced(m)'
  BY <1>3 DEF Synced
<1>6. FreshRow(m) => FreshRow(m)'
  <2>1. SUFFICES ASSUME FreshRow(m), messages[m].ticket # 0
                 PROVE  Fresh(messages[m].status, messages[m].ticket, tickets', due')
    BY <1>3 DEF FreshRow
  <2>2. messages[m].ticket \in TicketsAbout(s)
    BY <1>2, <2>1
  <2>3. Fresh(messages[m].status, messages[m].ticket, tickets, due)
    BY <2>1 DEF FreshRow
  <2>4. QED
    BY <2>2, <2>3 DEF KeptTables
<1>7. QED
  BY <1>1, <1>3, <1>4, <1>5, <1>6

LEMMA SameBusy ==
    ASSUME IInv, IInv', NEW s \in Subjects, KeptTables(s), NEW q \in Records,
           Request(q, tickets, messages, ref),
           Coherent(q, tickets, messages, delivered), q.about = s, Busy(q, s)
    PROVE  Busy(q, s)'
<1>1. CASE Early(q)
  <2>1. Making(q, s)
    BY <1>1 DEF Busy
  <2>2. Making(q, s)'
    <3>1. CASE WithTicket(q)
      <4>1. /\ MessagesAbout(s) = {} /\ TicketsAbout(s) = {q.ticket}
            /\ Fresh(mapGlpiStatus(1), q.ticket, tickets, due)
        BY <2>1, <3>1 DEF Making
      <4>2. Fresh(mapGlpiStatus(1), q.ticket, tickets', due')
        BY <4>1 DEF KeptTables
      <4>3. MessagesAbout(s)' = {} /\ TicketsAbout(s)' = {q.ticket}
        BY <4>1 DEF KeptTables
      <4>4. QED
        BY <3>1, <4>2, <4>3 DEF Making
    <3>2. CASE ~WithTicket(q)
      BY <2>1, <3>2 DEF Making, Empty, KeptTables
    <3>3. QED
      BY <3>1, <3>2
  <2>3. QED
    BY <1>1, <2>2 DEF Busy
<1>2. CASE ~Early(q)
  <2>1. Holding(q, s)
    BY <1>2 DEF Busy
  <2>2. PICK m \in 1 .. Len(messages) : m = q.msg /\ Whole(s, m)
    BY <2>1 DEF Holding
  <2>3. /\ m \in 1 .. Len(messages') /\ messages'[m] = messages[m] /\ Whole(s, m)'
        /\ Synced(m) => Synced(m)'
        /\ FreshRow(m) => FreshRow(m)'
    BY <2>2, SameRow
  <2>4. Status(q)'
    <3>1. CASE Reading(q)
      <4>1. q.ticket \in 1 .. Len(tickets)
        BY <3>1, RowTypes DEF Request, Records, Reading
      <4>2. q.ticket \in TicketsAbout(s)
        BY <4>1, RowTypes DEF Coherent, TicketsAbout
      <4>3. QED
        BY <2>1, <3>1, <4>2 DEF Holding, Status, KeptTables
    <3>2. CASE ~Reading(q)
      BY <2>1, <2>2, <2>3, <3>2 DEF Holding, Status
    <3>3. QED
      BY <3>1, <3>2
  <2>5. Holding(q, s)'
    BY <2>1, <2>2, <2>3, <2>4 DEF Holding, KeptTables
  <2>6. QED
    BY <1>2, <2>5 DEF Busy
<1>3. QED
  BY <1>1, <1>2

LEMMA SameIdle ==
    ASSUME IInv, IInv', NEW s \in Subjects, KeptTables(s), Idle(s)
    PROVE  Idle(s)'
<1>1. CASE Empty(s)
  BY <1>1 DEF Empty, Idle, KeptTables
<1>2. CASE ~Empty(s)
  <2>1. PICK m \in 1 .. Len(messages) : Whole(s, m) /\ Synced(m) /\ FreshRow(m)
    BY <1>2 DEF Idle
  <2>2. m \in 1 .. Len(messages') /\ Whole(s, m)' /\ Synced(m)' /\ FreshRow(m)'
    BY <2>1, SameRow
  <2>3. Settled(s)'
    BY <1>2 DEF Idle, KeptTables
  <2>4. QED
    BY <2>2, <2>3 DEF Idle
<1>3. QED
  BY <1>1, <1>2

LEMMA SameSubject ==
    ASSUME IInv, IInv', AboutInv, NEW s \in Subjects, Sub(s),
           KeptTables(s), KeptRequests(s)
    PROVE  Sub(s)'
<1> SUFFICES ASSUME Clean(s)'
             PROVE  /\ \A r \in Requests : About(r, s)' => Busy(req[r], s)'
                    /\ (\A r \in Requests : ~About(r, s)') => Idle(s)'
  BY DEF Sub
<1>1. Clean(s)
  BY DEF KeptRequests
<1>2. ASSUME NEW r \in Requests, About(r, s)' PROVE Busy(req[r], s)'
  <2>1. PICK q : q = req[r]
    OBVIOUS
  <2>2. About(r, s) /\ req'[r] = q /\ Busy(q, s)
    BY <1>1, <1>2, <2>1 DEF KeptRequests, Sub
  <2>3. q \in Records /\ Request(q, tickets, messages, ref) /\ q.about = s
        /\ Coherent(q, tickets, messages, delivered)
    BY <2>1, <2>2, OfRequest DEF About, AboutInv
  <2>4. Busy(q, s)'
    BY <2>2, <2>3, SameBusy
  <2>5. QED
    BY <2>2, <2>4 DEF Busy, Early, Making, WithTicket, Holding, Status, Reading, Whole,
                      FreshRow, Synced
<1>3. ASSUME \A r \in Requests : ~About(r, s)' PROVE Idle(s)'
  <2>1. Idle(s)
    BY <1>1, <1>3 DEF KeptRequests, Sub
  <2>2. QED
    BY <2>1, SameIdle
<1>4. QED
  BY <1>2, <1>3

\* A step that changes the tables only where they are about one subject.
Local(s) ==
    /\ Len(messages) <= Len(messages')
    /\ \A m \in 1 .. Len(messages') :
          IF m <= Len(messages)
          THEN /\ messages'[m].about = messages[m].about
               /\ messages[m].about # s => messages'[m] = messages[m] /\ room'[m] = room[m]
          ELSE messages'[m].about = s
    /\ Len(tickets) <= Len(tickets')
    /\ \A t \in 1 .. Len(tickets') :
          IF t <= Len(tickets)
          THEN /\ tickets'[t].about = tickets[t].about
               /\ tickets[t].about # s => /\ tickets'[t] = tickets[t]
                                          /\ t \in due => t \in due'
          ELSE tickets'[t].about = s
    /\ \A a \in Alerts : a # s => ref'[a] = ref[a]
    /\ delivered \subseteq delivered'

LEMMA OtherTables ==
    ASSUME IInv, IInv', NEW s, Local(s), NEW o \in Subjects, o # s
    PROVE  KeptTables(o)
<1>1. /\ Len(messages) \in Nat /\ DOMAIN messages = 1 .. Len(messages)
      /\ Len(tickets) \in Nat /\ DOMAIN tickets = 1 .. Len(tickets)
      /\ Len(messages') \in Nat /\ DOMAIN messages' = 1 .. Len(messages')
      /\ Len(tickets') \in Nat /\ DOMAIN tickets' = 1 .. Len(tickets')
  BY DEF IInv, Types
<1>2. MessagesAbout(o)' = MessagesAbout(o)
  BY <1>1 DEF MessagesAbout, Local
<1>3. TicketsAbout(o)' = TicketsAbout(o)
  BY <1>1 DEF TicketsAbout, Local
<1>4. ASSUME NEW m \in MessagesAbout(o)
      PROVE  messages'[m] = messages[m] /\ room'[m] = room[m]
  BY <1>1 DEF MessagesAbout, Local
<1>5. ASSUME NEW t \in TicketsAbout(o), NEW x, Fresh(x, t, tickets, due)
      PROVE  Fresh(x, t, tickets', due')
  <2>1. t \in 1 .. Len(tickets) /\ t \in 1 .. Len(tickets') /\ tickets[t].about = o
    BY <1>1 DEF TicketsAbout, Local
  <2>2. tickets'[t] = tickets[t] /\ (t \in due => t \in due')
    BY <2>1, <1>1 DEF Local
  <2>3. QED
    BY <1>5, <2>2 DEF Fresh
<1>6. Settled(o) => Settled(o)'
  BY DEF Settled, Local
<1>7. QED
  BY <1>2, <1>3, <1>4, <1>5, <1>6 DEF KeptTables, Local

\* A step that touches no table.
Still == UNCHANGED <<tickets, due, messages, ref, resolved, room, delivered>>

LEMMA StillTables ==
    ASSUME Still, IInv, NEW s
    PROVE  Local(s) /\ \A o \in Subjects : KeptTables(o)
<1>1. UNCHANGED <<tickets, due, messages, ref, resolved, room, delivered>>
  BY DEF Still
<1>2. Local(s)
  BY <1>1, RowTypes DEF Local
<1>3. ASSUME NEW o \in Subjects PROVE KeptTables(o)
  BY <1>1, RowTypes DEF KeptTables, MessagesAbout, TicketsAbout, Settled
<1>4. QED
  BY <1>2, <1>3

\* The rows of the tables name tickets about the same thing.
RowsAbout(ts, ms) ==
    \A m \in 1 .. Len(ms) : ms[m].ticket # 0 =>
          ms[m].ticket <= Len(ts) /\ ts[ms[m].ticket].about = ms[m].about

LEMMA StillCoherent ==
    ASSUME IInv, NEW s, Local(s), NEW q \in Records,
           Request(q, tickets, messages, ref),
           Coherent(q, tickets, messages, delivered),
           \A m \in 1 .. Len(messages) : messages'[m].ticket = messages[m].ticket
    PROVE  Coherent(q, tickets', messages', delivered')
<1>1. Len(messages) \in Nat /\ Len(tickets) \in Nat /\ Len(messages') \in Nat /\ Len(tickets') \in Nat
  BY DEF IInv, Types, Local
<1>2. QED
  BY <1>1 DEF Coherent, Request, Records, Local

\* A step of request r, about s, that leaves it with the record q.
LEMMA StepOf ==
    ASSUME IInv, IInv', JInv, NEW r \in Requests, Active(r), NEW q \in Records,
           NEW s \in Subjects, s = req[r].about, req' = [req EXCEPT ![r] = q],
           Local(s), crossed \subseteq crossed', troubled \subseteq troubled',
           \A m \in 1 .. Len(messages) : messages'[m].ticket = messages[m].ticket,
           RowsAbout(tickets, messages) => RowsAbout(tickets', messages'),
           q.pc # "free" => q.about = s /\ Coherent(q, tickets', messages', delivered'),
           Clean(s) /\ Clean(s)' /\ Busy(req[r], s)
           => IF q.pc = "free" THEN Idle(s)' ELSE Busy(q, s)'
    PROVE  JInv'
<1>1. \A p \in Requests : req'[p] = IF p = r THEN q ELSE req[p]
  BY DEF IInv, Types
<1>2. \A p \in Requests : Active(p)' => Active(p) /\ req'[p].about = req[p].about
  BY <1>1 DEF Active
<1>3. Serial'
  BY <1>2 DEF Serial, JInv
<1>4. AboutInv'
  <2>1. ASSUME NEW p \in Requests, Active(p)'
        PROVE  Coherent(req[p], tickets, messages, delivered)'
    <3>1. CASE p = r
      BY <1>1, <2>1, <3>1 DEF Active
    <3>2. CASE p # r
      <4>1. req'[p] = req[p] /\ Active(p)
        BY <1>1, <2>1, <3>2 DEF Active
      <4>2. Coherent(req[p], tickets, messages, delivered)
        BY <4>1 DEF JInv, AboutInv
      <4>3. QED
        BY <4>1, <4>2, OfRequest, StillCoherent
    <3>3. QED
      BY <3>1, <3>2
  <2>2. RowsAbout(tickets', messages')
    BY DEF JInv, AboutInv, RowsAbout
  <2>3. QED
    BY <2>1, <2>2 DEF AboutInv, RowsAbout
<1>5. ASSUME NEW o \in Subjects, o # s PROVE Sub(o)'
  <2>1. KeptTables(o)
    BY <1>5, OtherTables
  <2>2. KeptRequests(o)
    BY <1>1, <1>2, <1>5 DEF KeptRequests, About, Clean, Active
  <2>3. QED
    BY <2>1, <2>2, SameSubject DEF JInv
<1>6. Sub(s)'
  <2> SUFFICES ASSUME Clean(s)'
               PROVE  /\ \A p \in Requests : About(p, s)' => Busy(req[p], s)'
                      /\ (\A p \in Requests : ~About(p, s)') => Idle(s)'
    BY DEF Sub
  <2>1. Clean(s)
    BY DEF Clean
  <2>2. About(r, s) /\ Busy(req[r], s)
    BY <2>1 DEF About, Sub, JInv
  <2>3. \A p \in Requests : About(p, s)' => p = r
    BY <1>2, <2>1, <2>2 DEF About, Serial, JInv, Clean
  <2>4. req'[r] = q
    BY <1>1
  <2>5. IF q.pc = "free" THEN Idle(s)' ELSE Busy(q, s)'
    BY <2>1, <2>2
  <2>6. ASSUME NEW p \in Requests, About(p, s)' PROVE Busy(req[p], s)'
    <3>1. p = r /\ q.pc # "free"
      BY <2>3, <2>4, <2>6 DEF About, Active
    <3>2. QED
      BY <2>4, <2>5, <3>1 DEF Busy, Early, Making, WithTicket, Holding, Status, Reading,
                              Whole, FreshRow, Synced
  <2>7. ASSUME \A p \in Requests : ~About(p, s)' PROVE Idle(s)'
    BY <2>4, <2>5, <2>7 DEF About, Active
  <2>8. QED
    BY <2>6, <2>7
<1>7. QED
  BY <1>3, <1>4, <1>5, <1>6 DEF JInv

LEMMA StillStep ==
    ASSUME IInv, IInv', JInv, NEW r \in Requests, Active(r), NEW q \in Records,
           NEW s, s = req[r].about, req' = [req EXCEPT ![r] = q],
           Still, crossed' = crossed, troubled \subseteq troubled',
           q.pc # "free" => q.about = s /\ Coherent(q, tickets, messages, delivered),
           s \notin troubled' /\ Busy(req[r], s)
           => IF q.pc = "free" THEN Idle(s) ELSE Busy(q, s)
    PROVE  JInv'
<1>1. s \in Subjects
  BY OfRequest DEF Request, Active
<1>2. Local(s) /\ KeptTables(s)
  BY <1>1, StillTables
<1>3. UNCHANGED <<tickets, due, messages, ref, resolved, room, delivered>>
  BY DEF Still
<1>4. ASSUME q.pc # "free" PROVE Request(q, tickets, messages, ref)
  <2>1. req'[r] = q /\ Request(req'[r], tickets', messages', ref')
    BY DEF IInv, Types, HandlerInv
  <2>2. QED
    BY <1>3, <2>1
<1>5. ASSUME Clean(s), Clean(s)', Busy(req[r], s)
      PROVE  IF q.pc = "free" THEN Idle(s)' ELSE Busy(q, s)'
  <2>1. s \notin troubled'
    BY <1>5 DEF Clean
  <2>2. CASE q.pc = "free"
    BY <1>1, <1>2, <1>5, <2>1, <2>2, SameIdle
  <2>3. CASE q.pc # "free"
    BY <1>1, <1>2, <1>4, <1>5, <2>1, <2>3, SameBusy
  <2>4. QED
    BY <2>2, <2>3
<1>6. /\ q.pc # "free" => q.about = s /\ Coherent(q, tickets', messages', delivered')
      /\ \A m \in 1 .. Len(messages) : messages'[m].ticket = messages[m].ticket
      /\ RowsAbout(tickets, messages) => RowsAbout(tickets', messages')
  BY <1>3
<1>7. QED
  BY <1>1, <1>2, <1>5, <1>6, StepOf

\* What the invariant says of one request, if neither it nor another about the
\* same thing has failed or overlapped.
LEMMA OfActive ==
    ASSUME IInv, JInv, NEW r \in Requests, Active(r)
    PROVE  /\ Coherent(req[r], tickets, messages, delivered)
           /\ req[r].about \in Subjects
           /\ Clean(req[r].about) => Busy(req[r], req[r].about)
<1>1. req[r].about \in Subjects
  BY OfRequest DEF Request, Active
<1>2. QED
  BY <1>1 DEF JInv, AboutInv, Sub, About

LEMMA UseSessionOnce ==
    ASSUME IInv, IInv', JInv, NEW r \in Requests, UseSession(r) PROVE JInv'
<1>1. PICK q : q = [req[r] EXCEPT !.pc = IF sessionToken = 0 THEN "init" ELSE "send",
                                  !.token = sessionToken]
  OBVIOUS
<1>2. req[r].pc = "token" /\ Active(r)
  BY DEF UseSession, Active
<1>3. q \in Records /\ q.pc \in {"init", "send"}
  BY <1>1, OfRequest DEF Records, Steps
<1>4. /\ q.kind = req[r].kind /\ q.about = req[r].about /\ q.ticket = req[r].ticket
      /\ q.msg = req[r].msg /\ q.ans = req[r].ans
  BY <1>1, OfRequest DEF Records
<1>5. req' = [req EXCEPT ![r] = q] /\ Still /\ crossed' = crossed /\ troubled' = troubled
  BY <1>1 DEF UseSession, IInv, Types, Still, glpi, store, arrivals
<1>6. Coherent(q, tickets, messages, delivered)
  BY <1>2, <1>4, OfActive DEF Coherent
<1>7. req[r].kind \in {"alert", "command", "ticket"}
  BY <1>2, OfRequest DEF Request
<1>8. ASSUME Busy(req[r], req[r].about) PROVE Busy(q, req[r].about)
  BY <1>2, <1>3, <1>4, <1>7, <1>8 DEF Busy, Early, Making, WithTicket, Holding, Status, Reading
<1>9. QED
  BY <1>2, <1>3, <1>4, <1>5, <1>6, <1>8, StillStep

LEMMA initSessionOnce ==
    ASSUME IInv, IInv', JInv, NEW r \in Requests, initSession(r) PROVE JInv'
<1>1. PICK q : q = [req[r] EXCEPT !.pc = "send", !.token = FreshToken(r)]
  OBVIOUS
<1>2. req[r].pc = "init" /\ Active(r)
  BY DEF initSession, Active
<1>3. FreshToken(r) \in Nat
  BY OfRequest DEF FreshToken
<1>4. q \in Records /\ q.pc = "send"
  BY <1>1, <1>3, OfRequest DEF Records, Steps
<1>5. /\ q.kind = req[r].kind /\ q.about = req[r].about /\ q.ticket = req[r].ticket
      /\ q.msg = req[r].msg /\ q.ans = req[r].ans
  BY <1>1, OfRequest DEF Records
<1>6. req' = [req EXCEPT ![r] = q] /\ Still /\ crossed' = crossed /\ troubled' = troubled
  BY <1>1 DEF initSession, IInv, Types, Still, glpi, store, arrivals
<1>7. Coherent(q, tickets, messages, delivered)
  BY <1>2, <1>5, OfActive DEF Coherent
<1>8. req[r].kind \in {"alert", "command", "ticket"}
  BY <1>2, OfRequest DEF Request
<1>9. ASSUME Busy(req[r], req[r].about) PROVE Busy(q, req[r].about)
  BY <1>2, <1>4, <1>5, <1>8, <1>9 DEF Busy, Early, Making, WithTicket, Holding, Status, Reading
<1>10. QED
  BY <1>2, <1>4, <1>5, <1>6, <1>7, <1>9, StillStep

\* A request that fails is no concern of the invariant any more.
LEMMA FailsOnce ==
    ASSUME IInv, IInv', JInv, NEW r \in Requests, Active(r), NEW q \in Records,
           req' = [req EXCEPT ![r] = q], Still, crossed' = crossed,
           troubled \subseteq troubled', req[r].about \in troubled',
           q.pc # "free" => /\ q.about = req[r].about /\ q.ticket = 0
                            /\ q.msg = req[r].msg /\ q.kind = req[r].kind /\ q.kind # "ticket"
    PROVE  JInv'
<1>1. q.pc # "free" => Coherent(q, tickets, messages, delivered)
  BY OfActive DEF Coherent
<1>2. QED
  BY <1>1, StillStep

LEMMA UnavailableOnce ==
    ASSUME IInv, IInv', JInv, NEW r \in Requests, Unavailable(r), Active(r),
           UNCHANGED <<arrivals, glpi, session, store, room>>
    PROVE  JInv'
<1>1. PICK q : q = IF req[r].kind = "alert"
                   THEN [Called(r, "store", "none") EXCEPT !.ticket = 0] ELSE Free
  OBVIOUS
<1>2. req' = [req EXCEPT ![r] = q] /\ Still /\ crossed' = crossed
      /\ troubled \subseteq troubled' /\ req[r].about \in troubled'
  BY <1>1 DEF Unavailable, Still, glpi, store, arrivals
<1>3. CASE req[r].kind = "alert"
  <2>1. q = [req[r] EXCEPT !.pc = "store", !.token = 0, !.renewed = FALSE,
                           !.ans = "none", !.ticket = 0]
    BY <1>1, <1>3, OfRequest DEF Records, Called
  <2>2. q \in Records /\ q.about = req[r].about /\ q.ticket = 0 /\ q.msg = req[r].msg
        /\ q.kind = req[r].kind
    BY <2>1, OfRequest DEF Records, Steps
  <2>3. QED
    BY <1>2, <1>3, <2>2, FailsOnce
<1>4. CASE req[r].kind # "alert"
  BY <1>1, <1>2, <1>4, FreeRecord, FailsOnce
<1>5. QED
  BY <1>3, <1>4

LEMMA GlpiFailsOnce ==
    ASSUME IInv, IInv', JInv, NEW r \in Requests, GlpiFails(r) PROVE JInv'
BY UnavailableOnce DEF GlpiFails, Active

LEMMA RequestThrowsOnce ==
    ASSUME IInv, IInv', JInv, NEW r \in Requests, RequestThrows(r) PROVE JInv'
<1>1. /\ req' = [req EXCEPT ![r] = Free] /\ Still /\ crossed' = crossed /\ Active(r)
      /\ troubled \subseteq troubled' /\ req[r].about \in troubled'
  BY DEF RequestThrows, Still, glpi, store, arrivals, Active
<1>2. QED
  BY <1>1, FreeRecord, FailsOnce

LEMMA getByIdOnce ==
    ASSUME IInv, IInv', JInv, NEW r \in Requests, getById(r) PROVE JInv'
<1>1. PICK q : q = [req[r] EXCEPT !.pc = "emit", !.dto = Dto(req[r].msg)]
  OBVIOUS
<1>2. req[r].pc = "reload" /\ Active(r)
  BY DEF getById, Active
<1>3. req' = [req EXCEPT ![r] = q] /\ Still /\ crossed' = crossed /\ troubled' = troubled
  BY <1>1 DEF getById, IInv, Types, Still, glpi, store, arrivals
<1>4. q \in Records
  BY <1>3 DEF IInv, Types
<1>5. /\ q.kind = req[r].kind /\ q.about = req[r].about /\ q.ticket = req[r].ticket
      /\ q.msg = req[r].msg /\ q.pc = "emit"
      /\ q.dto = messages[req[r].msg].status
  BY <1>1, OfRequest DEF Records, Dto
<1>6. Coherent(q, tickets, messages, delivered)
  BY <1>2, <1>5, OfActive DEF Coherent
<1>7. ASSUME Busy(req[r], req[r].about) PROVE Busy(q, req[r].about)
  BY <1>2, <1>5, <1>7 DEF Busy, Early, Holding, Status, Reading
<1>8. QED
  BY <1>2, <1>3, <1>4, <1>5, <1>6, <1>7, StillStep

\* The requests GLPI has answered.
LEMMA GlpiAnsweredOnce ==
    ASSUME IInv, IInv', JInv, NEW r \in Requests, GlpiAnswered(r) PROVE JInv'
<1>1. /\ req[r].pc = "answer" /\ Active(r) /\ Still /\ crossed' = crossed
      /\ UNCHANGED <<arrivals, glpi, session, store, room>>
  BY DEF GlpiAnswered, Active, Still, arrivals, glpi, store
<1>2. IF req[r].kind = "ticket" THEN req[r].ans \in Labels \cup {"unauthorised", "gone"}
                                ELSE req[r].ans \in {"unauthorised", "created"}
  BY <1>1, OfRequest DEF Request
<1>3. req[r].kind \in {"alert", "command", "ticket"}
  BY <1>1, OfRequest DEF Request
<1>4. CASE req[r].ans = "unauthorised" /\ ~req[r].renewed
  <2>1. PICK q : q = [req[r] EXCEPT !.pc = "init", !.renewed = TRUE]
    OBVIOUS
  <2>2. req' = [req EXCEPT ![r] = q] /\ troubled' = troubled
    <3>1. /\ req' = [req EXCEPT ![r].pc = "init", ![r].renewed = TRUE]
          /\ troubled' = troubled
      BY <1>4 DEF GlpiAnswered
    <3>2. QED
      BY <2>1, <3>1 DEF IInv, Types
  <2>3. q \in Records
    BY <2>2 DEF IInv, Types
  <2>4. /\ q.kind = req[r].kind /\ q.about = req[r].about /\ q.ticket = req[r].ticket
        /\ q.msg = req[r].msg /\ q.pc = "init"
    BY <2>1, OfRequest DEF Records
  <2>5. Coherent(q, tickets, messages, delivered)
    BY <1>1, <2>4, OfActive DEF Coherent
  <2>6. ASSUME Busy(req[r], req[r].about) PROVE Busy(q, req[r].about)
    BY <1>1, <1>3, <1>4, <2>4, <2>6 DEF Busy, Early, Making, WithTicket, Holding, Status, Reading
  <2>7. QED
    BY <1>1, <2>2, <2>3, <2>4, <2>5, <2>6, StillStep
<1>5. CASE req[r].ans = "unauthorised" /\ req[r].renewed
  <2>1. Unavailable(r)
    BY <1>5 DEF GlpiAnswered
  <2>2. QED
    BY <1>1, <2>1, UnavailableOnce
<1>6. CASE req[r].ans = "gone"
  <2>1. req' = [req EXCEPT ![r] = Free] /\ troubled' = troubled
    BY <1>6 DEF GlpiAnswered
  <2>2. req[r].kind = "ticket"
    BY <1>2, <1>6
  <2>3. ASSUME Busy(req[r], req[r].about) PROVE Idle(req[r].about)
    <3>1. Holding(req[r], req[r].about) /\ Status(req[r])
      BY <2>2, <2>3 DEF Busy, Early, Holding
    <3>2. Fresh("gone", req[r].ticket, tickets, due)
      BY <1>1, <1>6, <2>2, <3>1 DEF Status, Reading
    <3>3. req[r].ticket \in 1 .. Len(tickets)
      BY <2>2, OfRequest, RowTypes DEF Request, Records
    <3>4. mapGlpiStatus(tickets[req[r].ticket].code) # "gone"
      <4>1. tickets[req[r].ticket].code \in Nat
        BY <3>3, RowTypes DEF Tickets
      <4>2. mapGlpiStatus(tickets[req[r].ticket].code) \in Labels
        BY <4>1, StatusLabel
      <4>3. QED
        BY <4>2 DEF Labels
    <3>5. \A x : Fresh(x, req[r].ticket, tickets, due)
      BY <3>2, <3>4 DEF Fresh
    <3>6. messages[req[r].msg].ticket = req[r].ticket
      BY <1>1, <2>2, OfActive DEF Coherent
    <3>7. FreshRow(req[r].msg)
      BY <3>5, <3>6 DEF FreshRow
    <3>8. QED
      BY <1>1, <3>1, <3>7 DEF Holding, Idle
  <2>4. QED
    BY <1>1, <2>1, <2>3, FreeRecord, StillStep
<1>7. CASE req[r].ans \notin {"unauthorised", "gone"}
  <2>1. PICK q : q = IF req[r].ans = "created" THEN Called(r, "store", "none")
                     ELSE Called(r, "update", req[r].ans)
    OBVIOUS
  <2>2. req' = [req EXCEPT ![r] = q] /\ troubled' = troubled
    BY <1>7, <2>1 DEF GlpiAnswered
  <2>3. q \in Records
    BY <2>2 DEF IInv, Types
  <2>4. /\ q.kind = req[r].kind /\ q.about = req[r].about /\ q.ticket = req[r].ticket
        /\ q.msg = req[r].msg
        /\ q.pc = IF req[r].ans = "created" THEN "store" ELSE "update"
        /\ q.ans = IF req[r].ans = "created" THEN "none" ELSE req[r].ans
    BY <2>1, OfRequest DEF Records, Called
  <2>5. Coherent(q, tickets, messages, delivered)
    BY <1>1, <2>4, OfActive DEF Coherent
  <2>6. req[r].ans = "created" <=> req[r].kind \in {"alert", "command"}
    BY <1>2, <1>3, <1>7 DEF Labels
  <2>7. ASSUME Busy(req[r], req[r].about) PROVE Busy(q, req[r].about)
    <3>1. CASE req[r].ans = "created"
      BY <1>1, <2>4, <2>6, <2>7, <3>1 DEF Busy, Early, Making, WithTicket
    <3>2. CASE req[r].ans # "created"
      BY <1>1, <1>3, <1>7, <2>4, <2>6, <2>7, <3>2 DEF Busy, Early, Holding, Status, Reading
    <3>3. QED
      BY <3>1, <3>2
  <2>8. q.pc # "free"
    BY <2>4
  <2>9. QED
    BY <1>1, <2>2, <2>3, <2>4, <2>5, <2>7, <2>8, StillStep
<1>8. QED
  BY <1>4, <1>5, <1>6, <1>7

\* A ticket is made, or a status read, or neither for want of a session.
LEMMA GlpiServesOnce ==
    ASSUME IInv, IInv', JInv, NEW r \in Requests, GlpiServes(r) PROVE JInv'
<1>1. /\ req[r].pc = "send" /\ Active(r)
      /\ UNCHANGED <<due, messages, ref, resolved, room, delivered, crossed, troubled>>
  BY DEF GlpiServes, Active, arrivals, store
<1>2. req[r].kind \in {"alert", "command", "ticket"}
  BY <1>1, OfRequest DEF Request
<1>3. CASE req[r].token \notin sessions
  <2>1. PICK q : q = [req[r] EXCEPT !.pc = "answer", !.ans = "unauthorised"]
    OBVIOUS
  <2>2. req' = [req EXCEPT ![r] = q] /\ tickets' = tickets
    <3>1. req' = [req EXCEPT ![r].pc = "answer", ![r].ans = "unauthorised"] /\ tickets' = tickets
      BY <1>3 DEF GlpiServes
    <3>2. QED
      BY <2>1, <3>1 DEF IInv, Types
  <2>3. q \in Records
    BY <2>2 DEF IInv, Types
  <2>4. /\ q.kind = req[r].kind /\ q.about = req[r].about /\ q.ticket = req[r].ticket
        /\ q.msg = req[r].msg /\ q.pc = "answer" /\ q.ans = "unauthorised"
    BY <2>1, OfRequest DEF Records
  <2>5. Coherent(q, tickets, messages, delivered)
    BY <1>1, <2>4, OfActive DEF Coherent
  <2>6. ASSUME Busy(req[r], req[r].about) PROVE Busy(q, req[r].about)
    BY <1>1, <1>2, <2>4, <2>6 DEF Busy, Early, Making, WithTicket, Holding, Status, Reading
  <2>7. Still
    BY <1>1, <2>2 DEF Still
  <2>8. QED
    BY <1>1, <2>2, <2>3, <2>4, <2>5, <2>6, <2>7, StillStep
<1>4. CASE req[r].token \in sessions /\ req[r].kind = "ticket"
  <2> DEFINE code == tickets[req[r].ticket].code
  <2>1. PICK q : q = [req[r] EXCEPT !.pc = "answer",
                                    !.ans = IF code = Purged THEN "gone" ELSE mapGlpiStatus(code)]
    OBVIOUS
  <2>2. req' = [req EXCEPT ![r] = q] /\ tickets' = tickets
    <3>1. /\ req' = [req EXCEPT ![r].pc = "answer", ![r].ans =
                        IF code = Purged THEN "gone" ELSE mapGlpiStatus(code)]
          /\ tickets' = tickets
      BY <1>4 DEF GlpiServes
    <3>2. QED
      BY <2>1, <3>1 DEF IInv, Types
  <2>3. q \in Records
    BY <2>2 DEF IInv, Types
  <2>4. /\ q.kind = req[r].kind /\ q.about = req[r].about /\ q.ticket = req[r].ticket
        /\ q.msg = req[r].msg /\ q.pc = "answer"
        /\ q.ans = IF code = Purged THEN "gone" ELSE mapGlpiStatus(code)
    BY <2>1, OfRequest DEF Records
  <2>5. Coherent(q, tickets, messages, delivered)
    BY <1>1, <2>4, OfActive DEF Coherent
  <2>6. Fresh(q.ans, q.ticket, tickets, due)
    BY <2>4 DEF Fresh
  <2>7. ASSUME Busy(req[r], req[r].about) PROVE Busy(q, req[r].about)
    BY <1>1, <1>4, <2>4, <2>6, <2>7 DEF Busy, Early, Holding, Status, Reading
  <2>8. Still
    BY <1>1, <2>2 DEF Still
  <2>9. QED
    BY <1>1, <2>2, <2>3, <2>4, <2>5, <2>7, <2>8, StillStep
<1>5. CASE req[r].token \in sessions /\ req[r].kind # "ticket"
  <2>1. PICK q, s, n : /\ s = req[r].about /\ n = Len(tickets) + 1
                       /\ q = [req[r] EXCEPT !.pc = "answer", !.ans = "created", !.ticket = n]
    OBVIOUS
  <2>2. /\ req' = [req EXCEPT ![r] = q]
        /\ tickets' = Append(tickets, [about |-> s, code |-> 1])
    <3>1. /\ req' = [req EXCEPT ![r].pc = "answer", ![r].ans = "created",
                                ![r].ticket = Len(tickets) + 1]
          /\ tickets' = Append(tickets, [about |-> req[r].about, code |-> 1])
      BY <1>5 DEF GlpiServes
    <3>2. QED
      BY <2>1, <3>1 DEF IInv, Types
  <2>3. q \in Records
    BY <2>2 DEF IInv, Types
  <2>4. /\ q.kind = req[r].kind /\ q.about = s /\ q.ticket = n /\ n # 0 /\ q.msg = req[r].msg
        /\ q.pc = "answer" /\ q.ans = "created"
    BY <2>1, RowTypes, OfRequest DEF Records
  <2>5. Early(req[r]) /\ Early(q)
    BY <1>1, <1>2, <1>5, <2>4 DEF Early
  <2>6. s = req[r].about /\ s \in Subjects /\ Coherent(req[r], tickets, messages, delivered)
    BY <1>1, <2>1, OfActive
  <2>7. /\ Len(tickets') = n /\ tickets'[n].about = s /\ tickets'[n].code = 1
        /\ \A t \in 1 .. Len(tickets) : tickets'[t] = tickets[t]
    BY <2>1, <2>2, RowTypes DEF IInv, Types
  <2>8. Local(s)
    BY <1>1, <2>1, <2>7, RowTypes DEF Local
  <2>9. RowsAbout(tickets, messages) => RowsAbout(tickets', messages')
    BY <1>1, <2>1, <2>7, RowTypes DEF RowsAbout, Rows
  <2>10. Coherent(q, tickets', messages', delivered')
    BY <1>1, <1>5, <2>4, <2>6, <2>7 DEF Coherent
  <2>11. ASSUME Busy(req[r], s) PROVE Busy(q, s)'
    <3>1. Empty(s)
      BY <1>1, <2>5, <2>11 DEF Busy, Making, WithTicket
    <3>2. MessagesAbout(s)' = {}
      BY <1>1, <3>1 DEF Empty, MessagesAbout
    <3>3. TicketsAbout(s)' = {n}
      <4>1. DOMAIN tickets' = 1 .. n /\ DOMAIN tickets = 1 .. Len(tickets) /\ Len(tickets) \in Nat
        BY <2>2, <2>7, RowTypes DEF IInv, Types
      <4>2. \A t \in 1 .. Len(tickets) : tickets'[t].about # s
        BY <2>7, <3>1, <4>1 DEF Empty, TicketsAbout
      <4>3. n \in 1 .. n /\ \A t \in 1 .. n : t = n \/ t \in 1 .. Len(tickets)
        BY <2>1, <4>1
      <4>4. QED
        BY <2>7, <4>1, <4>2, <4>3 DEF TicketsAbout
    <3>4. Fresh(mapGlpiStatus(1), n, tickets', due')
      BY <2>7 DEF Fresh
    <3>5. QED
      BY <2>4, <2>5, <3>2, <3>3, <3>4 DEF Busy, Making, WithTicket, Early
  <2>12. \A m \in 1 .. Len(messages) : messages'[m].ticket = messages[m].ticket
    BY <1>1
  <2>13. s = req[r].about /\ q.pc # "free"
    BY <2>1, <2>4
  <2>14. Active(r) /\ crossed \subseteq crossed' /\ troubled \subseteq troubled'
    BY <1>1
  <2>15. req' = [req EXCEPT ![r] = q]
    BY <2>2
  <2>16. QED
    BY <2>3, <2>4, <2>6, <2>8, <2>9, <2>10, <2>11, <2>12, <2>13, <2>14, <2>15, StepOf
<1>6. QED
  BY <1>3, <1>4, <1>5

LEMMA StoreMessageOnce ==
    ASSUME IInv, IInv', JInv, NEW r \in Requests, StoreMessage(r) PROVE JInv'
<1>1. PICK q, s, m, status :
         /\ s = req[r].about /\ m = Len(messages) + 1
         /\ status = IF req[r].ticket = 0 THEN "none" ELSE mapGlpiStatus(1)
         /\ q = [req[r] EXCEPT !.pc = IF req[r].kind = "alert" THEN "track" ELSE "emit",
                               !.msg = m, !.dto = status]
  OBVIOUS
<1>2. /\ req[r].pc = "store" /\ Active(r) /\ room' = Append(room, Unseen)
      /\ messages' = Append(messages, [about |-> s, ticket |-> req[r].ticket, status |-> status])
      /\ UNCHANGED <<tickets, due, ref, resolved, delivered, crossed, troubled>>
  BY <1>1 DEF StoreMessage, Active, arrivals, glpi
<1>3. req' = [req EXCEPT ![r] = q]
  BY <1>1 DEF StoreMessage, IInv, Types
<1>4. q \in Records
  BY <1>3 DEF IInv, Types
<1>5. req[r].kind \in {"alert", "command"}
  BY <1>2, OfRequest DEF Request
<1>6. /\ q.kind = req[r].kind /\ q.about = s /\ q.ticket = req[r].ticket /\ q.msg = m
      /\ q.pc = IF req[r].kind = "alert" THEN "track" ELSE "emit"
      /\ q.dto = status
  BY <1>1, OfRequest DEF Records
<1>7. /\ Len(messages) \in Nat /\ m = Len(messages) + 1 /\ Len(messages') = m
      /\ DOMAIN messages' = 1 .. m /\ DOMAIN messages = 1 .. Len(messages)
      /\ messages'[m] = [about |-> s, ticket |-> req[r].ticket, status |-> status]
      /\ \A n \in 1 .. Len(messages) : messages'[n] = messages[n]
  BY <1>1, <1>2, RowTypes DEF IInv, Types
<1>8. room'[m] = Unseen /\ \A n \in 1 .. Len(messages) : room'[n] = room[n]
  <2>1. room \in Seq(Dtos \cup {Unseen}) /\ Len(room) = Len(messages)
    BY DEF IInv, Types
  <2>2. QED
    BY <1>2, <1>7, <2>1
<1>9. Early(req[r]) /\ ~Early(q)
  BY <1>2, <1>5, <1>6 DEF Early
<1>10. /\ s \in Subjects /\ Coherent(req[r], tickets, messages, delivered)
       /\ req[r].ticket \in Nat /\ req[r].ticket <= Len(tickets)
  BY <1>1, <1>2, OfActive, OfRequest DEF Request, Records
<1>11. Local(s)
  <2>1. ASSUME NEW n \in 1 .. Len(messages')
        PROVE  IF n <= Len(messages)
               THEN /\ messages'[n].about = messages[n].about
                    /\ messages[n].about # s => messages'[n] = messages[n] /\ room'[n] = room[n]
               ELSE messages'[n].about = s
    <3>1. CASE n = m
      BY <1>7, <3>1
    <3>2. CASE n # m
      <4>1. n \in 1 .. Len(messages)
        BY <1>7, <3>2
      <4>2. QED
        BY <1>7, <1>8, <4>1
    <3>3. QED
      BY <3>1, <3>2
  <2>2. Len(messages) <= Len(messages') /\ Len(tickets) \in Nat
    BY <1>7, RowTypes
  <2>3. /\ \A t \in 1 .. Len(tickets') : t <= Len(tickets)
        /\ Len(tickets) <= Len(tickets') /\ tickets' = tickets /\ due' = due
    BY <1>2, <2>2
  <2>4. ref' = ref /\ delivered' = delivered
    BY <1>2
  <2>5. QED
    BY <2>1, <2>2, <2>3, <2>4 DEF Local
<1>12. RowsAbout(tickets, messages) => RowsAbout(tickets', messages')
  <2> SUFFICES ASSUME RowsAbout(tickets, messages), NEW n \in 1 .. Len(messages'),
                      messages'[n].ticket # 0
               PROVE  /\ messages'[n].ticket <= Len(tickets)
                      /\ tickets[messages'[n].ticket].about = messages'[n].about
    BY <1>2 DEF RowsAbout
  <2>1. CASE n = m
    BY <1>1, <1>7, <1>10, <2>1 DEF Coherent
  <2>2. CASE n # m
    <3>1. n \in 1 .. Len(messages)
      BY <1>7, <2>2
    <3>2. QED
      BY <1>7, <3>1 DEF RowsAbout
  <2>3. QED
    BY <2>1, <2>2
<1>13. Coherent(q, tickets', messages', delivered')
  BY <1>1, <1>2, <1>5, <1>6, <1>7, <1>10 DEF Coherent
<1>14. ASSUME Busy(req[r], s) PROVE Busy(q, s)'
  <2>1. /\ MessagesAbout(s) = {} /\ TicketsAbout(s) = {req[r].ticket} \ {0}
        /\ req[r].ticket # 0 => Fresh(mapGlpiStatus(1), req[r].ticket, tickets, due)
    BY <1>2, <1>9, <1>14 DEF Busy, Making, WithTicket, Empty
  <2>2. MessagesAbout(s)' = {m}
    <3>1. \A n \in 1 .. Len(messages) : messages'[n].about # s
      BY <1>7, <2>1 DEF MessagesAbout
    <3>2. m \in 1 .. m /\ \A n \in 1 .. m : n = m \/ n \in 1 .. Len(messages)
      BY <1>7
    <3>3. QED
      BY <1>7, <3>1, <3>2 DEF MessagesAbout
  <2>3. TicketsAbout(s)' = {req[r].ticket} \ {0}
    BY <1>2, <2>1 DEF TicketsAbout
  <2>4. Whole(s, m)'
    BY <1>7, <2>2, <2>3 DEF Whole
  <2>5. Synced(m)'
    BY <1>8 DEF Synced
  <2>6. q.pc # "track" => Settled(s)'
    <3>1. SUFFICES ASSUME req[r].kind = "command" PROVE Settled(s)'
      BY <1>5, <1>6
    <3>2. s \in delivered /\ s \in Commands
      BY <1>1, <1>10, <3>1, OfRequest DEF Coherent, Request
    <3>3. s \notin Alerts
      BY <3>2, IntegrationsAssumption
    <3>4. QED
      BY <1>2, <3>2, <3>3 DEF Settled
  <2>7. messages'[m].status = status
    BY <1>7
  <2>8. Status(q)'
    <3>1. FreshRow(m)'
      BY <1>1, <1>2, <1>7, <2>1 DEF FreshRow
    <3>2. QED
      BY <1>5, <1>6, <3>1 DEF Status, Reading
  <2>9. m \in 1 .. Len(messages')
    BY <1>7
  <2>10. Holding(q, s)'
    BY <1>5, <1>6, <2>4, <2>5, <2>6, <2>7, <2>8, <2>9 DEF Holding
  <2>11. QED
    BY <1>9, <2>10 DEF Busy, Early
<1>15. \A n \in 1 .. Len(messages) : messages'[n].ticket = messages[n].ticket
  BY <1>7
<1>16. s = req[r].about /\ q.about = s /\ q.pc # "free"
  BY <1>1, <1>6
<1>17. Active(r) /\ crossed \subseteq crossed' /\ troubled \subseteq troubled'
  BY <1>2
<1>18. QED
  BY <1>3, <1>4, <1>10, <1>11, <1>12, <1>13, <1>14, <1>15, <1>16, <1>17, StepOf

LEMMA trackAndBroadcastOnce ==
    ASSUME IInv, IInv', JInv, NEW r \in Requests, trackAndBroadcast(r) PROVE JInv'
<1>1. PICK s, m : s = req[r].about /\ m = req[r].msg
  OBVIOUS
<1>2. /\ req[r].pc = "track" /\ Active(r)
      /\ UNCHANGED <<tickets, due, messages, resolved, room, delivered, crossed, troubled>>
  BY DEF trackAndBroadcast, Active, arrivals, glpi
<1>3. /\ req[r].kind = "alert" /\ s \in Alerts /\ s \in Subjects /\ s \notin Commands
      /\ m # 0 /\ messages[m].about = s /\ m \in 1 .. Len(messages)
  BY <1>1, <1>2, OfRequest, RowTypes, IntegrationsAssumption DEF Request, Records, Subjects
<1>4. ~Early(req[r]) /\ ~Reading(req[r])
  BY <1>2, <1>3 DEF Early, Reading
<1>5. Busy(req[r], s) => Holding(req[r], s) /\ Whole(s, m) /\ Synced(m) /\ FreshRow(m)
  BY <1>1, <1>2, <1>4 DEF Busy, Holding, Status
<1>6. CASE Tracked(s)
  <2>1. req' = [req EXCEPT ![r] = Free] /\ ref' = ref
    BY <1>1, <1>6 DEF trackAndBroadcast
  <2>2. Still
    BY <1>2, <2>1 DEF Still
  <2>3. Busy(req[r], s) => Idle(s)
    BY <1>3, <1>5, <1>6 DEF Idle, Settled, Tracked
  <2>4. QED
    BY <1>1, <1>2, <2>1, <2>2, <2>3, FreeRecord, StillStep
<1>7. CASE ~Tracked(s)
  <2>1. PICK q : q = [req[r] EXCEPT !.pc = "reload"]
    OBVIOUS
  <2>2. req' = [req EXCEPT ![r] = q] /\ ref' = [ref EXCEPT ![s] = m]
    <3>1. req' = [req EXCEPT ![r].pc = "reload"] /\ ref' = [ref EXCEPT ![req[r].about] = req[r].msg]
      BY <1>1, <1>7 DEF trackAndBroadcast
    <3>2. QED
      BY <1>1, <2>1, <3>1 DEF IInv, Types
  <2>3. q \in Records
    BY <2>2 DEF IInv, Types
  <2>4. q.kind = "alert" /\ q.about = s /\ q.ticket = req[r].ticket /\ q.msg = m /\ q.pc = "reload"
    BY <1>1, <1>3, <2>1, OfRequest DEF Records
  <2>5. Coherent(q, tickets', messages', delivered')
    BY <1>1, <1>2, <2>4, OfActive DEF Coherent
  <2>6. ref'[s] = m /\ \A a \in Alerts : a # s => ref'[a] = ref[a]
    BY <1>3, <2>2 DEF IInv, Types
  <2>7. Local(s)
    BY <1>2, <2>6, RowTypes DEF Local
  <2>8. ASSUME Busy(req[r], s) PROVE Busy(q, s)'
    <3>1. Whole(s, m)' /\ FreshRow(m)' /\ m \in 1 .. Len(messages')
      BY <1>2, <1>3, <1>5, <2>8 DEF Whole, FreshRow, MessagesAbout, TicketsAbout
    <3>2. Settled(s)'
      BY <1>3, <2>6 DEF Settled
    <3>3. Holding(q, s)'
      BY <2>4, <3>1, <3>2 DEF Holding, Status, Reading
    <3>4. QED
      BY <2>4, <3>3 DEF Busy, Early
  <2>9. /\ \A n \in 1 .. Len(messages) : messages'[n].ticket = messages[n].ticket
        /\ RowsAbout(tickets, messages) => RowsAbout(tickets', messages')
        /\ crossed \subseteq crossed' /\ troubled \subseteq troubled'
    BY <1>2
  <2>10. s = req[r].about /\ q.pc # "free" /\ q.about = s
    BY <1>1, <2>4
  <2>11. QED
    BY <1>2, <1>3, <2>2, <2>3, <2>5, <2>7, <2>8, <2>9, <2>10, StepOf
<1>8. QED
  BY <1>6, <1>7

\* The alert is marked as resolved, or the ticket's new status is stored.
LEMMA UpdateRefOnce ==
    ASSUME IInv, IInv', JInv, NEW r \in Requests, UpdateRef(r) PROVE JInv'
<1>1. PICK s, m, q : /\ s = req[r].about /\ m = req[r].msg
                     /\ q = [req[r] EXCEPT !.pc = "reload", !.ans = "none"]
  OBVIOUS
<1>2. /\ req[r].pc = "update" /\ Active(r)
      /\ UNCHANGED <<tickets, due, ref, room, delivered, crossed, troubled>>
  BY DEF UpdateRef, Active, arrivals, glpi
<1>3. req' = [req EXCEPT ![r] = q]
  BY <1>1 DEF UpdateRef, IInv, Types
<1>4. q \in Records
  BY <1>3 DEF IInv, Types
<1>5. /\ q.kind = req[r].kind /\ q.about = s /\ q.ticket = req[r].ticket /\ q.msg = m
      /\ q.pc = "reload"
  BY <1>1, OfRequest DEF Records
<1>6. /\ s = req[r].about /\ m = req[r].msg /\ m # 0 /\ m \in 1 .. Len(messages)
      /\ s \in Subjects /\ messages[m].about = s
      /\ Coherent(req[r], tickets, messages, delivered)
      /\ \/ req[r].kind = "resolve" /\ s \in Alerts
         \/ req[r].kind = "ticket" /\ req[r].ans \in Labels
  <2>1. req[r] \in Records /\ Request(req[r], tickets, messages, ref)
        /\ Coherent(req[r], tickets, messages, delivered) /\ req[r].about \in Subjects
    BY <1>2, OfActive, OfRequest
  <2>2. m # 0 /\ m \in Nat /\ m <= Len(messages)
    BY <1>1, <1>2, <2>1 DEF Request, Records
  <2>3. m \in 1 .. Len(messages)
    BY <2>2, RowTypes
  <2>4. \/ req[r].kind = "resolve" /\ s \in Alerts
        \/ req[r].kind = "ticket" /\ req[r].ans \in Labels
    BY <1>1, <1>2, <2>1 DEF Request
  <2>5. messages[m].about = s
    BY <1>1, <2>1, <2>2 DEF Coherent
  <2>6. QED
    BY <1>1, <2>1, <2>2, <2>3, <2>4, <2>5
<1>7. ~Early(req[r]) /\ ~Early(q) /\ ~Reading(q)
  BY <1>2, <1>5, <1>6 DEF Early, Reading
<1>8. s = req[r].about /\ q.pc # "free" /\ q.about = s /\ crossed \subseteq crossed'
      /\ troubled \subseteq troubled'
  BY <1>2, <1>5, <1>6
<1>9. CASE req[r].kind = "resolve"
  <2>1. resolved' = resolved \cup {s} /\ messages' = messages
    BY <1>6, <1>9 DEF UpdateRef
  <2>2. Local(s)
    BY <1>2, <2>1, RowTypes DEF Local
  <2>3. Coherent(q, tickets', messages', delivered')
    BY <1>2, <1>5, <1>6, <2>1 DEF Coherent
  <2>4. ASSUME Busy(req[r], s) PROVE Busy(q, s)'
    <3>1. Whole(s, m) /\ Settled(s) /\ FreshRow(m)
      BY <1>2, <1>6, <1>7, <1>9, <2>4 DEF Busy, Holding, Status, Reading
    <3>2. Whole(s, m)' /\ Settled(s)' /\ FreshRow(m)' /\ m \in 1 .. Len(messages')
      BY <1>2, <1>6, <2>1, <3>1 DEF Whole, FreshRow, Settled, MessagesAbout, TicketsAbout
    <3>3. QED
      BY <1>5, <1>7, <3>2 DEF Busy, Holding, Status, Early, Reading
  <2>5. /\ \A n \in 1 .. Len(messages) : messages'[n].ticket = messages[n].ticket
        /\ RowsAbout(tickets, messages) => RowsAbout(tickets', messages')
    BY <1>2, <2>1
  <2>6. QED
    BY <1>2, <1>3, <1>4, <1>6, <1>8, <2>2, <2>3, <2>4, <2>5, StepOf
<1>10. CASE req[r].kind = "ticket" /\ req[r].ans \in Labels
  <2> DEFINE new == [messages[m] EXCEPT !.status = req[r].ans]
  <2>1. resolved' = resolved /\ messages' = [messages EXCEPT ![m] = new]
    <3>1. resolved' = resolved /\ messages' = [messages EXCEPT ![req[r].msg].status = NewStatus(r)]
      BY <1>10 DEF UpdateRef
    <3>2. QED
      BY <1>6, <3>1, RowTypes DEF NewStatus
  <2>2. /\ new.about = messages[m].about /\ new.ticket = messages[m].ticket
        /\ new.status = req[r].ans
    BY <1>6, RowTypes DEF Rows
  <2> HIDE DEF new
  <2>3. /\ Len(messages') = Len(messages) /\ DOMAIN messages' = DOMAIN messages
        /\ messages'[m] = new
        /\ \A n \in 1 .. Len(messages) : n # m => messages'[n] = messages[n]
    BY <1>6, <2>1, RowTypes DEF IInv, Types
  <2>4. \A n \in 1 .. Len(messages) : /\ messages'[n].about = messages[n].about
                                      /\ messages'[n].ticket = messages[n].ticket
    BY <1>6, <2>2, <2>3
  <2>5. Local(s)
    BY <1>2, <1>6, <2>1, <2>3, <2>4, RowTypes DEF Local
  <2>6. Coherent(q, tickets', messages', delivered')
    BY <1>2, <1>5, <1>6, <2>4 DEF Coherent
  <2>7. RowsAbout(tickets, messages) => RowsAbout(tickets', messages')
    BY <1>2, <2>3, <2>4 DEF RowsAbout
  <2>8. ASSUME Busy(req[r], s) PROVE Busy(q, s)'
    <3>1. Whole(s, m) /\ Settled(s) /\ Fresh(req[r].ans, req[r].ticket, tickets, due)
      BY <1>2, <1>6, <1>7, <1>10, <2>8 DEF Busy, Holding, Status, Reading, Labels
    <3>2. messages[m].ticket = req[r].ticket
      BY <1>6, <1>10 DEF Coherent
    <3>3. MessagesAbout(s)' = {m} /\ TicketsAbout(s)' = {messages[m].ticket} \ {0}
      BY <1>2, <2>3, <2>4, <3>1, RowTypes DEF Whole, MessagesAbout, TicketsAbout
    <3>4. Whole(s, m)' /\ FreshRow(m)' /\ Settled(s)' /\ m \in 1 .. Len(messages')
      BY <1>2, <1>6, <2>2, <2>3, <3>1, <3>2, <3>3 DEF Whole, FreshRow, Settled
    <3>5. QED
      BY <1>5, <1>7, <3>4 DEF Busy, Holding, Status, Early, Reading
  <2>9. QED
    BY <1>2, <1>3, <1>4, <1>6, <1>8, <2>4, <2>5, <2>6, <2>7, <2>8, StepOf
<1>11. QED
  BY <1>6, <1>9, <1>10

LEMMA EmitOnce ==
    ASSUME IInv, IInv', JInv, NEW r \in Requests, Emit(r) PROVE JInv'
<1>1. PICK s, m : s = req[r].about /\ m = req[r].msg
  OBVIOUS
<1>2. /\ req[r].pc = "emit" /\ Active(r) /\ req' = [req EXCEPT ![r] = Free]
      /\ room' = [room EXCEPT ![m] = Shown(r)]
      /\ UNCHANGED <<tickets, due, messages, ref, resolved, delivered, crossed, troubled>>
  BY <1>1 DEF Emit, Active, arrivals, glpi, store
<1>3. s \in Subjects /\ m \in 1 .. Len(messages) /\ messages[m].about = s
      /\ ~Early(req[r]) /\ ~Reading(req[r])
  BY <1>1, <1>2, OfActive, OfRequest, RowTypes DEF Request, Records, Coherent, Early, Reading
<1>4. room'[m] \in {Unseen, req[r].dto} /\ \A n \in 1 .. Len(messages) : n # m => room'[n] = room[n]
  BY <1>2, <1>3 DEF IInv, Types, Shown
<1>5. Local(s)
  BY <1>2, <1>3, <1>4, RowTypes DEF Local
<1>6. ASSUME Busy(req[r], s) PROVE Idle(s)'
  <2>1. /\ Whole(s, m) /\ Settled(s) /\ FreshRow(m)
        /\ req[r].dto = messages[m].status
    BY <1>1, <1>2, <1>3, <1>6 DEF Busy, Holding, Status
  <2>2. Whole(s, m)' /\ Settled(s)' /\ FreshRow(m)' /\ m \in 1 .. Len(messages')
    BY <1>2, <1>3, <2>1 DEF Whole, FreshRow, Settled, MessagesAbout, TicketsAbout
  <2>3. Synced(m)'
    BY <1>2, <1>4, <2>1 DEF Synced
  <2>4. QED
    BY <2>2, <2>3 DEF Idle
<1>7. /\ \A n \in 1 .. Len(messages) : messages'[n].ticket = messages[n].ticket
      /\ RowsAbout(tickets, messages) => RowsAbout(tickets', messages')
      /\ crossed \subseteq crossed' /\ troubled \subseteq troubled' /\ s = req[r].about
  BY <1>1, <1>2
<1>8. QED
  BY <1>2, <1>3, <1>5, <1>6, <1>7, FreeRecord, StepOf

\* A delivery: what it is about has no request under way, or is not clean any more.
LEMMA ArriveOthers ==
    ASSUME IInv, IInv', JInv, NEW kind, NEW s \in Subjects, Arrive(kind, s),
           UNCHANGED tickets,
           \A t \in 1 .. Len(tickets) : tickets[t].about # s => (t \in due => t \in due')
    PROVE  /\ Local(s) /\ delivered \subseteq delivered' /\ RowsAbout(tickets', messages')
           /\ UNCHANGED <<messages, ref, resolved, room, troubled>>
           /\ crossed \subseteq crossed'
           /\ \A m \in 1 .. Len(messages) : messages'[m].ticket = messages[m].ticket
           /\ s \notin crossed' => \A p \in Requests : req[p].about # s
           /\ Clean(s)' => Clean(s) /\ Idle(s)
<1>1. UNCHANGED <<messages, ref, resolved, room, troubled>>
  BY DEF Arrive, store
<1>2. delivered \subseteq delivered' /\ crossed \subseteq crossed'
  BY DEF Arrive
<1>3. Local(s)
  BY <1>1, <1>2, RowTypes DEF Local
<1>4. s \notin crossed' => \A p \in Requests : req[p].about # s
  BY DEF Arrive
<1>5. ASSUME Clean(s)' PROVE Clean(s) /\ Idle(s)
  <2>1. Clean(s) /\ \A p \in Requests : ~About(p, s)
    BY <1>1, <1>2, <1>4, <1>5 DEF Clean, About
  <2>2. QED
    BY <2>1 DEF JInv, Sub
<1>6. RowsAbout(tickets', messages')
  BY <1>1 DEF JInv, AboutInv, RowsAbout
<1>7. QED
  BY <1>1, <1>2, <1>3, <1>4, <1>5, <1>6

LEMMA IgnoredOnce ==
    ASSUME IInv, IInv', JInv, NEW kind, NEW s \in Subjects, Arrive(kind, s),
           UNCHANGED tickets, UNCHANGED req,
           \A t \in 1 .. Len(tickets) : tickets[t].about # s => (t \in due => t \in due'),
           Clean(s)' /\ Idle(s) => Idle(s)'
    PROVE  JInv'
<1>1. /\ Local(s) /\ RowsAbout(tickets', messages') /\ troubled' = troubled
      /\ crossed \subseteq crossed'
      /\ \A m \in 1 .. Len(messages) : messages'[m].ticket = messages[m].ticket
      /\ s \notin crossed' => \A p \in Requests : req[p].about # s
      /\ Clean(s)' => Clean(s) /\ Idle(s)
  BY ArriveOthers
<1>2. Serial'
  BY <1>1 DEF JInv, Serial, Active
<1>3. AboutInv'
  <2>1. ASSUME NEW p \in Requests, Active(p)
        PROVE  Coherent(req[p], tickets', messages', delivered')
    BY <1>1, <2>1, OfActive, OfRequest, StillCoherent
  <2>2. QED
    BY <1>1, <2>1 DEF AboutInv, RowsAbout, Active
<1>4. ASSUME NEW o \in Subjects, o # s PROVE Sub(o)'
  <2>1. KeptTables(o)
    BY <1>1, <1>4, OtherTables
  <2>2. KeptRequests(o)
    BY <1>1, <1>4 DEF KeptRequests, About, Clean, Active
  <2>3. QED
    BY <2>1, <2>2, SameSubject DEF JInv
<1>5. Sub(s)'
  <2>1. ASSUME Clean(s)' PROVE Idle(s)' /\ \A p \in Requests : ~About(p, s)'
    BY <1>1, <2>1 DEF Clean, About, Active
  <2>2. QED
    BY <2>1 DEF Sub
<1>6. QED
  BY <1>2, <1>3, <1>4, <1>5 DEF JInv

LEMMA GoOnOnce ==
    ASSUME IInv, IInv', JInv, NEW kind, NEW s \in Subjects, Arrive(kind, s),
           UNCHANGED tickets,
           \A t \in 1 .. Len(tickets) : tickets[t].about # s => (t \in due => t \in due'),
           NEW r \in Requests, NEW q \in Records, req[r].pc = "free",
           req' = [req EXCEPT ![r] = q], q.pc # "free", q.about = s,
           Coherent(q, tickets, messages, delivered'),
           Idle(s) => Busy(q, s)'
    PROVE  JInv'
<1>1. /\ Local(s) /\ RowsAbout(tickets', messages') /\ troubled' = troubled
      /\ crossed \subseteq crossed' /\ messages' = messages /\ tickets' = tickets
      /\ \A m \in 1 .. Len(messages) : messages'[m].ticket = messages[m].ticket
      /\ s \notin crossed' => \A p \in Requests : req[p].about # s
      /\ Clean(s)' => Clean(s) /\ Idle(s)
  BY ArriveOthers
<1>2. \A p \in Requests : req'[p] = IF p = r THEN q ELSE req[p]
  BY DEF IInv, Types
<1>3. Serial'
  <2> SUFFICES ASSUME NEW p1 \in Requests, NEW p2 \in Requests, Active(p1)', Active(p2)',
                      req'[p1].about = req'[p2].about, req'[p1].about \notin crossed', p1 # p2
               PROVE  FALSE
    BY DEF Serial
  <2>1. CASE p1 # r /\ p2 # r
    <3>1. req'[p1] = req[p1] /\ req'[p2] = req[p2]
      BY <1>2, <2>1
    <3>2. Active(p1) /\ Active(p2)
      BY <3>1 DEF Active
    <3>3. QED
      BY <1>1, <3>1, <3>2 DEF JInv, Serial
  <2>2. CASE p1 = r
    BY <1>1, <1>2, <2>2
  <2>3. CASE p2 = r
    BY <1>1, <1>2, <2>3
  <2>4. QED
    BY <2>1, <2>2, <2>3
<1>4. AboutInv'
  <2>1. ASSUME NEW p \in Requests, Active(p)'
        PROVE  Coherent(req[p], tickets, messages, delivered)'
    <3>1. CASE p = r
      BY <1>1, <1>2, <3>1
    <3>2. CASE p # r
      <4>1. req'[p] = req[p] /\ Active(p)
        BY <1>2, <2>1, <3>2 DEF Active
      <4>2. Coherent(req[p], tickets', messages', delivered')
        BY <1>1, <4>1, OfActive, OfRequest, StillCoherent
      <4>3. QED
        BY <4>1, <4>2
    <3>3. QED
      BY <3>1, <3>2
  <2>2. QED
    BY <1>1, <2>1 DEF AboutInv, RowsAbout
<1>5. ASSUME NEW o \in Subjects, o # s PROVE Sub(o)'
  <2>1. KeptTables(o)
    BY <1>1, <1>5, OtherTables
  <2>2. KeptRequests(o)
    BY <1>1, <1>2, <1>5 DEF KeptRequests, About, Clean, Active
  <2>3. QED
    BY <2>1, <2>2, SameSubject DEF JInv
<1>6. Sub(s)'
  <2> SUFFICES ASSUME Clean(s)'
               PROVE  /\ \A p \in Requests : About(p, s)' => Busy(req[p], s)'
                      /\ (\A p \in Requests : ~About(p, s)') => Idle(s)'
    BY DEF Sub
  <2>1. Busy(q, s)' /\ \A p \in Requests : req[p].about # s
    BY <1>1 DEF Clean
  <2>2. req'[r] = q /\ \A p \in Requests : About(p, s)' => p = r
    BY <1>2, <2>1 DEF About
  <2>3. ASSUME NEW p \in Requests, About(p, s)' PROVE Busy(req[p], s)'
    <3>1. p = r
      BY <2>2, <2>3
    <3>2. QED
      BY <2>1, <2>2, <3>1 DEF Busy, Early, Making, WithTicket, Holding, Status, Reading,
                              Whole, FreshRow, Synced
  <2>4. About(r, s)'
    BY <2>2 DEF About, Active
  <2>5. QED
    BY <2>3, <2>4
<1>7. QED
  BY <1>3, <1>4, <1>5, <1>6 DEF JInv

LEMMA handleAlertWebhookOnce ==
    ASSUME IInv, IInv', JInv, NEW a \in Alerts, NEW severity, handleAlertWebhook(a, severity)
    PROVE  JInv'
<1>1. /\ UNCHANGED <<tickets, due, messages, ref, resolved, room>>
      /\ delivered \subseteq delivered' /\ a \in Subjects /\ Arrive("alert", a)
  BY DEF handleAlertWebhook, Arrive, glpi, store, Subjects
<1>2. CASE ref[a] # 0
  <2>1. UNCHANGED req
    BY <1>2 DEF handleAlertWebhook, existingRef
  <2>2. KeptTables(a)
    BY <1>1, RowTypes DEF KeptTables, MessagesAbout, TicketsAbout, Settled
  <2>3. Idle(a) => Idle(a)'
    BY <1>1, <2>2, SameIdle
  <2>4. QED
    BY <1>1, <2>1, <2>3, IgnoredOnce
<1>3. CASE ref[a] = 0
  <2>1. PICK r \in Requests :
          /\ req[r].pc = "free"
          /\ req' = [req EXCEPT ![r] = [Free EXCEPT !.kind = "alert", !.about = a,
                       !.pc = IF shouldAutoTicket(severity) THEN "token" ELSE "store",
                       !.ticket = 0, !.msg = 0]]
    BY <1>3 DEF handleAlertWebhook, existingRef, GoOn
  <2>2. PICK q : q = [Free EXCEPT !.kind = "alert", !.about = a,
                       !.pc = IF shouldAutoTicket(severity) THEN "token" ELSE "store",
                       !.ticket = 0, !.msg = 0]
    OBVIOUS
  <2>3. q \in Records
    BY <2>1, <2>2 DEF IInv, Types
  <2>4. /\ q.kind = "alert" /\ q.about = a /\ q.pc \in {"token", "store"}
        /\ q.ticket = 0 /\ q.msg = 0
    BY <2>2 DEF Free
  <2>5. Coherent(q, tickets, messages, delivered')
    BY <2>4 DEF Coherent
  <2>6. Idle(a) => Empty(a)
    BY <1>3 DEF Idle, Settled
  <2>7. Empty(a) => Empty(a)'
    BY <1>1 DEF Empty, MessagesAbout, TicketsAbout
  <2>8. Idle(a) => Busy(q, a)'
    BY <2>4, <2>6, <2>7 DEF Busy, Early, Making, WithTicket
  <2>9. req[r].pc = "free" /\ req' = [req EXCEPT ![r] = q] /\ q.pc # "free"
    BY <2>1, <2>4, <2>2
  <2>10. \A t \in 1 .. Len(tickets) : tickets[t].about # a => (t \in due => t \in due')
    BY <1>1
  <2>11. QED
    BY <1>1, <2>3, <2>4, <2>5, <2>8, <2>9, <2>10, GoOnOnce
<1>4. QED
  BY <1>2, <1>3

LEMMA handleResolvedOnce ==
    ASSUME IInv, IInv', JInv, NEW a \in Alerts, handleResolved(a) PROVE JInv'
<1>1. /\ UNCHANGED <<tickets, due, messages, ref, resolved, room>>
      /\ delivered \subseteq delivered' /\ a \in Subjects /\ Arrive("resolve", a)
  BY DEF handleResolved, Arrive, glpi, store, Subjects
<1>2. KeptTables(a)
  BY <1>1, RowTypes DEF KeptTables, MessagesAbout, TicketsAbout, Settled
<1>3. CASE ref[a] = 0
  <2>1. UNCHANGED req
    BY <1>3 DEF handleResolved, existingRef
  <2>2. Idle(a) => Idle(a)'
    BY <1>1, <1>2, SameIdle
  <2>3. QED
    BY <1>1, <2>1, <2>2, IgnoredOnce
<1>4. CASE ref[a] # 0
  <2>1. PICK r \in Requests :
          /\ req[r].pc = "free"
          /\ req' = [req EXCEPT ![r] = [Free EXCEPT !.kind = "resolve", !.about = a, !.pc = "update",
                       !.ticket = 0, !.msg = ref[a]]]
    BY <1>4 DEF handleResolved, existingRef, GoOn
  <2>2. PICK q : q = [Free EXCEPT !.kind = "resolve", !.about = a, !.pc = "update",
                       !.ticket = 0, !.msg = ref[a]]
    OBVIOUS
  <2>3. q \in Records
    BY <2>1, <2>2 DEF IInv, Types
  <2>4. /\ q.kind = "resolve" /\ q.about = a /\ q.pc = "update"
        /\ q.ticket = 0 /\ q.msg = ref[a]
    BY <2>2 DEF Free
  <2>5. messages[ref[a]].about = a /\ ref[a] \in 1 .. Len(messages)
    BY <1>4, RowTypes DEF IInv, RefInv
  <2>6. ref[a] \in MessagesAbout(a)
    BY <2>5, RowTypes DEF MessagesAbout
  <2>7. Coherent(q, tickets, messages, delivered')
    BY <2>4, <2>5 DEF Coherent
  <2>8. PICK m : m = ref[a]
    OBVIOUS
  <2>9. ASSUME Idle(a) PROVE Busy(q, a)'
    <3>1. /\ m \in 1 .. Len(messages) /\ Settled(a)
          /\ Whole(a, m) /\ Synced(m) /\ FreshRow(m)
      <4>1. ~Empty(a)
        BY <2>6 DEF Empty
      <4>2. PICK n \in 1 .. Len(messages) : Whole(a, n) /\ Synced(n) /\ FreshRow(n)
        BY <2>9, <4>1 DEF Idle
      <4>3. n = m
        BY <2>6, <2>8, <4>2 DEF Whole
      <4>4. QED
        BY <2>9, <4>1, <4>2, <4>3 DEF Idle
    <3>2. /\ m \in 1 .. Len(messages') /\ Whole(a, m)' /\ Synced(m)' /\ FreshRow(m)'
      BY <1>1, <1>2, <3>1, SameRow
    <3>3. Settled(a)'
      BY <1>2, <3>1 DEF KeptTables
    <3>4. q.msg = m
      BY <2>4, <2>8
    <3>5. QED
      BY <2>4, <3>2, <3>3, <3>4 DEF Busy, Early, Holding, Status, Reading
  <2>10. req[r].pc = "free" /\ req' = [req EXCEPT ![r] = q] /\ q.pc # "free"
    BY <2>1, <2>4, <2>2
  <2>11. \A t \in 1 .. Len(tickets) : tickets[t].about # a => (t \in due => t \in due')
    BY <1>1
  <2>12. QED
    BY <1>1, <2>3, <2>4, <2>7, <2>9, <2>10, <2>11, GoOnOnce
<1>5. QED
  BY <1>3, <1>4

LEMMA handleMessageSendOnce ==
    ASSUME IInv, IInv', JInv, NEW c \in Commands, handleMessageSend(c) PROVE JInv'
<1>1. /\ UNCHANGED <<tickets, due, messages, ref, resolved, room>>
      /\ delivered' = delivered \cup {c} /\ c \in Subjects /\ Arrive("command", c)
      /\ c \notin delivered
  BY DEF handleMessageSend, Arrive, glpi, store, Subjects
<1>2. PICK r \in Requests :
        /\ req[r].pc = "free"
        /\ req' = [req EXCEPT ![r] = [Free EXCEPT !.kind = "command", !.about = c, !.pc = "token",
                       !.ticket = 0, !.msg = 0]]
  BY DEF handleMessageSend, GoOn
<1>3. PICK q : q = [Free EXCEPT !.kind = "command", !.about = c, !.pc = "token",
                       !.ticket = 0, !.msg = 0]
  OBVIOUS
<1>4. q \in Records
  BY <1>2, <1>3 DEF IInv, Types
<1>5. /\ q.kind = "command" /\ q.about = c /\ q.pc = "token" /\ q.ticket = 0 /\ q.msg = 0
  BY <1>3 DEF Free
<1>6. Coherent(q, tickets, messages, delivered')
  BY <1>1, <1>5 DEF Coherent
<1>7. Idle(c) => Empty(c)
  BY <1>1 DEF Idle, Settled
<1>8. Empty(c) => Empty(c)'
  BY <1>1 DEF Empty, MessagesAbout, TicketsAbout
<1>9. Idle(c) => Busy(q, c)'
  BY <1>5, <1>7, <1>8 DEF Busy, Early, Making, WithTicket
<1>10. req[r].pc = "free" /\ req' = [req EXCEPT ![r] = q] /\ q.pc # "free"
  BY <1>2, <1>5, <1>3
<1>11. \A t \in 1 .. Len(tickets) : tickets[t].about # c => (t \in due => t \in due')
  BY <1>1
<1>12. QED
  BY <1>1, <1>4, <1>5, <1>6, <1>9, <1>10, <1>11, GoOnOnce

LEMMA handleTicketWebhookOnce ==
    ASSUME IInv, IInv', JInv, NEW t \in DOMAIN tickets, handleTicketWebhook(t) PROVE JInv'
<1>1. PICK s : s = tickets[t].about
  OBVIOUS
<1>2. /\ UNCHANGED <<tickets, messages, ref, resolved, room>> /\ due' = due \ {t}
      /\ delivered \subseteq delivered' /\ Arrive("ticket", s)
  BY <1>1 DEF handleTicketWebhook, Arrive, store
<1>3. t \in 1 .. Len(tickets) /\ s \in Subjects /\ t \in TicketsAbout(s)
  BY <1>1, RowTypes DEF Tickets, TicketsAbout
<1>4. \A u \in 1 .. Len(tickets) : tickets[u].about # s => (u \in due => u \in due')
  BY <1>1, <1>2
<1>5. ASSUME Idle(s)
      PROVE  /\ Settled(s)
             /\ \E m \in 1 .. Len(messages) : /\ Whole(s, m) /\ Synced(m)
                                              /\ messages[m].ticket = t
  <2>1. ~Empty(s)
    BY <1>3 DEF Empty
  <2>2. PICK m \in 1 .. Len(messages) : Whole(s, m) /\ Synced(m)
    BY <1>5, <2>1 DEF Idle
  <2>3. messages[m].ticket = t
    BY <1>3, <2>2 DEF Whole
  <2>4. QED
    BY <1>5, <2>1, <2>2, <2>3 DEF Idle
<1>6. CASE {m \in DOMAIN messages : messages[m].ticket = t} = {}
  <2>1. UNCHANGED req
    BY <1>6 DEF handleTicketWebhook
  <2>2. ~Idle(s)
    BY <1>5, <1>6, RowTypes
  <2>3. QED
    BY <1>2, <1>3, <1>4, <2>1, <2>2, IgnoredOnce
<1>7. CASE {m \in DOMAIN messages : messages[m].ticket = t} # {}
  <2>1. PICK m \in DOMAIN messages : messages[m].ticket = t /\ GoOn("ticket", s, "token", t, m)
    BY <1>1, <1>7 DEF handleTicketWebhook
  <2>2. PICK r \in Requests :
           /\ req[r].pc = "free"
           /\ req' = [req EXCEPT ![r] = [Free EXCEPT !.kind = "ticket", !.about = s,
                                            !.pc = "token", !.ticket = t, !.msg = m]]
    BY <2>1 DEF GoOn
  <2>3. PICK q : q = [Free EXCEPT !.kind = "ticket", !.about = s,
                                  !.pc = "token", !.ticket = t, !.msg = m]
    OBVIOUS
  <2>4. q \in Records
    BY <2>2, <2>3 DEF IInv, Types
  <2>5. /\ q.kind = "ticket" /\ q.about = s /\ q.pc = "token" /\ q.ticket = t /\ q.msg = m
    BY <2>3 DEF Free
  <2>6. m \in 1 .. Len(messages) /\ messages[m].ticket = t /\ messages[m].about = s
    BY <1>1, <1>3, <2>1, RowTypes DEF JInv, AboutInv
  <2>7. Coherent(q, tickets, messages, delivered')
    BY <1>1, <2>5, <2>6 DEF Coherent
  <2>8. ASSUME Idle(s) PROVE Busy(q, s)'
    <3>1. m \in MessagesAbout(s)
      BY <2>6, RowTypes DEF MessagesAbout
    <3>2. Settled(s) /\ Whole(s, m) /\ Synced(m)
      BY <1>5, <2>8, <3>1 DEF Whole
    <3>3. Settled(s)' /\ Whole(s, m)' /\ Synced(m)' /\ m \in 1 .. Len(messages')
      BY <1>2, <2>6, <3>2 DEF Settled, Whole, MessagesAbout, TicketsAbout, Synced
    <3>4. QED
      BY <2>5, <3>3 DEF Busy, Early, Holding, Status, Reading
  <2>9. req[r].pc = "free" /\ req' = [req EXCEPT ![r] = q] /\ q.pc # "free"
    BY <2>2, <2>3, <2>5
  <2>10. QED
    BY <1>2, <1>3, <1>4, <2>4, <2>5, <2>7, <2>8, <2>9, GoOnOnce
<1>8. QED
  BY <1>6, <1>7

\* A step of none of the requests, or one that ends them all.
LEMMA NoRequestOnce ==
    ASSUME IInv, IInv', JInv,
           \A r \in Requests : req'[r] = req[r] \/ req'[r].pc = "free",
           \A s \in Subjects : Clean(s)' => Clean(s) /\ KeptTables(s),
           \A s \in Subjects, r \in Requests : Clean(s)' /\ About(r, s) => req'[r] = req[r],
           crossed \subseteq crossed', RowsAbout(tickets', messages'),
           \A r \in Requests : Active(r) => Coherent(req[r], tickets', messages', delivered')
    PROVE  JInv'
<1>1. Serial'
  BY DEF JInv, Serial, Active
<1>2. AboutInv'
  <2>1. ASSUME NEW r \in Requests, Active(r)'
        PROVE  Coherent(req[r], tickets, messages, delivered)'
    <3>1. req'[r] = req[r] /\ Active(r)
      BY <2>1 DEF Active
    <3>2. QED
      BY <3>1
  <2>2. QED
    BY <2>1 DEF AboutInv, RowsAbout
<1>3. ASSUME NEW s \in Subjects PROVE Sub(s)'
  <2>1. CASE Clean(s)'
    <3>1. KeptRequests(s)
      BY <2>1 DEF KeptRequests, About, Active
    <3>2. QED
      BY <2>1, <3>1, SameSubject DEF JInv
  <2>2. CASE ~Clean(s)'
    BY <2>2 DEF Sub
  <2>3. QED
    BY <2>1, <2>2
<1>4. QED
  BY <1>1, <1>2, <1>3 DEF JInv

LEMMA RestartOnce == ASSUME IInv, IInv', JInv, Restart PROVE JInv'
<1>1. /\ \A r \in Requests : req'[r].pc = "free"
      /\ troubled' = troubled \cup {req[r].about : r \in {q \in Requests : Active(q)}}
      /\ Still /\ crossed' = crossed
  BY FreeRecord DEF Restart, Still, arrivals, glpi, store
<1>2. \A s \in Subjects : KeptTables(s)
  BY <1>1, StillTables
<1>3. \A s \in Subjects : Clean(s)' => Clean(s) /\ \A r \in Requests : ~About(r, s)
  BY <1>1 DEF Clean, About
<1>4. UNCHANGED <<tickets, messages, delivered>>
  BY <1>1 DEF Still
<1>5. RowsAbout(tickets', messages')
  BY <1>4 DEF JInv, AboutInv, RowsAbout
<1>6. \A r \in Requests : Active(r) => Coherent(req[r], tickets', messages', delivered')
  BY <1>4, OfActive
<1>7. QED
  BY <1>1, <1>2, <1>3, <1>5, <1>6, NoRequestOnce

LEMMA SessionLapsesOnce ==
    ASSUME IInv, IInv', JInv, NEW token, SessionLapses(token) PROVE JInv'
<1>1. UNCHANGED <<req, crossed, troubled>> /\ Still
  BY DEF SessionLapses, Still, arrivals, glpi, store
<1>2. \A s \in Subjects : KeptTables(s)
  BY <1>1, StillTables
<1>3. UNCHANGED <<tickets, messages, delivered>>
  BY <1>1 DEF Still
<1>4. RowsAbout(tickets', messages')
  BY <1>3 DEF JInv, AboutInv, RowsAbout
<1>5. \A r \in Requests : Active(r) => Coherent(req[r], tickets', messages', delivered')
  BY <1>3, OfActive
<1>6. \A s \in Subjects : Clean(s)' => Clean(s)
  BY <1>1 DEF Clean
<1>7. QED
  BY <1>1, <1>2, <1>4, <1>5, <1>6, NoRequestOnce

LEMMA TicketChangesOnce ==
    ASSUME IInv, IInv', JInv, NEW t \in DOMAIN tickets, NEW code, TicketChanges(t, code)
    PROVE  JInv'
<1>1. /\ UNCHANGED <<req, crossed, troubled, delivered, messages, ref, resolved, room>>
      /\ tickets' = [tickets EXCEPT ![t].code = code] /\ due' = due \cup {t}
  BY DEF TicketChanges, arrivals, store
<1>2. /\ Len(tickets') = Len(tickets) /\ DOMAIN tickets' = DOMAIN tickets
      /\ \A u \in DOMAIN tickets : /\ tickets'[u].about = tickets[u].about
                                   /\ u # t => tickets'[u] = tickets[u]
  <2>1. tickets'[t].about = tickets[t].about
    BY <1>1, RowTypes DEF IInv, Types, Tickets
  <2>2. \A u \in DOMAIN tickets : u # t => tickets'[u] = tickets[u]
    BY <1>1
  <2>3. Len(tickets') = Len(tickets) /\ DOMAIN tickets' = DOMAIN tickets
    BY <1>1, RowTypes DEF IInv, Types
  <2>4. QED
    BY <2>1, <2>2, <2>3
<1>3. ASSUME NEW s \in Subjects PROVE KeptTables(s)
  <2>1. TicketsAbout(s)' = TicketsAbout(s) /\ MessagesAbout(s)' = MessagesAbout(s)
    BY <1>1, <1>2 DEF TicketsAbout, MessagesAbout
  <2>2. \A u \in TicketsAbout(s) : \A x : Fresh(x, u, tickets, due) => Fresh(x, u, tickets', due')
    BY <1>1, <1>2 DEF TicketsAbout, Fresh
  <2>3. Len(messages) <= Len(messages')
    BY <1>1, RowTypes
  <2>4. Settled(s) => Settled(s)'
    BY <1>1 DEF Settled
  <2>5. QED
    BY <1>1, <2>1, <2>2, <2>3, <2>4 DEF KeptTables
<1>4. RowsAbout(tickets', messages')
  <2>1. \A m \in 1 .. Len(messages) : messages[m].ticket # 0 => messages[m].ticket \in DOMAIN tickets
    BY RowTypes DEF JInv, AboutInv, Rows
  <2>2. QED
    BY <1>1, <1>2, <2>1 DEF JInv, AboutInv, RowsAbout
<1>5. ASSUME NEW r \in Requests, Active(r)
      PROVE  Coherent(req[r], tickets', messages', delivered')
  <2>1. req[r].ticket # 0 => req[r].ticket \in DOMAIN tickets
    BY OfRequest, RowTypes DEF Request, Records
  <2>2. QED
    BY <1>1, <1>2, <1>5, <2>1, OfActive DEF Coherent
<1>6. \A s \in Subjects : Clean(s)' => Clean(s)
  BY <1>1 DEF Clean
<1>7. QED
  BY <1>1, <1>3, <1>4, <1>5, <1>6, NoRequestOnce

LEMMA StutterOnce == ASSUME IInv, IInv', JInv, UNCHANGED vars PROVE JInv'
<1>1. UNCHANGED <<req, crossed, troubled>> /\ Still
  BY DEF vars, Still, arrivals, glpi, store
<1>2. \A s \in Subjects : KeptTables(s)
  BY <1>1, StillTables
<1>3. UNCHANGED <<tickets, messages, delivered>>
  BY <1>1 DEF Still
<1>4. RowsAbout(tickets', messages')
  BY <1>3 DEF JInv, AboutInv, RowsAbout
<1>5. \A r \in Requests : Active(r) => Coherent(req[r], tickets', messages', delivered')
  BY <1>3, OfActive
<1>6. \A s \in Subjects : Clean(s)' => Clean(s)
  BY <1>1 DEF Clean
<1>7. QED
  BY <1>1, <1>2, <1>4, <1>5, <1>6, NoRequestOnce

LEMMA InitOnce == Init => JInv
<1> SUFFICES ASSUME Init PROVE JInv
  OBVIOUS
<1>1. /\ \A r \in Requests : req[r] = Free
      /\ tickets = <<>> /\ messages = <<>>
  BY DEF Init
<1>2. \A r \in Requests : ~Active(r)
  BY <1>1, FreeRecord DEF Active
<1>3. \A s : Empty(s)
  BY <1>1 DEF Empty, MessagesAbout, TicketsAbout
<1>4. QED
  BY <1>1, <1>2, <1>3 DEF JInv, Serial, AboutInv, Sub, Idle, About

LEMMA NextOnce == ASSUME IInv, IInv', JInv, Next PROVE JInv'
<1>1. ASSUME NEW a \in Alerts, NEW severity \in Severities, handleAlertWebhook(a, severity)
      PROVE  JInv'
  BY <1>1, handleAlertWebhookOnce
<1>2. ASSUME NEW a \in Alerts, handleResolved(a) PROVE JInv'
  BY <1>2, handleResolvedOnce
<1>3. ASSUME NEW c \in Commands, handleMessageSend(c) PROVE JInv'
  BY <1>3, handleMessageSendOnce
<1>4. ASSUME NEW t \in DOMAIN tickets, handleTicketWebhook(t) PROVE JInv'
  BY <1>4, handleTicketWebhookOnce
<1>5. ASSUME NEW t \in DOMAIN tickets, NEW code, TicketChanges(t, code) PROVE JInv'
  BY <1>5, TicketChangesOnce
<1>6. ASSUME NEW r \in Requests, \/ UseSession(r) \/ initSession(r) \/ GlpiServes(r)
                                 \/ GlpiAnswered(r) \/ GlpiFails(r)
      PROVE  JInv'
  BY <1>6, UseSessionOnce, initSessionOnce, GlpiServesOnce, GlpiAnsweredOnce, GlpiFailsOnce
<1>7. ASSUME NEW r \in Requests, \/ StoreMessage(r) \/ trackAndBroadcast(r) \/ UpdateRef(r)
                                 \/ getById(r) \/ Emit(r) \/ RequestThrows(r)
      PROVE  JInv'
  BY <1>7, StoreMessageOnce, trackAndBroadcastOnce, UpdateRefOnce, getByIdOnce, EmitOnce,
     RequestThrowsOnce
<1>8. ASSUME NEW token, SessionLapses(token) PROVE JInv'
  BY <1>8, SessionLapsesOnce
<1>9. CASE Restart
  BY <1>9, RestartOnce
<1>10. QED
  BY <1>1, <1>2, <1>3, <1>4, <1>5, <1>6, <1>7, <1>8, <1>9 DEF Next

(* The requests about one alert or command, when none failed or overlapped,    *)
(* hand each other a message with its ticket, stored and shown alike.         *)
THEOREM InductiveOnce == Spec => []JInv
<1>1. IInv /\ IInv' /\ JInv /\ [Next]_vars => JInv'
  BY NextOnce, StutterOnce
<1>2. QED
  BY <1>1, InitOnce, Inductive, PTL DEF Spec

(* An alert or a command leaves a second message, a second ticket or one       *)
(* without the other only if two of its requests overlapped or one failed     *)
(* (rmm-webhook.controller.ts:97-184, messages.service.ts:227-290).*)
THEOREM SubjectsStoredOnce == Spec => []StoredOnce
<1>1. ASSUME IInv, JInv, NEW s \in Subjects, Clean(s)
      PROVE  /\ Cardinality(MessagesAbout(s)) <= 1
             /\ Cardinality(TicketsAbout(s)) <= 1
             /\ Quiet => {messages[m].ticket : m \in MessagesAbout(s)} \ {0} = TicketsAbout(s)
  <2>1. /\ Cardinality({}) = 0 /\ \A x : Cardinality({x}) = 1
        /\ \A x : {x} \ {0} = {} \/ {x} \ {0} = {x}
    BY FS_EmptySet, FS_Singleton
  <2>2. \/ Idle(s)
        \/ \E r \in Requests : About(r, s) /\ (Making(req[r], s) \/ Holding(req[r], s))
    BY <1>1 DEF JInv, Sub, Busy
  <2>3. /\ MessagesAbout(s) = {} \/ \E m : MessagesAbout(s) = {m}
        /\ TicketsAbout(s) = {} \/ \E t : TicketsAbout(s) = {t} \ {0} \/ TicketsAbout(s) = {t}
    BY <2>2 DEF Idle, Making, Holding, Empty, Whole
  <2>4. ASSUME Quiet
        PROVE  {messages[m].ticket : m \in MessagesAbout(s)} \ {0} = TicketsAbout(s)
    <3>1. Empty(s) \/ \E m \in 1 .. Len(messages) : Whole(s, m)
      BY <1>1, <2>4 DEF JInv, Sub, About, Quiet, Idle
    <3>2. QED
      BY <3>1 DEF Empty, Whole
  <2>5. ASSUME NEW S, S = {} \/ \E x : S = {x} PROVE Cardinality(S) <= 1
    <3>1. CASE S = {}
      BY <2>1, <3>1
    <3>2. CASE \E x : S = {x}
      <4>1. PICK x : S = {x}
        BY <3>2
      <4>2. QED
        BY <2>1, <4>1
    <3>3. QED
      BY <2>5, <3>1, <3>2
  <2>6. TicketsAbout(s) = {} \/ \E t : TicketsAbout(s) = {t}
    BY <2>1, <2>3
  <2>7. QED
    BY <2>3, <2>4, <2>5, <2>6
<1>2. IInv /\ JInv => StoredOnce
  BY <1>1 DEF StoredOnce, Clean
<1>3. QED
  BY <1>2, Inductive, InductiveOnce, PTL

(* When the requests are through, the clients of the channel show every        *)
(* announced message with the status its TicketRef has, and that is the one   *)
(* GLPI last told of, unless requests about it overlapped or failed           *)
(* (rmm-webhook.controller.ts:112-124, glpi-webhook.controller.ts:67-92).     *)
THEOREM RoomsUpToDate == Spec => []RoomUpToDate
<1>1. ASSUME IInv, JInv, Quiet, NEW m \in DOMAIN messages, room[m] # Unseen,
             messages[m].about \notin crossed \cup troubled
      PROVE  LET t == messages[m].ticket
             IN /\ room[m] = Dto(m)
                /\ \/ t \in {0} \cup due \/ tickets[t].code = Purged
                   \/ room[m] = mapGlpiStatus(tickets[t].code)
  <2>1. PICK s : s = messages[m].about
    OBVIOUS
  <2>2. s \in Subjects /\ Clean(s) /\ m \in MessagesAbout(s)
    BY <1>1, <2>1, RowTypes DEF Rows, Clean, MessagesAbout
  <2>3. Idle(s) /\ ~Empty(s)
    BY <1>1, <2>2 DEF JInv, Sub, About, Quiet, Empty
  <2>4. Synced(m) /\ FreshRow(m)
    BY <2>2, <2>3 DEF Idle, Whole
  <2>5. room[m] = Dto(m)
    BY <1>1, <2>4 DEF Synced, Dto
  <2>6. QED
    BY <2>4, <2>5 DEF FreshRow, Fresh, Dto
<1>2. IInv /\ JInv => RoomUpToDate
  BY <1>1 DEF RoomUpToDate
<1>3. QED
  BY <1>2, Inductive, InductiveOnce, PTL

===============================================================================
