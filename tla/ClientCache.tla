------------------------------ MODULE ClientCache ------------------------------
(* What one browser tab shows of one channel: the pages of history it has     *)
(* fetched over HTTP and the messages its socket appends to them. The HTTP    *)
(* answers and the socket are not ordered with each other.                    *)
(*                                                                            *)
(* A row is its id; `at' is its createdAt, which rows of the same millisecond *)
(* share, and history orders by (createdAt, id). The query engine is TanStack *)
(* Query 5 with its defaults: an infinite query refetches every loaded page   *)
(* when the list mounts and when the browser comes online again, and a fetch  *)
(* replaces the data by what it built from the pages it started with.         *)
EXTENDS Integers, Sequences, FiniteSets, SequencesExt

CONSTANTS Ids,         \* the ids rows may get, in their order
          Old,         \* rows there before the tab, when there are any
          Limit,       \* rows per page of history
          MaxClock     \* bound: milliseconds

ASSUME IdsAssumption == Ids \subseteq Nat \ {0} /\ Old \subseteq Ids /\ IsFiniteSet(Ids)
ASSUME LimitAssumption == Limit \in Nat \ {0}
ASSUME ClockAssumption == MaxClock \in Nat \ {0} /\ Old \subseteq 1 .. MaxClock

VARIABLES rows,       \* the Message table: the ids stored
          at,         \* createdAt
          clock,      \* the database's time, as far as rows show it
          connected,
          events,     \* what the server has sent over the socket
          data,       \* the query's pages, the newest window first
          query,      \* the fetch in progress
          open,       \* MessageList is mounted
          raced,      \* history: messages on their way while a fetch ran
          missed      \* history: messages sent while the tab was disconnected

server == <<rows, at, clock>>
socket == <<connected, events>>
cacheVars == <<server, socket, data, query, open, raced, missed>>

None == 0
Idle == [kind |-> "none", old |-> <<>>, got |-> <<>>, answered |-> FALSE, reply |-> <<>>]

Before(i, j) == at[i] < at[j] \/ (at[i] = at[j] /\ i < j)

CacheInit ==
    /\ rows \in {{}, Old}
    /\ at = [i \in Ids |-> IF i \in rows THEN i ELSE 0]
    /\ clock = Max({1} \cup rows)
    /\ connected = TRUE /\ events = <<>>
    /\ data = <<>> /\ query = Idle
    /\ open = FALSE
    /\ raced = {} /\ missed = {}

-------------------------------------------------------------------------------
(* The server *)

\* Mutant: the cursor is the row that made the page too long.
NextCursor_Extra(sorted) == IF Len(sorted) > Limit THEN sorted[Limit + 1] ELSE None

\* nextCursor: the last row of a page, if there was a row too many.
NextCursor(sorted) == IF Len(sorted) > Limit THEN sorted[Limit] ELSE None

\* orderBy createdAt and id, both descending.
NewestFirst(S) ==
    CHOOSE s \in [1 .. Cardinality(S) -> S] : \A j, k \in DOMAIN s : j < k => Before(s[k], s[j])

\* MessagesService.getHistory, newest first until the page is reversed.
History(c) ==
    LET older == {i \in rows : c = None \/ Before(i, c)}
        sorted == NewestFirst(older)
        page == IF Len(sorted) > Limit THEN SubSeq(sorted, 1, Limit) ELSE sorted
    IN [messages |-> Reverse(page), next |-> NextCursor(sorted)]

\* A row is stored, in the last row's millisecond or later; `event' is how the tab hears of it.
Store(i, event) ==
    /\ i \in Ids \ rows
    /\ rows' = rows \cup {i}
    /\ clock' \in {clock, clock + 1} \cap 1 .. MaxClock
    /\ at' = [at EXCEPT ![i] = clock']
    /\ IF connected
       THEN events' = Append(events, event) /\ UNCHANGED missed
       ELSE missed' = missed \cup {i} /\ UNCHANGED events
    /\ raced' = IF query.kind = "none" THEN raced ELSE raced \cup {i}

\* Another user's message, announced to the room.
Post(i) ==
    /\ Store(i, [kind |-> "new", id |-> i])
    /\ UNCHANGED <<connected, data, query, open>>

-------------------------------------------------------------------------------
(* The socket. What was sent to a lost connection is not sent again.          *)

\* The messages on their way to the tab.
Pending == {e.id : e \in {f \in ToSet(events) : f.kind \in {"new", "ack"}}} \ {None}

Disconnect ==
    /\ connected
    /\ connected' = FALSE
    /\ missed' = missed \cup Pending
    /\ events' = <<>>
    /\ UNCHANGED <<server, data, query, open, raced>>

Reconnect ==
    /\ ~connected
    /\ connected' = TRUE
    /\ UNCHANGED <<server, events, data, query, open, raced, missed>>

\* appendMessageToCache: without data the message is dropped.
Appended(pages, i) ==
    IF pages = <<>> THEN pages ELSE [pages EXCEPT ![1].messages = Append(@, i)]

\* handleMessageNew
Hear ==
    /\ events # <<>>
    /\ Head(events).kind = "new"
    /\ events' = Tail(events)
    /\ data' = Appended(data, Head(events).id)
    /\ UNCHANGED <<server, connected, query, open, raced, missed>>

-------------------------------------------------------------------------------
(* The query *)

StartFetch(kind) ==
    /\ query' = [Idle EXCEPT !.kind = kind, !.old = data]
    /\ raced' = raced \cup Pending

\* "Load earlier messages", disabled while it loads; it replaces a refetch.
LoadEarlier ==
    /\ open
    /\ data # <<>>
    /\ Last(data).next # None
    /\ query.kind # "next"
    /\ StartFetch("next")
    /\ UNCHANGED <<server, socket, data, open, missed>>

Param == IF query.kind = "next" THEN Last(query.old).next
         ELSE IF query.got = <<>> THEN None ELSE Last(query.got).next

ServeHistory ==
    /\ query.kind # "none"
    /\ ~query.answered
    /\ query' = [query EXCEPT !.answered = TRUE, !.reply = History(Param)]
    /\ UNCHANGED <<server, socket, data, open, raced, missed>>

EarlierArrives ==
    /\ query.kind = "next"
    /\ query.answered
    /\ data' = Append(query.old, query.reply)
    /\ query' = Idle
    /\ UNCHANGED <<server, socket, open, raced, missed>>

\* A refetch goes on, page by page, until it has as many as there were.
PageArrives ==
    /\ query.kind = "all"
    /\ query.answered
    /\ LET got == Append(query.got, query.reply)
       IN IF Len(got) < Len(query.old) /\ query.reply.next # None
          THEN query' = [query EXCEPT !.got = got, !.answered = FALSE, !.reply = <<>>]
               /\ UNCHANGED data
          ELSE query' = Idle /\ data' = got
    /\ UNCHANGED <<server, socket, open, raced, missed>>

\* The request and its retry fail: the data stays.
FetchFails ==
    /\ query.kind # "none"
    /\ query' = Idle
    /\ UNCHANGED <<server, socket, data, open, raced, missed>>

-------------------------------------------------------------------------------
(* MessageList *)

Messages == FlattenSeq(Reverse([k \in DOMAIN data |-> data[k].messages]))

\* The list mounts, with what is cached, and refetches unless a fetch runs.
OpenChannel ==
    /\ ~open
    /\ open' = TRUE
    /\ IF query.kind = "none" THEN StartFetch("all") ELSE UNCHANGED <<query, raced>>
    /\ UNCHANGED <<server, socket, data, missed>>

\* The browser is online again: what is mounted is fetched anew.
ComeOnline ==
    /\ open
    /\ query.kind = "none"
    /\ StartFetch("all")
    /\ UNCHANGED <<server, socket, data, open, missed>>

CloseChannel ==
    /\ open
    /\ open' = FALSE
    /\ UNCHANGED <<server, socket, data, query, raced, missed>>

-------------------------------------------------------------------------------
CacheNext ==
    \/ \E i \in Ids : Post(i)
    \/ Disconnect \/ Reconnect \/ Hear
    \/ LoadEarlier \/ ServeHistory \/ EarlierArrives \/ PageArrives \/ FetchFails
    \/ OpenChannel \/ ComeOnline \/ CloseChannel

CacheTypeOK ==
    /\ rows \subseteq Ids /\ at \in [Ids -> 0 .. MaxClock] /\ clock \in 1 .. MaxClock
    /\ Pending \subseteq rows
    /\ \A k \in DOMAIN data : ToSet(data[k].messages) \subseteq rows
                              /\ data[k].next \in rows \cup {None}
    /\ query.kind \in {"none", "all", "next"}
    /\ raced \subseteq rows /\ missed \subseteq rows

(* Rows of one millisecond: nobody promises their order.                      *)
Tied(i) == \E j \in rows \ {i} : at[j] = at[i]

Undisturbed(i) == i \notin raced \cup missed /\ ~Tied(i)

(* The pages the tab has loaded tile the history: from the oldest of them on, *)
(* every message it has heard of is there once and in order, with no row      *)
(* skipped or repeated between two pages, however messages arrived between    *)
(* their requests. Excepted are messages that were on their way to the tab    *)
(* while a fetch ran, which the code may show twice or not at all, messages   *)
(* of a lost connection, and rows of one millisecond.                         *)
PagesTile ==
    data # <<>> =>
        LET from == Last(data).next
            list == Messages
            heard(i) == Undisturbed(i) /\ i \notin Pending
            shown == {p \in DOMAIN list : heard(list[p])}
        IN /\ {list[p] : p \in shown}
                 = {i \in rows : heard(i) /\ (from = None \/ Before(from, i) \/ from = i)}
           /\ \A p, q \in shown : p < q => Before(list[p], list[q])

===============================================================================
