---------------------------- MODULE PdfViewerProofs ----------------------------
(* Theorems about PdfViewer for any attachments, numbers of pages, files and  *)
(* inputs: a page never shows another's pixels or those of an older scale,    *)
(* and the requests are as few as the ids the runs provide.                   *)
EXTENDS PdfViewer, FiniteSetTheorems, SequenceTheorems, TLAPS

Calls == [id : Nat \ {0}, caller : {"load", "thumb", "page"}, page : Pages, scale : Nat]
Answered == [request : Calls, ok : BOOLEAN]
CardStates == [state : {"idle", "loading", "ready", "error", "gone"},
               inView : BOOLEAN, run : {"none", "fetch", "load", "thumb", "done"},
               cancelled : BOOLEAN, thumb : BOOLEAN,
               seen : BOOLEAN \X {"idle", "loading", "ready", "error"}]
Slots == [seen : BOOLEAN \X Nat, inView : BOOLEAN, run : Nat,
          shown : {Blank} \cup (Pages \X Nat)]

Types ==
    /\ card \in [Cards -> CardStates]
    /\ open \subseteq Cards
    /\ zoom \in [Cards -> MIN_SCALE .. MAX_SCALE]
    /\ page \in [Pages -> Slots]
    /\ nextId \in Nat \ {0} /\ inputs \in Nat
    /\ \A i \in DOMAIN pending : /\ i \in Nat \ {0} /\ i < nextId
                                 /\ pending[i] \in Calls /\ pending[i].id = i
    /\ worker \in {"none", "starting", "up", "broken"}
    /\ inbox \in Seq(Calls) /\ busy \subseteq Calls /\ outbox \in Seq(Answered)
    /\ docs \subseteq Cards

\* A request r on its way to the worker or back, given the next id n, the pending
\* requests pd and the documents ds: it is the one pending under its id, if any,
\* and what it renders is held.
Posted(r, n, pd, ds) ==
    /\ r.id < n
    /\ r.id \in DOMAIN pd => pd[r.id] = r
    /\ r.caller # "load" => r.page[1] \in ds

FlightInv ==
    /\ \A k \in 1 .. Len(inbox) : Posted(inbox[k], nextId, pending, docs)
    /\ \A r \in busy : Posted(r, nextId, pending, docs)
    /\ \A k \in 1 .. Len(outbox) : Posted(outbox[k].request, nextId, pending, docs)

\* An answer says that the document is held, or that the page could be painted.
Truthful(o, ds) ==
    /\ o.ok /\ o.request.caller = "load" => o.request.page[1] \in ds
    /\ o.request.caller = "page" => o.ok \/ o.request.page \in Unpaintable

AnswerInv == \A k \in 1 .. Len(outbox) : Truthful(outbox[k], docs)

\* What is open or ready is held by the worker; the load of a card waits for one
\* request at a time, which is about what the load is at.
CardInv ==
    /\ open \subseteq docs
    /\ \A c \in Cards : /\ card[c].state = "ready" => c \in docs
                        /\ card[c].state = "idle" => card[c].run = "none"
    /\ \A i \in DOMAIN pending :
          /\ pending[i].caller # "load" => pending[i].page[1] \in docs
          /\ pending[i].caller # "page" => card[pending[i].page[1]].run = pending[i].caller
    /\ \A i, j \in DOMAIN pending :
          /\ pending[i].caller # "page" /\ pending[j].caller # "page"
          /\ pending[i].page[1] = pending[j].page[1]
          => i = j

\* A worker that has not started holds nothing.
WorkerInv == worker # "up" => busy = {} /\ docs = {}

\* A page's slot s: its last run is being answered, or has been and is shown.
SlotOf(p, s, n, pd, w) ==
    /\ s.run = 0 => ~s.seen[1]
    /\ s.run # 0 =>
          /\ s.run < n
          /\ s.run \in DOMAIN pd => /\ pd[s.run].caller = "page" /\ pd[s.run].page = p
                                    /\ pd[s.run].scale = s.seen[2]
          /\ s.run \notin DOMAIN pd /\ w # "broken" /\ p \notin Unpaintable
             => s.shown = <<p, s.seen[2]>>

PagesInv == \A p \in Pages : /\ p[1] \notin open => page[p] = NewSlot
                             /\ SlotOf(p, page[p], nextId, pending, worker)

IInv == Types /\ FlightInv /\ AnswerInv /\ CardInv /\ WorkerInv /\ PagesInv

-------------------------------------------------------------------------------
LEMMA FreshSlot ==
    /\ NewSlot \in Slots /\ NewSlot.run = 0 /\ NewSlot.seen = <<FALSE, 0>>
    /\ NewSlot.shown = Blank /\ NewSlot.inView = FALSE
    /\ \A p, n, pd, w : SlotOf(p, NewSlot, n, pd, w)
<1>1. /\ NewSlot.run = 0 /\ NewSlot.seen = <<FALSE, 0>>
      /\ NewSlot.shown = Blank /\ NewSlot.inView = FALSE
  BY DEF NewSlot
<1>2. NewSlot \in Slots
  BY DEF NewSlot, Slots
<1>3. \A p, n, pd, w : SlotOf(p, NewSlot, n, pd, w)
  BY <1>1 DEF SlotOf
<1>4. QED
  BY <1>1, <1>2, <1>3

\* The parts of a page.
LEMMA PageParts == \A p \in Pages : p[1] \in Cards
BY DEF Pages

\* Requests that are on their way stay so while the pending ones that were there
\* only become fewer and the documents only more.
Fewer ==
    /\ nextId \in Nat /\ nextId' \in Nat /\ nextId <= nextId'
    /\ \A i \in DOMAIN pending' : i < nextId => i \in DOMAIN pending /\ pending'[i] = pending[i]
    /\ docs \subseteq docs'

LEMMA StillPosted ==
    ASSUME Fewer, NEW r \in Calls, Posted(r, nextId, pending, docs)
    PROVE  Posted(r, nextId', pending', docs')
BY DEF Fewer, Posted, Calls

\* A step that leaves the worker's queues alone.
LEMMA QueuesStay ==
    ASSUME Types, FlightInv, AnswerInv, Fewer, UNCHANGED <<inbox, busy, outbox>>
    PROVE  FlightInv' /\ AnswerInv'
<1>1. /\ \A k \in 1 .. Len(inbox) : inbox[k] \in Calls
      /\ \A r \in busy : r \in Calls
      /\ \A k \in 1 .. Len(outbox) : outbox[k].request \in Calls
  <2>1. \A k \in 1 .. Len(outbox) : outbox[k] \in Answered
    BY DEF Types
  <2>2. \A k \in 1 .. Len(outbox) : outbox[k].request \in Calls
    BY <2>1 DEF Answered
  <2>3. QED
    BY <2>2 DEF Types
<1>2. FlightInv'
  BY <1>1, StillPosted DEF FlightInv
<1>3. AnswerInv'
  BY DEF AnswerInv, Truthful, Fewer
<1>4. QED
  BY <1>2, <1>3

\* A step that changes only a card: not what is ready, nor what is waited for.
LEMMA CardStep ==
    ASSUME IInv, UNCHANGED <<open, zoom, page, clientVars, worker, workerVars, inputs>>,
           NEW c \in Cards, NEW k \in CardStates, card' = [card EXCEPT ![c] = k],
           k.state = "ready" => card[c].state = "ready",
           k.state = "idle" => k.run = "none",
           card[c].run \in {"load", "thumb"} => k.run = card[c].run
    PROVE  IInv'
<1>1. UNCHANGED <<open, zoom, page, pending, nextId, inbox, worker, busy, outbox, docs, inputs>>
  BY DEF clientVars, workerVars
<1>2. Fewer
  BY <1>1 DEF Fewer, IInv, Types
<1>3. FlightInv' /\ AnswerInv'
  BY <1>1, <1>2, QueuesStay DEF IInv
<1>4. Types'
  BY <1>1 DEF IInv, Types
<1>5. \A d \in Cards : card'[d] = IF d = c THEN k ELSE card[d]
  BY DEF IInv, Types
<1>6. ASSUME NEW i \in DOMAIN pending, pending[i].caller # "page"
      PROVE  card'[pending[i].page[1]].run = pending[i].caller
  <2>1. pending[i].page[1] \in Cards /\ pending[i].caller \in {"load", "thumb"}
    BY <1>6, PageParts DEF IInv, Types, Calls
  <2>2. card[pending[i].page[1]].run = pending[i].caller
    BY <1>6 DEF IInv, CardInv
  <2>3. QED
    BY <1>5, <2>1, <2>2
<1>7. CardInv'
  BY <1>1, <1>5, <1>6 DEF IInv, CardInv
<1>8. PagesInv'
  BY <1>1 DEF IInv, PagesInv
<1>9. QED
  BY <1>1, <1>3, <1>4, <1>7, <1>8 DEF IInv, WorkerInv

LEMMA ScrollCardInv == ASSUME IInv, NEW c \in Cards, ScrollCard(c) PROVE IInv'
<1>1. PICK k : k = [card[c] EXCEPT !.inView = TRUE]
  OBVIOUS
<1>2. card[c] \in CardStates /\ card[c].state = "idle"
  BY DEF IInv, Types, ScrollCard
<1>3. k \in CardStates /\ k.state = card[c].state /\ k.run = card[c].run
  BY <1>1, <1>2 DEF CardStates
<1>4. card' = [card EXCEPT ![c] = k]
  BY <1>1 DEF ScrollCard, IInv, Types
<1>5. card[c].run = "none"
  BY <1>2 DEF IInv, CardInv
<1>6. QED
  BY <1>2, <1>3, <1>4, <1>5, CardStep DEF ScrollCard

LEMMA CommitCardInv == ASSUME IInv, NEW c \in Cards, CommitCard(c) PROVE IInv'
<1>1. PICK k : k = IF Deps(c) = <<TRUE, "idle">>
                   THEN [card[c] EXCEPT !.seen = Deps(c), !.state = "loading",
                                        !.run = "fetch", !.cancelled = FALSE]
                   ELSE [card[c] EXCEPT !.seen = Deps(c), !.cancelled = TRUE]
  OBVIOUS
<1>2. card[c] \in CardStates /\ card[c].state # "gone"
  BY DEF IInv, Types, CommitCard
<1>3. Deps(c) \in BOOLEAN \X {"idle", "loading", "ready", "error"}
  BY <1>2 DEF Deps, CardStates
<1>4. Deps(c) = <<TRUE, "idle">> => card[c].state = "idle" /\ card[c].run = "none"
  BY DEF Deps, IInv, CardInv
<1>5. k \in CardStates
  BY <1>1, <1>2, <1>3 DEF CardStates
<1>6. IF Deps(c) = <<TRUE, "idle">> THEN k.state = "loading" /\ k.run = "fetch"
                                    ELSE k.state = card[c].state /\ k.run = card[c].run
  BY <1>1, <1>2 DEF CardStates
<1>7. card' = [card EXCEPT ![c] = k]
  BY <1>1 DEF CommitCard, IInv, Types
<1>8. card[c].state = "idle" => card[c].run = "none"
  BY DEF IInv, CardInv
<1>9. QED
  BY ZenonT(30), <1>4, <1>5, <1>6, <1>7, <1>8, CardStep DEF CommitCard

\* What a failed load makes of its card.
LEMMA FailedCard ==
    ASSUME NEW k \in CardStates
    PROVE  /\ Failed(k) \in CardStates /\ Failed(k).run = "done"
           /\ Failed(k).state \in {k.state, "error"}
BY DEF Failed, CardStates

LEMMA FetchFailsInv == ASSUME IInv, NEW c \in Cards, FetchFails(c) PROVE IInv'
<1>1. PICK k : k = Failed(card[c])
  OBVIOUS
<1>2. card[c] \in CardStates /\ card[c].run = "fetch" /\ card[c].state # "idle"
  BY DEF IInv, Types, CardInv, FetchFails
<1>3. k \in CardStates /\ k.run = "done" /\ k.state \in {card[c].state, "error"}
  BY <1>1, <1>2, FailedCard
<1>4. card' = [card EXCEPT ![c] = k]
  BY <1>1 DEF FetchFails, IInv, Types
<1>5. QED
  BY <1>2, <1>3, <1>4, CardStep DEF FetchFails

\* What a send leaves pending.
LEMMA Sent ==
    ASSUME Types, NEW r \in Calls, r.id = nextId, NEW rest, Send(r, rest),
           \A i \in DOMAIN rest : i \in DOMAIN pending /\ rest[i] = pending[i]
    PROVE  /\ DOMAIN pending' = DOMAIN rest \cup {nextId}
           /\ pending'[nextId] = r
           /\ \A i \in DOMAIN rest : pending'[i] = pending[i]
           /\ nextId' = nextId + 1 /\ inbox' = Append(inbox, r)
           /\ inbox' \in Seq(Calls) /\ nextId' \in Nat \ {0}
           /\ \A i \in DOMAIN pending' : /\ i \in Nat \ {0} /\ i < nextId'
                                         /\ pending'[i] \in Calls /\ pending'[i].id = i
<1>1. /\ pending' = [i \in DOMAIN rest \cup {nextId} |-> IF i = nextId THEN r ELSE rest[i]]
      /\ nextId' = nextId + 1 /\ inbox' = Append(inbox, r)
  BY DEF Send, NextId
<1>2. \A i \in DOMAIN rest : i \in Nat \ {0} /\ i < nextId /\ i # nextId
  BY DEF Types
<1>3. /\ DOMAIN pending' = DOMAIN rest \cup {nextId} /\ pending'[nextId] = r
      /\ \A i \in DOMAIN rest : pending'[i] = pending[i]
  BY <1>1, <1>2
<1>4. inbox' \in Seq(Calls) /\ nextId' \in Nat \ {0}
  BY <1>1 DEF Types
<1>5. ASSUME NEW i \in DOMAIN pending'
      PROVE  i \in Nat \ {0} /\ i < nextId' /\ pending'[i] \in Calls /\ pending'[i].id = i
  <2>1. CASE i = nextId
    BY <1>1, <1>3, <2>1 DEF Types
  <2>2. CASE i # nextId
    <3>1. i \in DOMAIN rest
      BY <1>3, <2>2
    <3>2. QED
      BY <1>1, <1>3, <3>1 DEF Types
  <2>3. QED
    BY <2>1, <2>2
<1>6. QED
  BY <1>1, <1>3, <1>4, <1>5

\* A send keeps what is on its way sound, and adds the request.
LEMMA SentFlight ==
    ASSUME Types, FlightInv, AnswerInv, NEW r \in Calls, r.id = nextId, NEW rest, Send(r, rest),
           \A i \in DOMAIN rest : i \in DOMAIN pending /\ rest[i] = pending[i],
           r.caller # "load" => r.page[1] \in docs,
           UNCHANGED <<busy, docs>>,
           \/ outbox' = outbox
           \/ outbox # <<>> /\ outbox' = Tail(outbox)
    PROVE  FlightInv' /\ AnswerInv'
<1>1. /\ DOMAIN pending' = DOMAIN rest \cup {nextId} /\ pending'[nextId] = r
      /\ \A i \in DOMAIN rest : pending'[i] = pending[i]
      /\ nextId' = nextId + 1 /\ inbox' = Append(inbox, r)
  BY Sent
<1>2. Fewer
  BY <1>1 DEF Fewer, Types
<1>3. \A q \in Calls : Posted(q, nextId, pending, docs) => Posted(q, nextId', pending', docs')
  BY <1>2, StillPosted
<1>4. Posted(r, nextId', pending', docs')
  BY <1>1 DEF Posted, Types
<1>5. /\ \A k \in 1 .. Len(inbox) : inbox[k] \in Calls
      /\ \A k \in 1 .. Len(outbox) : outbox[k].request \in Calls
  <2>1. \A k \in 1 .. Len(outbox) : outbox[k] \in Answered
    BY DEF Types
  <2>2. \A k \in 1 .. Len(outbox) : outbox[k].request \in Calls
    BY <2>1 DEF Answered
  <2>3. QED
    BY <2>2 DEF Types
<1>6. ASSUME NEW k \in 1 .. Len(inbox') PROVE Posted(inbox'[k], nextId', pending', docs')
  <2>1. /\ k = Len(inbox) + 1 => inbox'[k] = r
        /\ k # Len(inbox) + 1 => k \in 1 .. Len(inbox) /\ inbox'[k] = inbox[k]
    BY <1>1 DEF Types
  <2>2. QED
    BY <1>3, <1>4, <1>5, <2>1 DEF FlightInv
<1>7. ASSUME NEW k \in 1 .. Len(outbox') PROVE \E j \in 1 .. Len(outbox) : outbox'[k] = outbox[j]
  <2>1. CASE outbox' = outbox
    BY <2>1
  <2>2. CASE outbox # <<>> /\ outbox' = Tail(outbox)
    <3>1. outbox \in Seq(Answered)
      BY DEF Types
    <3>2. k + 1 \in 1 .. Len(outbox) /\ outbox'[k] = outbox[k + 1]
      BY <2>2, <3>1
    <3>3. QED
      BY <3>2
  <2>3. QED
    BY <2>1, <2>2
<1>8. \A q \in busy : Posted(q, nextId', pending', docs')
  BY <1>3 DEF Types, FlightInv
<1>9. FlightInv'
  BY <1>3, <1>5, <1>6, <1>7, <1>8 DEF FlightInv
<1>10. AnswerInv'
  BY <1>7 DEF AnswerInv
<1>11. QED
  BY <1>9, <1>10

\* A slot whose run is not the id that goes or comes stays as it is.
LEMMA OtherSlot ==
    ASSUME NEW p, NEW s, NEW n, NEW m, NEW pd, NEW pe, NEW w, NEW v,
           SlotOf(p, s, n, pd, w), n \in Nat, m \in Nat, n <= m, s.run \in Nat,
           s.run # 0 => /\ s.run \in DOMAIN pe <=> s.run \in DOMAIN pd
                        /\ s.run \in DOMAIN pd => pe[s.run] = pd[s.run],
           w = "broken" => v = "broken"
    PROVE  SlotOf(p, s, m, pe, v)
BY DEF SlotOf

LEMMA FetchAnsweredInv == ASSUME IInv, NEW c \in Cards, FetchAnswered(c) PROVE IInv'
<1>1. PICK k, r : /\ k = [card[c] EXCEPT !.run = "load"]
                  /\ r = Call("load", <<c, 0>>, 0)
  OBVIOUS
<1>2. /\ card[c] \in CardStates /\ card[c].run = "fetch" /\ card[c].state # "idle"
      /\ UNCHANGED <<open, zoom, page, busy, outbox, docs, inputs>>
      /\ worker' = IF worker = "none" THEN "starting" ELSE worker
      /\ Send(r, pending)
  BY <1>1 DEF IInv, Types, CardInv, FetchAnswered, EnsureWorker, workerVars
<1>3. k \in CardStates /\ k.state = card[c].state /\ k.run = "load"
  BY <1>1, <1>2 DEF CardStates
<1>4. card' = [card EXCEPT ![c] = k]
  BY <1>1 DEF FetchAnswered, IInv, Types
<1>5. r \in Calls /\ r.id = nextId /\ r.caller = "load" /\ r.page = <<c, 0>>
  <2>1. <<c, 0>> \in Pages
    BY PagesAssumption DEF Pages
  <2>2. nextId \in Nat \ {0}
    BY DEF IInv, Types
  <2>3. QED
    BY <1>1, <2>1, <2>2 DEF Call, Calls
<1>6. /\ DOMAIN pending' = DOMAIN pending \cup {nextId} /\ pending'[nextId] = r
      /\ \A i \in DOMAIN pending : pending'[i] = pending[i]
      /\ nextId' = nextId + 1 /\ inbox' \in Seq(Calls) /\ nextId' \in Nat \ {0}
      /\ \A i \in DOMAIN pending' : /\ i \in Nat \ {0} /\ i < nextId'
                                    /\ pending'[i] \in Calls /\ pending'[i].id = i
  BY <1>2, <1>5, Sent DEF IInv
<1>7. FlightInv' /\ AnswerInv'
  BY <1>2, <1>5, SentFlight DEF IInv
<1>8. Types'
  BY <1>2, <1>3, <1>4, <1>6 DEF IInv, Types
<1>9. \A d \in Cards : card'[d] = IF d = c THEN k ELSE card[d]
  BY <1>4 DEF IInv, Types
<1>10. CardInv'
  <2>1. \A d \in Cards : /\ card'[d].state = "ready" => d \in docs
                         /\ card'[d].state = "idle" => card'[d].run = "none"
    BY <1>2, <1>3, <1>9 DEF IInv, CardInv
  <2>2. \A i \in DOMAIN pending' : i # nextId => i \in DOMAIN pending /\ pending'[i] = pending[i]
    BY <1>6
  <2>3. ASSUME NEW i \in DOMAIN pending, pending[i].caller # "page"
        PROVE  pending[i].page[1] \in Cards \ {c}
    <3>1. pending[i].page[1] \in Cards /\ pending[i].caller \in {"load", "thumb"}
      BY <2>3, PageParts DEF IInv, Types, Calls
    <3>2. card[pending[i].page[1]].run = pending[i].caller
      BY <2>3 DEF IInv, CardInv
    <3>3. QED
      BY <1>2, <3>1, <3>2
  <2>4. ASSUME NEW i \in DOMAIN pending'
        PROVE  /\ pending'[i].caller # "load" => pending'[i].page[1] \in docs
               /\ pending'[i].caller # "page" =>
                     card'[pending'[i].page[1]].run = pending'[i].caller
    <3>1. CASE i = nextId
      BY <1>3, <1>5, <1>6, <1>9, <3>1
    <3>2. CASE i # nextId
      BY <1>9, <2>2, <2>3, <3>2 DEF IInv, CardInv
    <3>3. QED
      BY <3>1, <3>2
  <2>5. ASSUME NEW i \in DOMAIN pending', NEW j \in DOMAIN pending',
               pending'[i].caller # "page", pending'[j].caller # "page",
               pending'[i].page[1] = pending'[j].page[1]
        PROVE  i = j
    <3>1. pending'[nextId].page[1] = c
      BY <1>5, <1>6
    <3>2. i = nextId <=> j = nextId
      BY <2>2, <2>3, <2>5, <3>1
    <3>3. CASE i # nextId
      BY <2>2, <2>5, <3>2, <3>3 DEF IInv, CardInv
    <3>4. QED
      BY <3>2, <3>3
  <2>6. QED
    BY <1>2, <2>1, <2>4, <2>5 DEF IInv, CardInv
<1>11. PagesInv'
  <2> SUFFICES ASSUME NEW p \in Pages PROVE SlotOf(p, page[p], nextId', pending', worker')
    BY <1>2 DEF IInv, PagesInv
  <2>1. page[p].run \in Nat /\ SlotOf(p, page[p], nextId, pending, worker)
    BY DEF IInv, Types, Slots, PagesInv
  <2>2. page[p].run # 0 => page[p].run < nextId
    BY <2>1 DEF SlotOf
  <2>3. nextId \in Nat
    BY DEF IInv, Types
  <2>4. QED
    BY <1>2, <1>6, <2>1, <2>2, <2>3, OtherSlot
<1>12. QED
  BY <1>2, <1>7, <1>8, <1>10, <1>11 DEF IInv, WorkerInv

\* A page's slot in a step that changes only what is shown of pages.
LEMMA PageStep ==
    ASSUME IInv, UNCHANGED <<open, zoom, clientVars, worker, workerVars>>,
           inputs' \in Nat, NEW p \in Pages, NEW s \in Slots, page' = [page EXCEPT ![p] = s],
           UNCHANGED card, p[1] \in open, SlotOf(p, s, nextId, pending, worker)
    PROVE  IInv'
<1>1. UNCHANGED <<card, open, zoom, pending, nextId, inbox, worker, busy, outbox, docs>>
  BY DEF clientVars, workerVars
<1>2. Fewer
  BY <1>1 DEF Fewer, IInv, Types
<1>3. FlightInv' /\ AnswerInv'
  BY <1>1, <1>2, QueuesStay DEF IInv
<1>4. Types'
  BY <1>1 DEF IInv, Types
<1>5. CardInv'
  BY <1>1 DEF IInv, CardInv
<1>6. \A q \in Pages : page'[q] = IF q = p THEN s ELSE page[q]
  BY DEF IInv, Types
<1>7. PagesInv'
  BY <1>1, <1>6 DEF IInv, PagesInv
<1>8. QED
  BY <1>1, <1>3, <1>4, <1>5, <1>7 DEF IInv, WorkerInv

LEMMA ScrollPageInv == ASSUME IInv, NEW p \in Pages, ScrollPage(p) PROVE IInv'
<1>1. PICK s : s = [page[p] EXCEPT !.inView = ~page[p].inView]
  OBVIOUS
<1>2. page[p] \in Slots
  BY DEF IInv, Types
<1>3. /\ s \in Slots
      /\ s.run = page[p].run /\ s.seen = page[p].seen /\ s.shown = page[p].shown
  BY <1>1, <1>2 DEF Slots
<1>4. page' = [page EXCEPT ![p] = s]
  BY <1>1 DEF ScrollPage, IInv, Types
<1>5. SlotOf(p, s, nextId, pending, worker)
  BY <1>3 DEF SlotOf, IInv, PagesInv
<1>6. inputs' \in Nat
  BY DEF ScrollPage, IInv, Types
<1>7. QED
  BY <1>3, <1>4, <1>5, <1>6, PageStep DEF ScrollPage

\* Closing and leaving put the pages of a card back to what they were.
LEMMA PagesReset ==
    ASSUME IInv, NEW c \in Cards, UNCHANGED <<pending, nextId, worker>>,
           open' = open \ {c},
           page' = [p \in Pages |-> IF p[1] = c THEN NewSlot ELSE page[p]]
    PROVE  PagesInv' /\ page' \in [Pages -> Slots]
<1>1. \A p \in Pages : page'[p] = IF p[1] = c THEN NewSlot ELSE page[p]
  OBVIOUS
<1>2. PagesInv'
  BY <1>1, FreshSlot DEF IInv, PagesInv
<1>3. page' \in [Pages -> Slots]
  BY FreshSlot DEF IInv, Types
<1>4. QED
  BY <1>2, <1>3

LEMMA CloseInv == ASSUME IInv, NEW c \in Cards, Close(c) PROVE IInv'
<1>1. /\ UNCHANGED <<card, zoom, pending, nextId, inbox, worker, busy, outbox, docs, inputs>>
      /\ open' = open \ {c}
      /\ page' = [p \in Pages |-> IF p[1] = c THEN NewSlot ELSE page[p]]
  BY DEF Close, clientVars, workerVars
<1>2. PagesInv' /\ page' \in [Pages -> Slots]
  BY <1>1, PagesReset
<1>3. Fewer
  BY <1>1 DEF Fewer, IInv, Types
<1>4. FlightInv' /\ AnswerInv'
  BY <1>1, <1>3, QueuesStay DEF IInv
<1>5. Types'
  BY <1>1, <1>2 DEF IInv, Types
<1>6. CardInv'
  BY <1>1 DEF IInv, CardInv
<1>7. QED
  BY <1>1, <1>2, <1>4, <1>5, <1>6 DEF IInv, WorkerInv

LEMMA UnmountInv == ASSUME IInv, NEW c \in Cards, Unmount(c) PROVE IInv'
<1>1. PICK k : k = [card[c] EXCEPT !.state = "gone", !.cancelled = TRUE]
  OBVIOUS
<1>2. /\ UNCHANGED <<zoom, pending, nextId, inbox, worker, busy, outbox, docs, inputs>>
      /\ open' = open \ {c}
      /\ page' = [p \in Pages |-> IF p[1] = c THEN NewSlot ELSE page[p]]
  BY DEF Unmount, clientVars, workerVars
<1>3. card[c] \in CardStates
  BY DEF IInv, Types
<1>4. k \in CardStates /\ k.state = "gone" /\ k.run = card[c].run
  BY <1>1, <1>3 DEF CardStates
<1>5. card' = [card EXCEPT ![c] = k]
  BY <1>1 DEF Unmount, IInv, Types
<1>6. PagesInv' /\ page' \in [Pages -> Slots]
  BY <1>2, PagesReset
<1>7. Fewer
  BY <1>2 DEF Fewer, IInv, Types
<1>8. FlightInv' /\ AnswerInv'
  BY <1>2, <1>7, QueuesStay DEF IInv
<1>9. Types'
  BY <1>2, <1>4, <1>5, <1>6 DEF IInv, Types
<1>10. \A d \in Cards : card'[d] = IF d = c THEN k ELSE card[d]
  BY <1>5 DEF IInv, Types
<1>11. \A i \in DOMAIN pending : pending[i].page[1] \in Cards
  BY PageParts DEF IInv, Types, Calls
<1>12. CardInv'
  BY <1>2, <1>4, <1>10, <1>11 DEF IInv, CardInv
<1>13. QED
  BY <1>2, <1>6, <1>8, <1>9, <1>12 DEF IInv, WorkerInv

\* Opening a card and zooming do not touch a page before the next commit.
LEMMA DialogStep ==
    ASSUME IInv, UNCHANGED <<card, page, clientVars, worker, workerVars>>,
           open \subseteq open', open' \subseteq docs, inputs' \in Nat,
           zoom' \in [Cards -> MIN_SCALE .. MAX_SCALE]
    PROVE  IInv'
<1>1. UNCHANGED <<card, page, pending, nextId, inbox, worker, busy, outbox, docs>>
  BY DEF clientVars, workerVars
<1>2. Fewer
  BY <1>1 DEF Fewer, IInv, Types
<1>3. FlightInv' /\ AnswerInv'
  BY <1>1, <1>2, QueuesStay DEF IInv
<1>4. Types'
  BY <1>1 DEF IInv, Types
<1>5. CardInv'
  BY <1>1 DEF IInv, CardInv
<1>6. PagesInv'
  BY <1>1 DEF IInv, PagesInv
<1>7. QED
  BY <1>1, <1>3, <1>4, <1>5, <1>6 DEF IInv, WorkerInv

LEMMA OpenInv == ASSUME IInv, NEW c \in Cards, Open(c) PROVE IInv'
<1>1. open \subseteq open' /\ open' \subseteq docs
  BY DEF Open, IInv, CardInv
<1>2. inputs' \in Nat /\ zoom' \in [Cards -> MIN_SCALE .. MAX_SCALE]
  BY DEF Open, IInv, Types
<1>3. QED
  BY <1>1, <1>2, DialogStep DEF Open

LEMMA ZoomInv == ASSUME IInv, NEW c \in Cards, ZoomIn(c) \/ ZoomOut(c) PROVE IInv'
<1>1. /\ UNCHANGED <<card, open, page, clientVars, worker, workerVars>>
      /\ inputs' = inputs + 1
      /\ \/ zoom[c] < MAX_SCALE /\ zoom' = [zoom EXCEPT ![c] = zoom[c] + 1]
         \/ zoom[c] > MIN_SCALE /\ zoom' = [zoom EXCEPT ![c] = zoom[c] - 1]
  BY DEF ZoomIn, ZoomOut, IInv, Types
<1>2. inputs' \in Nat /\ open \subseteq open' /\ open' \subseteq docs
  BY <1>1 DEF IInv, Types, CardInv
<1>3. zoom[c] \in MIN_SCALE .. MAX_SCALE
  BY DEF IInv, Types
<1>4. zoom' \in [Cards -> MIN_SCALE .. MAX_SCALE]
  <2>1. PICK n : zoom' = [zoom EXCEPT ![c] = n] /\ n \in MIN_SCALE .. MAX_SCALE
    <3>1. zoom[c] < MAX_SCALE => zoom[c] + 1 \in MIN_SCALE .. MAX_SCALE
      BY <1>3 DEF MIN_SCALE, MAX_SCALE
    <3>2. zoom[c] > MIN_SCALE => zoom[c] - 1 \in MIN_SCALE .. MAX_SCALE
      BY <1>3 DEF MIN_SCALE, MAX_SCALE
    <3>3. QED
      BY <1>1, <3>1, <3>2
  <2>2. zoom \in [Cards -> MIN_SCALE .. MAX_SCALE]
    BY DEF IInv, Types
  <2>3. QED
    BY <2>1, <2>2
<1>5. QED
  BY <1>1, <1>2, <1>4, DialogStep

LEMMA CommitPageInv == ASSUME IInv, NEW p \in Pages, CommitPage(p) PROVE IInv'
<1>0. /\ p[1] \in Cards /\ p[1] \in open /\ p[1] \in docs
      /\ page[p] \in Slots /\ zoom[p[1]] \in Nat /\ nextId \in Nat \ {0} /\ inputs \in Nat
      /\ UNCHANGED <<card, open, zoom, worker, busy, outbox, docs, inputs>>
  <2>1. /\ p[1] \in Cards /\ p[1] \in open /\ p[1] \in docs
        /\ page[p] \in Slots /\ nextId \in Nat \ {0} /\ inputs \in Nat
    BY PageParts DEF IInv, Types, CardInv, CommitPage
  <2>2. zoom[p[1]] \in MIN_SCALE .. MAX_SCALE
    BY <2>1 DEF IInv, Types
  <2>3. UNCHANGED <<card, open, zoom, worker, busy, outbox, docs, inputs>>
    BY DEF CommitPage, workerVars
  <2>4. QED
    BY <2>1, <2>2, <2>3 DEF MIN_SCALE, MAX_SCALE
<1>1. CASE ~page[p].inView
  <2>1. PICK s : s = [page[p] EXCEPT !.seen = PageDeps(p), !.run = 0]
    OBVIOUS
  <2>2. s \in Slots /\ s.run = 0 /\ ~s.seen[1]
    BY <1>0, <1>1, <2>1 DEF Slots, PageDeps
  <2>3. page' = [page EXCEPT ![p] = s] /\ UNCHANGED <<clientVars, workerVars>>
    BY <1>1, <2>1 DEF CommitPage, IInv, Types, SendNothing
  <2>4. SlotOf(p, s, nextId, pending, worker)
    BY <2>2 DEF SlotOf
  <2>5. QED
    BY <1>0, <2>2, <2>3, <2>4, PageStep
<1>2. CASE page[p].inView
  <2>1. PICK s, r : /\ s = [page[p] EXCEPT !.seen = PageDeps(p), !.run = nextId]
                    /\ r = Call("page", p, zoom[p[1]])
    OBVIOUS
  <2>2. /\ s \in Slots /\ s.run = nextId /\ s.seen = <<TRUE, zoom[p[1]]>>
    BY <1>0, <1>2, <2>1 DEF Slots, PageDeps
  <2>3. /\ r \in Calls /\ r.id = nextId /\ r.caller = "page" /\ r.page = p
        /\ r.scale = zoom[p[1]]
    BY <1>0, <2>1 DEF Call, Calls
  <2>4. page' = [page EXCEPT ![p] = s] /\ Send(r, pending)
    BY <1>2, <2>1 DEF CommitPage, IInv, Types
  <2>5. /\ DOMAIN pending' = DOMAIN pending \cup {nextId} /\ pending'[nextId] = r
        /\ \A i \in DOMAIN pending : pending'[i] = pending[i]
        /\ nextId' = nextId + 1 /\ inbox' \in Seq(Calls) /\ nextId' \in Nat \ {0}
        /\ \A i \in DOMAIN pending' : /\ i \in Nat \ {0} /\ i < nextId'
                                      /\ pending'[i] \in Calls /\ pending'[i].id = i
    BY <2>3, <2>4, Sent DEF IInv
  <2>6. FlightInv' /\ AnswerInv'
    BY <1>0, <2>3, <2>4, SentFlight DEF IInv
  <2>7. Types'
    BY <1>0, <2>2, <2>4, <2>5 DEF IInv, Types
  <2>8. CardInv'
    <3>1. \A i \in DOMAIN pending' : i # nextId => i \in DOMAIN pending /\ pending'[i] = pending[i]
      BY <2>5
    <3>2. pending'[nextId].caller = "page" /\ pending'[nextId].page[1] \in docs
      BY <1>0, <2>3, <2>5
    <3>3. ASSUME NEW i \in DOMAIN pending'
          PROVE  /\ pending'[i].caller # "load" => pending'[i].page[1] \in docs
                 /\ pending'[i].caller # "page" =>
                       card[pending'[i].page[1]].run = pending'[i].caller
      BY <3>1, <3>2 DEF IInv, CardInv
    <3>4. ASSUME NEW i \in DOMAIN pending', NEW j \in DOMAIN pending',
                 pending'[i].caller # "page", pending'[j].caller # "page",
                 pending'[i].page[1] = pending'[j].page[1]
          PROVE  i = j
      BY <3>1, <3>2, <3>4 DEF IInv, CardInv
    <3>5. QED
      BY <1>0, <3>3, <3>4 DEF IInv, CardInv
  <2>9. PagesInv'
    <3> SUFFICES ASSUME NEW q \in Pages
                 PROVE  /\ q[1] \notin open => page'[q] = NewSlot
                        /\ SlotOf(q, page'[q], nextId', pending', worker)
      BY <1>0 DEF PagesInv
    <3>1. page'[q] = IF q = p THEN s ELSE page[q]
      BY <2>4 DEF IInv, Types
    <3>2. CASE q = p
      <4>1. s.run = nextId /\ s.seen[1] /\ s.seen[2] = zoom[p[1]]
        BY <2>2
      <4>2. SlotOf(p, s, nextId', pending', worker)
        BY <1>0, <2>3, <2>5, <4>1 DEF SlotOf
      <4>3. QED
        BY <1>0, <3>1, <3>2, <4>2
    <3>3. CASE q # p
      <4>1. page[q].run \in Nat /\ SlotOf(q, page[q], nextId, pending, worker)
        BY DEF IInv, Types, Slots, PagesInv
      <4>2. page[q].run # 0 => page[q].run < nextId
        BY <4>1 DEF SlotOf
      <4>3. SlotOf(q, page[q], nextId', pending', worker)
        BY <1>0, <2>5, <4>1, <4>2, OtherSlot
      <4>4. QED
        BY <3>1, <3>3, <4>3 DEF IInv, PagesInv
    <3>4. QED
      BY <3>2, <3>3
  <2>10. QED
    BY <1>0, <2>6, <2>7, <2>8, <2>9 DEF IInv, WorkerInv
<1>3. QED
  BY <1>1, <1>2

-------------------------------------------------------------------------------
(* The worker.                                                                *)

LEMMA WorkerStartsInv == ASSUME IInv, WorkerStarts PROVE IInv'
<1>1. /\ UNCHANGED <<card, open, zoom, page, pending, nextId, inbox, busy, outbox, docs, inputs>>
      /\ worker = "starting" /\ worker' = "up"
  BY DEF WorkerStarts, clientVars, workerVars
<1>2. Fewer
  BY <1>1 DEF Fewer, IInv, Types
<1>3. FlightInv' /\ AnswerInv'
  BY <1>1, <1>2, QueuesStay DEF IInv
<1>4. Types' /\ CardInv'
  BY <1>1 DEF IInv, Types, CardInv
<1>5. ASSUME NEW p \in Pages PROVE SlotOf(p, page[p], nextId, pending, worker')
  BY <1>1, OtherSlot DEF SlotOf, IInv, PagesInv
<1>6. PagesInv'
  BY <1>1, <1>5 DEF IInv, PagesInv
<1>7. QED
  BY <1>1, <1>3, <1>4, <1>6 DEF IInv, WorkerInv

\* A step of the worker: it changes no caller, and its documents only grow.
LEMMA WorkerStep ==
    ASSUME IInv, UNCHANGED <<card, open, zoom, page, pending, nextId, worker, inputs>>,
           worker = "up",
           inbox' \in Seq(Calls), busy' \subseteq Calls, outbox' \in Seq(Answered),
           docs \subseteq docs', docs' \subseteq Cards, FlightInv', AnswerInv'
    PROVE  IInv'
<1>1. Types'
  BY DEF IInv, Types
<1>2. CardInv'
  BY DEF IInv, CardInv
<1>3. PagesInv'
  BY DEF IInv, PagesInv
<1>4. QED
  BY <1>1, <1>2, <1>3 DEF IInv, WorkerInv

\* An answer that is true to its request may join the others.
LEMMA Replied ==
    ASSUME Types, FlightInv, AnswerInv, Fewer, NEW r \in Calls, NEW ok \in BOOLEAN,
           Posted(r, nextId, pending, docs), Reply(r, ok),
           Truthful([request |-> r, ok |-> ok], docs')
    PROVE  /\ outbox' \in Seq(Answered)
           /\ \A k \in 1 .. Len(outbox') : /\ Posted(outbox'[k].request, nextId', pending', docs')
                                           /\ Truthful(outbox'[k], docs')
<1>1. PICK o : o = [request |-> r, ok |-> ok]
  OBVIOUS
<1>2. o \in Answered /\ o.request = r
  BY <1>1 DEF Answered
<1>3. outbox' = Append(outbox, o) /\ Truthful(o, docs')
  BY <1>1 DEF Reply, Answers
<1>4. outbox' \in Seq(Answered)
  BY <1>2, <1>3 DEF Types
<1>5. \A k \in 1 .. Len(outbox) : outbox[k] \in Answered /\ Truthful(outbox[k], docs')
  BY DEF Types, AnswerInv, Truthful, Fewer
<1>6. \A k \in 1 .. Len(outbox) : outbox[k].request \in Calls
  BY <1>5 DEF Answered
<1>7. ASSUME NEW k \in 1 .. Len(outbox')
      PROVE  /\ Posted(outbox'[k].request, nextId', pending', docs')
             /\ Truthful(outbox'[k], docs')
  <2>1. /\ k = Len(outbox) + 1 => outbox'[k] = o
        /\ k # Len(outbox) + 1 => k \in 1 .. Len(outbox) /\ outbox'[k] = outbox[k]
    BY <1>3 DEF Types
  <2>2. CASE k = Len(outbox) + 1
    BY <1>2, <1>3, <2>1, <2>2, StillPosted
  <2>3. CASE k # Len(outbox) + 1
    BY <1>5, <1>6, <2>1, <2>3, StillPosted DEF FlightInv
  <2>4. QED
    BY <2>2, <2>3
<1>8. QED
  BY <1>4, <1>7

LEMMA ReceiveInv == ASSUME IInv, Receive PROVE IInv'
<1>1. PICK r : r = Head(inbox)
  OBVIOUS
<1>2. /\ UNCHANGED <<card, open, zoom, page, pending, nextId, worker, docs, inputs>>
      /\ worker = "up" /\ inbox # <<>> /\ inbox' = Tail(inbox) /\ inbox \in Seq(Calls)
      /\ IF r.caller # "load" /\ r.page[1] \notin docs
         THEN Reply(r, FALSE) /\ UNCHANGED busy
         ELSE busy' = busy \cup {r} /\ UNCHANGED outbox
  BY <1>1 DEF Receive, IInv, Types
<1>3. /\ r = inbox[1] /\ 1 \in 1 .. Len(inbox) /\ inbox' \in Seq(Calls)
      /\ \A k \in 1 .. Len(inbox') : k + 1 \in 1 .. Len(inbox) /\ inbox'[k] = inbox[k + 1]
  BY <1>1, <1>2
<1>4. r \in Calls /\ Posted(r, nextId, pending, docs)
  BY <1>2, <1>3 DEF IInv, FlightInv
<1>5. busy' = busy \cup {r} /\ UNCHANGED outbox
  BY <1>2, <1>4 DEF Posted
<1>6. FlightInv'
  BY <1>2, <1>3, <1>4, <1>5 DEF IInv, FlightInv
<1>7. AnswerInv'
  BY <1>2, <1>5 DEF IInv, AnswerInv
<1>8. busy' \subseteq Calls /\ outbox' \in Seq(Answered) /\ docs' \subseteq Cards
  BY <1>2, <1>4, <1>5 DEF IInv, Types
<1>9. QED
  BY <1>2, <1>3, <1>6, <1>7, <1>8, WorkerStep

LEMMA FinishInv == ASSUME IInv, NEW r \in busy, Finish(r) PROVE IInv'
<1>1. /\ UNCHANGED <<card, open, zoom, page, pending, nextId, inbox, worker, inputs>>
      /\ busy' = busy \ {r} /\ worker = "up"
  BY DEF Finish, clientVars, IInv, WorkerInv
<1>2. r \in Calls /\ Posted(r, nextId, pending, docs) /\ r.page[1] \in Cards
  BY PageParts DEF IInv, Types, FlightInv, Calls
<1>3. PICK ok \in BOOLEAN : /\ Reply(r, ok) /\ docs \subseteq docs' /\ docs' \subseteq Cards
                            /\ ok /\ r.caller = "load" => r.page[1] \in docs'
                            /\ r.caller = "page" => ok \/ r.page \in Unpaintable
  <2>1. CASE Parsed(r)
    <3>1. /\ r.caller = "load" /\ Reply(r, Outcome[r.page[1]] = "good")
          /\ docs' = IF Outcome[r.page[1]] \in {"good", "badPage"}
                     THEN docs \cup {r.page[1]} ELSE docs
      BY <2>1 DEF Parsed
    <3>2. docs \subseteq Cards
      BY DEF IInv, Types
    <3>3. WITNESS (Outcome[r.page[1]] = "good") \in BOOLEAN
    <3>4. QED
      BY <1>2, <3>1, <3>2
  <2>2. CASE Painted(r)
    <3>1. r.caller # "load" /\ Reply(r, r.page \notin Unpaintable) /\ docs' = docs
      BY <2>2 DEF Painted
    <3>2. docs \subseteq Cards
      BY DEF IInv, Types
    <3>3. WITNESS (r.page \notin Unpaintable) \in BOOLEAN
    <3>4. QED
      BY <3>1, <3>2
  <2>3. QED
    BY <2>1, <2>2 DEF Finish
<1>4. Fewer
  BY <1>1, <1>3 DEF Fewer, IInv, Types
<1>5. Truthful([request |-> r, ok |-> ok], docs')
  BY <1>3 DEF Truthful
<1>6. /\ outbox' \in Seq(Answered)
      /\ \A k \in 1 .. Len(outbox') : /\ Posted(outbox'[k].request, nextId', pending', docs')
                                      /\ Truthful(outbox'[k], docs')
  BY <1>2, <1>3, <1>4, <1>5, Replied DEF IInv
<1>7. /\ \A k \in 1 .. Len(inbox) : inbox[k] \in Calls
      /\ \A q \in busy : q \in Calls
  BY DEF IInv, Types
<1>8. FlightInv'
  BY <1>1, <1>4, <1>6, <1>7, StillPosted DEF IInv, FlightInv
<1>9. AnswerInv'
  BY <1>6 DEF AnswerInv
<1>10. busy' \subseteq Calls /\ inbox' \in Seq(Calls)
  BY <1>1 DEF IInv, Types
<1>11. QED
  BY <1>1, <1>3, <1>6, <1>8, <1>9, <1>10, WorkerStep

-------------------------------------------------------------------------------
(* The answers. The first of them goes to the caller it is for.               *)

\* What the first answer o says, and what stays when it is taken.
LEMMA FirstAnswer ==
    ASSUME IInv, Deliver, NEW r, r = pending[Head(outbox).request.id]
    PROVE  /\ outbox # <<>> /\ outbox' = Tail(outbox)
           /\ UNCHANGED <<open, zoom, worker, busy, docs, inputs>>
           /\ r = Head(outbox).request /\ r \in Calls /\ r.id \in DOMAIN pending
           /\ pending[r.id] = r /\ r.page[1] \in Cards /\ Truthful(Head(outbox), docs)
           /\ Head(outbox).ok \in BOOLEAN
           /\ LET ok == Head(outbox).ok
              IN \/ LoadAnswered(r, ok) \/ ThumbAnswered(r, ok)
                 \/ PageAnswered(r, ok, <<r.page, r.scale>>)
<1>1. PICK o, m : o = Head(outbox) /\ m = Head(outbox).request
  OBVIOUS
<1>2. /\ outbox # <<>> /\ outbox' = Tail(outbox) /\ outbox \in Seq(Answered)
      /\ UNCHANGED <<open, zoom, worker, busy, docs, inputs>>
      /\ m.id \in DOMAIN pending
  BY <1>1 DEF Deliver, IInv, Types
<1>3. 1 \in 1 .. Len(outbox) /\ o = outbox[1] /\ m = o.request
  BY <1>1, <1>2
<1>4. o \in Answered
  BY <1>2, <1>3
<1>5. m \in Calls /\ o.ok \in BOOLEAN
  BY <1>3, <1>4 DEF Answered
<1>6. Posted(m, nextId, pending, docs) /\ Truthful(o, docs)
  BY <1>3 DEF IInv, FlightInv, AnswerInv
<1>7. r = m /\ pending[r.id] = r
  BY <1>1, <1>2, <1>6 DEF Posted
<1>8. r.page[1] \in Cards
  BY <1>5, <1>7, PageParts DEF Calls
<1>9. \E ok : /\ ok = (o.ok /\ (m.caller = "load" <=> r.caller = "load"))
              /\ \/ LoadAnswered(r, ok) \/ ThumbAnswered(r, ok)
                 \/ PageAnswered(r, ok, <<m.page, m.scale>>)
  BY <1>1 DEF Deliver
<1>10. \/ LoadAnswered(r, o.ok) \/ ThumbAnswered(r, o.ok)
       \/ PageAnswered(r, o.ok, <<r.page, r.scale>>)
  BY <1>5, <1>7, <1>9
<1>11. QED
  BY <1>1, <1>2, <1>5, <1>6, <1>7, <1>8, <1>10

\* A request that is answered is forgotten.
LEMMA Forgotten ==
    ASSUME IInv, NEW r \in Calls, r.id \in DOMAIN pending, pending[r.id] = r, Forget(r.id),
           outbox # <<>>, outbox' = Tail(outbox), UNCHANGED <<busy, docs>>
    PROVE  /\ UNCHANGED <<nextId, inbox>>
           /\ DOMAIN pending' = DOMAIN pending \ {r.id}
           /\ \A i \in DOMAIN pending' : pending'[i] = pending[i]
           /\ outbox' \in Seq(Answered) /\ FlightInv' /\ AnswerInv'
<1>1. /\ UNCHANGED <<nextId, inbox>>
      /\ DOMAIN pending' = DOMAIN pending \ {r.id}
      /\ \A i \in DOMAIN pending' : pending'[i] = pending[i]
  BY DEF Forget, Without
<1>2. Fewer
  BY <1>1 DEF Fewer, IInv, Types
<1>3. outbox \in Seq(Answered)
  BY DEF IInv, Types
<1>4. \A k \in 1 .. Len(outbox) : outbox[k] \in Answered
  BY <1>3
<1>5. /\ \A k \in 1 .. Len(inbox) : inbox[k] \in Calls
      /\ \A q \in busy : q \in Calls
      /\ \A k \in 1 .. Len(outbox) : outbox[k].request \in Calls
  BY <1>4 DEF IInv, Types, Answered
<1>6. outbox' \in Seq(Answered)
      /\ \A k \in 1 .. Len(outbox') : k + 1 \in 1 .. Len(outbox) /\ outbox'[k] = outbox[k + 1]
  BY <1>3
<1>7. FlightInv'
  BY <1>1, <1>2, <1>5, <1>6, StillPosted DEF IInv, FlightInv
<1>8. AnswerInv'
  BY <1>6 DEF IInv, AnswerInv
<1>9. QED
  BY <1>1, <1>6, <1>7, <1>8

\* The pages while the request of a card is answered.
LEMMA PagesWait ==
    ASSUME IInv, UNCHANGED <<open, page, worker>>, NEW i \in DOMAIN pending,
           pending[i].caller # "page", nextId' \in Nat, nextId <= nextId',
           \A j \in Nat : j < nextId /\ j # i
              => /\ j \in DOMAIN pending' <=> j \in DOMAIN pending
                 /\ j \in DOMAIN pending => pending'[j] = pending[j]
    PROVE  PagesInv'
<1> SUFFICES ASSUME NEW p \in Pages PROVE SlotOf(p, page[p], nextId', pending', worker)
  BY DEF IInv, PagesInv
<1>1. page[p].run \in Nat /\ SlotOf(p, page[p], nextId, pending, worker) /\ nextId \in Nat
  BY DEF IInv, Types, Slots, PagesInv
<1>2. page[p].run # 0 => page[p].run < nextId /\ page[p].run # i
  BY <1>1 DEF SlotOf
<1>3. QED
  BY <1>1, <1>2, OtherSlot

\* The answer i ends a step of the load of card c, which becomes k and waits no more.
LEMMA Ended ==
    ASSUME IInv, UNCHANGED <<open, zoom, page, worker, busy, docs, inputs>>,
           outbox # <<>>, outbox' = Tail(outbox),
           NEW r \in Calls, r.id \in DOMAIN pending, pending[r.id] = r, Forget(r.id),
           r.caller # "page", NEW k \in CardStates, card' = [card EXCEPT ![r.page[1]] = k],
           k.state = "ready" => r.page[1] \in docs, k.state # "idle"
    PROVE  IInv'
<1>1. r.page[1] \in Cards
  BY PageParts DEF Calls
<1>2. /\ UNCHANGED <<nextId, inbox>>
      /\ DOMAIN pending' = DOMAIN pending \ {r.id}
      /\ \A i \in DOMAIN pending' : pending'[i] = pending[i]
      /\ outbox' \in Seq(Answered) /\ FlightInv' /\ AnswerInv'
  BY Forgotten
<1>3. Types'
  BY <1>1, <1>2 DEF IInv, Types
<1>4. \A d \in Cards : card'[d] = IF d = r.page[1] THEN k ELSE card[d]
  BY DEF IInv, Types
<1>5. ASSUME NEW i \in DOMAIN pending', pending'[i].caller # "page"
      PROVE  card'[pending'[i].page[1]].run = pending'[i].caller
  <2>1. i \in DOMAIN pending /\ i # r.id /\ pending'[i] = pending[i]
    BY <1>2
  <2>2. pending[i].page[1] \in Cards
    BY <2>1, PageParts DEF IInv, Types, Calls
  <2>3. pending[i].page[1] # r.page[1]
    BY <1>5, <2>1 DEF IInv, CardInv
  <2>4. QED
    BY <1>4, <1>5, <2>1, <2>2, <2>3 DEF IInv, CardInv
<1>6. CardInv'
  BY <1>2, <1>4, <1>5 DEF IInv, CardInv
<1>7. PagesInv'
  <2>1. nextId' \in Nat /\ nextId <= nextId'
    BY <1>2 DEF IInv, Types
  <2>2. QED
    BY <1>2, <2>1, PagesWait
<1>8. QED
  BY <1>2, <1>3, <1>6, <1>7 DEF IInv, WorkerInv

\* A card whose load is waited for is past idle.
LEMMA Waiting ==
    ASSUME IInv, NEW i \in DOMAIN pending, pending[i].caller # "page"
    PROVE  /\ pending[i].page[1] \in Cards /\ card[pending[i].page[1]] \in CardStates
           /\ card[pending[i].page[1]].state # "idle"
<1>1. pending[i].page[1] \in Cards /\ pending[i].caller \in {"load", "thumb"}
  BY PageParts DEF IInv, Types, Calls
<1>2. card[pending[i].page[1]].run = pending[i].caller
  BY DEF IInv, CardInv
<1>3. card[pending[i].page[1]].state # "idle"
  BY <1>1, <1>2 DEF IInv, CardInv
<1>4. QED
  BY <1>1, <1>3 DEF IInv, Types

LEMMA ThumbInv ==
    ASSUME IInv, Deliver, NEW r, r = pending[Head(outbox).request.id], NEW ok \in BOOLEAN,
           ThumbAnswered(r, ok)
    PROVE  IInv'
<1>1. PICK c, k : /\ c = r.page[1]
                  /\ k = IF ok THEN [card[c] EXCEPT !.run = "done", !.thumb = ~card[c].cancelled]
                               ELSE Failed(card[c])
  OBVIOUS
<1>2. /\ outbox # <<>> /\ outbox' = Tail(outbox)
      /\ UNCHANGED <<open, zoom, worker, busy, docs, inputs>>
      /\ r \in Calls /\ r.id \in DOMAIN pending /\ pending[r.id] = r
  BY FirstAnswer
<1>3. r.caller = "thumb" /\ UNCHANGED page /\ Forget(r.id)
  BY DEF ThumbAnswered
<1>4. c \in Cards /\ card[c] \in CardStates /\ card[c].state # "idle"
  BY <1>1, <1>2, <1>3, Waiting
<1>5. k \in CardStates /\ k.state \in {card[c].state, "error"}
  <2>1. CASE ok
    BY <1>1, <1>4, <2>1 DEF CardStates
  <2>2. CASE ~ok
    BY <1>1, <1>4, <2>2, FailedCard
  <2>3. QED
    BY <2>1, <2>2
<1>6. card' = [card EXCEPT ![c] = k]
  BY <1>1, <1>4 DEF ThumbAnswered, IInv, Types
<1>7. k.state = "ready" => c \in docs
  BY <1>4, <1>5 DEF IInv, CardInv
<1>8. QED
  BY <1>1, <1>2, <1>3, <1>4, <1>5, <1>6, <1>7, Ended

LEMMA LoadEndsInv ==
    ASSUME IInv, Deliver, NEW r, r = pending[Head(outbox).request.id], NEW ok \in BOOLEAN,
           LoadAnswered(r, ok), ~(ok /\ ~card[r.page[1]].cancelled)
    PROVE  IInv'
<1>1. PICK c, k : /\ c = r.page[1]
                  /\ k = IF ok THEN [card[c] EXCEPT !.run = "done"] ELSE Failed(card[c])
  OBVIOUS
<1>2. /\ outbox # <<>> /\ outbox' = Tail(outbox)
      /\ UNCHANGED <<open, zoom, worker, busy, docs, inputs>>
      /\ r \in Calls /\ r.id \in DOMAIN pending /\ pending[r.id] = r
  BY FirstAnswer
<1>3. r.caller = "load" /\ UNCHANGED page /\ Forget(r.id)
  BY DEF LoadAnswered
<1>4. c \in Cards /\ card[c] \in CardStates /\ card[c].state # "idle"
  BY <1>1, <1>2, <1>3, Waiting
<1>5. k \in CardStates /\ k.state \in {card[c].state, "error"}
  <2>1. CASE ok
    BY <1>1, <1>4, <2>1 DEF CardStates
  <2>2. CASE ~ok
    BY <1>1, <1>4, <2>2, FailedCard
  <2>3. QED
    BY <2>1, <2>2
<1>6. card' = [card EXCEPT ![c] = k]
  BY <1>1, <1>4 DEF LoadAnswered, IInv, Types
<1>7. k.state = "ready" => c \in docs
  BY <1>4, <1>5 DEF IInv, CardInv
<1>8. QED
  BY <1>1, <1>2, <1>3, <1>4, <1>5, <1>6, <1>7, Ended

LEMMA LoadGoesOnInv ==
    ASSUME IInv, Deliver, NEW r, r = pending[Head(outbox).request.id],
           LoadAnswered(r, Head(outbox).ok), Head(outbox).ok, ~card[r.page[1]].cancelled
    PROVE  IInv'
<1>1. PICK c, k, t, rest : /\ c = r.page[1]
                           /\ k = [card[c] EXCEPT !.state = "ready", !.run = "thumb"]
                           /\ t = Call("thumb", r.page, THUMB_SCALE)
                           /\ rest = Without(r.id)
  OBVIOUS
<1>2. /\ outbox # <<>> /\ outbox' = Tail(outbox)
      /\ UNCHANGED <<open, zoom, worker, busy, docs, inputs>>
      /\ r = Head(outbox).request
      /\ r \in Calls /\ r.id \in DOMAIN pending /\ pending[r.id] = r
      /\ Truthful(Head(outbox), docs)
  BY FirstAnswer
<1>3. r.caller = "load" /\ UNCHANGED page /\ Send(t, rest)
  BY <1>1 DEF LoadAnswered
<1>4. c \in Cards /\ card[c] \in CardStates /\ c \in docs
  BY <1>1, <1>2, <1>3, Waiting DEF Truthful
<1>5. k \in CardStates /\ k.state = "ready" /\ k.run = "thumb"
  BY <1>1, <1>4 DEF CardStates
<1>6. card' = [card EXCEPT ![c] = k]
  BY <1>1, <1>4 DEF LoadAnswered, IInv, Types
<1>7. t \in Calls /\ t.id = nextId /\ t.caller = "thumb" /\ t.page[1] = c
  BY <1>1, <1>2 DEF Call, Calls, THUMB_SCALE, IInv, Types
<1>8. /\ DOMAIN rest = DOMAIN pending \ {r.id}
      /\ \A i \in DOMAIN rest : i \in DOMAIN pending /\ rest[i] = pending[i]
  BY <1>1 DEF Without
<1>9. /\ DOMAIN pending' = DOMAIN rest \cup {nextId} /\ pending'[nextId] = t
      /\ \A i \in DOMAIN rest : pending'[i] = pending[i]
      /\ nextId' = nextId + 1 /\ inbox' \in Seq(Calls) /\ nextId' \in Nat \ {0}
      /\ \A i \in DOMAIN pending' : /\ i \in Nat \ {0} /\ i < nextId'
                                    /\ pending'[i] \in Calls /\ pending'[i].id = i
  BY <1>3, <1>7, <1>8, Sent DEF IInv
<1>10. FlightInv' /\ AnswerInv'
  BY <1>2, <1>3, <1>4, <1>7, <1>8, SentFlight DEF IInv
<1>11. outbox' \in Seq(Answered)
  <2>1. outbox \in Seq(Answered)
    BY DEF IInv, Types
  <2>2. QED
    BY <1>2, <2>1
<1>12. Types'
  BY <1>2, <1>3, <1>4, <1>5, <1>6, <1>9, <1>11 DEF IInv, Types
<1>13. \A d \in Cards : card'[d] = IF d = c THEN k ELSE card[d]
  BY <1>6 DEF IInv, Types
<1>14. CardInv'
  <2>1. \A i \in DOMAIN pending' : i # nextId
           => i \in DOMAIN pending \ {r.id} /\ pending'[i] = pending[i]
    BY <1>8, <1>9
  <2>2. ASSUME NEW i \in DOMAIN pending \ {r.id}, pending[i].caller # "page"
        PROVE  pending[i].page[1] \in Cards \ {c}
    <3>1. pending[i].page[1] \in Cards
      BY <2>2, PageParts DEF IInv, Types, Calls
    <3>2. pending[i].page[1] # c
      BY <1>1, <1>2, <1>3, <2>2 DEF IInv, CardInv
    <3>3. QED
      BY <3>1, <3>2
  <2>3. ASSUME NEW i \in DOMAIN pending'
        PROVE  /\ pending'[i].caller # "load" => pending'[i].page[1] \in docs
               /\ pending'[i].caller # "page" =>
                     card'[pending'[i].page[1]].run = pending'[i].caller
    <3>1. CASE i = nextId
      BY <1>4, <1>5, <1>7, <1>9, <1>13, <3>1
    <3>2. CASE i # nextId
      BY <1>13, <2>1, <2>2, <3>2 DEF IInv, CardInv
    <3>3. QED
      BY <3>1, <3>2
  <2>4. ASSUME NEW i \in DOMAIN pending', NEW j \in DOMAIN pending',
               pending'[i].caller # "page", pending'[j].caller # "page",
               pending'[i].page[1] = pending'[j].page[1]
        PROVE  i = j
    <3>1. pending'[nextId].page[1] = c
      BY <1>7, <1>9
    <3>2. i = nextId <=> j = nextId
      BY <2>1, <2>2, <2>4, <3>1
    <3>3. CASE i # nextId
      BY <2>1, <2>4, <3>2, <3>3 DEF IInv, CardInv
    <3>4. QED
      BY <3>2, <3>3
  <2>5. \A d \in Cards : /\ card'[d].state = "ready" => d \in docs
                         /\ card'[d].state = "idle" => card'[d].run = "none"
    BY <1>4, <1>5, <1>13 DEF IInv, CardInv
  <2>6. QED
    BY <1>2, <2>3, <2>4, <2>5 DEF IInv, CardInv
<1>15. PagesInv'
  <2>1. nextId' \in Nat /\ nextId \in Nat /\ nextId <= nextId'
    BY SMTT(30), <1>9 DEF IInv, Types
  <2>2. PICK i \in DOMAIN pending : i = r.id /\ pending[i].caller # "page"
    BY <1>2, <1>3
  <2>3. \A j \in Nat : j < nextId /\ j # i
           => /\ j \in DOMAIN pending' <=> j \in DOMAIN pending
              /\ j \in DOMAIN pending => pending'[j] = pending[j]
    <3>1. TAKE j \in Nat
    <3>2. HAVE j < nextId /\ j # i
    <3>3. j # nextId /\ j # r.id
      BY <2>1, <2>2, <3>2
    <3>4. j \in DOMAIN pending' <=> j \in DOMAIN rest
      BY <1>9, <3>3
    <3>5. j \in DOMAIN rest <=> j \in DOMAIN pending
      BY <1>8, <3>3
    <3>6. j \in DOMAIN rest => pending'[j] = pending[j]
      BY <1>8, <1>9
    <3>7. QED
      BY <3>4, <3>5, <3>6
  <2>4. UNCHANGED <<open, page, worker>>
    BY <1>2, <1>3
  <2>5. QED
    BY <2>1, <2>2, <2>3, <2>4, PagesWait
<1>16. QED
  BY <1>2, <1>10, <1>12, <1>14, <1>15 DEF IInv, WorkerInv

LEMMA SameSlot == ASSUME NEW s \in Slots PROVE [s EXCEPT !.shown = s.shown] = s
BY DEF Slots

LEMMA PageAnswerInv ==
    ASSUME IInv, Deliver, NEW r, r = pending[Head(outbox).request.id],
           PageAnswered(r, Head(outbox).ok, <<r.page, r.scale>>)
    PROVE  IInv'
<1>1. PICK p, ok, s : /\ p = r.page /\ ok = Head(outbox).ok
                      /\ s = [page[p] EXCEPT !.shown =
                                IF ok /\ p[1] \in open /\ page[p].run = r.id
                                THEN <<p, r.scale>> ELSE page[p].shown]
  OBVIOUS
<1>2. /\ outbox # <<>> /\ outbox' = Tail(outbox)
      /\ UNCHANGED <<open, zoom, worker, busy, docs, inputs>>
      /\ r = Head(outbox).request
      /\ r \in Calls /\ r.id \in DOMAIN pending /\ pending[r.id] = r
      /\ Truthful(Head(outbox), docs)
  BY FirstAnswer
<1>3. /\ r.caller = "page" /\ UNCHANGED card /\ Forget(r.id)
      /\ (ok \/ p \in Unpaintable) /\ p \in Pages /\ r.scale \in Nat
  BY <1>1, <1>2 DEF PageAnswered, Truthful, Calls
<1>4. page[p] \in Slots /\ SlotOf(p, page[p], nextId, pending, worker)
  BY <1>3 DEF IInv, Types, PagesInv
<1>5. /\ s \in Slots /\ s.run = page[p].run /\ s.seen = page[p].seen
      /\ s.shown = IF ok /\ p[1] \in open /\ page[p].run = r.id
                   THEN <<p, r.scale>> ELSE page[p].shown
  <2>1. page[p].shown \in {Blank} \cup (Pages \X Nat)
    BY <1>4 DEF Slots
  <2>2. QED
    BY <1>1, <1>3, <1>4, <2>1 DEF Slots
<1>6. page' = [page EXCEPT ![p] = s]
  BY <1>1 DEF PageAnswered, Drawn, IInv, Types
<1>7. \A q \in Pages : page'[q] = IF q = p THEN s ELSE page[q]
  BY <1>6 DEF IInv, Types
<1>8. /\ UNCHANGED <<nextId, inbox>>
      /\ DOMAIN pending' = DOMAIN pending \ {r.id}
      /\ \A i \in DOMAIN pending' : pending'[i] = pending[i]
      /\ outbox' \in Seq(Answered) /\ FlightInv' /\ AnswerInv'
  BY <1>2, <1>3, Forgotten
<1>9. page' \in [Pages -> Slots]
  BY <1>5, <1>6 DEF IInv, Types
<1>10. Types'
  BY <1>2, <1>3, <1>8, <1>9 DEF IInv, Types
<1>11. CardInv'
  BY <1>2, <1>3, <1>8 DEF IInv, CardInv
<1>12. ASSUME NEW q \in Pages
       PROVE  /\ q[1] \notin open => page'[q] = NewSlot
              /\ SlotOf(q, page'[q], nextId, pending', worker)
  <2>1. /\ page[q].run \in Nat /\ SlotOf(q, page[q], nextId, pending, worker)
        /\ nextId \in Nat
        /\ q[1] \notin open => page[q] = NewSlot
    BY DEF IInv, Types, Slots, PagesInv
  <2>2. CASE page[q].run # r.id
    <3>1. SlotOf(q, page[q], nextId, pending', worker)
      BY SMTT(30), <1>8, <2>1, <2>2, OtherSlot
    <3>2. page'[q].shown = page[q].shown
      BY <1>5, <1>7, <2>2
    <3>3. page'[q] = page[q]
      <4>1. CASE q = p
        <5>1. s = [page[p] EXCEPT !.shown = page[p].shown]
          BY <1>1, <2>2, <4>1
        <5>2. QED
          BY <1>4, <1>7, <4>1, <5>1, SameSlot
      <4>2. QED
        BY <1>7, <4>1
    <3>4. QED
      BY <2>1, <3>1, <3>3
  <2>3. CASE page[q].run = r.id
    <3>1. page[q].run # 0 /\ page[q].run < nextId
      <4>1. r.id # 0 /\ r.id < nextId
        BY <1>2 DEF IInv, Types
      <4>2. QED
        BY <2>3, <4>1
    <3>2. q = p /\ r.scale = page[q].seen[2]
      BY <1>1, <1>2, <2>1, <2>3, <3>1 DEF SlotOf
    <3>3. q[1] \in open
      BY <2>1, <3>1, FreshSlot
    <3>4. /\ page'[q].run = page[q].run /\ page'[q].seen = page[q].seen
          /\ ok => page'[q].shown = <<q, page[q].seen[2]>>
      BY <1>5, <1>7, <2>3, <3>2, <3>3
    <3>5. page[q].run \notin DOMAIN pending'
      BY <1>8, <2>3
    <3>6. SlotOf(q, page'[q], nextId, pending', worker)
      BY <1>3, <3>1, <3>2, <3>4, <3>5 DEF SlotOf
    <3>7. QED
      BY <3>3, <3>6
  <2>4. QED
    BY <2>2, <2>3
<1>13. PagesInv'
  BY <1>2, <1>8, <1>12 DEF PagesInv
<1>14. QED
  BY <1>2, <1>8, <1>10, <1>11, <1>13 DEF IInv, WorkerInv

LEMMA DeliverInv == ASSUME IInv, Deliver PROVE IInv'
<1>1. PICK r : r = pending[Head(outbox).request.id]
  OBVIOUS
<1>2. /\ Head(outbox).ok \in BOOLEAN
      /\ \/ LoadAnswered(r, Head(outbox).ok) \/ ThumbAnswered(r, Head(outbox).ok)
         \/ PageAnswered(r, Head(outbox).ok, <<r.page, r.scale>>)
  BY <1>1, FirstAnswer
<1>3. CASE LoadAnswered(r, Head(outbox).ok)
  BY <1>1, <1>2, <1>3, LoadEndsInv, LoadGoesOnInv
<1>4. CASE ThumbAnswered(r, Head(outbox).ok)
  BY <1>1, <1>2, <1>4, ThumbInv
<1>5. CASE PageAnswered(r, Head(outbox).ok, <<r.page, r.scale>>)
  BY <1>1, <1>5, PageAnswerInv
<1>6. QED
  BY <1>2, <1>3, <1>4, <1>5

LEMMA WorkerFailsInv == ASSUME IInv, WorkerFails PROVE IInv'
<1>1. /\ worker = "starting" /\ worker' = "broken" /\ pending' = <<>>
      /\ card' = [c \in Cards |-> IF \E i \in DOMAIN pending : pending[i].page[1] = c
                                  THEN Failed(card[c]) ELSE card[c]]
      /\ UNCHANGED <<open, zoom, page, nextId, inbox, busy, outbox, docs, inputs>>
  BY DEF WorkerFails, workerVars
<1>2. DOMAIN pending' = {}
  BY <1>1
<1>3. docs = {} /\ busy = {}
  BY <1>1 DEF IInv, WorkerInv
<1>4. Fewer
  BY <1>1, <1>2 DEF Fewer, IInv, Types
<1>5. FlightInv' /\ AnswerInv'
  BY <1>1, <1>4, QueuesStay DEF IInv
<1>6. ASSUME NEW c \in Cards
      PROVE  /\ card'[c] \in CardStates
             /\ card'[c].state = "ready" => c \in docs
             /\ card'[c].state = "idle" => card'[c].run = "none"
  <2>1. card[c] \in CardStates
    BY DEF IInv, Types
  <2>2. CASE \E i \in DOMAIN pending : pending[i].page[1] = c
    <3>1. PICK i \in DOMAIN pending : pending[i].page[1] = c
      BY <2>2
    <3>2. pending[i].caller = "load"
      BY <1>3 DEF IInv, CardInv
    <3>3. card[c].state # "idle"
      BY <3>1, <3>2, Waiting
    <3>4. card'[c] = Failed(card[c])
      BY <1>1, <2>2
    <3>5. card'[c] \in CardStates /\ card'[c].state \in {card[c].state, "error"}
      BY <2>1, <3>4, FailedCard
    <3>6. QED
      BY <3>3, <3>5 DEF IInv, CardInv
  <2>3. CASE ~\E i \in DOMAIN pending : pending[i].page[1] = c
    <3>1. card'[c] = card[c]
      BY <1>1, <2>3
    <3>2. QED
      BY <2>1, <3>1 DEF IInv, CardInv
  <2>4. QED
    BY <2>2, <2>3
<1>7. card' \in [Cards -> CardStates]
  BY <1>1, <1>6
<1>8. Types'
  BY <1>1, <1>2, <1>7 DEF IInv, Types
<1>9. CardInv'
  BY <1>1, <1>2, <1>6 DEF IInv, CardInv
<1>10. PagesInv'
  BY <1>1, <1>2 DEF IInv, PagesInv, SlotOf
<1>11. QED
  BY <1>1, <1>3, <1>5, <1>8, <1>9, <1>10 DEF IInv, WorkerInv

-------------------------------------------------------------------------------

LEMMA InitIInv == Init => IInv
<1> SUFFICES ASSUME Init PROVE IInv
  OBVIOUS
<1>1. DOMAIN pending = {}
  BY DEF Init
<1>2. \A c \in Cards : card[c].state = "idle" /\ card[c].run = "none"
  BY DEF Init
<1>3. Types
  <2>1. card \in [Cards -> CardStates]
    BY DEF Init, CardStates
  <2>2. page \in [Pages -> Slots] /\ zoom \in [Cards -> MIN_SCALE .. MAX_SCALE]
    BY FreshSlot DEF Init, StartScale, MIN_SCALE, MAX_SCALE
  <2>3. QED
    BY <1>1, <2>1, <2>2 DEF Init, Types
<1>4. FlightInv /\ AnswerInv
  BY DEF Init, FlightInv, AnswerInv
<1>5. CardInv /\ WorkerInv
  BY <1>1, <1>2 DEF Init, CardInv, WorkerInv
<1>6. PagesInv
  BY FreshSlot DEF Init, PagesInv
<1>7. QED
  BY <1>3, <1>4, <1>5, <1>6 DEF IInv

LEMMA NextIInv == IInv /\ [Next]_vars => IInv'
<1> SUFFICES ASSUME IInv, [Next]_vars PROVE IInv'
  OBVIOUS
<1>1. CASE React
  BY <1>1, CommitCardInv, CommitPageInv DEF React
<1>2. CASE User
  BY <1>2, ScrollCardInv, UnmountInv, OpenInv, CloseInv, ZoomInv, ScrollPageInv DEF User
<1>3. CASE Network
  BY <1>3, FetchAnsweredInv, FetchFailsInv DEF Network
<1>4. CASE Worker
  BY <1>4, WorkerStartsInv, ReceiveInv, FinishInv DEF Worker
<1>5. CASE Deliver
  BY <1>5, DeliverInv
<1>6. CASE WorkerFails
  BY <1>6, WorkerFailsInv
<1>7. CASE UNCHANGED vars
  BY <1>7 DEF vars, clientVars, workerVars, IInv, Types, FlightInv, AnswerInv, CardInv,
              WorkerInv, PagesInv
<1>8. QED
  BY <1>1, <1>2, <1>3, <1>4, <1>5, <1>6, <1>7 DEF Next

\* What the viewer relies on, in every state: each request on its way is the one
\* pending under its id, each answer is true of the worker's documents, and each
\* page waits for its last request or shows what that asked for (worker-client.ts,
\* PdfPageCanvas).
THEOREM Inductive == Spec => []IInv
<1>1. QED
  BY InitIInv, NextIInv, PTL DEF Spec

\* A page in view whose last render has been answered shows its own pixels at the
\* scale the dialog has now (the `cancelled' flag of PdfPageCanvas's effect), for any
\* number of attachments and pages, whatever the files, in any order of the answers.
THEOREM LatestShown == Spec => []PageShowsLatest
<1>1. IInv => PageShowsLatest
  <2> SUFFICES ASSUME IInv, NEW p \in Pages \ Unpaintable,
                      page[p].seen = <<TRUE, zoom[p[1]]>>,
                      page[p].run \notin DOMAIN pending, worker # "broken"
               PROVE  page[p].shown = <<p, zoom[p[1]]>>
    BY DEF PageShowsLatest
  <2>1. SlotOf(p, page[p], nextId, pending, worker)
    BY DEF IInv, PagesInv
  <2>2. page[p].seen[1] /\ page[p].seen[2] = zoom[p[1]]
    OBVIOUS
  <2>3. QED
    BY <2>1, <2>2 DEF SlotOf
<1>2. QED
  BY <1>1, Inductive, PTL

-------------------------------------------------------------------------------
(* The ids. Every card has one file to ask for and one thumbnail, and every   *)
(* input makes the pages of one card stale at most.                           *)

ToFetch == {c \in Cards : card[c].run \in {"none", "fetch"}}
ToLoad == {c \in Cards : card[c].run \in {"none", "fetch", "load"}}
Stale == {p \in Pages : page[p].inView /\ page[p].seen # PageDeps(p)}
PagesOf(c) == {c} \X (0 .. PageCount - 1)

CountInv ==
    /\ inputs <= MaxInputs
    /\ nextId - 1 + Cardinality(ToFetch) + Cardinality(ToLoad) + Cardinality(Stale)
         <= 2 * Cardinality(Cards) + PageCount * inputs

LEMMA CountsFinite ==
    /\ IsFiniteSet(Pages) /\ Cardinality(Cards) \in Nat
    /\ \A S \in SUBSET Cards : IsFiniteSet(S) /\ Cardinality(S) \in Nat
                               /\ Cardinality(S) <= Cardinality(Cards)
    /\ \A S \in SUBSET Pages : IsFiniteSet(S) /\ Cardinality(S) \in Nat
    /\ \A c : IsFiniteSet(PagesOf(c)) /\ Cardinality(PagesOf(c)) = PageCount
<1>1. IsFiniteSet(0 .. PageCount - 1) /\ Cardinality(0 .. PageCount - 1) = PageCount
  BY PagesAssumption, FS_Interval
<1>2. IsFiniteSet(Pages)
  BY <1>1, CardsAssumption, FS_Product DEF Pages
<1>3. \A S \in SUBSET Cards : IsFiniteSet(S) /\ Cardinality(S) \in Nat
                              /\ Cardinality(S) <= Cardinality(Cards)
  BY CardsAssumption, FS_Subset, FS_CardinalityType
<1>4. \A S \in SUBSET Pages : IsFiniteSet(S) /\ Cardinality(S) \in Nat
  BY <1>2, FS_Subset, FS_CardinalityType
<1>5. ASSUME NEW c PROVE IsFiniteSet(PagesOf(c)) /\ Cardinality(PagesOf(c)) = PageCount
  <2>1. IsFiniteSet({c}) /\ Cardinality({c}) = 1
    BY FS_Singleton
  <2>2. IsFiniteSet(PagesOf(c)) /\ Cardinality(PagesOf(c)) = 1 * PageCount
    BY ZenonT(30), <1>1, <2>1, FS_Product DEF PagesOf
  <2>3. QED
    BY <2>2, PagesAssumption
<1>6. QED
  BY <1>2, <1>3, <1>4, <1>5, CardsAssumption, FS_CardinalityType

\* A set that only loses elements.
LEMMA Shrunk ==
    ASSUME NEW S, IsFiniteSet(S), NEW T \in SUBSET S
    PROVE  /\ Cardinality(S) \in Nat /\ Cardinality(T) \in Nat
           /\ Cardinality(T) <= Cardinality(S)
           /\ T # S => Cardinality(T) <= Cardinality(S) - 1
BY FS_Subset, FS_CardinalityType

LEMMA CountsShrink ==
    ASSUME ToFetch' \subseteq ToFetch, ToLoad' \subseteq ToLoad, Stale' \subseteq Stale
    PROVE  LET a == Cardinality(ToFetch)
               b == Cardinality(ToLoad)
               d == Cardinality(Stale)
           IN /\ {a, b, d} \subseteq Nat /\ {a', b', d'} \subseteq Nat
              /\ a' <= a /\ (ToFetch' # ToFetch => a' <= a - 1)
              /\ b' <= b /\ (ToLoad' # ToLoad => b' <= b - 1)
              /\ d' <= d /\ (Stale' # Stale => d' <= d - 1)
<1>1. ToFetch \subseteq Cards /\ ToLoad \subseteq Cards /\ Stale \subseteq Pages
  BY DEF ToFetch, ToLoad, Stale
<1>2. IsFiniteSet(ToFetch) /\ IsFiniteSet(ToLoad) /\ IsFiniteSet(Stale)
  BY <1>1, CountsFinite
<1>3. QED
  BY <1>2, Shrunk

\* A step that asks for nothing and takes no input.
LEMMA QuietCount ==
    ASSUME IInv, CountInv, UNCHANGED <<nextId, inputs>>,
           ToFetch' \subseteq ToFetch, ToLoad' \subseteq ToLoad, Stale' \subseteq Stale
    PROVE  CountInv'
<1>1. nextId \in Nat /\ inputs \in Nat /\ PageCount * inputs \in Nat /\ Cardinality(Cards) \in Nat
  BY PagesAssumption, CountsFinite DEF IInv, Types
<1>2. QED
  BY <1>1, CountsShrink DEF CountInv

\* A step that takes the next id for something that had to be asked for.
LEMMA SpendCount ==
    ASSUME IInv, CountInv, nextId' = nextId + 1, UNCHANGED inputs,
           ToFetch' \subseteq ToFetch, ToLoad' \subseteq ToLoad, Stale' \subseteq Stale,
           ToFetch' # ToFetch \/ ToLoad' # ToLoad \/ Stale' # Stale
    PROVE  CountInv'
<1>1. nextId \in Nat /\ inputs \in Nat /\ PageCount * inputs \in Nat /\ Cardinality(Cards) \in Nat
  BY PagesAssumption, CountsFinite DEF IInv, Types
<1>2. QED
  BY <1>1, CountsShrink DEF CountInv

\* An input of the user's, about the viewer of card c.
LEMMA InputCount ==
    ASSUME IInv, CountInv, UNCHANGED <<nextId, card>>, inputs < MaxInputs, inputs' = inputs + 1,
           NEW c \in Cards, Stale' \subseteq Stale \cup PagesOf(c)
    PROVE  CountInv'
<1>1. nextId \in Nat /\ inputs \in Nat /\ PageCount \in Nat /\ PageCount * inputs \in Nat
      /\ Cardinality(Cards) \in Nat
  BY PagesAssumption, CountsFinite DEF IInv, Types
<1>2. PageCount * inputs' = PageCount * inputs + PageCount
  BY <1>1
<1>3. ToFetch' = ToFetch /\ ToLoad' = ToLoad
  BY DEF ToFetch, ToLoad
<1>4. /\ Cardinality(ToFetch) \in Nat /\ Cardinality(ToLoad) \in Nat
      /\ IsFiniteSet(Stale) /\ Cardinality(Stale) \in Nat
  BY CountsFinite DEF ToFetch, ToLoad, Stale
<1>5. Cardinality(Stale') \in Nat /\ Cardinality(Stale') <= Cardinality(Stale) + PageCount
  <2>1. IsFiniteSet(PagesOf(c)) /\ Cardinality(PagesOf(c)) = PageCount
    BY CountsFinite
  <2>2. /\ IsFiniteSet(Stale \cup PagesOf(c))
        /\ Cardinality(Stale \cup PagesOf(c))
             = Cardinality(Stale) + PageCount - Cardinality(Stale \cap PagesOf(c))
    BY <1>4, <2>1, FS_Union
  <2>3. Cardinality(Stale \cap PagesOf(c)) \in Nat
    BY <1>4, FS_Subset, FS_CardinalityType
  <2>4. /\ Cardinality(Stale') \in Nat
        /\ Cardinality(Stale') <= Cardinality(Stale \cup PagesOf(c))
        /\ Cardinality(Stale \cup PagesOf(c)) \in Nat
    BY <2>2, Shrunk
  <2>5. QED
    BY <1>1, <1>4, <2>2, <2>3, <2>4
<1>6. MaxInputs \in Nat
  BY InputsAssumption
<1>7. QED
  BY <1>1, <1>2, <1>3, <1>4, <1>5, <1>6 DEF CountInv

\* The load of a card only goes on.
GoesOn(old, new) ==
    new \in {old, "thumb", "done"} \/ (old = "none" /\ new = "fetch")

LEMMA CardsGoOn ==
    ASSUME \A c \in Cards : GoesOn(card[c].run, card'[c].run)
    PROVE  ToFetch' \subseteq ToFetch /\ ToLoad' \subseteq ToLoad
BY DEF GoesOn, ToFetch, ToLoad

\* A step that changes at most a card, whose load goes on.
LEMMA CardCount ==
    ASSUME IInv, CountInv, UNCHANGED <<page, zoom, nextId, inputs>>,
           \A c \in Cards : GoesOn(card[c].run, card'[c].run)
    PROVE  CountInv'
<1>1. Stale' = Stale
  BY DEF Stale, PageDeps
<1>2. QED
  BY <1>1, CardsGoOn, QuietCount

\* Pages that are put back are not stale.
LEMMA ResetCount ==
    ASSUME IInv, CountInv, UNCHANGED <<zoom, nextId, inputs>>, NEW c \in Cards,
           page' = [p \in Pages |-> IF p[1] = c THEN NewSlot ELSE page[p]],
           \A d \in Cards : GoesOn(card[d].run, card'[d].run)
    PROVE  CountInv'
<1>1. Stale' \subseteq Stale
  BY FreshSlot DEF Stale, PageDeps
<1>2. QED
  BY <1>1, CardsGoOn, QuietCount

\* The cards' part of each step.
LEMMA Going ==
    ASSUME IInv, NEW c \in Cards,
           ScrollCard(c) \/ CommitCard(c) \/ FetchFails(c) \/ Unmount(c)
    PROVE  \A d \in Cards : GoesOn(card[d].run, card'[d].run)
<1> SUFFICES ASSUME NEW d \in Cards PROVE GoesOn(card[d].run, card'[d].run)
  OBVIOUS
<1>1. card \in [Cards -> CardStates] /\ card[c] \in CardStates
  BY DEF IInv, Types
<1>2. CASE d # c
  BY <1>1, <1>2 DEF ScrollCard, CommitCard, FetchFails, Unmount, GoesOn
<1>3. CASE d = c /\ ScrollCard(c)
  BY <1>1, <1>3 DEF ScrollCard, CardStates, GoesOn
<1>4. CASE d = c /\ CommitCard(c)
  <2>1. Deps(c) = <<TRUE, "idle">> => card[c].run = "none"
    BY DEF Deps, IInv, CardInv
  <2>2. card'[c].run = IF Deps(c) = <<TRUE, "idle">> THEN "fetch" ELSE card[c].run
    BY <1>1, <1>4 DEF CommitCard, CardStates
  <2>3. QED
    BY <1>4, <2>1, <2>2 DEF GoesOn
<1>5. CASE d = c /\ FetchFails(c)
  BY <1>1, <1>5, FailedCard DEF FetchFails, GoesOn
<1>6. CASE d = c /\ Unmount(c)
  BY <1>1, <1>6 DEF Unmount, CardStates, GoesOn
<1>7. QED
  BY <1>2, <1>3, <1>4, <1>5, <1>6

LEMMA FetchCount == ASSUME IInv, CountInv, NEW c \in Cards, FetchAnswered(c) PROVE CountInv'
<1>1. /\ UNCHANGED <<page, zoom, inputs>> /\ nextId' = nextId + 1
      /\ card[c].run = "fetch" /\ card[c] \in CardStates
      /\ card' = [card EXCEPT ![c].run = "load"]
  BY DEF FetchAnswered, IInv, Types, Send, NextId, Call
<1>2. \A d \in Cards : card'[d].run = IF d = c THEN "load" ELSE card[d].run
  BY <1>1 DEF IInv, Types, CardStates
<1>3. ToFetch' \subseteq ToFetch /\ ToLoad' \subseteq ToLoad
  BY <1>1, <1>2 DEF ToFetch, ToLoad
<1>4. c \in ToFetch /\ c \notin ToFetch'
  BY <1>1, <1>2 DEF ToFetch
<1>5. Stale' = Stale
  BY <1>1 DEF Stale, PageDeps
<1>6. QED
  BY <1>1, <1>3, <1>4, <1>5, SpendCount

LEMMA CommitPageCount ==
    ASSUME IInv, CountInv, NEW p \in Pages, CommitPage(p) PROVE CountInv'
<1>1. /\ UNCHANGED <<card, zoom, inputs>> /\ page[p] \in Slots
      /\ page[p].seen # PageDeps(p)
      /\ IF page[p].inView THEN nextId' = nextId + 1 ELSE nextId' = nextId
  BY DEF CommitPage, IInv, Types, Send, SendNothing, NextId, Call, clientVars
<1>2. \A q \in Pages : q # p => page'[q] = page[q]
  BY DEF CommitPage, IInv, Types
<1>3. page'[p].seen = PageDeps(p) /\ page'[p].inView = page[p].inView
  BY <1>1 DEF CommitPage, IInv, Types, Slots
<1>4. PageDeps(p)' = PageDeps(p)
  BY <1>1, <1>3 DEF PageDeps
<1>5. Stale' \subseteq Stale /\ p \notin Stale'
  <2>1. p \notin Stale'
    BY <1>3, <1>4 DEF Stale
  <2>2. \A q \in Pages : q # p /\ q \in Stale' => q \in Stale
    BY <1>1, <1>2 DEF Stale, PageDeps
  <2>3. Stale' \subseteq Pages
    BY DEF Stale
  <2>4. QED
    BY <2>1, <2>2, <2>3
<1>6. ToFetch' = ToFetch /\ ToLoad' = ToLoad
  BY <1>1 DEF ToFetch, ToLoad
<1>7. page[p].inView => p \in Stale
  BY <1>1 DEF Stale
<1>8. QED
  BY <1>1, <1>5, <1>6, <1>7, QuietCount, SpendCount

LEMMA UserCount ==
    ASSUME IInv, CountInv, NEW c \in Cards, Open(c) \/ ZoomIn(c) \/ ZoomOut(c)
    PROVE  CountInv'
<1>1. /\ UNCHANGED <<card, page, nextId>> /\ inputs < MaxInputs /\ inputs' = inputs + 1
      /\ \A d \in Cards \ {c} : zoom'[d] = zoom[d]
  BY DEF Open, ZoomIn, ZoomOut, clientVars, IInv, Types
<1>2. ASSUME NEW p \in Pages, p \notin PagesOf(c) PROVE p[1] \in Cards \ {c}
  BY <1>2 DEF Pages, PagesOf
<1>3. Stale' \subseteq Stale \cup PagesOf(c)
  BY <1>1, <1>2 DEF Stale, PageDeps
<1>4. QED
  BY <1>1, <1>3, InputCount

LEMMA ScrollCount ==
    ASSUME IInv, CountInv, NEW p \in Pages, ScrollPage(p) PROVE CountInv'
<1>1. /\ UNCHANGED <<card, zoom, nextId>> /\ inputs < MaxInputs /\ inputs' = inputs + 1
      /\ \A q \in Pages : q # p => page'[q] = page[q]
  BY DEF ScrollPage, clientVars, IInv, Types
<1>2. p[1] \in Cards /\ p \in PagesOf(p[1])
  BY DEF Pages, PagesOf
<1>3. Stale' \subseteq Stale \cup {p}
  BY <1>1 DEF Stale, PageDeps
<1>4. QED
  BY <1>1, <1>2, <1>3, InputCount

LEMMA DeliverCount == ASSUME IInv, CountInv, Deliver PROVE CountInv'
<1>1. PICK r, ok : r = pending[Head(outbox).request.id] /\ ok = Head(outbox).ok
  OBVIOUS
<1>2. /\ UNCHANGED <<zoom, inputs>> /\ pending[r.id] = r /\ r.id \in DOMAIN pending
      /\ r.page[1] \in Cards /\ r \in Calls
      /\ \/ LoadAnswered(r, ok) \/ ThumbAnswered(r, ok)
         \/ PageAnswered(r, ok, <<r.page, r.scale>>)
  BY <1>1, FirstAnswer
<1>3. card \in [Cards -> CardStates] /\ card[r.page[1]] \in CardStates
      /\ Failed(card[r.page[1]]).run = "done"
  BY <1>2, FailedCard DEF IInv, Types
<1>4. CASE LoadAnswered(r, ok) /\ ok /\ ~card[r.page[1]].cancelled
  <2>1. /\ UNCHANGED page /\ nextId' = nextId + 1
        /\ card' = [card EXCEPT ![r.page[1]] =
                      [card[r.page[1]] EXCEPT !.state = "ready", !.run = "thumb"]]
    BY <1>2, <1>3, <1>4 DEF LoadAnswered, Send, NextId, Call
  <2>2. \A d \in Cards : card'[d].run = IF d = r.page[1] THEN "thumb" ELSE card[d].run
    BY <1>3, <2>1 DEF CardStates
  <2>3. card[r.page[1]].run = "load"
    BY <1>2, <1>4 DEF LoadAnswered, IInv, CardInv
  <2>4. ToFetch' \subseteq ToFetch /\ ToLoad' \subseteq ToLoad
        /\ r.page[1] \in ToLoad /\ r.page[1] \notin ToLoad'
    BY <1>2, <2>2, <2>3 DEF ToFetch, ToLoad
  <2>5. Stale' = Stale
    BY <1>2, <2>1 DEF Stale, PageDeps
  <2>6. QED
    BY <1>2, <2>1, <2>4, <2>5, SpendCount
<1>5. CASE LoadAnswered(r, ok) /\ ~(ok /\ ~card[r.page[1]].cancelled)
  <2>1. /\ UNCHANGED <<page, nextId>>
        /\ card' = [card EXCEPT ![r.page[1]] =
              IF ok THEN [card[r.page[1]] EXCEPT !.run = "done"] ELSE Failed(card[r.page[1]])]
    BY <1>2, <1>3, <1>5 DEF LoadAnswered, Forget
  <2>2. \A d \in Cards : card'[d].run = IF d = r.page[1] THEN "done" ELSE card[d].run
    BY <1>3, <2>1 DEF CardStates
  <2>3. QED
    BY <1>2, <2>1, <2>2, CardCount DEF GoesOn
<1>6. CASE ThumbAnswered(r, ok)
  <2>1. /\ UNCHANGED <<page, nextId>>
        /\ card' = [card EXCEPT ![r.page[1]] =
              IF ok THEN [card[r.page[1]] EXCEPT !.run = "done",
                                                 !.thumb = ~card[r.page[1]].cancelled]
                    ELSE Failed(card[r.page[1]])]
    BY <1>2, <1>3, <1>6 DEF ThumbAnswered, Forget
  <2>2. \A d \in Cards : card'[d].run = IF d = r.page[1] THEN "done" ELSE card[d].run
    BY <1>3, <2>1 DEF CardStates
  <2>3. QED
    BY <1>2, <2>1, <2>2, CardCount DEF GoesOn
<1>7. CASE PageAnswered(r, ok, <<r.page, r.scale>>)
  <2>1. UNCHANGED <<card, nextId>> /\ r.page \in Pages
    BY <1>2, <1>7 DEF PageAnswered, Forget, Calls
  <2>2. \A q \in Pages : /\ page'[q].inView = page[q].inView
                         /\ page'[q].seen = page[q].seen
    BY <1>7 DEF PageAnswered, IInv, Types, Slots
  <2>3. Stale' = Stale
    BY <1>2, <2>2 DEF Stale, PageDeps
  <2>4. QED
    BY <1>2, <2>1, <2>3, QuietCount DEF ToFetch, ToLoad
<1>8. QED
  BY <1>2, <1>4, <1>5, <1>6, <1>7

LEMMA WorkerFailsCount == ASSUME IInv, CountInv, WorkerFails PROVE CountInv'
<1>1. /\ UNCHANGED <<page, zoom, nextId, inputs>>
      /\ card' = [c \in Cards |-> IF \E i \in DOMAIN pending : pending[i].page[1] = c
                                  THEN Failed(card[c]) ELSE card[c]]
  BY DEF WorkerFails
<1>2. \A c \in Cards : card'[c].run \in {card[c].run, "done"}
  BY <1>1, FailedCard DEF IInv, Types
<1>3. QED
  BY <1>1, <1>2, CardCount DEF GoesOn

LEMMA NextCount == IInv /\ CountInv /\ [Next]_vars => CountInv'
<1> SUFFICES ASSUME IInv, CountInv, [Next]_vars PROVE CountInv'
  OBVIOUS
<1>1. CASE React
  <2>1. CASE \E c \in Cards : CommitCard(c)
    <3>1. PICK c \in Cards : CommitCard(c)
      BY <2>1
    <3>2. UNCHANGED <<page, zoom, nextId, inputs>>
      BY <3>1 DEF CommitCard, clientVars
    <3>3. QED
      BY <3>1, <3>2, Going, CardCount
  <2>2. QED
    BY <1>1, <2>1, CommitPageCount DEF React
<1>2. ASSUME NEW c \in Cards, ScrollCard(c) \/ Unmount(c) \/ Close(c) PROVE CountInv'
  <2>1. CASE ScrollCard(c)
    <3>1. UNCHANGED <<page, zoom, nextId, inputs>>
      BY <2>1 DEF ScrollCard, clientVars
    <3>2. QED
      BY <2>1, <3>1, Going, CardCount
  <2>2. CASE Unmount(c)
    <3>1. UNCHANGED <<zoom, nextId, inputs>>
          /\ page' = [p \in Pages |-> IF p[1] = c THEN NewSlot ELSE page[p]]
      BY <2>2 DEF Unmount, clientVars
    <3>2. QED
      BY <2>2, <3>1, Going, ResetCount
  <2>3. CASE Close(c)
    <3>1. UNCHANGED <<card, zoom, nextId, inputs>>
          /\ page' = [p \in Pages |-> IF p[1] = c THEN NewSlot ELSE page[p]]
      BY <2>3 DEF Close, clientVars
    <3>2. \A d \in Cards : GoesOn(card[d].run, card'[d].run)
      BY <3>1 DEF GoesOn
    <3>3. QED
      BY <3>1, <3>2, ResetCount
  <2>4. QED
    BY <1>2, <2>1, <2>2, <2>3
<1>3. CASE User
  BY <1>2, <1>3, UserCount, ScrollCount DEF User
<1>4. CASE Network
  <2>1. ASSUME NEW c \in Cards, FetchFails(c) PROVE CountInv'
    <3>1. UNCHANGED <<page, zoom, nextId, inputs>>
      BY <2>1 DEF FetchFails, clientVars
    <3>2. QED
      BY <2>1, <3>1, Going, CardCount
  <2>2. QED
    BY <1>4, <2>1, FetchCount DEF Network
<1>5. CASE Worker \/ UNCHANGED vars
  <2>1. UNCHANGED <<card, page, zoom, nextId, inputs>>
    BY <1>5 DEF Worker, WorkerStarts, Receive, Finish, vars, clientVars
  <2>2. QED
    BY <2>1, CardCount DEF GoesOn
<1>6. QED
  BY <1>1, <1>3, <1>4, <1>5, DeliverCount, WorkerFailsCount DEF Next

LEMMA InitCount == Init => CountInv
<1> SUFFICES ASSUME Init PROVE CountInv
  OBVIOUS
<1>1. inputs = 0 /\ nextId = 1 /\ Stale = {}
  BY FreshSlot DEF Init, Stale
<1>2. Cardinality(Stale) = 0
  BY <1>1, FS_EmptySet
<1>3. /\ Cardinality(ToFetch) \in Nat /\ Cardinality(ToFetch) <= Cardinality(Cards)
      /\ Cardinality(ToLoad) \in Nat /\ Cardinality(ToLoad) <= Cardinality(Cards)
      /\ Cardinality(Cards) \in Nat
  BY CountsFinite DEF ToFetch, ToLoad
<1>4. PageCount * inputs = 0
  BY <1>1, PagesAssumption
<1>5. QED
  BY <1>1, <1>2, <1>3, <1>4, InputsAssumption DEF CountInv

\* Every state has its type, and the requests of the viewers (nextId of PdfClient)
\* stay as few as the user's inputs explain: a render that is asked for twice, or a
\* card loaded again, would exceed the ids.
THEOREM TypesHold == Spec => []TypeOK
<1>1. IInv /\ CountInv => TypeOK
  <2> SUFFICES ASSUME IInv, CountInv PROVE TypeOK
    OBVIOUS
  <2>1. nextId \in 1 .. MaxId + 1
    <3>1. /\ Cardinality(ToFetch) \in Nat /\ Cardinality(ToLoad) \in Nat
          /\ Cardinality(Stale) \in Nat /\ Cardinality(Cards) \in Nat
      BY CountsFinite DEF ToFetch, ToLoad, Stale
    <3>2. nextId \in Nat \ {0} /\ inputs \in Nat /\ PageCount \in Nat /\ MaxInputs \in Nat
      BY PagesAssumption, InputsAssumption DEF IInv, Types
    <3>3. /\ PageCount * inputs \in Nat /\ PageCount * MaxInputs \in Nat
          /\ PageCount * inputs <= PageCount * MaxInputs
      <4>1. inputs <= MaxInputs
        BY DEF CountInv
      <4>2. PageCount * MaxInputs = PageCount * inputs + PageCount * (MaxInputs - inputs)
        BY <3>2
      <4>3. PageCount * (MaxInputs - inputs) \in Nat
        BY <3>2, <4>1
      <4>4. PageCount * inputs \in Nat /\ PageCount * MaxInputs \in Nat
        BY <3>2
      <4>5. QED
        BY <4>2, <4>3, <4>4
    <3>4. QED
      BY <3>1, <3>2, <3>3 DEF CountInv, MaxId
  <2>2. \A p \in Pages : page[p].run \in 0 .. nextId - 1 /\ page[p].inView \in BOOLEAN
    <3>1. \A p \in Pages : /\ page[p].run \in Nat /\ page[p].inView \in BOOLEAN
                           /\ page[p].run # 0 => page[p].run < nextId
      BY DEF IInv, Types, Slots, PagesInv, SlotOf
    <3>2. nextId \in Nat \ {0}
      BY DEF IInv, Types
    <3>3. QED
      BY <3>1, <3>2
  <2>3. DOMAIN pending \subseteq 1 .. nextId - 1
    BY DEF IInv, Types
  <2>4. QED
    BY <2>1, <2>2, <2>3 DEF IInv, Types, TypeOK, CardStates
<1>2. IInv /\ CountInv /\ [Next]_vars => (IInv /\ CountInv)'
  BY NextIInv, NextCount
<1>3. Init => IInv /\ CountInv
  BY InitIInv, InitCount
<1>4. QED
  BY <1>1, <1>2, <1>3, PTL DEF Spec

-------------------------------------------------------------------------------
(* The messages under way are the requests the client waits for.              *)

\* The two ends of a queue of distinct ids.
LEMMA QueuedLast ==
    ASSUME NEW S, NEW s \in Seq(S), NEW x \in S
    PROVE  /\ Range(Append(s, x)) = Range(s) \cup {x}
           /\ IsInjective(s) /\ x \notin Range(s) => IsInjective(Append(s, x))
<1>1. /\ DOMAIN Append(s, x) = 1 .. Len(s) + 1 /\ Len(s) \in Nat /\ DOMAIN s = 1 .. Len(s)
      /\ \A k \in 1 .. Len(s) : Append(s, x)[k] = s[k]
      /\ Append(s, x)[Len(s) + 1] = x
  OBVIOUS
<1>2. \A k \in 1 .. Len(s) + 1 : k \in 1 .. Len(s) \/ k = Len(s) + 1
  BY <1>1
<1>3. Range(Append(s, x)) \subseteq Range(s) \cup {x}
  BY <1>1, <1>2 DEF Range
<1>4. Range(s) \cup {x} \subseteq Range(Append(s, x))
  <2>1. \A k \in 1 .. Len(s) : k \in DOMAIN Append(s, x)
    BY <1>1
  <2>2. Len(s) + 1 \in DOMAIN Append(s, x)
    BY <1>1
  <2>3. QED
    BY <1>1, <2>1, <2>2 DEF Range
<1>5. ASSUME IsInjective(s), x \notin Range(s) PROVE IsInjective(Append(s, x))
  <2>1. \A k \in 1 .. Len(s) : s[k] # x
    BY <1>1, <1>5 DEF Range
  <2>2. QED
    BY <1>1, <1>2, <1>5, <2>1 DEF IsInjective
<1>6. QED
  BY <1>3, <1>4, <1>5

LEMMA QueuedFirst ==
    ASSUME NEW S, NEW s \in Seq(S), s # <<>>, IsInjective(s)
    PROVE  /\ Head(s) \in Range(s) /\ Range(Tail(s)) = Range(s) \ {Head(s)}
           /\ IsInjective(Tail(s))
<1>1. /\ DOMAIN s = 1 .. Len(s) /\ Len(s) \in Nat \ {0} /\ Head(s) = s[1]
      /\ DOMAIN Tail(s) = 1 .. Len(s) - 1
      /\ \A k \in 1 .. Len(s) - 1 : Tail(s)[k] = s[k + 1]
  OBVIOUS
<1>2. \A k \in 1 .. Len(s) - 1 : k + 1 \in DOMAIN s /\ k + 1 # 1
  BY <1>1
<1>3. 1 \in DOMAIN s
  BY <1>1
<1>4. Head(s) \in Range(s)
  BY <1>1, <1>3 DEF Range
<1>5. Range(Tail(s)) \subseteq Range(s) \ {Head(s)}
  BY <1>1, <1>2, <1>3 DEF Range, IsInjective
<1>6. ASSUME NEW y \in Range(s) \ {Head(s)} PROVE y \in Range(Tail(s))
  <2>1. PICK k \in DOMAIN s : y = s[k]
    BY DEF Range
  <2>2. k # 1
    BY <1>1, <1>6, <2>1
  <2>3. k - 1 \in DOMAIN Tail(s) /\ (k - 1) + 1 = k
    BY <1>1, <2>1, <2>2
  <2>4. Tail(s)[k - 1] = y
    BY <1>1, <2>1, <2>3
  <2>5. QED
    BY <2>3, <2>4 DEF Range
<1>7. IsInjective(Tail(s))
  <2> SUFFICES ASSUME NEW j \in DOMAIN Tail(s), NEW k \in DOMAIN Tail(s), Tail(s)[j] = Tail(s)[k]
               PROVE  j = k
    BY DEF IsInjective
  <2>1. s[j + 1] = s[k + 1] /\ j + 1 \in DOMAIN s /\ k + 1 \in DOMAIN s
    BY <1>1, <1>2
  <2>2. j + 1 = k + 1
    BY <2>1 DEF IsInjective
  <2>3. QED
    BY <1>1, <2>2
<1>8. QED
  BY <1>4, <1>5, <1>6, <1>7

\* The queues' ids follow the queues.
LEMMA QueueIds ==
    ASSUME Types
    PROVE  /\ InIds \in Seq(Nat) /\ OutIds \in Seq(Nat)
           /\ \A r \in Calls : inbox' = Append(inbox, r) => InIds' = Append(InIds, r.id)
           /\ \A r \in Calls : \A ok : outbox' = Append(outbox, [request |-> r, ok |-> ok])
                                       => OutIds' = Append(OutIds, r.id)
           /\ inbox # <<>> => InIds # <<>> /\ Head(InIds) = Head(inbox).id
           /\ outbox # <<>> => OutIds # <<>> /\ Head(OutIds) = Head(outbox).request.id
           /\ inbox # <<>> /\ inbox' = Tail(inbox) => InIds' = Tail(InIds)
           /\ outbox # <<>> /\ outbox' = Tail(outbox) => OutIds' = Tail(OutIds)
<1>1. inbox \in Seq(Calls) /\ outbox \in Seq(Answered)
  BY DEF Types
<1>2. /\ \A k \in 1 .. Len(inbox) : inbox[k].id \in Nat
      /\ \A k \in 1 .. Len(outbox) : outbox[k].request.id \in Nat
  <2>1. /\ \A k \in 1 .. Len(inbox) : inbox[k] \in Calls
        /\ \A k \in 1 .. Len(outbox) : outbox[k] \in Answered
    BY <1>1
  <2>2. QED
    BY <2>1 DEF Calls, Answered
<1>3. /\ InIds = [k \in 1 .. Len(inbox) |-> inbox[k].id]
      /\ OutIds = [k \in 1 .. Len(outbox) |-> outbox[k].request.id]
  BY <1>1 DEF InIds, OutIds
<1>4. InIds \in Seq(Nat) /\ OutIds \in Seq(Nat)
  BY <1>1, <1>2, <1>3
<1>5. Len(InIds) = Len(inbox) /\ Len(OutIds) = Len(outbox)
  BY <1>1, <1>3, <1>4
<1>6. ASSUME NEW r \in Calls, inbox' = Append(inbox, r) PROVE InIds' = Append(InIds, r.id)
  <2>1. InIds' = [k \in 1 .. Len(inbox) + 1 |-> Append(inbox, r)[k].id]
    BY <1>1, <1>6 DEF InIds
  <2>2. r.id \in Nat
    BY DEF Calls
  <2>3. Append(InIds, r.id) = [k \in 1 .. Len(inbox) + 1 |->
                                 IF k = Len(inbox) + 1 THEN r.id ELSE InIds[k]]
    BY <1>4, <1>5, <2>2
  <2>4. \A k \in 1 .. Len(inbox) + 1 : Append(inbox, r)[k].id =
                                 IF k = Len(inbox) + 1 THEN r.id ELSE InIds[k]
    BY <1>1, <1>3
  <2>5. QED
    BY <2>1, <2>3, <2>4
<1>7. ASSUME NEW r \in Calls, NEW ok, outbox' = Append(outbox, [request |-> r, ok |-> ok])
      PROVE  OutIds' = Append(OutIds, r.id)
  <2> DEFINE o == [request |-> r, ok |-> ok]
  <2>1. OutIds' = [k \in 1 .. Len(outbox) + 1 |-> Append(outbox, o)[k].request.id]
    BY <1>1, <1>7 DEF OutIds
  <2>2. r.id \in Nat /\ o.request.id = r.id
    BY DEF Calls
  <2>3. Append(OutIds, r.id) = [k \in 1 .. Len(outbox) + 1 |->
                                 IF k = Len(outbox) + 1 THEN r.id ELSE OutIds[k]]
    BY <1>4, <1>5, <2>2
  <2> HIDE DEF o
  <2>4. \A k \in 1 .. Len(outbox) + 1 : Append(outbox, o)[k].request.id =
                                 IF k = Len(outbox) + 1 THEN r.id ELSE OutIds[k]
    BY <1>1, <1>3, <2>2
  <2>5. QED
    BY <2>1, <2>3, <2>4
<1>8. /\ inbox # <<>> => InIds # <<>> /\ Head(InIds) = Head(inbox).id
      /\ outbox # <<>> => OutIds # <<>> /\ Head(OutIds) = Head(outbox).request.id
  <2>1. inbox # <<>> => Len(inbox) # 0 /\ 1 \in 1 .. Len(inbox) /\ Head(inbox) = inbox[1]
    BY <1>1
  <2>2. outbox # <<>> => Len(outbox) # 0 /\ 1 \in 1 .. Len(outbox) /\ Head(outbox) = outbox[1]
    BY <1>1
  <2>3. inbox # <<>> => InIds # <<>> /\ Head(InIds) = InIds[1]
    BY <1>4, <1>5, <2>1
  <2>4. outbox # <<>> => OutIds # <<>> /\ Head(OutIds) = OutIds[1]
    BY <1>4, <1>5, <2>2
  <2>5. QED
    BY <1>3, <2>1, <2>2, <2>3, <2>4
<1>9. ASSUME NEW s \in Seq(Nat), s # <<>> PROVE Tail(s) = [k \in 1 .. Len(s) - 1 |-> s[k + 1]]
  <2>1. Tail(s) \in Seq(Nat) /\ Len(Tail(s)) = Len(s) - 1
    BY <1>9
  <2>2. \A k \in 1 .. Len(s) - 1 : Tail(s)[k] = s[k + 1]
    BY <1>9
  <2> DEFINE t == [k \in 1 .. Len(s) - 1 |-> s[k + 1]]
  <2>3. t \in Seq(Nat) /\ Len(t) = Len(s) - 1
    <3>1. Len(s) - 1 \in Nat /\ \A k \in 1 .. Len(s) - 1 : s[k + 1] \in Nat
      BY <1>9
    <3>2. QED
      BY <3>1
  <2>4. \A k \in 1 .. Len(t) : t[k] = s[k + 1]
    BY <2>3
  <2> HIDE DEF t
  <2>5. Tail(s) = t
    BY <2>1, <2>2, <2>3, <2>4, SeqEqual
  <2>6. QED
    BY <2>5 DEF t
<1>10. ASSUME inbox # <<>>, inbox' = Tail(inbox) PROVE InIds' = Tail(InIds)
  <2>1. InIds' = [k \in 1 .. Len(inbox) - 1 |-> Tail(inbox)[k].id]
    BY <1>1, <1>10 DEF InIds
  <2>2. Tail(InIds) = [k \in 1 .. Len(inbox) - 1 |-> InIds[k + 1]]
    BY <1>4, <1>5, <1>8, <1>9, <1>10
  <2>3. \A k \in 1 .. Len(inbox) - 1 : Tail(inbox)[k].id = InIds[k + 1]
    BY <1>1, <1>3, <1>10
  <2>4. QED
    BY <2>1, <2>2, <2>3
<1>11. ASSUME outbox # <<>>, outbox' = Tail(outbox) PROVE OutIds' = Tail(OutIds)
  <2>1. OutIds' = [k \in 1 .. Len(outbox) - 1 |-> Tail(outbox)[k].request.id]
    BY <1>1, <1>11 DEF OutIds
  <2>2. Tail(OutIds) = [k \in 1 .. Len(outbox) - 1 |-> OutIds[k + 1]]
    BY <1>4, <1>5, <1>8, <1>9, <1>11
  <2>3. \A k \in 1 .. Len(outbox) - 1 : Tail(outbox)[k].request.id = OutIds[k + 1]
    BY <1>1, <1>3, <1>11
  <2>4. QED
    BY <2>1, <2>2, <2>3
<1>12. QED
  BY <1>4, <1>6, <1>7, <1>8, <1>10, <1>11

\* A step that sends nothing, answers nothing and leaves the queues alone.
LEMMA UnderWayStays ==
    ASSUME EachUnderWayOnce, UNCHANGED <<pending, inbox, busy, outbox>>,
           worker' # "broken" => worker # "broken"
    PROVE  EachUnderWayOnce'
BY DEF EachUnderWayOnce, InIds, OutIds, BusyIds

\* A request goes out under a fresh id, by itself or as what an answer leads to.
LEMMA PostUnderWay ==
    ASSUME IInv, EachUnderWayOnce, worker # "broken", UNCHANGED busy,
           NEW r \in Calls, r.id = nextId, NEW rest, Send(r, rest),
           \A i \in DOMAIN rest : i \in DOMAIN pending /\ rest[i] = pending[i],
           \/ UNCHANGED outbox /\ rest = pending
           \/ /\ outbox # <<>> /\ outbox' = Tail(outbox)
              /\ DOMAIN rest = DOMAIN pending \ {Head(outbox).request.id}
    PROVE  EachUnderWayOnce'
<1>1. /\ DOMAIN pending' = DOMAIN rest \cup {nextId} /\ inbox' = Append(inbox, r)
      /\ nextId \in Nat
  BY Sent DEF IInv, Types
<1>2. nextId \notin DOMAIN pending
  BY DEF IInv, Types
<1>3. /\ DOMAIN pending = Range(InIds) \cup BusyIds \cup Range(OutIds)
      /\ Range(InIds) \cap BusyIds = {}
      /\ (Range(InIds) \cup BusyIds) \cap Range(OutIds) = {}
      /\ IsInjective(InIds) /\ IsInjective(OutIds)
      /\ \A p, q \in busy : p.id = q.id => p = q
  BY DEF EachUnderWayOnce
<1>4. /\ InIds \in Seq(Nat) /\ OutIds \in Seq(Nat)
      /\ InIds' = Append(InIds, nextId)
      /\ outbox # <<>> => OutIds # <<>> /\ Head(OutIds) = Head(outbox).request.id
      /\ outbox # <<>> /\ outbox' = Tail(outbox) => OutIds' = Tail(OutIds)
  BY <1>1, QueueIds DEF IInv
<1>5. Range(InIds') = Range(InIds) \cup {nextId} /\ IsInjective(InIds')
  BY <1>1, <1>2, <1>3, <1>4, QueuedLast
<1>6. BusyIds' = BusyIds
  BY DEF BusyIds
<1>7. CASE UNCHANGED outbox /\ rest = pending
  <2>1. OutIds' = OutIds
    BY <1>7 DEF OutIds
  <2>2. QED
    BY <1>1, <1>2, <1>3, <1>5, <1>6, <1>7, <2>1 DEF EachUnderWayOnce
<1>8. CASE /\ outbox # <<>> /\ outbox' = Tail(outbox)
           /\ DOMAIN rest = DOMAIN pending \ {Head(outbox).request.id}
  <2>1. /\ OutIds' = Tail(OutIds) /\ Head(OutIds) \in Range(OutIds)
        /\ Range(Tail(OutIds)) = Range(OutIds) \ {Head(OutIds)} /\ IsInjective(Tail(OutIds))
    BY <1>3, <1>4, <1>8, QueuedFirst
  <2>2. QED
    BY <1>1, <1>2, <1>3, <1>4, <1>5, <1>6, <1>8, <2>1 DEF EachUnderWayOnce
<1>9. QED
  BY <1>7, <1>8

\* The first answer is taken, and its request forgotten.
LEMMA ForgetUnderWay ==
    ASSUME IInv, EachUnderWayOnce, worker # "broken", UNCHANGED busy,
           outbox # <<>>, outbox' = Tail(outbox), Forget(Head(outbox).request.id)
    PROVE  EachUnderWayOnce'
<1>1. /\ DOMAIN pending' = DOMAIN pending \ {Head(outbox).request.id} /\ UNCHANGED inbox
  BY DEF Forget, Without
<1>2. InIds' = InIds /\ BusyIds' = BusyIds
  BY <1>1 DEF InIds, BusyIds
<1>3. /\ DOMAIN pending = Range(InIds) \cup BusyIds \cup Range(OutIds)
      /\ Range(InIds) \cap BusyIds = {}
      /\ (Range(InIds) \cup BusyIds) \cap Range(OutIds) = {}
      /\ IsInjective(InIds) /\ IsInjective(OutIds)
      /\ \A p, q \in busy : p.id = q.id => p = q
  BY DEF EachUnderWayOnce
<1>4. /\ OutIds \in Seq(Nat) /\ OutIds # <<>> /\ Head(OutIds) = Head(outbox).request.id
      /\ OutIds' = Tail(OutIds)
  BY QueueIds DEF IInv
<1>5. /\ Head(OutIds) \in Range(OutIds) /\ IsInjective(OutIds')
      /\ Range(OutIds') = Range(OutIds) \ {Head(OutIds)}
  BY <1>3, <1>4, QueuedFirst
<1>6. QED
  BY <1>1, <1>2, <1>3, <1>4, <1>5 DEF EachUnderWayOnce

LEMMA DeliverUnderWay == ASSUME IInv, EachUnderWayOnce, Deliver PROVE EachUnderWayOnce'
<1> SUFFICES ASSUME worker # "broken" PROVE EachUnderWayOnce'
  BY DEF Deliver, EachUnderWayOnce
<1>1. PICK r, ok : r = pending[Head(outbox).request.id] /\ ok = Head(outbox).ok
  OBVIOUS
<1>2. /\ outbox # <<>> /\ outbox' = Tail(outbox) /\ UNCHANGED busy
      /\ r = Head(outbox).request /\ r \in Calls
      /\ \/ LoadAnswered(r, ok) \/ ThumbAnswered(r, ok)
         \/ PageAnswered(r, ok, <<r.page, r.scale>>)
  BY <1>1, FirstAnswer
<1>3. CASE Forget(r.id)
  BY <1>2, <1>3, ForgetUnderWay
<1>4. CASE Send(Call("thumb", r.page, THUMB_SCALE), Without(r.id))
  <2>1. PICK q : q = Call("thumb", r.page, THUMB_SCALE)
    OBVIOUS
  <2>2. q \in Calls /\ q.id = nextId
    BY <1>2, <2>1 DEF Call, Calls, THUMB_SCALE, IInv, Types
  <2>3. /\ DOMAIN Without(r.id) = DOMAIN pending \ {r.id}
        /\ \A i \in DOMAIN Without(r.id) : i \in DOMAIN pending /\ Without(r.id)[i] = pending[i]
    BY DEF Without
  <2>4. Send(q, Without(r.id))
    BY <1>4, <2>1
  <2>5. QED
    BY <1>2, <2>2, <2>3, <2>4, PostUnderWay
<1>5. QED
  BY <1>2, <1>3, <1>4 DEF LoadAnswered, ThumbAnswered, PageAnswered

LEMMA FetchUnderWay ==
    ASSUME IInv, EachUnderWayOnce, NEW c \in Cards, FetchAnswered(c) PROVE EachUnderWayOnce'
<1> SUFFICES ASSUME worker' # "broken" PROVE EachUnderWayOnce'
  BY DEF EachUnderWayOnce
<1>1. PICK r : r = Call("load", <<c, 0>>, 0)
  OBVIOUS
<1>2. /\ UNCHANGED <<busy, outbox>> /\ worker # "broken" /\ Send(r, pending)
  BY <1>1 DEF FetchAnswered, EnsureWorker, workerVars
<1>3. r \in Calls /\ r.id = nextId
  <2>1. <<c, 0>> \in Pages /\ nextId \in Nat \ {0}
    BY PagesAssumption DEF Pages, IInv, Types
  <2>2. QED
    BY <1>1, <2>1 DEF Call, Calls
<1>4. QED
  BY <1>2, <1>3, PostUnderWay

LEMMA CommitPageUnderWay ==
    ASSUME IInv, EachUnderWayOnce, NEW p \in Pages, CommitPage(p) PROVE EachUnderWayOnce'
<1>1. UNCHANGED <<busy, outbox, worker>>
  BY DEF CommitPage, workerVars
<1>2. CASE page[p].inView /\ worker # "broken"
  <2>1. PICK r : r = Call("page", p, zoom[p[1]])
    OBVIOUS
  <2>2. zoom[p[1]] \in Nat
    BY PageParts DEF IInv, Types, MIN_SCALE, MAX_SCALE
  <2>3. r \in Calls /\ r.id = nextId
    BY <2>1, <2>2 DEF Call, Calls, IInv, Types
  <2>4. Send(r, pending)
    BY <1>2, <2>1 DEF CommitPage
  <2>5. QED
    BY <1>1, <1>2, <2>3, <2>4, PostUnderWay
<1>3. CASE ~page[p].inView
  <2>1. UNCHANGED <<pending, inbox>>
    BY <1>3 DEF CommitPage, SendNothing, clientVars
  <2>2. QED
    BY <1>1, <2>1, UnderWayStays
<1>4. QED
  BY <1>1, <1>2, <1>3 DEF EachUnderWayOnce

\* The first message goes to a handler; what it renders is held, so it is not refused.
LEMMA ReceiveUnderWay == ASSUME IInv, EachUnderWayOnce, Receive PROVE EachUnderWayOnce'
<1>1. PICK r : r = Head(inbox)
  OBVIOUS
<1>2. /\ UNCHANGED <<pending, worker>> /\ worker # "broken"
      /\ inbox # <<>> /\ inbox' = Tail(inbox) /\ inbox \in Seq(Calls)
      /\ IF r.caller # "load" /\ r.page[1] \notin docs
         THEN Reply(r, FALSE) /\ UNCHANGED busy
         ELSE busy' = busy \cup {r} /\ UNCHANGED outbox
  BY <1>1 DEF Receive, IInv, Types
<1>3. r \in Calls /\ r = inbox[1] /\ 1 \in 1 .. Len(inbox)
  BY <1>1, <1>2
<1>4. busy' = busy \cup {r} /\ UNCHANGED outbox
  BY <1>2, <1>3 DEF IInv, FlightInv, Posted
<1>5. /\ DOMAIN pending = Range(InIds) \cup BusyIds \cup Range(OutIds)
      /\ Range(InIds) \cap BusyIds = {}
      /\ (Range(InIds) \cup BusyIds) \cap Range(OutIds) = {}
      /\ IsInjective(InIds) /\ IsInjective(OutIds)
      /\ \A p, q \in busy : p.id = q.id => p = q
  BY <1>2 DEF EachUnderWayOnce
<1>6. /\ InIds \in Seq(Nat) /\ InIds # <<>> /\ Head(InIds) = r.id /\ InIds' = Tail(InIds)
  BY <1>1, <1>2, QueueIds DEF IInv
<1>7. /\ r.id \in Range(InIds) /\ Range(InIds') = Range(InIds) \ {r.id} /\ IsInjective(InIds')
  BY <1>5, <1>6, QueuedFirst
<1>8. BusyIds' = BusyIds \cup {r.id} /\ OutIds' = OutIds
  BY <1>4 DEF BusyIds, OutIds
<1>9. \A p, q \in busy' : p.id = q.id => p = q
  <2>1. \A p \in busy : p.id \in BusyIds
    BY DEF BusyIds
  <2>2. \A p \in busy : p.id # r.id
    BY <1>5, <1>7, <2>1
  <2>3. QED
    BY <1>4, <1>5, <2>2
<1>10. QED
  BY <1>2, <1>5, <1>7, <1>8, <1>9 DEF EachUnderWayOnce

\* A handler ends and posts its answer.
LEMMA FinishUnderWay ==
    ASSUME IInv, EachUnderWayOnce, NEW r \in busy, Finish(r) PROVE EachUnderWayOnce'
<1> SUFFICES ASSUME worker # "broken" PROVE EachUnderWayOnce'
  BY DEF Finish, EachUnderWayOnce
<1>1. /\ UNCHANGED <<pending, inbox, worker>> /\ busy' = busy \ {r} /\ r \in Calls
      /\ \E ok : Reply(r, ok)
  BY DEF Finish, Parsed, Painted, clientVars, IInv, Types
<1>2. PICK ok : outbox' = Append(outbox, [request |-> r, ok |-> ok])
  BY <1>1 DEF Reply, Answers
<1>3. /\ DOMAIN pending = Range(InIds) \cup BusyIds \cup Range(OutIds)
      /\ Range(InIds) \cap BusyIds = {}
      /\ (Range(InIds) \cup BusyIds) \cap Range(OutIds) = {}
      /\ IsInjective(InIds) /\ IsInjective(OutIds)
      /\ \A p, q \in busy : p.id = q.id => p = q
  BY DEF EachUnderWayOnce
<1>4. OutIds \in Seq(Nat) /\ OutIds' = Append(OutIds, r.id) /\ r.id \in Nat
  BY <1>1, <1>2, QueueIds DEF IInv, Calls
<1>5. r.id \in BusyIds /\ BusyIds' = BusyIds \ {r.id}
  BY <1>1, <1>3 DEF BusyIds
<1>6. Range(OutIds') = Range(OutIds) \cup {r.id} /\ IsInjective(OutIds')
  BY <1>3, <1>4, <1>5, QueuedLast
<1>7. InIds' = InIds /\ \A p, q \in busy' : p.id = q.id => p = q
  BY <1>1, <1>3 DEF InIds
<1>8. QED
  BY <1>1, <1>3, <1>5, <1>6, <1>7 DEF EachUnderWayOnce

LEMMA NextUnderWay == IInv /\ EachUnderWayOnce /\ [Next]_vars => EachUnderWayOnce'
<1> SUFFICES ASSUME IInv, EachUnderWayOnce, [Next]_vars PROVE EachUnderWayOnce'
  OBVIOUS
<1>1. CASE React
  <2>1. ASSUME NEW c \in Cards, CommitCard(c) PROVE EachUnderWayOnce'
    BY <2>1, UnderWayStays DEF CommitCard, clientVars, workerVars
  <2>2. QED
    BY <1>1, <2>1, CommitPageUnderWay DEF React
<1>2. CASE User \/ UNCHANGED vars
  <2>1. UNCHANGED <<pending, inbox, busy, outbox, worker>>
    BY <1>2 DEF User, ScrollCard, Unmount, Open, Close, ZoomIn, ZoomOut, ScrollPage,
                vars, clientVars, workerVars
  <2>2. QED
    BY <2>1, UnderWayStays
<1>3. CASE Network
  <2>1. ASSUME NEW c \in Cards, FetchFails(c) PROVE EachUnderWayOnce'
    BY <2>1, UnderWayStays DEF FetchFails, clientVars, workerVars
  <2>2. QED
    BY <1>3, <2>1, FetchUnderWay DEF Network
<1>4. CASE Worker
  <2>1. ASSUME WorkerStarts PROVE EachUnderWayOnce'
    BY <2>1, UnderWayStays DEF WorkerStarts, clientVars, workerVars
  <2>2. QED
    BY <1>4, <2>1, ReceiveUnderWay, FinishUnderWay DEF Worker
<1>5. CASE WorkerFails
  BY <1>5 DEF WorkerFails, EachUnderWayOnce
<1>6. QED
  BY <1>1, <1>2, <1>3, <1>4, <1>5, DeliverUnderWay DEF Next

\* Each request the client waits for is in exactly one place on its way to the worker
\* and back, and every answer finds its caller (send, onmessage and handle of the PDF
\* client and worker), for any files and any order of the handlers.
THEOREM RequestsKept == Spec => []EachUnderWayOnce
<1>1. Init => EachUnderWayOnce
  BY DEF Init, EachUnderWayOnce, InIds, OutIds, BusyIds, Range, IsInjective
<1>2. QED
  BY <1>1, InitIInv, NextIInv, NextUnderWay, PTL DEF Spec

===============================================================================
