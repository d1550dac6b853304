------------------------------- MODULE PdfViewer -------------------------------
(* The PDF attachments of a channel: cards that load their file once they     *)
(* scroll into view, the full-screen viewer a loaded card opens, and the one  *)
(* worker all of them share, which answers requests by their id. What the     *)
(* worker does inside a request is PdfPage; here a file is only what          *)
(* PdfDocument.load makes of it.                                              *)
(*                                                                            *)
(* React runs an effect's cleanup and the effect again in the commit that     *)
(* follows a change of its dependencies; other tasks may run before that      *)
(* commit. `seen' is what the last commit saw of an effect's dependencies.    *)
EXTENDS Integers, Sequences, FiniteSets, Functions

CONSTANTS Cards,          \* the PdfAttachmentCards of the open channel
          PageCount,      \* how many pages the viewer lays out per document
          Outcome,        \* what PdfDocument.load makes of a card's file
          Unpaintable,    \* pages <<card, index>> whose rendering throws
          MaxInputs       \* bound: what the user does with an open viewer

ASSUME CardsAssumption == IsFiniteSet(Cards)
ASSUME PagesAssumption == PageCount \in Nat \ {0}
ASSUME InputsAssumption == MaxInputs \in Nat
ASSUME OutcomeAssumption ==
    Outcome \in [Cards -> {"good", "encrypted", "corrupt", "badPage"}]

VARIABLES card,           \* per card its React state and its one load
          open,           \* the cards whose dialog is open (a modal: one at most)
          zoom,           \* per card the viewer's scale, in quarters
          page,           \* per page of a document its slot in the open viewer
          pending,        \* the requests nobody answered: id -> the caller
          nextId,
          worker,         \* "none", "starting", "up" or "broken"
          inbox, busy, outbox,  \* messages to the worker, its handlers, its answers
          docs,           \* the documents the worker holds
          inputs          \* history: how often the user zoomed, scrolled or opened

clientVars == <<pending, nextId, inbox>>
workerVars == <<busy, outbox, docs>>
vars == <<card, open, zoom, page, clientVars, worker, workerVars, inputs>>

Pages == Cards \X (0 .. PageCount - 1)
MIN_SCALE == 2
MAX_SCALE == 12
StartScale == 5
THUMB_SCALE == 3   \* 0.7, which no page is ever shown at
Blank == <<>>

\* The requests there can be: two per card, and after what the user did one
\* per page.
MaxId == 2 * Cardinality(Cards) + PageCount * MaxInputs

NewSlot == [seen |-> <<FALSE, 0>>, inView |-> FALSE, run |-> 0, shown |-> Blank]

TypeOK ==
    /\ card \in [Cards -> [state : {"idle", "loading", "ready", "error", "gone"},
                           inView : BOOLEAN, run : {"none", "fetch", "load", "thumb", "done"},
                           cancelled : BOOLEAN, thumb : BOOLEAN,
                           seen : BOOLEAN \X {"idle", "loading", "ready", "error"}]]
    /\ open \subseteq Cards
    /\ zoom \in [Cards -> MIN_SCALE .. MAX_SCALE]
    /\ \A p \in Pages : page[p].run \in 0 .. nextId - 1 /\ page[p].inView \in BOOLEAN
    /\ nextId \in 1 .. MaxId + 1
    /\ DOMAIN pending \subseteq 1 .. nextId - 1
    /\ worker \in {"none", "starting", "up", "broken"}
    /\ docs \subseteq Cards

Init ==
    /\ card = [c \in Cards |-> [state |-> "idle", inView |-> FALSE, run |-> "none",
                                cancelled |-> FALSE, thumb |-> FALSE,
                                seen |-> <<FALSE, "idle">>]]
    /\ open = {}
    /\ zoom = [c \in Cards |-> StartScale]
    /\ page = [p \in Pages |-> NewSlot]
    /\ pending = <<>>
    /\ nextId = 1
    /\ worker = "none"
    /\ inbox = <<>>
    /\ busy = {}
    /\ outbox = <<>>
    /\ docs = {}
    /\ inputs = 0

-------------------------------------------------------------------------------
(* PdfClient: a request takes the next id and is kept until it is answered.   *)

\* Mutant: every request reuses the id.
NextId_Stuck(n) == n

NextId(n) == n + 1

Call(caller, p, scale) ==
    [id |-> nextId, caller |-> caller, page |-> p, scale |-> scale]

\* rest: what is still pending besides.
Send(r, rest) ==
    /\ pending' = [i \in DOMAIN rest \cup {r.id} |-> IF i = r.id THEN r ELSE rest[i]]
    /\ nextId' = NextId(nextId)
    /\ inbox' = Append(inbox, r)

SendNothing == UNCHANGED clientVars

EnsureWorker == worker' = IF worker = "none" THEN "starting" ELSE worker

-------------------------------------------------------------------------------
(* PdfAttachmentCard *)

ScrollCard(c) ==
    /\ card[c].state = "idle"
    /\ ~card[c].inView
    /\ card' = [card EXCEPT ![c].inView = TRUE]
    /\ UNCHANGED <<open, zoom, page, clientVars, worker, workerVars, inputs>>

Deps(c) == <<card[c].inView, card[c].state>>

\* The cleanup of the effect's last run, then the effect: only an idle card in
\* view loads. Its setState changes a dependency of the very effect.
CommitCard(c) ==
    /\ card[c].state # "gone"
    /\ card[c].seen # Deps(c)
    /\ card' = [card EXCEPT ![c] =
          IF Deps(c) = <<TRUE, "idle">>
          THEN [@ EXCEPT !.seen = Deps(c), !.state = "loading",
                         !.run = "fetch", !.cancelled = FALSE]
          ELSE [@ EXCEPT !.seen = Deps(c), !.cancelled = TRUE]]
    /\ UNCHANGED <<open, zoom, page, clientVars, worker, workerVars, inputs>>

\* What a failed step of the load does, in the catch.
Failed(k) == [k EXCEPT !.run = "done",
                       !.state = IF k.cancelled THEN @ ELSE "error"]

FetchAnswered(c) ==
    /\ card[c].run = "fetch"
    /\ card' = [card EXCEPT ![c].run = "load"]
    /\ Send(Call("load", <<c, 0>>, 0), pending)
    /\ EnsureWorker
    /\ UNCHANGED <<open, zoom, page, workerVars, inputs>>

FetchFails(c) ==
    /\ card[c].run = "fetch"
    /\ card' = [card EXCEPT ![c] = Failed(@)]
    /\ UNCHANGED <<open, zoom, page, clientVars, worker, workerVars, inputs>>

\* The user leaves the channel: the cleanups run, and later updates are dropped.
Unmount(c) ==
    /\ card[c].state # "gone"
    /\ card' = [card EXCEPT ![c].state = "gone", ![c].cancelled = TRUE]
    /\ open' = open \ {c}
    /\ page' = [p \in Pages |-> IF p[1] = c THEN NewSlot ELSE page[p]]
    /\ UNCHANGED <<zoom, clientVars, worker, workerVars, inputs>>

-------------------------------------------------------------------------------
(* PdfViewerDialog and its pages. Closing unmounts the pages, not the scale.  *)

Open(c) ==
    /\ inputs < MaxInputs
    /\ card[c].state = "ready"
    /\ open = {}
    /\ open' = {c}
    /\ UNCHANGED <<card, zoom, page, clientVars, worker, workerVars>>
    /\ inputs' = inputs + 1

Close(c) ==
    /\ c \in open
    /\ open' = open \ {c}
    /\ page' = [p \in Pages |-> IF p[1] = c THEN NewSlot ELSE page[p]]
    /\ UNCHANGED <<card, zoom, clientVars, worker, workerVars, inputs>>

ZoomIn(c) ==
    /\ inputs < MaxInputs
    /\ c \in open
    /\ zoom[c] < MAX_SCALE
    /\ zoom' = [zoom EXCEPT ![c] = @ + 1]
    /\ UNCHANGED <<card, open, page, clientVars, worker, workerVars>>
    /\ inputs' = inputs + 1

ZoomOut(c) ==
    /\ inputs < MaxInputs
    /\ c \in open
    /\ zoom[c] > MIN_SCALE
    /\ zoom' = [zoom EXCEPT ![c] = @ - 1]
    /\ UNCHANGED <<card, open, page, clientVars, worker, workerVars>>
    /\ inputs' = inputs + 1

\* The IntersectionObserver of a page reports that it enters or leaves the view.
ScrollPage(p) ==
    /\ p[1] \in open
    /\ inputs < MaxInputs
    /\ page' = [page EXCEPT ![p].inView = ~@]
    /\ inputs' = inputs + 1
    /\ UNCHANGED <<card, open, zoom, clientVars, worker, workerVars>>

PageDeps(p) == <<page[p].inView, zoom[p[1]]>>

\* The last run is cancelled; a page in view is rendered at the scale of now.
CommitPage(p) ==
    /\ p[1] \in open
    /\ page[p].seen # PageDeps(p)
    /\ IF page[p].inView
       THEN /\ page' = [page EXCEPT ![p].seen = PageDeps(p), ![p].run = nextId]
            /\ Send(Call("page", p, zoom[p[1]]), pending)
       ELSE /\ page' = [page EXCEPT ![p].seen = PageDeps(p), ![p].run = 0]
            /\ SendNothing
    /\ UNCHANGED <<card, open, zoom, worker, workerVars, inputs>>

-------------------------------------------------------------------------------
(* The worker: its handlers run one after another up to an await and finish   *)
(* in any order. Its script may fail to load, which onerror reports once.     *)

\* Mutant: an encrypted file gets no answer.
Answers_ButEncrypted(r) == r.caller # "load" \/ Outcome[r.page[1]] # "encrypted"

\* Which requests the worker answers: all, failures included.
Answers(r) == TRUE

Reply(r, ok) ==
    outbox' = IF Answers(r) THEN Append(outbox, [request |-> r, ok |-> ok]) ELSE outbox

WorkerStarts ==
    /\ worker = "starting"
    /\ worker' = "up"
    /\ UNCHANGED <<card, open, zoom, page, clientVars, workerVars, inputs>>

\* A render of a document that is not held is refused before any await.
Receive ==
    /\ worker = "up"
    /\ inbox # <<>>
    /\ inbox' = Tail(inbox)
    /\ LET r == Head(inbox)
       IN IF r.caller # "load" /\ r.page[1] \notin docs
          THEN Reply(r, FALSE) /\ UNCHANGED busy
          ELSE busy' = busy \cup {r} /\ UNCHANGED outbox
    /\ UNCHANGED <<card, open, zoom, page, pending, nextId, worker, docs, inputs>>

Parsed(r) ==
    /\ r.caller = "load"
    /\ LET kind == Outcome[r.page[1]]
       IN /\ docs' = IF kind \in {"good", "badPage"} THEN docs \cup {r.page[1]} ELSE docs
          /\ Reply(r, kind = "good")

Painted(r) ==
    /\ r.caller # "load"
    /\ Reply(r, r.page \notin Unpaintable)
    /\ UNCHANGED docs

Finish(r) ==
    /\ r \in busy
    /\ busy' = busy \ {r}
    /\ Parsed(r) \/ Painted(r)
    /\ UNCHANGED <<card, open, zoom, page, clientVars, worker, inputs>>

-------------------------------------------------------------------------------
(* What the answer does in its caller.                                        *)

\* Mutant: an answer forgets every request.
Without_Clears(i) == <<>>

Without(i) == [j \in DOMAIN pending \ {i} |-> pending[j]]

Forget(i) == pending' = Without(i) /\ UNCHANGED <<nextId, inbox>>

LoadAnswered(r, ok) ==
    LET c == r.page[1]
        live == ok /\ ~card[c].cancelled
    IN /\ r.caller = "load"
       /\ card' = [card EXCEPT ![c] =
             IF live THEN [@ EXCEPT !.state = "ready", !.run = "thumb"]
             ELSE IF ok THEN [@ EXCEPT !.run = "done"] ELSE Failed(@)]
       /\ IF live THEN Send(Call("thumb", r.page, THUMB_SCALE), Without(r.id))
                  ELSE Forget(r.id)
       /\ UNCHANGED page

ThumbAnswered(r, ok) ==
    LET c == r.page[1]
    IN /\ r.caller = "thumb"
       /\ card' = [card EXCEPT ![c] =
             IF ok THEN [@ EXCEPT !.run = "done", !.thumb = ~card[c].cancelled]
                   ELSE Failed(@)]
       /\ Forget(r.id)
       /\ UNCHANGED page

\* Mutant: an answer is drawn whatever has happened since the request.
Drawn_Stale(slot, r, bitmap) == bitmap

\* A page draws the answer of its last run only.
Drawn(slot, r, bitmap) == IF slot.run = r.id THEN bitmap ELSE slot.shown

PageAnswered(r, ok, bitmap) ==
    /\ r.caller = "page"
    /\ page' = [page EXCEPT ![r.page].shown =
          IF ok /\ r.page[1] \in open THEN Drawn(page[r.page], r, bitmap) ELSE @]
    /\ Forget(r.id)
    /\ UNCHANGED card

\* onmessage: the answer goes to whoever is pending under its id, who takes it
\* for a failure if it is of the other kind.
Deliver ==
    /\ outbox # <<>>
    /\ outbox' = Tail(outbox)
    /\ LET m == Head(outbox).request
       IN /\ m.id \in DOMAIN pending
          /\ LET r == pending[m.id]
                 ok == Head(outbox).ok /\ (m.caller = "load" <=> r.caller = "load")
             IN \/ LoadAnswered(r, ok)
                \/ ThumbAnswered(r, ok)
                \/ PageAnswered(r, ok, <<m.page, m.scale>>)
    /\ UNCHANGED <<open, zoom, worker, busy, docs, inputs>>

\* onerror: the worker's script could not be loaded. Every pending request is
\* rejected; the client keeps the dead worker and goes on posting to it.
WorkerFails ==
    /\ worker = "starting"
    /\ worker' = "broken"
    /\ pending' = <<>>
    /\ card' = [c \in Cards |-> IF \E i \in DOMAIN pending : pending[i].page[1] = c
                               THEN Failed(card[c]) ELSE card[c]]
    /\ UNCHANGED <<open, zoom, page, nextId, inbox, workerVars, inputs>>

-------------------------------------------------------------------------------
React == (\E c \in Cards : CommitCard(c)) \/ (\E p \in Pages : CommitPage(p))

User == \/ \E c \in Cards : \/ ScrollCard(c) \/ Unmount(c)
                            \/ Open(c) \/ Close(c) \/ ZoomIn(c) \/ ZoomOut(c)
        \/ \E p \in Pages : ScrollPage(p)

Network == \E c \in Cards : FetchAnswered(c) \/ FetchFails(c)

Worker == WorkerStarts \/ Receive \/ \E r \in busy : Finish(r)

Next == React \/ User \/ Network \/ Worker \/ Deliver \/ WorkerFails

Spec == Init /\ [][Next]_vars

(* React commits what changed, a fetch ends, the worker's script arrives or   *)
(* fails, its handlers finish and its messages are delivered. The user need   *)
(* do nothing.                                                               *)
FairSpec == /\ Spec
            /\ \A c \in Cards : WF_vars(CommitCard(c))
            /\ \A c \in Cards : WF_vars(FetchAnswered(c) \/ FetchFails(c))
            /\ \A p \in Pages : WF_vars(CommitPage(p))
            /\ WF_vars(WorkerStarts \/ WorkerFails) /\ WF_vars(Receive)
            /\ \A i \in 1 .. MaxId : WF_vars(\E r \in busy : r.id = i /\ Finish(r))
            /\ WF_vars(Deliver)

-------------------------------------------------------------------------------
(* A page in view whose last render has been answered shows its own pixels at *)
(* the scale the dialog has now, however the answers of older scales, older   *)
(* openings and other pages were ordered.                                     *)
PageShowsLatest ==
    \A p \in Pages \ Unpaintable :
        /\ p[1] \in open
        /\ page[p].seen = <<TRUE, zoom[p[1]]>>
        /\ page[p].run \notin DOMAIN pending
        /\ worker # "broken"
        => page[p].shown = <<p, zoom[p[1]]>>

\* The ids of the messages in the two queues.
InIds == [k \in DOMAIN inbox |-> inbox[k].id]
OutIds == [k \in DOMAIN outbox |-> outbox[k].request.id]
BusyIds == {r.id : r \in busy}

(* The client's map of requests and the messages between client and worker    *)
(* agree: each request it waits for is in exactly one place, before, in or    *)
(* after its handler, so none is lost or answered twice, and onmessage never  *)
(* finds an answer nobody waits for.                                          *)
EachUnderWayOnce ==
    worker # "broken" =>
        /\ DOMAIN pending = Range(InIds) \cup BusyIds \cup Range(OutIds)
        /\ Range(InIds) \cap BusyIds = {}
        /\ (Range(InIds) \cup BusyIds) \cap Range(OutIds) = {}
        /\ IsInjective(InIds) /\ IsInjective(OutIds)
        /\ \A q, r \in busy : q.id = r.id => q = r

(* Every request is answered, whatever is wrong with the file, as long as the *)
(* worker could be started at all.                                            *)
RequestsAnswered ==
    \A i \in 1 .. MaxId :
        i \in DOMAIN pending ~> (i \notin DOMAIN pending \/ worker = "broken")

(* A card that began to load ends with the viewer's button or, "if parsing    *)
(* fails (encrypted, corrupt, unsupported)", with the plain download link.    *)
CardSettles ==
    \A c \in Cards : card[c].state = "loading"
                     ~> card[c].state \in {"ready", "error", "gone"}
===============================================================================
