# Elyzian chat (munichat): a TLA+ model of its protocols

This directory specifies the parts of the Elyzian team chat whose correctness depends on the order in
which things happen: presence, login and channel synchronisation, token rotation, messages with their
read cursors and link previews, the RMM and GLPI integrations, the channel page of the web client with
its message cache, composer and voice recorder, and the PDF viewer; and the PDF reader, whose
correctness depends on what it makes of other programs' files. Each component is a TLA+ module
translated from the source, TLC checks it on small instances, and TLAPS proves the main results for
every value of the constants.
Paths below are relative to `src/`; `api` stands for `apps/api/src` and `web` for `apps/web/src`.

## 1. Inventory of the system

| Component | State | Operations | Talks to |
|---|---|---|---|
| Presence (`api/chat/presence.service.ts`, gateway, Redis) | `presence:count:{user}`, `presence:online` in Redis; `onlineUserIds` in each tab | connect, disconnect, `presence:sync`, `presence:update` | Redis, other API processes through the Socket.IO Redis adapter |
| Login and channel sync (`api/auth`) | `User`, `Channel`, `ChannelMember` rows | login: LDAP lookup, upsert, `syncChannelsForUser` | LDAP, PostgreSQL, Sessions |
| Sessions (`api/auth/auth.service.ts`) | `refresh:{jti}` in Redis; `User.tokenVersion`, `isActive`; cookies | login, refresh, logout, access-token validation | Redis, PostgreSQL |
| Messages and read cursors (`api/chat/chat.gateway.ts`, `messages`, `channels`) | `Message`, `ChannelMember.lastRead*`; client caches | `message:send/edit/delete`, `channel:read` | PostgreSQL, BullMQ, rooms, GLPI, storage |
| Link-preview worker (`api/link-preview`) | `LinkPreview` rows, the BullMQ job | fetch, upsert, reload, broadcast, retry | the web, PostgreSQL, gateway |
| History and search (`api/messages`) | cursors `(createdAt, id)` | `getHistory`, `search` | PostgreSQL |
| Client message cache (`web/lib/message-cache.ts`, `SocketProvider`) | pages of messages, unread badges | append, update, fetch page, mark read | REST, socket |
| Composer and voice recorder (`MessageComposer`, `ChannelPage`, `useAudioRecorder`) | draft, attachment, reply and edit selection, microphone | type, upload, send, edit, record | socket, MinIO, browser |
| Socket authentication and rooms | `socket.data.user`, joined rooms | handshake, join | Sessions, memberships |
| Typing | per-channel expiry times | start, stop, prune | gateway |
| RMM alerts (`api/rmm`) | `RmmAlertRef`, system messages | webhook: new alert, resolved | PostgreSQL, rooms |
| GLPI tickets (`api/glpi`, `createTicketMessage`) | `TicketRef`, cached GLPI session | `/ticket`, status webhook | GLPI, PostgreSQL |
| Files (`api/files`) | objects in MinIO, `Attachment` rows | presign, upload, verify size, ranged download | MinIO |
| PDF reader (`web/lib/pdf`) | objects and cross-references of a file, page tree; graphics states and canvas | load, decode, parse, interpret, render | its worker |
| PDF viewer (`PdfAttachmentCard`, `PdfViewerDialog`, `pdf-client`, `pdf.worker`) | cards, dialog, page slots, pending requests, held documents | scroll, open, zoom, request, answer | PDF reader |
| Notifications, other UI (`web`) | browser state | render, notify | browser APIs |
| Desktop shell, enterprise installer, deployment | configuration | wizard, update | Tauri, docker, Kubernetes |

What makes them hard, and what each has to get right:

- **Presence.** Counter and set are updated by separate Redis commands; the connect and disconnect
  handlers of one socket run concurrently; several API processes share the keys; a process may die with
  sockets open. Correct means: the counter is the number of connected tabs, the set is the users with a
  tab, and tabs converge to the set.
- **Login and channel sync.** No transaction: logins of one user overlap, accounts are moved in the
  directory meanwhile, any statement may fail. Correct means: a login ends in exactly the department's
  channel, nobody is thrown out of a channel that is theirs, and a lost race fails nobody.
- **Sessions.** A check (GET, row) and its consequence (DEL, SET) are separate awaits; tokens are
  presented twice; answers get lost. Correct means: replaced and revoked tokens stay dead, a
  revocation is not undone by a refresh in flight, a token is used once, what a client holds works.
- **Messages.** Handlers check a row and write it an await later; broadcasts leave in another order
  than commits; the worker announces rows it read earlier. Correct means: readers see a message log, a
  deleted message is gone, cursors point where they should, tabs converge to the database.
- **Integrations.** Alert, message, ticket and reference are written by separate statements and by another
  system; webhooks repeat and overlap; all calls share one cached session. Correct means: an alert is
  announced once, message and ticket belong together, the room shows the status GLPI told of last, and a
  stale session is no reason to fail.
- **The channel page.** Pages are fetched while messages arrive and the connection breaks; a composer is
  replaced while its sends and microphone prompts are under way. Correct means: what is shown is a
  stretch of the history without gaps or repeats, a draft is lost only when it was sent, no microphone
  stays open unseen.
- **PDF.** Files are other programs' and may be updated, packed, hybrid or damaged; contents nest and need
  not balance; renders of several scales and documents overlap in one worker. Correct means: the page
  shows what was written, loading ends, every request is answered, the newest scale wins.

`PROJECT.json` lists every component with its status, and the hazards of the code at their lines.

## 2. Modules

| Module | Models | Used by |
|---|---|---|
| `Presence` | presence, one or several API processes, crashes | `MC_Presence`, `PresenceProofs` |
| `ChannelSync` | login up to the tokens, channel rows and memberships | `MC_ChannelSync`, `ChannelSyncProofs` |
| `Sessions` | token pairs, refresh keys, revocation | `MC_Sessions`, `SessionsProofs` |
| `MessageLog` | abstract: what readers are promised about a message | instantiated by `Messaging` |
| `Messaging` | send, edit, delete, read, link-preview worker, one tab | `MC_Messaging`, `MessagingProofs` |
| `Integrations` | RMM and GLPI webhooks, `/ticket`, the GLPI session, the room | `MC_Integrations`, `IntegrationsProofs` |
| `ClientCache` | the server's history, one tab's pages of it, its connection | extended by `Client` |
| `Client` | composer, sends, edit and reply selection, recorder | `MC_Client`, `ClientProofs` |
| `PdfFilters` | `filters.ts`: stream filters and predictors | `PdfParser`, `PdfResources` |
| `PdfLexer`, `PdfParser` | `lexer.ts`, `parser.ts`: bytes to tokens to objects | `PdfOperators`, `PdfPage` |
| `PdfOperators` | bytes of a content to operators with operands | `PdfPage` |
| `PdfResources` | `fonts.ts`, `encodings.ts`, `images.ts`: what a code or an image shows | `PdfContent` |
| `PdfContent` | `content-interpreter.ts`: one action per operator | `PdfPage` |
| `PdfDocument` | `document.ts`: cross-references, object streams, page tree | `PdfPage` |
| `PdfPage` | composition: load a document, render its pages (`render.ts`) | `MC_Pdf`, `PdfProofs` |
| `PdfWriter` | external: how a producer spells and encodes a file | `MC_Pdf` |
| `PdfImaging` | external: what operators paint, without state or stack | the properties of `PdfPage` |
| `PdfViewer` | cards, dialog, the requests and the worker they share | `MC_PdfViewer`, `PdfViewerProofs` |

`MC_*` modules give the constants values; every `.cfg` is one question. Names ending in `_Something`
after the name of an operator (`LastSocket_Early`) are *mutants*: the same operator with a plausible bug,
used to show that each property can fail. They take no part in any specification.

### Presence

`phase` is the transport, `conn` and `disc` are the program counters of `handleConnection` and
`handleDisconnect`, which nothing orders. Each process owns one ioredis connection: `queue` holds
commands in the order they were issued, `Execute` is Redis taking the next one, `reply` holds the answers
and `Resume` is the event loop continuing the handler of the oldest one. `bus` carries `presence:update`
between processes. `ChannelsListed` is `listForUser` answering and `socket.join`; after it the handler
issues INCR even if the socket is gone, and `Disconnect` issues DECR even if INCR is not yet sent.
`Crash` kills a process: commands not executed are lost, sockets disappear without `handleDisconnect`.

### ChannelSync

One request slot per login; `pc` walks through LDAP read (`StartLogin`), user upsert, the SELECT and
INSERT of Prisma's `upsert`, the re-read after P2002, `createMany` and `deleteMany`. Channel rows are
identified by their unique `name`, with the unique `adGroupDn` as data, so both unique indexes matter.
`Abort` ends a login anywhere. `MoveAccount` and `Promote` are administrators outside the program.

### Sessions

A token is its `jti` with `sub`, `minted` (tokenVersion) and, as history, its `parent`. `refreshKey` is
Redis. Refresh is GET, findUnique, DEL (`Revoke` or `Rotate`), sign and SET (`IssueTokens`), answer
(`Respond`); login enters at `IssueTokens` with the user row its upsert returned. Access tokens appear
where they matter: `logout` is behind `JwtAuthGuard`, which accepts the access token issued with the pair.
`Abort` loses the request at any point, including an answer already produced.

### Messaging

One slot per running handler. `send` is isMember, store (attachment or GLPI errors refuse it), enqueue a
preview job if there is a URL, markRead, emit; `edit` and `delete` are getById with its checks, write,
emit; `channel:read` is isMember, getById, markRead. A tab that stays in the room shows `shown`: the
acknowledgement reaches the author where `MESSAGE_NEW` reaches the others, so one variable stands for
both. The worker saves the preview, loads the message and emits the update; a failed job starts again.
`Prune` is a login of the user on another device that takes the membership away (ChannelSync).
`Visible` maps a row to what `MessageItem` renders (content, or a tombstone), and `Log` instantiates
`MessageLog` with it: `LogSpec` says that every step of `Messaging` is a step of the log or a stutter.

### Integrations

One slot per request under way; `pc` walks through its awaits. `handleAlertWebhook` and
`handleResolved` do the first read (channel lookup and `existingRef`) and decide; `handleMessageSend`
enters for a user's `/ticket`, `handleTicketWebhook` for GLPI. A call to GLPI is `UseSession`,
`initSession` if there is no token, `GlpiServes` on GLPI's side, `GlpiAnswered` with the one renewal and
retry; `GlpiFails` loses the call before or after GLPI served it. `StoreMessage`, `trackAndBroadcast`,
`UpdateRef`, `getById` and `Emit` are the statements after it; `RequestThrows` is a query, or the body of GLPI's
answer, that makes the handler end with a 500. `room` is, per message, the status of its ticket that the clients
of the channel last got: nothing else of a broadcast changes here, and an alert's state is no part of the DTO,
so a resolution's `MESSAGE_UPDATED` tells of nothing new (`ResolutionShows`). The histories `crossed`
(subjects two of whose requests overlapped) and `troubled` (a request failed) delimit what the code can
promise without a transaction.

### ClientCache and Client

`ClientCache` is the `Message` table as `getHistory` pages through it (`History`, ordered by
`createdAt`, which rows may share, then id), one socket with its packets in order, and TanStack Query's
infinite query: `StartFetch` remembers the pages it starts from and `EarlierArrives` or `PageArrives`
replaces the data by what was built from those. `MESSAGE_NEW` and own acknowledgements append to the
newest page. `raced` are messages on their way while a fetch ran, `missed` those sent while the tab was
disconnected: a fetch that overlaps an append overwrites it, and a reconnected socket refetches nothing
(TanStack Query does when the browser itself comes online again, `ComeOnline`), so `PagesTile` speaks of the
others.

`Client` adds the composer. It is keyed by the edit selection, so `SelectEdit` unmounts and mounts; `gen`
numbers the composers and `first` is the one the page now open began with; a send or a microphone prompt
carries the composer it belongs to. The reply and edit selections belong to the page (`ChannelPageBody`), so the
end of a send from any composer since `first` clears them. A send is
`presign`, `put`, `emit`, `ack`; `End` is what its continuation does to a page that may have changed since.
`mic` is the stream of each composer: `Torndown` stops the one `streamRef` knows. After the prompt (`Granted`) the
recorder starts, or `MediaRecorder` or its `start` throws and nothing catches it: the composer goes on "requesting"
with its microphone open until it is unmounted.

### The PDF reader

`PdfDocument` reads a file's cross-reference chain (tables, streams, hybrids), falls back to the scan,
unpacks object streams and walks the page tree; every await of `load` ends an action, and the stream of a
hybrid section, which nobody awaits, finishes at any time. A file is a record of its sections and objects.
Where the bytes matter they are modelled byte for byte: the contents of a page go through
`PdfParser!ParseStream` (which end of a stream to trust), `PdfFilters!DecodeStream` (LZW, ASCII85, hex,
run lengths, PNG and TIFF predictors; deflate is the platform's), `PdfLexer` and `PdfOperators!Instructions`;
fonts' ToUnicode maps and images' rasters take the same way. `PdfContent` then executes one operator per
action. Transformations are kept as sequences of matrices, lengths of text in 1/`Unit`, colours are 0 or 1.
`PdfPage` composes the two and adds `render.ts`. Device space is measured in 1/`PixelUnits` of a pixel, so that the
scales the viewer asks for (0.7 for a card, quarter steps for the dialog) are whole numbers of units and
`Rounded` is `Math.round` of a length that need not be a whole number of pixels.

What is right is said by two external modules that share no definition with the reader: `PdfWriter`
spells operators and encodes streams, `PdfImaging` says what a sequence of operators paints by looking back
through it, with neither state nor stack. They model ISO 32000 as far as the run needs it, not the
repository, and have no entries in the map.

### PdfViewer

`seen` is what the last commit of an effect saw of its dependencies: `CommitCard` and `CommitPage` run
cleanup and effect when they differ. `pending` is the client's map of requests, `inbox`, `busy` and `outbox`
the worker's mailbox, running handlers and answers. What a load makes of a file is `Outcome`; `PdfPage` says
how. `WorkerFails` is `onerror`.

## 3. Runs

All passing runs finish within three minutes each with two workers.

| Run | Expect | Shows |
|---|---|---|
| `presence_one_instance` | pass | `TypeOK`, `MultiTabCorrect`, `ViewsConverge` and, under fairness, `NoGhostUser`, `TabSeesItself`: two users, three tabs, one process |
| `presence_crash` | pass | `CountMatchesTabs`: two processes, one crash |
| `presence_replicas` | violation | `MultiTabCorrect` fails on two processes |
| `sync_stable` | pass | `TypeOK`, `FailsOnlyOnNameClash`, `LoginEndsInLockstep`, `OwnChannelsKept`, `LoginsEnd`: three overlapping logins of one account that moves between logins; two of the three OUs share a slug |
| `sessions_overlapping` | pass | `SuccessorInherits`, `HandedTokenWorks`, `SingleUseUnlessRaced`, `RequestsEnd` |
| `messaging_log` | pass | `DeletedIsEmptyUnlessRaced`, `TabsConvergeUnlessRaced`, `LogSpec` (refinement of `MessageLog`): two users, one message |
| `messaging_cursor` | pass | `CursorPointsHome`, `WorkEnds`: sends and reads in two channels, a membership removed half-way, failing jobs |
| `pdf` | pass | `StacksAgree`, `LoadedAsWritten`, `DecodedAsWritten`, `PaintedAsWritten`, `PageFillsCanvas`, `LoadGetsOn`, `LoadEnds`: the files of `MC_Pdf` |
| `viewer` | pass | `TypeOK`, `PageShowsLatest`, `EachUnderWayOnce`, `RequestsAnswered`: a good and an encrypted attachment, three inputs |
| `pdf_card` | violation | `CardSettles` fails: a card cancels its own load |
| `client` | pass | `TypeOK`, `PagesTile`, `MicUnderControl`, `DraftClearedOnlyIfSent`: three rows on pages of one, three composers, six inputs |
| `integrations` | pass | `TypeOK`, `AnnouncedOnce`, `StoredOnce`, `RoomUpToDate`, `RetryHeals`: one alert, one command, two requests at a time, three in all |

The two violated properties are sentences of the documentation and of a comment; `PROJECT.json`
(`findings`) quotes them.

**Promises the code does not keep.** Seven more properties are stated in the modules for the reader, with a
comment "Not kept by ...". None is part of a run: all but the last have a passing counterpart that says
exactly which interleaving is responsible. Given to TLC under the configuration of the run of its module each is
violated (`SettlesInLockstep` with `MovesInLogin = TRUE`, `OwnMessageRead` in that of `messaging_cursor` with a
second message, `ResolutionShows` in that of `integrations`):

- `ChannelSync!SettlesInLockstep`: a login that read the old OU and finishes after a newer one puts the
  user back. Counterpart: `LoginEndsInLockstep`, for accounts that do not move during their own login.
- `Sessions!SingleUse` ("the presented refresh token is single-use", `api/auth/auth.service.ts:115`): two
  overlapping refreshes both pass the GET. Counterpart: `SingleUseUnlessRaced`.
- `Messaging!DeletedIsEmpty`: an edit that checked before a delete writes after it. Counterpart:
  `DeletedIsEmptyUnlessRaced`, with `LogSpec` showing that readers still see a tombstone.
- `Messaging!OwnMessageRead`: `markRead` of two sends may move the cursor back. Counterpart:
  `CursorPointsHome`.
- `Client!MicStopsWithComposer` ("Stop the mic and timers if the component unmounts mid-recording.",
  `useAudioRecorder.ts:199`): a prompt that is granted after its composer was left opens a stream that no
  unmount stops. Counterpart: `MicUnderControl`, which excepts exactly these composers.
- `Integrations!LastWebhookTells` ("Quando o status muda no GLPI, o webhook atualiza o card em tempo real via
  WebSocket.", `docs/estrutura-do-codigo.md:261-262`): of two overlapping status webhooks of a ticket the one
  that read first may be stored and sent last. Counterpart: `RoomUpToDate`, for requests that do not overlap.
- `Integrations!ResolutionShows` ("a later "resolved" webhook can find and update the original chat message",
  `api/rmm/README.md:14`): the webhook updates `RmmAlertRef`, but neither `MESSAGE_INCLUDE` nor `toMessageDto`
  has anything of it, and the broadcast equals what the clients show.

More behaviours follow from the code and are inside the models without a property of their own:

- a tab that closes before its connection handler sent INCR takes the counter through 0, and the user is
  announced offline for a moment although another tab is connected;
- a department whose slug is another OU's cannot log in (`FailsOnlyOnNameClash`: nothing else fails);
- a preview job faster than the send handler announces a message no tab has yet;
- overlapping deliveries of one alert, or a lost answer of GLPI, leave a ticket or a message that nothing
  refers to, and a status webhook that comes before the `TicketRef` row is answered 404 and forgotten;
- a resolution's `MESSAGE_UPDATED`, which carries nothing new, may carry an old ticket status and overtake the new one;
- earlier pages, and a refetch, overwrite messages appended while they were fetched;
- a microphone prompt that is granted after its composer was left starts a recording without a bar,
  and a `MediaRecorder` that throws leaves the microphone open in a composer without a
  bar whose microphone button is disabled;
- what the user types while a send is under way is cleared with the draft when it succeeds, and a lost
  acknowledgement leaves `isSending` set;
- a card opens the viewer only if its load beats the commit that cancels it; the worker script failing to
  load leaves every later request unanswered;
- a hybrid section's compressed stream that finishes after older sections were read comes too late for
  what it should have overridden.

**Bounds.** Two users (one who acts, one who observes or competes), two tabs of one user (the multi-tab
case; a third socket belongs to the other user), two API processes (the replicas of
`k8s/api-deployment.yaml`), two overlapping requests (every race found is between two; three logins, so
that one may die while the others overlap), three tokens (login, its successor and a rival successor), three
OUs (two with one slug), one or two messages, two channels. `integrations`: one alert, delivered as
"warning" (no ticket) or "error", one command, a known status code and the one tickets begin with, two mishaps: a
stale session and its retry need one, a lost answer and a repetition another. `client`: pages of one row
make every row a page boundary, three rows give two earlier pages, three composers the one that is replaced
by an edit and the one that replaces it when the edit is acknowledged. `viewer`: one page per document and three inputs (open, scroll, zoom), enough for two renders of one page
to cross. `pdf`: eight contents, fifteen encodings of one content (five filter chains under a /Length that is
short, right and long) and nineteen file structures; `MaxFormDepth` is 2 where the code has 12 and `MaxHops` 4
where it has 32, so that the limits are reached; `LiteralBits` is 2 where LZW of the code has 8, so that
its codes widen and its table fills up on twelve bytes. Pages are drawn at 0.25, 0.7 and 1.25 (`PixelUnits` is 20): the smallest
box is then narrower than a pixel, others end on a fraction below and above one half. Slots are reused
without limit, so runs are unbounded in length except for what the configuration caps: `MaxCrashes`,
`MaxMoves`, `MaxChanges`, `MaxClock`, `MaxRetries` (the code's `attempts: 2`), `MaxPrunes`, `MaxRequests`,
`MaxMishaps`, `MaxInputs`, `MaxGen`, and `MaxInFlight`, which only stops *new* tabs while updates wait on the
bus. Deadlock is checked except where a bound, or the end of the work, makes the system stop:
`presence_crash` (all sockets lost), `sessions_overlapping` (token pool used up), `integrations`, `client`,
`viewer` and `pdf_card` (inputs used up) and `pdf` (the file is loaded and drawn). Symmetry is used only in
runs without liveness properties and only over sets no property or constant definition distinguishes.

**Fairness.** Weak fairness for the steps the server owes: an event loop resumes handlers whose awaited
answer arrived, Redis executes queued commands, the adapter delivers, BullMQ runs queued jobs. In the
browser: React commits changed state, a fetch ends one way or the other, the worker's script loads or
fails, its handlers finish and its messages are delivered (`PdfViewer!FairSpec`); the worker goes on with a
load it has begun (`WF(Loading)` in `PdfPage`, decoding of a hybrid stream included). Nothing is
assumed of users, administrators, clocks, failures or crashes. `NoGhostUser` and `TabSeesItself`
quantify over behaviours in which the user's tabs stay closed (open) from some point on.

## 4. Proofs

| Module | Theorem | Property |
|---|---|---|
| `PresenceProofs` | `TypeCorrect`, `CounterIsExact`, `CounterMatchesTabs`, `HandlerInvariance`, `MultiTab`, `Views` | `TypeOK`, `CountExact`, `CountMatchesTabs`, `HandlerInv`, `MultiTabCorrect`, `ViewsConverge` |
| `ChannelSyncProofs` | `TypeCorrect`, `RaceNeverFailsLogin`, `LockstepAfterLogin`, `OwnChannelsAreKept`, `LoginsFinish` | `TypeOK`, `FailsOnlyOnNameClash`, `LoginEndsInLockstep`, `OwnChannelsKept`, `LoginsEnd` |
| `SessionsProofs` | `TypeCorrect`, `ReplacedTokensAreGone`, `RefreshKeepsTheSession`, `RevokedTokensStayOut`, `HandedTokensWork`, `SerialTokensAreSingleUse`, `RequestsFinish` | `TypeOK`, `SuccessorReplaces`, `SuccessorInherits`, `RevokedStaysOut`, `HandedTokenWorks`, `SingleUseUnlessRaced`, `RequestsEnd` |
| `MessagingProofs` | `TypeCorrect`, `CursorsPointHome`, `LateEditsAreRefused`, `DeletedStaysEmpty`, `TabsConverge`, `ImplementsLog`, `WorkFinishes` | `TypeOK`, `CursorPointsHome`, `LateEditRefused`, `DeletedIsEmptyUnlessRaced`, `TabsConvergeUnlessRaced`, `LogSpec`, `WorkEnds` |
| `IntegrationsProofs` | `TypeCorrect`, `AlertsAnnouncedOnce`, `RetriesHeal`, `SubjectsStoredOnce`, `RoomsUpToDate` | `TypeOK`, `AnnouncedOnce`, `RetryHeals`, `StoredOnce`, `RoomUpToDate` |
| `ClientProofs` | `MicrophoneUnderControl`, `DraftKept`, `PagesTiled`, `TypesHold` | `MicUnderControl`, `DraftClearedOnlyIfSent`, `PagesTile`, `TypeOK` |
| `PdfViewerProofs` | `LatestShown`, `RequestsKept`, `TypesHold` | `PageShowsLatest`, `EachUnderWayOnce`, `TypeOK` |
| `PdfProofs` | `StacksNeverPart`, `PagesFill`, `LoadNearsItsEnd`, `PredictorsUndone` | `StacksAgree`, `PageFillsCanvas`, `LoadGetsOn` |

`CountExact`, `HandlerInv`, `SuccessorReplaces`, `RevokedStaysOut`, `LateEditRefused` and `TypeOK` of `Sessions` and
`Messaging` are proved and no longer among the properties of the runs.

The constants are arbitrary sets subject to the named assumptions (`PresenceAssumption`: finitely many
sockets, each with an owner and a process; `SyncAssumption`, `SessionsAssumption` and
`MessagingAssumption`: the null values are not members of the sets they stand beside;
`IntegrationsAssumption`: severities are ranked, alerts are not commands; `ContentAssumption`,
`MaxGenAssumption`, `IdsAssumption`, `ClockAssumption` and the like: numbers are natural, ids finitely many, old
rows dated within the clock's bound; `FormsAssumption`: a form's matrix is absent or one matrix; `FilesAssumption`:
a file, being a finite buffer, has finitely many sections, objects and entries; `SessionsAssumption` also that
token ids and requests are finitely many). Extra hypotheses are in the statements:

- `LockstepAfterLogin` and `OwnChannelsAreKept` assume `~MovesInLogin`; `SettlesInLockstep` shows why.
- `MultiTab` assumes `OneHomePerUser`, that a user's tabs share a process (any number of processes otherwise);
  `presence_replicas` shows why. `Views` assumes `OneHome`, one process for all tabs: between processes a
  snapshot read from Redis and an update on the bus are not ordered. Both speak of states with `crashes = 0`,
  as in `presence_one_instance`: a crash leaves ghosts.
- `PagesFill` speaks of pages that are `Upright`, whose MediaBox names its lower left corner first. The code
  takes the absolute width and height but the first corner for the lower left one: a box given the other way
  round is drawn beside its bitmap. Scales and boxes are multiples of some fraction of a pixel (`PageAssumption`:
  any `PixelUnits`, any scales of whole units); what `PageFillsCanvas` claims is the bound rounding leaves: the
  box starts or ends with the bitmap on each axis, and half a pixel, or a side below one pixel, may differ at the other
  end. The error of binary floating point, far below one unit, is not modelled.
- `RequestsFinish`, `LoginsFinish` and `WorkFinishes` assume `[]GuardsSuffice`: a step whose guards hold is
  `ENABLED`. It is the one fact about `ENABLED` they need, and no installed prover can establish it; it holds
  because each of these steps only assigns its primed variables, and changes `pc` or the job's status. TLC, which
  computes `ENABLED`, finds `GuardsSuffice` true in every state of the three runs' instances.
- `WorkFinishes` assumes `MaxRetries \in 0..1`: a job has two attempts (`messages.service.ts:215`).

- *Presence.* `CountExact` is not inductive: INCR must be known to find its socket uncounted.
  `HandlerInv` says that every handler waits for at most one command, on its own process's
  connection, with the program counter that fits (`QueueInv`, `ReplyInv`), and that a handler that waits for
  nothing has been counted as it should (`CountedInv`). With it each step changes the counter and the history
  sets together; `CountMatchesTabs` follows by cardinalities, `TypeOK`'s bounds as well. For `MultiTab`,
  `OnlineInv` follows each user through the queue of their process: while an INCR or DECR crossed a threshold and
  its SADD or SREM is still to come, that command is the last word, and once nothing is under way membership
  agrees with the counter. For `Views`, `ViewInv` says that the last news about a user on its way to a tab,
  snapshot or update, is what Redis holds.
- *ChannelSync.* `RowInvariance` adds to the types that channel rows only grow and that a login
  that is about to join holds an existing row of its department; a failed login saw another row under its
  name. `ProgressInvariance` (⇒ `JoinedBeforePrune`) follows each login: what it has written when it
  prunes. The two action properties follow from it, one case per action.
- *Sessions.* `TokenInvariance` relates each request in flight to the token it presented and the one it
  issued (in Redis, handed, whose parent); the properties follow from it.
- *Messaging.* `Shape` says what a handler carries at each step (`Carried`) and that handlers and jobs
  are about existing rows, with the checks they passed still true of author and channel (`Grounded`); the
  cursor and late-edit invariants follow. `CalmInv` is about messages on which nothing raced: they have
  one handler at a time and none while the worker announces (`Alone`), what is about to be written or
  announced is the row as it is (`Fresh`), and the tab shows the row unless an announcement is still to come
  (`Shows`). `ImplementsLog` maps `StoreMessage` to `Post`, `WriteDelete` to `Remove` and `WriteEdit` to `Edit`,
  or, when a delete overtook it, to a second `Remove`; everything else is a stutter.
- *Integrations.* `HandlerInv` says what a request is about at each step, `RefInv` that only the message an
  alert's reference names was ever announced, `SessionInv` that a renewed call holds a token GLPI accepts unless it
  lapsed; `Inductive` proves them together with the types, one case per action. `AnnouncedOnce` follows because two announced
  messages of one alert would both be the one the reference names. `StoredOnce` and `RoomUpToDate` need the whole
  story of a subject on which nothing raced or failed (`Sub`): with no request about it there is nothing, or a
  message with its ticket that the room shows as stored (`Idle`); the one request about it is either before its
  message, with at most the ticket (`Making`), or holds it, with the status it read and the DTO it is about to
  send still those of the tables (`Holding`).
- *Client.* `MicUnderControl` says whose microphone may be open, and that the mounted composer's status tells
  whether its own is, so that no second stream is opened over one that nothing would stop. `MicInv` adds that
  composers yet to come have no stream and that a prompt is either the mounted composer's or one that was left. `Remounted` and `SendEnded` carry it over the
  two ways a composer is replaced. For drafts, `ComposerInv` says that a mounted composer has one send in flight
  and is busy while it has (`OneSend`; `ClipInv` covers the clip that the recorder's effect sends), and that this
  send carries what the composer holds until the user writes on (`DraftInv`).
- *Cache.* `PagesTile` speaks of the flattened list; `Tiles` says the same page by page: each holds what lies
  between its own cursor and the previous one, in order, and cursors go back in time. `DataInv` and `FetchInv` keep it
  for the data and for what a fetch has gathered so far, `EventInv` says that what is on its way over the socket is
  later than all that (or was disturbed), so that appending it to the newest page is right. `Served` proves that
  `History` returns such a page, `TilesGrow`, `TilesHear` and `TilesStay` that a page more, a message heard and a row
  stored keep it, and `TilesShown` that what tiles is shown as `PagesTile` demands.
- *Work that ends.* A request, login, handler or job has a number of steps left (`Left`, from a table over `pc`),
  which no step of another raises and each of its own lowers; the table is constant and small, so
  the induction over it is a fixed chain of leads-to steps, each by weak fairness of the next step. `RequestsFinish` needs in
  addition that an unsigned token id is left for every request about to issue one (`TokensLeft`), `LoginsFinish` that the fallback
  after P2002 reads and never inserts again, `WorkFinishes` that a failure consumes an attempt.
- *Viewer.* Each request on its way is the one pending under its id, if any; each answer is true of the worker's
  documents; a card waits for at most one request, which is what its load is at; a page's slot is waiting for its last
  run or shows what that asked for (`SlotOf`), so that an answer to an older run finds no pending entry of this
  page. `CountInv` counts what may still be asked for against the ids left, which gives the bound of `TypeOK`.
  For `RequestsKept` each action moves one id from one place to the next and leaves the others (`PostUnderWay`,
  `FetchUnderWay`, `FinishUnderWay`, `DeliverUnderWay`): the ids of mailbox, handlers and answers are those pending, so
  `onmessage` never returns early for want of a promise (`if (!p) return`) unless the worker's script failed.
- *PDF.* `StackInv` says that the two stacks are sequences of equal length whose entries agree, and that frames and
  resource dictionaries are as many; every operator preserves it, `Q` on an empty stack because both sides then keep
  what they have. For `PagesFill` every graphics state, saved or current, of every frame has the page's own
  transformation as the first of its matrices (`OnPage`), and integer arithmetic maps the box's corners: `Pixels` is what
  rounding does to a length (within half a pixel, or one pixel for less), `Covered` and the lemmas beside it the four rotations.
  `LoadGetsOn` is lexicographic: `StagesAhead`, then `ToRead`, the elements of the stage's finite set not yet read. That
  a section is never read twice is what the `visited` set of `document.ts:143` is for; `LoadInv` keeps the sets finite.
  `PredictorsUndone` follows each byte: in a row by induction on its position (`RowUndone`: the bytes to the left and
  above are already those of the producer, and a difference modulo 256 is undone by the same sum), whatever the bits of a
  component make of rows and pixels in bytes, from row to
  row in the same way, and through `FlattenSeq` by where the rows lie (`Laid`).

Some of this is induction over data: `Least` (a set of naturals that is not empty has a least element) is derived
from the well-foundedness of `<`, and with it `Induction`, that a finite set of rows has an enumeration newest first
(`Enumerable`), that it misses none (`Complete`, by the pigeonhole principle), and what `FlattenSeq` returns
(`Flattened`, `RowsFlattened`). `Successively` is the same for positions: with a set in place of the predicate, it can be
cited where the library's induction theorems cannot, and shows that a recursive function over positions is the one value
that satisfies its equation.

The proofs changed the model where it could not be reasoned about. `History` takes `NewestFirst`, a
choice, where it had a sorting operator of the community modules, and `PagesTile` speaks of positions of the list
accordingly. `Param` (and `LzwStep` in `PdfFilters`) were CASEs whose guards overlapped, which TLC reads from the
top and TLA+ does not; they are disjoint now. `PdfViewer!MaxId` is the bound `CountInv` proves.

`PdfDocument` joins maps of entries with `Over`, a function written out, where it had `@@`, which the
provers cannot expand.

The inductive invariants were checked with TLC on the instances of the runs before they were proved.

Only model-checked are the liveness properties `NoGhostUser`, `TabSeesItself`, `RequestsAnswered`, `LoadEnds` and the
violated `CardSettles`: their ranks (commands queued, answers under way, entries to read) have no bound in the constants, so
the temporal induction would be over all naturals, whose rule takes an operator as a parameter. The safety halves of two of
them are theorems: nothing under way is lost (`EachUnderWayOnce`), and a load only comes nearer its end (`LoadGetsOn`).
What the `pdf` run compares with the reference stays with TLC as well, `LoadedAsWritten`, `DecodedAsWritten` and
`PaintedAsWritten`, the predictors apart: it is about the values of mutually recursive functions over bytes (lexer, parser,
LZW), each of which would need its own induction, against a reference that is recursive as well. Every other
property of a passing run is a theorem.

## 5. Not modelled

- Failure of `handleConnection` or `handleDisconnect` without the death of their process: the code
  catches nothing there, and an unhandled rejection ends a Node process, which is `Crash`.
- Reconnection of Redis or PostgreSQL clients; the models let any statement fail instead.
- Real time: token lifetimes and TTLs expire at any moment, the clock of `Messaging` ticks at any moment. Typing
  indicators are left out with it: they are hints that expire after seconds.
- Two steps are coarser than the code: `initSession` gives out and caches the token in one
  (`glpi.session.ts:34-37`: a call that begins between the two takes the token before, or asks for one of its
  own, as it may just before), and `UpsertUser` always succeeds, its unique violation being one of the reasons
  of `Abort`.
- The errors a reader of files cannot raise: `Parser.parseObject` never throws (only `parseIndirectObjectAt` does,
  `parser.ts:189`), so `Unpack` has no such end; a nesting deep enough to exhaust the stack would reject the load.
- Payload validation, signatures, mapping and rendering beyond what a property tells apart.
- HTTP, LDAP, S3, DNS and GLPI, beyond success or failure as the code in `src/` uses them.
- Sockets and rooms as state: a socket is authenticated and joins its rooms once, at the handshake, and the
  code never revisits either, so there is no promise to state. `PROJECT.json` lists both as hazards.
- In the client: unread badges and the effect that marks a channel read, search, notifications, routing and
  layout. In the PDF reader: inflation and JPEG (the platform's), glyph outlines and fallback fonts, curves
  beyond their control points, colour values between 0 and 1, `dispose`, which nothing calls.
- The link-preview fetcher with its SSRF guard (its outcome is READY or FAILED), the desktop shell, the
  enterprise installer (a sequential wizard writing configuration) and the deployment files.

## 6. Plan

What could be added, in order of what it would show:

1. `DecodedAsWritten` for the other filters, by induction over the data as in `PredictorsUndone`: hex and run
   lengths first, then LZW with its table.
2. `ViewsConverge` for several processes: which order of bus and snapshot would be enough for it.
3. Unread badges of the client against `getUnreadCounts`, as an extension of `ClientCache`.
4. A composition of `Sessions`, `ChannelSync` and sockets, which would state what outlives a revocation.
