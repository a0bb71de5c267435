# j-messenger: TLA+ models, checks and proofs

j-messenger is a small self-hosted messenger: one Node process with a
synchronous SQLite database and a directory of files, and clients (web, desktop,
Android) that share `packages/client-core`. This directory models the parts of it
whose correctness depends on the order of things: deduplicated sends against
retention; the client's recovery of missed events, its waiting messages and its
composer across sign-outs and sign-ins; uploads and deletions that alternate
database transactions with file operations; overlapping polling passes over the
sockets; conversations, read positions and paged lists under concurrent requests;
backups and restores that fail or die half-way.

Paths below are relative to the repository; `A/` stands for `apps/server/src/`.

## 1. The system

### Parts, their state, operations and properties

| Part | State it keeps | Operations | What makes it correct |
| --- | --- | --- | --- |
| `A/platform/database` | one SQLite connection; `event_outbox`, stream epoch, `migration_history` | `run` (BEGIN IMMEDIATE .. COMMIT, nothing yields inside), `append`, `highWatermark`, `scan`, migrations | a handler is one atomic step; events are totally ordered by id and committed with the rows they tell of |
| `A/platform/jobs` | `platform_jobs` (status, attempt, next run, lease) | `enqueue` (in the caller's transaction, by key), `claim`, `complete`, `retry`, `fail`, `runBatch` | a job that was enqueued runs until it completes or its attempts are used; a dead process's job is taken over |
| `A/modules/messages` | `messages`, `message_dedup`, `message_files` | `create`, `list`, `hydrateEvent`, `purgeBatch`, `expireFileReference` | a clientMessageId is accepted once however often it is sent; rows and references never dangle; an accepted message only ages |
| `A/modules/retention` | `retention_progress` (two cursors), policy | `runSystemBatch` (one transaction, limited rows, resumes where it stopped) | everything due goes, nothing goes early, batches never strand a row |
| `A/modules/files` | `files`, `.part` files, objects on disk | `prepare`, `bind`, `openDownload`, `scheduleDelete`, `expireBatch`, deletion handler, `reconcileOrphans` | a ready or attached file is on the disk; nothing lies on the disk uncounted; the quota holds; condemned files go |
| `A/modules/sync` | none (cursors are signed tokens) | `ready`, `sync` | a page returns the range it says; expired cursors are refused |
| `A/modules/realtime` | peers with a position | register, `pollPeer`, heartbeat, close | a peer sees every event after its ready position, in order, or loses the connection |
| `packages/client-core` | snapshot, cursor, positions, tombstones, buffered events, pending sends, generation, timers | `login`, `connect`, `sync`, `loadSnapshot`, `applyEvent`, `sendMessage`, `retryMessage`, `logout` | the cursor covers no gap, deleted text does not come back, the client converges, a send ends confirmed or failed |
| `A/modules/conversations` | `conversations`, `members`, `conversation_requests` | `create`, `list`, `requireMember`, `recheckMember`, `recordMessage` | one direct conversation per pair, one group per request |
| `A/modules/receipts` | `read_cursors` | `advance`, `get` | a read position never retreats and names an existing message |
| `A/modules/identity` | `users`, `sessions`, failure counters | `login`, `resolve`, `logout`, `sessionActive` | a revoked or expired session does nothing more |
| `A/modules/audit` | `audit_events` | append | rows commit with what they record |
| `A/platform/operations` | backup directories, an operation lock | backup, verify, restore with rollback | a restore replaces database and files together or not at all; old cursors and sessions are refused |
| `A/bootstrap` | the maintenance timer | `maintain`: retention, jobs, sweep, in this order, never twice at once | maintenance goes on after an error |
| `A/platform/{http,config,logging}` | none that outlives a request | routes, parsing, formatting | - |
| `packages/client-react` | draft, attachments, open conversation, busy flags | `handleLogin`, `handleLogout`, `handleSend`, `handleFile`, `handleCreateConversation` | what is stored is the author's own, a text is stored once, the composer becomes usable again |
| `apps/{web,desktop,android}` | presentation | platform shells | - |

### How they interact

A request enters through http, is resolved to a session by identity, and calls one
module; modules call each other inside a transaction (`messages.create` calls
`conversations.recheckMember`, `files.bind`, `conversations.recordMessage` and
`database.append`). `maintain()` calls retention (which calls messages and
files), then the job runner (whose only handler is the files' deletion), then
the sweep. The outbox is read by the realtime poller (every peer has a position)
and by `GET /sync`; both hydrate a record from the rows as they are when it is
read. The client holds one socket and runs recoveries over HTTP beside it; its
screen keeps its own draft and attachments and learns of a new generation of
client-core by a render. Backup and restore run while the service is stopped,
under one operation lock, on the same database and directories.

### What is hard

- **Really concurrent**: client and server over the network; several recoveries
  of one client at once (nothing cancels one); requests of a former user that are
  answered after the next one signed in; two passes over the same sockets;
  requests between their checks before an await and their transaction; uploads,
  the deletion handler and the sweep between their awaits; a handler that outlived
  its timeout; the death of the process between a file operation and the
  transaction that records it, or between two renames of a restore.
- **Not concurrent**: two transactions; two runs of `maintain()`; the body of one
  transaction and anything else.
- **Time**: seven days of cursors and retries, five and fourteen days of
  retention, thirty more of deduplication, an hour for an upload, leases and
  timeouts of jobs.

`PROJECT.json` lists the hazards at their lines, and which property is aimed at each.

## 2. The modules

| Module | Models | Composes | Abstract specification |
| --- | --- | --- | --- |
| `MessageStore` | messages and retention over the tables they share | - | `MessageLedger` |
| `EventStream` | the outbox, list routes and `GET /sync`, as readers see them | - | - |
| `ClientSync` | client-core's recovery and its socket | `EventStream` | - |
| `ClientSend` | client-core's generations, waiting messages and retry timers | - | - |
| `Composer` | client-react's composer over client-core and the server's routes | - | - |
| `Sessions` | accounts and sessions, as the other services depend on them | - | - |
| `Rooms` | conversations, read positions, paged lists | `Sessions` | - |
| `Realtime` | sockets, polling passes, heartbeat | `Sessions` | - |
| `JobStore` | the job table and its runner | - | - |
| `FileStore` | files on a disk; `maintain()` | `JobStore` | `FileLifecycle` |
| `BackupStore` | published backups, their verification and pruning | - | - |
| `Operations` | service start and stop, migrations, restore | `BackupStore` | - |
| `*_proofs` | theorems about the module they are named for | | |

`MC*` modules extend the module they check and give its structured constants their
values (regimes of `ClientSync`, accounts and sessions) and symmetry sets.

### MessageStore

One server, one sender; days as the unit of time. `messages`, `dedup`, `refs` and
`files` are the tables `messages`, `message_dedup`, `message_files` and `files`
(as far as messages see it); `mprog` and `fprog` are the two rows of
`retention_progress`. `content_expired` is `text = Null`, which the table's CHECK
makes the same.

- `CreateNew` and `CreateAgain` are `create()`; `Outcome` is its answer, in the
  order of the code's checks.
- `RetentionBatch` is the whole of `processBatch`: read the rows due, drop old
  tombstones, forget old deduplication rows, expire contents (each with its
  event), condemn old files, drop their references and the tombstones that leaves
  bare, store both cursors. Its parts are operators over a store
  `[messages, dedup, refs]`, applied in the order of the code, because what one
  part leaves is what the next one reads.
- `MaySend` is the client: it names a key for `RetryDays` after its first use and
  uploads it has made, however old they are: neither the client nor `bind()` asks. So an
  accepted message may lose an attachment while its key is still retried, and the
  retry is then answered `conflict` (see the findings). `IdenticalRetryAnswers` says that
  nothing else makes a conflict of an identical request.
- `born` and `accepted` are history: when a key was first used and what it was
  accepted for.

### EventStream and ClientSync

One conversation the reader is a member of. The log is the outbox; a message has
a text until `Expire`. A cursor is `[at, week]`: a position and when it was
issued, and is valid until `week` moves (seven days). `SyncAnswer` is `GET /sync`
with its refusals. Each behaviour has one regime, chosen at the start, which bounds
it and says what may go wrong in it. Message rows stay for ever in this module: a tombstone outlives
(14 days) every cursor (7 days) that could still ask for its event.

`ClientSync` splits every request into asked, answered (`Serve`), taken
(`TakePage`, `TakeReset`, `TakeList`, `TakeSnapshot`, `TakeRefusal`) and lost
(`Lose`); what JavaScript runs without yielding is one action. `store` is the
snapshot (`rows` the messages, `tombs` the tombstones, `cursor` syncCursor, `at`
snapshotPosition, `floor` snapshotPositionByConversation of the one
conversation). Three recoveries may run at once: that of the present connection,
one of an earlier connection, the timer's. `Done` and `Abort` are the two arms of
the ready frame's promise, with what the closures of an old connection can and
cannot reach.

### ClientSend

A generation begins with `Login`, `Resume` or `Logout`, or with an answer that signs out.
`Resume` is the page's first step, for the session the browser came with (`FirstSession`), and
nothing waits for it: the login form is there beside it, so a user may sign in, and out
again, while its `/me` or its load is under way. `LoginBusy` is the flag of `handleLogin()`
alone (`screen` marks the requests it awaits).

`requests` are the calls under way. Each has the generation of its caller (`gen`, what the
caller's `current(g)` compares) and the one in which `request()` was called (`asked`), whose
credentials it carries and the answer once there is one. An answer is taken in two steps:
`Head` is the comparison of `request()` when the headers are there, the `Take*` action what
the caller does with the body, any time later. `Answer` is what `request()` gives its
caller, a 401 if its generation was over before the headers. Each `Take*` is guarded as
the code guards it: `Fresh` is `current(g)`, and where the code forgets to ask - the
unauthorized answer and the reset of `sync()` - so does the action. A reset goes on with a
load (`TakeReset`) and, on a ready frame, with a sync; the sync that follows the load of a ready
frame (`TakeReload`) goes on in whatever generation it finds. `Lose` is no answer or one that says
nothing: the transport error, the timeout, an unreadable body, a busy server.
`ServeOrphan` is a message the client gave up and the server still stores. `RetryFires` is the
timer; `TooOld` its seven days. `written`, `refused` and `crossed` are history: by whom,
when and in which generation a message was written, which retries the server refused, and
the last generation in which the reset of an earlier one was carried out.

### Composer

`handleLogin`, `handleLogout`, `handleCreateConversation`, `handleSend` and
`handleFile` are each split at their awaits, and keep what they captured: `entering`,
`action`, `send`, `upload`. `Cleared` is the effect on a new generation. What
client-core answers is its state machine cut down to what the screen can tell:
`Empties` says after which answers the composer is emptied - also when the answer was
lost, because the message then waits in client-core under its key. `messages` and
`uploads` are the server's rows; `Bindable` is the check of `bind()`.

### Sessions, Rooms and Realtime

`Sessions` has the rows of accounts in the order of their ids (`users`) and the state
of each session. An expired session, whose row stays, and one that was logged out
are told apart by nothing, so both are `End`.

`Rooms` splits a creation and a read in two: `AskCreate` and `AskRead` are the checks
before the transaction, `Create` and `Read` the transaction with its own checks and
its answer, and `Crash` forgets the requests under way. `requests` is
`conversation_requests`; `SameRequest`, `Conflicts` and `Existing` are the two
deduplications in the order of the code. `listing` is one client's walk through
the conversations or the users, with the `max` and the position its cursor carries.

`Realtime` has `passes` that may overlap (`Passes` of them): the code starts a pass
every `pollMs` whether or not the one before has ended. `Visit`, `Scan`, `Hydrate`,
`Send`, `Settle` are `pollPeer` between its awaits; a failing pass closes the peer
it was at. `since` and `late` are history.

### JobStore and FileStore

A job is identified with the file it deletes (its dedupKey). `next_run_at` and
`lease_until` are abstracted to whether they have come. Every `rm`, `rename` and
`copyFile` is a step of its own, may fail (`MaxFaults`), and is followed by
another step's transaction; `Crash` may come between any two and forgets
everything that was in memory. `late` holds handlers that outlived their timeout
and go on beside the retry. `Slow` names the uploads that may take longer than an
hour: the server sets no limit to the time an upload takes. `Units` are the units of the
quota that rows hold, so that the sum of the quota query is their number.

### BackupStore and Operations

`BackupStore` is the run of one backup after its stage is complete: `Publish` (the
rename), `CheckAll`, `Prune` one at a time, `Finish`, and `Undo` for the catch block.
Before the rename nobody reads what is there. A backup whose removal failed or died
half-way is `torn` or untouched.

`Operations` has the service (`Start`, `Migrate` one version at a time, `Ready`, `Write`,
`Stop`, `Kill`) and the restore: `Stage`, `Finalize`, one step per rename of `Renames`
forward, and the way back in the order of `Reverse`. `disk` says for the target, the
stage and every recovery directory which database, which write-ahead log and whose
objects lie there. A lineage is the history of one database; `served`, `unflushed` and
`split` are history.

## 3. The runs

| Run | Question | Bounds, and why they are enough |
| --- | --- | --- |
| `message_store` | Is a key accepted once, are the tables consistent after every send and batch, and does the store implement `MessageLedger`? | 2 keys, 2 files, batches of 1 row, 5 days with content 1, files 3, deduplication 1+3, retry 3: every table has more rows than a batch takes, and a key lives through acceptance, expiry, removal and the whole retry window. Days keep the order of the code's 5 < 7 < 14 < 30 where the properties depend on it (retry < content + deduplication; content < file). |
| `message_drains` | Does everything due go, for ever again? | as above, 3 days; batches of 1 with 2 rows due force a stored cursor and its restart |
| `client_sync` | Can any order of frames, pages, recoveries, lists and a lost connection open a gap, and does the client converge? | Two regimes. `Steady`: 1 message (2 events), pages of 1, 1 loss, 1 failed request, timer and lists on; a recovery takes several pages, live events arrive between them. `StartsOver`: 2 messages, pages that hold everything, every cursor expires once, 1 failed request, neither timer nor lists (see the findings for why). |
| `client_send` | Do retries, late answers and generations keep messages with their author, and does what waits get settled? | 1 message, 2 users, of whom one comes with a session, 2 requests under way, 3 generations that are begun or synchronised, a retry window of 1 day of 1: two requests of different generations overlap (the resumption with a login, a login with what the logout before it left), each between its headers and its body too, and a message becomes too old. Its key is the author's own, so a second one adds no interference. 674,748 states, two minutes |
| `composer` | Is what is stored the author's own, once, however drafts and attachments outlive their user? | 2 users, 2 conversations, 1 text, 1 file, 2 sends, 2 generations started: a send and an upload of one generation are answered in the next, and one text is submitted twice |
| `rooms` | Are creations deduplicated, do positions only advance, do lists leave nothing out? | 3 requests under way, 3 accounts on 2 servers, 2 sessions, 1 key, 2 titles, pages of 1, 3 conversations, 2 messages: both deduplications meet in one behaviour, a creation falls between two pages |
| `realtime` | Do overlapping passes leave a hole, and does a dead socket close? | 1 socket (passes visit sockets one by one and share only the outbox), 2 passes, scans of 2 of 3 events |
| `file_store` | Do rows, disk, jobs and quota agree, and does what should go go? | 2 files, quota 3 with 2 reserved each: one upload can block the other; 2 attempts per job, 1 failed operation, 1 crash, one slow upload |
| `operations` | Is what the service starts whole, and is nothing lost, whatever fails or dies? | 2 program versions, 2 backups (keep 1), 2 databases created, 2 restores, 3 faults: a rename fails and its way back fails or dies, a second restore meets what the first left |
| `upload_race`, `late_sync`, `backup_lost` | the findings below | the smallest instance that shows each |

`client_sync`, `client_send`, `composer`, `rooms`, `realtime`, `operations` and the two
new findings turn deadlock checking off: once every message, session, generation or
fault of the bounds is used up, nothing may be left to do.

### Fairness

`MessageStore` assumes that the batch runs again and again (`maintain()` runs at
start and every minute). `ClientSync` assumes that timers fire, that the server
answers and that frames arrive, each as weak fairness; it does not assume that
connections last or requests succeed, only that they do not fail for ever, and
nothing of the server's commits. `ClientSend` assumes that a request is answered or given
up (every request has a timeout until its headers are there; that a body ends is assumed, for
the code waits for it without one), that a timer that is set fires and that days pass; not
that any request succeeds, nor that the server ever carries out what the client gave up. `Composer` assumes that
the server answers uploads and sends and that their handlers go on; nothing is assumed of users. `Realtime` assumes that
passes start and go on, and that the heartbeat runs (`setInterval`). `FileStore` assumes
that uploads end one way or the other, that time passes, and that `maintain()` runs to
its end; it does not assume that a file operation works, only that failures are finitely
many. A handler that outlived its timeout is never assumed to finish. `Rooms` and
`Operations` claim safety only.

### Findings

1. **`upload_race`** (`A/modules/files/index.ts:534`): an upload that runs for more
   than an hour and becomes ready between the sweep's query and its removal loses
   its object and stays ready.
   `docs/pmt-docs/10-feature-specifications.md:311` says active uploads are kept.
   `PromptReadyOnDisk` claims what holds: uploads that end within the hour are safe.
2. **`late_sync`** (client-core `index.ts:506`): `sync()` takes an unauthorized answer
   without asking which generation it belongs to, and `request()` makes one of every answer
   to a generation that is over (line 211). One that comes after the next user signed in signs
   that user out and drops what waits.
   `docs/pmt-docs/15-implementation-guide.md:122` says an answer of an earlier
   generation is not applied. `LateAnswersIgnored` says so of the moments when somebody is
   signed in.
   Two neighbours of it break the same promise, and the model has them. `index.ts:480`-`501`: a
   `sync_reset_required` whose headers came before a logout and whose body comes after it
   empties the snapshot of the user who signed in meanwhile, messages that wait included, puts
   the old number back into `snapshot.generation`, and leaves no cursor or, after a ready
   frame, that of the former user. `Isolated` and `TypeOK` except what such a reset leaves
   (`crossed`). `index.ts:546`-`562`: the list a ready frame waits for may be read to its end after
   the logout; `sync()` follows it, is refused, and signs out whoever is signed in or signing in. Messages
   are still stored for their authors only (`StoredForAuthor`).
3. **`backup_lost`** (`A/platform/operations/index.ts:481`): a backup that fails while it
   prunes may have torn the last old one, and then removes itself.
   `docs/pmt-docs/10-feature-specifications.md:582` says the last good copy is kept.

Four more disagreements concern the resets of client-core. The `client_sync` run is
bounded so as not to meet them (`StartsOver`: one reset at a time, no timer, no list, pages
that hold everything), since what it claims does not hold of them. Each was met as a
counterexample of `ClientSync` under a regime other than the two of the run, and is
found again by adding that regime to `Regimes`:

- `index.ts:494`, two overlapping resets (a connection's and the timer's, with weeks 1 and
  timers on, or those of two connections, with weeks 1 and drops 1): the older snapshot is published after the newer one, the sync that
  follows starts past a message it lacks, and the cursor covers a gap. `04-communication.md:70` says it
  only covers what sync confirmed.
- `index.ts:492`, a request of the timer's reset fails (weeks 1, fails 1, timers on):
  `bootstrapping` stays on, live events are held back until something closes the
  socket, and the timer has no cursor to sync from. `04-communication.md:73` promises a
  sync every 30 seconds.
- `index.ts:494`, a reset on a ready frame more than one page older than the list (weeks 1,
  page 1): the cursor is the frame's but `snapshotPosition` the list's; every page is
  refused, and every reconnect starts from the same cursor. `04-communication.md:71`
  promises a full resync.
- `index.ts:488`, a page of messages was asked for and answered before a reset and arrives
  after it (weeks 1, lists on): the reset cleared the tombstones, so `mergeMessage`
  (`index.ts:238`) takes a text that was deleted since, and no event of the deletion comes
  any more. `04-communication.md:72` says that deleted data does not come back.

The first and the last make `NoGap` false; they are what `ResetsAlone`, the hypothesis of the
theorems about `ClientSync`, excludes.

Also met while modelling, and within what the runs say:

- An accepted message whose attachment expired before its content did (an upload named days
  after it was made) answers an identical retry with `conflict`
  (`A/modules/messages/index.ts:493`), which the client shows as a failed send of a message everybody received.
  `docs/pmt-docs/15-implementation-guide.md:120` says that the same clientMessageId with the same content
  and files returns the existing result. `IdenticalRetryAnswers` excepts exactly this case (`Taken`).
- A deletion job that used its attempts leaves its file condemned and counted for ever
  (nothing calls `resume`); `CondemnedGoes` and `JobsAnswer` except it.
- A retry that is answered forbidden, not found or bad request neither fails its
  message nor schedules another (client-core `index.ts:812`-`828`); `Settles` excepts such
  messages (`refused`). A reset drops the messages that wait without a word.
- A send answered `rate_limited` or `internal` goes on waiting in client-core while
  the composer keeps the draft: sent again it is stored twice. `StoredOnce` excepts
  such texts (`spared`).
- `uploadFile` compares generations before it reads the body, so an attachment may land in
  the next user's composer; `bind()` refuses to store it (`OwnMessages`). An upload has no
  timeout. What is typed between the answer to `/me` and the end of the first load is
  cleared.
- After an upgrade, or once a removal tore one, old backups fail verification, and with
  them every later backup run until they are moved away.
- After a death between the rename of a database and that of its log, or during a way back
  that had failed, the next start meets a database without its last writes; `TargetWhole`
  and `Kept` except both (`split`). The first databases of two installations share epoch
  `'1'`; `EpochNames` excepts them.

## 4. The proofs

`MessageStore_proofs` proves, for every value of the constants,

- `Inductive`: `Spec => []IInv`,
- `TypeCorrect`: `Spec => []TypeOK`,
- `RowsAgreement`: `Spec => []RowsAgree`,
- `AcceptedOnce`: `Spec => []AtMostOnce`,
- `FilesInductive`: `Spec => []FInv`, `LiveFilesKept`: `Spec => []LiveFileKeepsMessage`,
- `LedgerImplemented`: `Spec => ImplementsLedger`,
- `EventsOnceInOrder`: `Spec => []EventsTellLifecycle`,
- `RetriesAnswered`: `Spec => []IdenticalRetryAnswers`,

from `DaysAssumption` (the constants have the types of their columns) and, for
`AcceptedOnce` and what rests on it, `RetryAssumption`: the retry window is shorter than the days a
deduplication row outlives its message's content plus the days the content is
kept (7 < 5 + 30).

`AtMostOnce` is not inductive: that a row which may be forgotten is old enough
follows only from when it was marked, which follows from when its message was
created, which follows from when the key was first used. `IInv` carries this
chain:

- `StoreTyped` and `StoreAgrees`: the tables are typed and consistent;
- `StoreAged`: a message is not older than its key's first use, a marked
  deduplication row was marked at least `MessageDays` after it, and an accepted
  key is without its row only once its retry window has closed;
- references name attached or condemned files (so `bind` never takes a file
  twice), the stored message cutoff is never younger than `MessageDays`, and no
  key was first used in the future.

The first two are stated over a store `s`, not over the variables, so that
each part of a batch has its lemma - `DropDeadRefsOK`, `RemoveTombstonesOK`,
`ForgetDedupsOK`, `ExpireContentOK`, `ExpireReferencesOK` - and `PurgedOK` and
`RetentionBatchOK` compose them in the order of the code. `NextOK` has one case
per action. `FInv` adds that the reference of a live file is there and that the
identifiers accepted are among those given out; `PurgedKeeps` and `ReferencesKeeps` say what
the parts of a batch leave of references and messages. `Told` ties the outbox to the tables:
one creation for each identifier given out, and one deletion, after it, exactly for those whose
content has gone; a batch appends an event for each message it takes, in some order, and
`AscendingOnto` says that it takes each once. `Answerable` says what is left of the request a
key was accepted for: its deduplication row has the same conversation and message, and, while
the message is visible, its text is the same and each of its files is still referenced or was
taken by a batch after its days (`Taken`), so the comparison of files finds the same request
different only then. The refinement maps a batch to
`Age`, and an insertion to `Accept` because `AtMostOnce` says the key was new.

`FileStore_proofs` proves, for every finite set of files, quota, maximum of attempts and
number of faults and crashes,

- `Inductive`: `Spec => []IInv`,
- `TypeCorrect`: `Spec => []TypeOK`,
- `DiskAccount`: `Spec => []DiskAccounted`,
- `PromptReady`: `Spec => []PromptReadyOnDisk`,
- `JobsAnswered`: `Spec => []JobsAnswer`,
- `QuotaKept`: `Spec => []QuotaHeld`,
- `Implements`: `Spec => ImplementsLifecycle`,

from `JobAssumption` and `FileAssumption` (the types of the constants, and that the table is
finite). That
`DiskAccounted` and `PromptReadyOnDisk` survive a step depends on who else is at
work, and `IInv` says so in four parts:

- `RowOK`: what a row's state says of its upload and its job - an upload under way
  has no job yet, a row with a job is condemned or gone, and gone only when its
  object is;
- `PromptOK`: where the bytes are at each step of an upload that ends within the
  hour, so that its row is still its own when it is recorded;
- `QueueOK`: a handler that reached the row, in time or late, has removed the
  object, and a job that is not failed has attempts left;
- `SweepOK`: what the sweep selected stays abandoned until it is done with it, because
  the uploads it may meet are younger than an hour. This is where a slow upload
  breaks the argument (`upload_race`).

Each action has its lemma (`ReserveKeeps` .. `CrashKeeps`); `NextKeeps` composes
them, and `RowsMove` shows that each step that writes a row moves it along the
lifecycle. For the quota, what is counted is a set of units, so that its sum is a
cardinality: an intent adds at most what it reserves (`ReserveRoom`), and every other step
keeps the units within what they were (`OthersLighter`, `UnitsShrink`), because an upload
under way holds its whole reservation (`QuotaOK`) and records no more than that.

`Realtime_proofs` proves, for any sockets, accounts, sessions and overlapping passes and
any size of a scan,

- `Inductive`: `Spec => []IInv`,
- `NoHoles`: `Spec => []NoHole`,
- `FewLastWords`: `Spec => []LastWords`.

That nothing is left out does not follow from the position, which an overlapping pass may
take back: `PeerOK` says that a live socket was sent all it is owed up to its position
and that what it was sent has no hole, and `PassOK` that a pass at work has
sent, itself or through others, all before the row it is at.

`Rooms_proofs` proves, for any accounts, sessions, requests and page size,

- `Inductive`: `Spec => []IInv`, `Types`: `Spec => []TypeOK`,
- `CreatedOnce`: `Spec => []AskedOnce`,
- `ReadsFurthest`: `Spec => []ReadsHeld`,
- `WalksCover`: `Spec => []ListingCovers`,
- `OnlyMembersRead`: `Spec => EndedMovesNothing`.

`RowsOK` has the uniqueness of the tables; `CreationsOK` ties each answer to its row and to
the request that made it; `ReadsOK` says that a read position is the furthest any
device was told; `ListOK` that a walk has left behind nothing it must show - it was got, it
was announced after the walk's position, or it is still ahead. `PageIsHead` says that a
page is the head of what is due, from `MaxIs` and the well-foundedness of the numbers.

`ClientSend_proofs` proves, for any users, messages, requests and days,

- `Inductive`: `Spec => []IInv`, `Types`: `Spec => []TypeOK`,
- `AuthorsKept`: `Spec => []StoredForAuthor`,
- `GenerationsApart`: `Spec => []Isolated`.

from `ClientSendAssumption` (the types of the constants). The session that is resumed and
the logins run side by side, so nothing follows from the screen alone. `RequestOK` says whose
credentials each request carries and when it may still be believed; `ClientOK` that what waits and
the timers are of this generation and its user; `Alone` that a generation is entered by one
chain of requests (login, `/me`, load), that the screen has one such chain under way whatever
its generation, and that any other is the resumption's, of generation 1;
`LoadFirst` that no other messages are asked for while that chain loads. What an answer of an earlier
generation cannot do is then left to `current(g)`, as in the code. The parts that speak of
messages shown or read are claimed of generations no earlier reset was carried out in (`Clean`).

`Composer_proofs` proves, for any users, conversations, texts and files,

- `Inductive`: `Spec => []IInv`,
- `MessagesAreOwn`: `Spec => []OwnMessages`,
- `OneKeyInductive`: `Spec => []OInv`, `TextsOnce`: `Spec => []StoredOnce`.

`EntryOK` and `CookieOK` say that between two users nobody is signed in and that the
browser's session is the shown user's or none; `DraftOK`, `WaitingOK` and `SendOK` whose the
draft, the waiting messages and the send under way are; `UploadOK` that a file is nobody's
before its upload is served. Attachments are missing from this list: they may be another
user's, and it is `bind()` that keeps them out.

`OInv` counts the keys that carry a text: its stored message, the request still to be served,
and what waits for a retry. A draft that may be sent is under no such key, because a send that was
not refused empties the composer. A send the server refused keeps its draft, and is refused for
good: an attachment that could not be bound never can be again (`Spoilt`), so the next send
of the text is the only one that can be stored.

`Operations_proofs` proves, for any versions, limits, numbers of databases, backups and
restores, and any faults and deaths,

- `Inductive`: `Spec => []IInv`, `Types`: `Spec => []TypeOK`,
- `AlwaysWhole`: `Spec => []TargetWhole`,
- `NothingServedIsLost`: `Spec => []Kept`,
- `FailsWithoutTrace`: `Spec => []RolledBack`,
- `CursorsOfOneHistory`: `Spec => []EpochNames`,

from `BackupAssumption` and `OperationsAssumption` (the types of the constants).

None of these follows from the state between two renames, where the target may be empty and
what was served be spread over two directories. `RestoreOK` says where each part is:

- `MovedOK`: before the way back, rename `i` was made exactly if it lies before the present
  step and there was something to move (`Applies`); on the way back, what was made is a first
  part of the renames;
- `LiesOK`: what was at the target is there or in the recovery directory, each part in one of
  them, and what was staged is at the stage or, its way being free, at the target;
- `MadeOK`: a rename that was made and not yet taken back is in effect, one that was not
  made or was taken back is not. After a failure on the way back a rename may be either,
  and nothing is claimed of it.

`KeptOK` and `WholeOK` then speak of what the restore found at the target (`restore.before`)
while it is under way, and of the directories themselves when it is over; `DirsOK` that
recovery directories are used in turn, so none that holds anything is written; `EpochsOK`
that only what a restore staged has an epoch of its own. Each action has its lemma, and each
rename, forward or back, is one case of it.

`ClientSync_proofs` proves, for any number of messages, size of a page, connections lost,
requests that fail, timers and lists,

- `Inductive`: `Spec => []IInv`,
- `CursorCoversNoGap`: `Spec => []NoGap`,
- `CursorOnlyAdvances`: `Spec => CursorNeverRetreats`,

from `StreamAssumption` and the hypothesis `ResetsAlone`: in each regime either no cursor
expires, and then everything else may happen, or cursors expire any number of times and no
connection is lost, no timer syncs and no list is asked for. Both regimes of the run satisfy
it, and it cannot be weakened to any of the three: with `weeks` 1, each of a lost connection,
timers and lists alone makes `NoGap` false (the first and the last of the findings about
resets).

`NoGap` speaks of rows and tombstones at the cursor; what makes it last is what is still under
way. `ToldOK` is the strengthening: each creation up to the cursor has its row or a tombstone,
and each deletion up to it has a tombstone, or lies within the snapshot's floor, shows no text,
and nothing under way (`InFlight`: frames and answered pages) still carries that text
(`Silent`). It rests on

- `LogOK`: a message is created once and deleted once, later;
- `WireOK`: what a connection carries comes after the position of its ready frame;
- `TasksOK`: a page holds every event from where it was asked to where it ends, a listing
  is not older than the position its recovery goes on from, and no sync was asked for from
  beyond the cursor (`Behind`);
- `AloneOK`: what starts over is the only recovery, and its connection's frames come after
  the position it goes on from.

`AppliedRow` and `AppliedTold` say what applying a set of events makes of one row and of
`Told`; `ConcatProperties` of the library what appending an event makes of the log.

In all of these modules each action has a lemma that it keeps the invariant, frame lemmas say
what survives a step that leaves part of the state alone, and the last theorem composes them.

Every safety invariant, action property and refinement that a passing run checks is so stated
by a theorem. Only model-checked are `RetentionDrains`, `Converges`, `CondemnedGoes`,
`ReservationsReturn`, `Settles`, `DeadCloses`, `Delivers` and `ComposerFrees`: liveness
under fairness, which the proof system does not reach.

## 5. Abstractions

- **MessageStore**: one server and one sender; a row's conversation, text and files
  are all a request is. The policy does not change (`policyRoutesEnabled` is
  false). Which rows a limited `SELECT` without an order returns is any choice of
  that many.
- **EventStream**: one conversation; events hidden from the reader and the scan limit
  of 1000 raw rows are left out, and `Page` stands for both limits of 100. A
  rotated epoch acts on a cursor as its expiry does.
- **ClientSync**: one signed-in client and one tab; no login or logout while it runs
  (`ClientSend` has those). At most one
  recovery of an earlier connection and one of the timer are under way; the
  window's activation is another timer. Retry delays are left out: a closed socket
  may reconnect at any time. Conversations, receipts and files of a snapshot
  follow the rule of messages.
- **ClientSend**: one tab of one browser; tombstones are left out, and of the recovery what
  it does to messages and to the cursor is kept, without positions; a page takes any of the messages
  there are. Only requests whose callers can tell are split at their headers. Continuations that JavaScript runs in one
  turn may interleave with others here: more behaviours than the code has.
- **Rooms**: the transaction of a request and its answer are one step; a crash between them is
  a repeat of the request.
- **Composer**: sessions begin with `handleLogin()`; the resumption of one and the resets of
  `sync()` are `ClientSend`'s. The end of a generation and the render that follows are one step; retries are
  answered at once; every user is a member of every conversation.
- **Sessions, Rooms**: what the authenticator refuses changes nothing and is left out.
  `last_message_at` is left out, and a message may have expired whenever it is asked for. `GET
  /read`, which changes nothing, is left out. The web client asks for the first page of users
  only; the walk through all pages is what the route offers.
- **Realtime**: heartbeat and polling as above; `ClientSync` has the client's end of a socket,
  polled by one pass at a time.
- **BackupStore, Operations**: hashes are whole or torn copies; a backup before its rename is not
  modelled. Two things are outside the code and given as any outcome: the operation
  lock, and the finalization that rotates the epoch. Nothing in the program calls
  backup and restore yet, only its tests do. The sweep decides by rows, so objects that
  an interrupted restore leaves under the files directory are never swept.
- **JobStore**: one runner, delays and leases as above. The order in which due jobs
  are claimed is any.
- **FileStore**: one server; a batch takes any of the rows due; sizes are units; one
  late handler per file is followed.

Not modelled, and why: validation and formatting of input, password hashing and
signatures (pure functions, taken to do what they are for); logging and audit
(nothing reads them back); configuration; platform shells; installation and build
scripts; the legacy web client; read markers, older messages, downloads and
the retention panel of the screen (whose route is off). Several tabs of one
browser, which share a cookie and nothing else, are left to a later version.

## 6. The plan

Done: the core (`MessageStore`, `FileStore`, `ClientSync`), then what surrounds it
(`ClientSend`, `Composer`, `Rooms`, `Realtime`, `Operations`), and the proofs of everything
that passing runs check but liveness. What is left, the most important first:

1. The two abstract specifications below, and that the modules implement them.
2. `NoGap` for clients that start over beside a lost connection, a timer or a list, once the
   code keeps an older snapshot from being published over a newer one.
3. Several tabs over `ClientSend` and `ClientSync`; read markers and older messages in `Composer`.

Abstract specifications still to be shown implemented: a send as seen by its user
(pending, then confirmed or failed, never both), the reader's view of the log (a
prefix, then a complete one).

## 7. Running it

    tlc -workers 2 -config MessageStore.cfg MCMessageStore
    tlapm MessageStore_proofs.tla

and likewise for the other runs and for `FileStore_proofs`, `Realtime_proofs`, `Rooms_proofs`,
`ClientSend_proofs`, `ClientSync_proofs`, `Composer_proofs` and `Operations_proofs`.

`PROJECT.json` names every run with its module, configuration and properties, the
lines each definition translates, and for every property a mutated definition (the
operators marked "Seeded bug") that breaks it.
