# A TLA+ model of the Slack–HubSpot bot

The bot tracks Slack threads in HubSpot. A root message that mentions the bot with
a ticket links the thread to that ticket; from then on the thread's transcript is
kept in one note of the ticket, its files are copied to HubSpot, and the state of
the work is shown in Slack by replies and reactions. Events arrive by HTTP, are
recorded durably, and are worked off by goroutines of any number of replicas that
share a database and coordinate through leases in it.

This directory models the bot in TLA+: the durable coordinator and the storage drivers
below it, the workers with their remote calls, the HTTP service, the configuration and
the process around them. TLC checks the models on small instances; TLAPS proves the main
safety results, of the coordinator, the drivers, the workers and the process, for every
value of the constants. Source paths below are relative to the repository. `PROJECT.json` has the line-by-line
map from definitions to code.

    tlc -workers 2 -config MCStoreThreads.cfg MCStoreThreads
    tlapm StoreProofs.tla
    tlapm WorkerProofs.tla

## Contents

1. [The system](#the-system)
2. [What is hard](#what-is-hard)
3. [Modules](#modules)
4. [State and actions against the code](#state-and-actions-against-the-code)
5. [Abstractions](#abstractions)
6. [Runs and bounds](#runs-and-bounds)
7. [Fairness](#fairness)
8. [Proofs](#proofs)
9. [Where documents and code disagree](#where-documents-and-code-disagree)
10. [Not modelled](#not-modelled)
11. [Plan](#plan)

## The system

**Store coordinator, events and threads** (`internal/store/records.go`, `work.go`).
State: one record per thread (`domain.Thread`: ticket, note, tracking flag,
revision, requested and completed generation, attempts, retry time, lease token
and expiry, state string, timestamps of the last message, sync and command), and
records of the events and of the messages already acted on. Operations: `Record`
(link, message, sync, untrack, resume, status, help, reply), `Claim`, `Renew`,
`Validate`, `SaveNote`, `Complete`, `Fail`, and the reads `Get` and `Counts`. Each
is one serializable transaction. Correct when: no event that asked for a
synchronization is taken for synchronized without having been; a worker that lost
its thread can no longer write it; ticket and note never change; the newest
command by Slack timestamp decides; one message is acted on once although Slack
delivers it under several event IDs.

**Store coordinator, notification outbox** (`notifications.go`). State: jobs, each
a reply to deliver or a request to update a thread's reactions, with a lease and
a retry time. Operations: the two claims, renew, complete, fail, `QueueReactions`;
`Complete`, `Fail` and the end of a tracking reply queue reaction jobs. Correct
when: the last visible change of a thread is followed by an update of its
reactions, although requests are merged; one reaction job of a thread at a time
is leased; no job refers to a thread that does not exist.

**Store coordinator, shared uploads** (`uploads.go`). State: one record per Slack
file of a workspace: the HubSpot copy, lease, attempts, retry time, timestamp of
the last manual retry. Operations: claim (under a thread's lease), renew,
complete, fail (under the upload's own lease, which outlives the thread's).
Correct when: a copy is never replaced; a lost claim never writes; a permanently
failed file is tried again once per explicit request.

**Domain contracts** (`internal/domain`): the types and the interfaces `Store`,
`Slack` and `HubSpot` that the other parts meet through.

**Transcript worker** (`internal/worker/worker.go`). `Concurrency` goroutines per
process loop: deliver one reply, claim and process one thread, deliver one
reaction update, sleep. `process` runs `reconcile` under a heartbeat goroutine that
renews the lease every third of its duration and cancels the work when a renewal
fails. `reconcile` validates the lease, reads the thread from Slack, copies
attachments, renders, finds or creates the note, saves the mapping, updates the
note, validating before each remote write; then `process` completes or fails the
lease. Correct when: a synchronized thread's note shows every queued message;
there is one note per thread; everything queued is shown in the end.

**Reaction worker** (`internal/worker/reactions.go`). `reconcileReactions` compares
the bot's reactions on Slack with what the thread's record calls for, removes and
adds, reads the record again, and repeats when it changed. A lost outbox lease
queues another job. Correct when: once a thread is quiet, its reactions are those
its record calls for.

**HTTP ingress** (`internal/httpapi/server.go`). `SlackEvent` checks signature and
shape, turns the message into an event, for a link reads the mapping and, when
there is none, validates the ticket at HubSpot, and records. A 503 makes Slack
deliver again. Correct when: what it decided from its reads is still right when it
records.

**Slack and HubSpot clients** (`internal/slack`, `internal/hubspot`): HTTP calls
with retry classification, pagination of a thread, the marker search for a note. Correct
when: pages lose no message and looping cursors end; a repeated create finds the note the
first one made; an error is retried if and only if trying again can help.

**Rendering** (`internal/render`): command parsing, which messages a transcript
shows, layout of notes and replies, the size limit.

**Storage backends** (`internal/store/{backend,postgres,sqlite,spanner}`): keyed
records, scans, and `Update`, a serializable transaction retried on conflict. Correct
when: whatever overlaps and is retried, each call is one step on the records, and its
answer is of the attempt that committed.

**Process lifecycle** (`cmd/bot`): start-up checks, readiness, and a shutdown that
stops claims, drains HTTP, cancels the workers shortly before the grace deadline
and lets them release their leases. Correct when: it ends, claims nothing once told to
stop, and a clean stop leaves no lease behind.

**Configuration** (`internal/config`): settings, the environment and secret files they
name, and their validation. Correct when: what is accepted is what the document means, and
nothing acceptable is refused, although the code walks Go maps, in an order that differs
from run to run, and rewrites them on the way.

**Migration, telemetry, generated code**: one-shot schema creation, counters, ogen and
sqlc output.

How they interact: the ingress and the workers share nothing but the store. The
ingress calls `Record`; workers call everything else. Replies and reactions reach
Slack through the outbox only. HubSpot and Slack are called outside transactions,
between a validation and the write that depends on it.

## What is hard

`PROJECT.json` lists each hazard at its line. They are of seven sorts:

- *Interleaving of workers and events.* A message, an untrack or a resume arrives
  at any step of a synchronization. Generations, revisions and tokens must tell
  what the synchronization covered and whether it still may write.
- *Stale callers.* A lease is a value in a goroutine's hands. It may be used after
  expiry and recovery, after an untrack and a resume, in another replica, twice.
- *Remote effects that outlive their lease.* HubSpot applies a request after its
  sender was cancelled or crashed, in an order of its own, or never.
- *Merged work.* Events merge into generations, reaction requests into jobs, files
  of several threads into one upload. Each merge can lose the last request.
- *Time.* `now` is read by the caller before its transaction starts, so a
  transaction may judge an expiry by an instant already past.
- *Attempts whose outcome is unknown.* A commit, a create or an upload whose answer is
  lost may have happened; an event whose acknowledgement is lost comes again. Each is
  repeated, and must not be done twice.
- *Many requests for one answer.* A thread, a ticket's notes or a set of reactions is
  read in several requests while it changes.

## Modules

| module | what it is | extends |
| --- | --- | --- |
| `ThreadRecord` | one thread record and what each operation does to it: pure operators | |
| `OutboxRecord` | one outbox job, and the merging and blocking of jobs: pure operators | `ThreadRecord` |
| `Store` | the coordinator's transactions as actions, callers left free | both |
| `Uploads` | the shared uploads over the threads of `Store` | `Store` |
| `Worker` | transcript workers and HubSpot: the lease, the note, the heartbeat | `Store` |
| `Attachments` | the files of a pass and HubSpot's folder of copies | `Uploads` |
| `Reactions` | outbox delivery, and the reconciliation of reactions with Slack | `Store` |
| `Remote` | the errors of remote calls, whether to retry, and when: pure operators | |
| `Requests` | one durable job, request by request: pages, authors, notes | `ThreadRecord`, `Remote` |
| `Records` | what a driver promises: each call one step on the records | `OutboxRecord` |
| `Backend` | the three drivers: pools, attempts, conflicts, commits; implements `Records` | `OutboxRecord` |
| `Invocation` | what a mention of the bot asks for | |
| `Ingress` | the HTTP service: handlers between Slack, HubSpot and the store | `Store`, `Remote`, `Invocation` |
| `Config` | loading of one section of the configuration | |
| `Service` | the process: start, serving, workers' loop, shutdown, crash | `Ingress`, `Config` |
| `MC...` | the events, deliveries, failures and documents of the checked instances | |
| `StoreProofs` | types; the work queue; newest command, one answer per message; reaction jobs | each `...Proofs` |
| `BackendProofs` | the drivers implement `Records`; a recorded event is done once | extends the module |
| `UploadsProofs` | types, meaning, fencing, copies and retries of uploads | it is about, and |
| `WorkerProofs` | workers implement the store; what notes show, and when there are two | `StoreProofs` |
| `AttachmentsProofs` | passes implement the uploads; why files fail or stay behind | `UploadsProofs` |
| `ServiceProofs` | acknowledgement, one summary, shutdown, loading of the configuration | |
| `RequestsProofs` | pages, notes and backoff of one job | |
| `ReactionsProofs` | reaction workers implement the store; threads at rest are marked | `StoreProofs` |

Two abstract specifications hold the layers together.

`Store` says what the coordinator does for *any* caller. Every lease `Claim` ever
returned may be used again, at any time, by any operation with any outcome. `Worker` is
one detailed system over it: real callers, in the order the code calls. The property
`ImplementsStore` says that every step of `Worker` is a step of `Store` or leaves the
store alone, so what is proved of free callers holds of the workers. It is checked and
proved, and so is the same of `Reactions` over `Store` and of `Attachments` over `Uploads`.

`Records` says what the coordinator may take for granted of a driver: that `Update` and
`View` are single steps on the records, answered with what that step found. `Backend`
has the drivers' transactions, which overlap, conflict, break, and run their functions
again. It instantiates `Records` (`INSTANCE Records WITH call <- ...`), mapping each
caller's transaction to the call it has open, and `ImplementsRecords` is the abstract
specification as a property, checked and proved as well. `Store`'s actions are therefore single steps for a reason,
not by assumption.

The four modules about a pass split it by concern and not by time. Each follows the
whole of a pass, leaving to the others what their concern does not depend on: `Worker` the
leases and the note, `Attachments` the files, `Reactions` the outbox, and `Requests` the
requests of reading a thread and finding its note, under a lease that is kept.

## State and actions against the code

**Threads.** `threads[k]` is the record of thread `k`; `NoThread`, the zero record,
stands for none. `events` and `actions` are the deduplication records. `Record(e,
now)` is the whole of `Store.Record`: the duplicate test, the transition (`Effect`,
by kind and command), the reply (`Replies`) and the write. Its refusals (a message
of an unknown or stopped thread, an older command) write the event and, for a
command, the reply, as the code does. `Claim` scans and takes the first eligible
record; a scan's order is the backend's, so the action takes any. `Renew`,
`SaveNote`, `Complete` and `Fail` start with the guard `Validate`.

**Outbox.** `outbox[id]` is the job `id`; replies carry their event's ID, reaction
jobs a fresh one. `WithReactions` is `queueReactions`: it adds a job unless an
unclaimed one exists. `Settle` is the shared end of completing and failing: a
tracking reply that is over queues reactions.

**Uploads.** `uploads[f]` is the record of file `f`. `ClaimUpload(l, f, now)` needs a
valid thread lease `l`; `UploadClaimable` and `ClaimedUpload` are its decision and
its write, the manual retry included. The claim of a copied file only returns the
copy, which is no step.

**Workers.** `worker[w]` has the program counter and the locals of `process` and
`reconcile`:

| counter | the code is about to |
| --- | --- |
| `idle` | claim |
| `claimed` | wait out the coalescing delay and validate |
| `validated` | read the thread from Slack, handle attachments |
| `read` | find the note, or validate and update the known one |
| `found` | validate and create, or save the note found |
| `creating`, `updating` | have HubSpot's answer |
| `created` | save the mapping |
| `saved` | validate and update |
| `updated` | complete |
| `failing` | fail the lease |

`wire` holds the requests HubSpot has neither applied nor lost, `notes` its notes.
`Heartbeat` renews at any step. `Drop` is `ErrLeaseLost`: the worker forgets its
work and writes nothing. `Error` is any failing call, `Cancel` a failed renewal or
the shutdown, `Crash` the end of the process; each leaves the worker's request on
the wire.

**Attachments.** `files` is the loop of `reconcile` over the files; `NoWork`, `UseCopy` and
`StartCopy` are the answers of `ClaimUpload` (nothing to do for now or for good, a copy,
a lease). `FindFile`, `Fetch` and `SendCopy` are `copyFile`; a copy that HubSpot makes goes
to `folder`, where it stays whatever becomes of its worker. `DropCopy` is a lost upload
lease: it ends the pass like a lost thread lease, although it is about the file alone.
`EndPass` is `Complete` with or without a retry time, or `Fail`.

**Reactions.** `Look` reads the record, `List` the reactions in Slack, `Call` sends one
removal or addition, `Recheck` reads the record again and starts over when it changed.
`Finish` completes or fails the job; after a lost lease, `Requeue` asks for another.
`marks` are the bot's reactions on the messages. A request whose sender stopped waiting
stays in `wire` and is applied or lost at any later step.

**Requests.** `read` has the locals of one pass: the page or note looked at, the messages
read so far, the cursors seen. `GetPage`, `GetName`, `GetPermalink`, `ListNotes`,
`LookAtNote`, `CreateNote`, `UpdateNote` are single HTTP requests; `NoPage`, `BrokenPage`,
`NoPermalink`, `NoNotes`, `FailedWrite` are their failures, with any response the instance
lists. `Fails` classifies the error (`Remote`), and writes the failure and the time of the
next attempt (`retryAt`) to the record. `Post`, `Delete` and `NoteGoes` change Slack and
HubSpot between any two requests; `Arrive` delivers the event of a change.

**Drivers.** `caller[c]` has the call, its attempt number and its transaction: what
the function read, what it wants to write, and the records it runs on. `Attempt` runs the
function; `Commit` writes; `Conflict` and `Wake` are the failed serialization and the
delay before the next attempt; `Break` is a broken connection, an expired context, or a
commit whose answer is lost. `Check` and `Migrate` are calls as well.

**Service.** A handler goes through `Send` (everything up to the first read of the store),
the read of the thread, the request for the ticket, the record, and the answer; `Ingress`
has one action for each, with the code's failures. `Expand`, `Source` and `Accept` load the
configuration, `Restart` starts over and loads it again; `Proceed` does one stage of `run`; `Look`,
`Take`, `PassOn` and `Release` are a worker's loop around a claim, which ends well or cancelled
(`Released`), with an error of its own (`FailedWork`), or in a lost lease; `Stop`, `Shutdown`,
`Cancel`, `Drained`, `GraceEnds` are the stages of the shutdown, and `Crash` is the end at any
step. Leases and jobs survive the process; everything else starts over.

## Abstractions

- Lease tokens are random in the code and counters here. `Claim` draws a number
  never drawn for that record before, which is all that randomness is for. The
  attempt number serves as an outbox job's token, since nothing resets it.
- The zero time, the empty token and the empty Slack timestamp are 0. Slack
  timestamps are naturals, ordered as `newer` orders their parts.
- A transcript is the set of the messages it contains, a message its event. It is
  taken as posted when recorded; Slack showing it earlier only makes a
  transcript contain more.
- `Validate` before a remote request is merged with sending it, and the request
  takes effect at any later step, after the lease is lost included: the gap
  between the check and the effect is kept, in one place.
- A caller's `now` lies at most `Lag` behind the clock. With `Lag = 0` clocks are
  read inside the transaction; the run `store_lag` uses 1.
- `RoomFor` bounds the reaction jobs: a step that would need one more waits (in
  `Backend`, by `HasRoom`, the attempt of a completion). No safety property can fail for that reason; the liveness run is free of it, as
  its single reaction job is never claimed and always absorbs the requests.
- `queued`, `covered`, `tried`, `heard`, `dirty`, `reopened`, `overwritten` and
  `lateCreates` are history, read by no guard. `queued` has the events that asked
  for a synchronization; `covered` those recorded before the claim of some completed
  lease; `tried` those before the claim of the lease that ended last.
- Fields nothing decides by (who changed a record, partial errors, ticket URLs,
  texts) are left out.
- *Backend.* What the databases promise is assumed and stated in the model: a commit
  succeeds only when nothing its transaction read was written meanwhile, PostgreSQL
  reports a conflict then and sometimes without cause, Spanner's library runs the
  function again without a bound, and SQLite's immediate transactions exclude each
  other. Spanner's transactions do not see their own writes, as its buffered mutations do
  not. The calls are four of the coordinator's operations, the
  check and the migration.
- *Requests.* Instants are relative to now, and durations are integers of a few bits that
  overflow as Go's do, so that doubling a delay meets the largest integer.
- *Ingress.* Authentication and decoding decide by what is wrong with a request, not by
  its bytes. Deliveries that are refused change nothing; the order in which the checks
  refuse them, and the status each answers with, is checked by `CodesInOrder`, an
  assumption TLC evaluates, on cases of `server_test.go`.
- *Slack delivers until it is acknowledged.* Slack itself gives up after three retries.
  A bot that is away for longer misses events, and nothing in the code recovers them
  until the next event of the thread.
- *Config.* One section stands for all, since they are resolved one after another and
  alike. A key has at most two suffixes (`token`, `token_env`, `token_file_env`): the base of a
  chained source is inserted into the map while the loop ranges over it, and may or may not be
  visited by it, which is a choice of `Source`. A third suffix would only repeat the choice.
  A template and a MIME type are good or not; the settings without a check are left out.
- *Service.* The clock does not tick: leases that expire and are recovered are the
  subject of `Store` and `Worker`. What a worker does between claim and release takes any
  time, forever included. The storage check of `/readyz` only reads and is left out.

## Runs and bounds

| run | module | question | takes |
| --- | --- | --- | --- |
| `store_threads` | `MCStoreThreads` | one thread, every lease used at any later time | 2 min |
| `store_outbox` | `MCStoreOutbox` | replies, reaction jobs and repeated synchronizations | 2 min |
| `worker` | `MCWorker` | two workers, HubSpot, faults: safety, refinement, liveness | 1 min |
| `uploads` | `MCUploads` | one file of two threads, every claim used at any later time | 1 min |
| `attachments` | `MCAttachments` | two workers, two threads, one file, HubSpot's copies | 0.5 min |
| `reactions` | `MCReactions` | two workers, Slack's reactions, faults | 1.5 min |
| `requests` | `MCRequests` | one job, request by request, while everything changes | 1 min |
| `backend` | `MCBackend` | overlapping calls under each driver implement `Records` | 1 min |
| `service` | `MCService` | from configuration to shutdown, two handlers and a worker | 2 min |
| `store_delay` | `MCStoreThreads` | does an attachment's delay hold back text? (it does) | seconds |
| `store_lag` | `MCStoreOutbox` | two live reaction leases under a late clock? (yes) | seconds |
| `worker_late` | `MCWorker` | is a late overwrite always repaired? (no) | seconds |

**`store_threads`** checks `StateMeaning`, `NoQueuedEventLost`, `FailureCoversAllQueued`,
`NewestCommandDecides`, `OneReplyPerMessage`, `FencedForever` and `MappingsKept`. Its six
events are a link, a message, an untrack delivered under two event IDs, a later
resume and a sync, in any order. Three claims are what the longest interesting story
needs: one lease that is lost, one that takes over and is lost to an untrack, one
after the resume. Clock 1 to 3 with a lease of 1 lets a lease expire twice.

**`store_outbox`** has a link and an untrack, whose replies queue reactions, and a message
that makes the thread synchronize; two reaction jobs, and two claims of each job, so that a job is
recovered while another is added. It checks `ReactionsWillFollow` (a visible change has a
job that will show it), `ReactionJobHasThread` and `OneLiveReactionLease`.

**`worker`** has two workers (a third adds a third stale request of the same kind), three
events each arriving at any point, a budget of two faults (an error, a cancellation,
a crash, a delay, an attachment to retry), two attempts before a failure is permanent
and a lease of 2. Of the bounds on clock (8), claims (6) and notes (3) none is ever
reached with two faults, so they cut off nothing. It checks `UpToDateIsShown` (a thread
with nothing left to do shows every queued message, unless a lost lease's request wrote
last), `NoteOnlyTwinnedLate` (a second note needs a create applied late),
`ImplementsStore` and `QueuedIsShown`.

**`uploads`** has two threads showing one file, each linked and synced by command, and three
claims of the file: it can fail for good, be reopened for one thread, fail again and be
reopened for the other. One claim per thread is enough, because a lease that is live
sees the attachment retry a later sync asks for. It checks `UploadMeaning`,
`OneRetryPerSync`, `UploadFencedForever` and `CopyKept`.

**`attachments`** has the same file and threads, one of them untracked at any moment of
the copy, two workers, two attempts and a fault: an error, a crash, a delay, or a
cancellation by the shutdown or a failed renewal. The worker whose thread is untracked
holds the file's lease, and the other thread needs it: `FailedForCause` (a file is failed for
good only by a failure of its own), `NoFileForgotten` (a pass that leaves a file uncopied
is tried again, unless it was the last attempt), `LeftCopyIsFound` (a copy in HubSpot that the store does not know of
comes to be known, by the next claim) and `PassEnds`.

**`reactions`** has two workers, a link, a message and an untrack, arriving at any call of a
reconciliation, and one fault: an error, a crash, or a request Slack applies after
its sender gave up. Four claims of each job and clock 4 cover a job that is lost once and repeated.
It checks `QuietThreadIsMarked` (a thread with no job left carries the reactions its record
calls for, unless a request nobody waited for came last, or a worker crashed at a lost lease) and `EventuallyQuiet`.

**`requests`** has three messages by two authors on pages of one besides the root, two
other notes on pages of one, a maximum integer of 7, three attempts and one failure, with
every response the clients tell apart (limits with and without a delay, server errors, permanent
ones). It checks `ThreadIsWhole`, `OneNote`, `BackoffInBounds`, `Settles` and `PassEnds`.
Three messages give three pages, so that a page can be repeated, skipped or go stale
between its neighbours.

**`backend`** has two callers, each of the drivers in turn, a pool of two connections,
retries bounded by two where the code has 15, seven calls and one fault. Two callers
suffice for every conflict, which is between two transactions. It checks `ImplementsRecords`,
`AnsweredOnce` (repeating an event whose commit was reported lost changes nothing it did)
and `CallsEnd`.

**`service`** delivers a root message with a mention, the `app_mention` event of the same
message, and a reply in the thread, to two handlers; eighteen documents, good and bad, five
of them with chained sources; one
fault, which is a failing call, a lost answer, a crash, or SIGTERM. It checks
`AcknowledgedIsRecorded`, `OneSummary`, `StopsClaiming`, `CleanStop`, `LoadsWhatIsWritten`,
`ProcessEnds` and `EveryEventHeard`. The three deliveries are the ones that concern the same
message or depend on it.

`LoadsWhatIsWritten` compares every load with what the document means in no particular order
(`Acceptable`, `Means`). Accepted implies acceptable and the values meant, for every document;
refused implies not acceptable for documents without chained sources. With one, the same document
is accepted on one start and refused on the next (see below), which is the exception `HasChain`.

The three runs that end in a violation show statements of the repository's documents
that the code does not keep; see below.

Deadlock is not checked: a system whose events have all arrived and are all
synchronized has nothing to do, and a bounded clock stops.

For every property of a passing run `PROJECT.json` names a mutant, a definition
with a plausible bug marked `\* Mutation:` in its module, under which TLC finds the
property violated.

What these models made plain, besides the disagreements below:

- A lost upload lease is taken for a lost thread lease (`worker.go:222`): the pass ends
  without a completion and its thread waits for its own lease to expire. `PassEnds`
  holds in spite of it.
- A backoff base of one nanosecond jitters to no delay at all, although the comment at
  `worker.go:444` says a retry is never scheduled immediately. `BackoffInBounds` asks for
  a larger base, and every useful setting has one.
- Another note of the ticket, deleted between the page that lists it and the request for
  it, is answered 404, a permanent error: the job is parked as failed until the next
  event of its thread, though another attempt would not meet that note. Slack's client calls a
  408 permanent where HubSpot's calls it temporary, with the same end. `Settles` excepts
  exactly these two (`Misjudged`), besides denials and attempts used up against lasting
  trouble; no document says what should happen.
- A chained source such as `token_file_env` is resolved or not by chance (`config.go:296`): the loop
  inserts `token_file` into the map it ranges over, and Go may or may not visit it. If it does, the
  file is read; if not, `token_file` is an unknown field and the start fails. Without `HasChain`
  in `LoadsWhatIsWritten`, the `service` run ends in that refusal. No document offers
  such sources, so it is no disagreement. What is accepted is never wrong.
- A HubSpot request refused for good while a thread is being linked, by the second event
  of a message whose first has linked it, adds a reply that the ticket could not be validated.
  `OneSummary` is about summaries for this reason.

## Fairness

Every fairness condition is one the code or its surroundings give; each belongs to a
liveness property.

- `Worker` (`QueuedIsShown`), `Reactions` (`EventuallyQuiet`), `Attachments` (`PassEnds`,
  `LeftCopyIsFound`): weak fairness of each worker's own steps and of its taking up work, as
  every goroutine loops until shutdown and polls again after an error; of HubSpot and Slack
  applying requests, as calls have timeouts and a call that fails is in the fault budget;
  and of the clock while a retry time or an expiring lease is all there is to wait for.
- `Requests` (`Settles`, `PassEnds`): the same for its one worker, and weak fairness of
  the event that follows each change of a message, which Slack sends.
- `Backend` (`CallsEnd`): strong fairness of each caller's step. Pools queue their waiters
  and databases end every transaction, so a caller that can proceed again and again does.
- `Service` (`ProcessEnds`, `EveryEventHeard`): weak fairness of the start, as the process
  is restarted, and loads its configuration again, whenever it ends; of handlers, whose requests have timeouts; of the timers
  that cancel the work and end the grace period; and of deliveries. There is none for
  `Release`: a worker may hang, and `ProcessEnds` holds nevertheless.

There is none for the arrival of users' events, for heartbeats (a paused process does not
renew) or for any fault. The leads-to of each property names what may end it otherwise:
`QueuedIsShown` the thread that is stopped, parked as failed or overwritten by a request of
a lost lease, `EveryEventHeard` a configuration that is refused or, having a chained source,
may be on a restart.

## Proofs

TLAPS proves these for every set of keys, events, notes, files, handlers, workers,
deliveries and documents, and for every duration, lag and bound:

| theorem | of | says |
| --- | --- | --- |
| `TypeCorrect` | `Spec` | `[]TypeOK` |
| `StateAlwaysMeans` | `Spec` | `[]StateMeaning`: state, lease, generations and tracking agree |
| `NothingQueuedIsLost` | `Spec` | `[]NoQueuedEventLost` |
| `FailureParksOnlyTried` | `Spec` | `[]FailureCoversAllQueued` |
| `LostLeasesStayLost` | `Spec` | `FencedForever` |
| `MappingsNeverChange` | `Spec` | `MappingsKept` |
| `NewestCommandAlwaysDecides` | `Spec` | `[]NewestCommandDecides` |
| `MessagesAreAnsweredOnce` | `Spec` | `[]OneReplyPerMessage` |
| `ReactionJobsHaveThreads` | `Spec` | `[]ReactionJobHasThread` |
| `ReactionsAlwaysFollow` | `Spec` | `[]ReactionsWillFollow` |
| `OneReactionLeaseIsLive` | `Spec`, `Lag = 0` | `[]OneLiveReactionLease` |
| `UploadsTypeCorrect` | `UploadsSpec` | `[]UploadsTypeOK` |
| `UploadAlwaysMeans` | `UploadsSpec` | `[]UploadMeaning` |
| `LostUploadsStayLost` | `UploadsSpec` | `UploadFencedForever` |
| `CopiesNeverChange` | `UploadsSpec` | `CopyKept` |
| `RetriesAreAsked` | `UploadsSpec` | `[]OneRetryPerSync` |
| `WorkersImplementStore` | `WorkSpec` | `ImplementsStore`: every step is a step of `Store`, or none |
| `WorkersKeepStore` | `WorkSpec` | the theorems about `Spec`, with workers as its callers |
| `UpToDateIsAlwaysShown` | `WorkSpec` | `[]UpToDateIsShown` |
| `TwinsAreLateCreates` | `WorkSpec` | `[]NoteOnlyTwinnedLate` |
| `AttachmentsImplementUploads` | `AttachmentsSpec` | `UploadsSpec` |
| `CopiesKeepUploads` | `AttachmentsSpec` | the theorems about `UploadsSpec`, with passes as its callers |
| `FailuresHaveCause` | `AttachmentsSpec` | `[]FailedForCause` |
| `NoFileIsForgotten` | `AttachmentsSpec` | `[]NoFileForgotten` |
| `AcknowledgedIsAlwaysRecorded` | `ServiceSpec` | `[]AcknowledgedIsRecorded` |
| `SummariesAreShownOnce` | `ServiceSpec` | `[]OneSummary` |
| `ClaimsStop` | `ServiceSpec` | `[]StopsClaiming` |
| `StopsAreClean` | `ServiceSpec` | `[]CleanStop` |
| `LoadIsAsWritten` | `ServiceSpec` | `[]LoadsWhatIsWritten` |
| `ThreadIsAlwaysWhole` | `RequestsSpec` | `[]ThreadIsWhole` |
| `ThereIsOneNote` | `RequestsSpec` | `[]OneNote` |
| `BackendImplementsRecords` | `BackendSpec` | `ImplementsRecords`: every step is a step of `Records`, or none |
| `EventsAnsweredOnce` | `BackendSpec` | `AnsweredOnce` |
| `BackoffStaysInBounds` | | `BackoffInBounds`, for every attempt and every setting |
| `ReactionsImplementStore` | `ReactionsSpec`, `Lag = 0` | `Spec` |
| `QuietThreadsAreMarked` | `ReactionsSpec`, `Lag = 0` | `[]QuietThreadIsMarked` |

They assume the named assumptions of the modules: the empty text is no ticket, note
or copy; reply and reaction job IDs differ; durations are positive; events have
distinct IDs, a link has a ticket and exactly the commands have a command; a document's keys have at most two suffixes and its driver no source
(`ConfigAssumption`: `resolveStorage` reads the driver before any source); a thread has
a newest message (`AttachmentsAssumption`: the timestamp up to which a pass has read); Slack
gives each of its events an ID of its own (`IngressAssumption`); a ticket has finitely many
other notes and the largest integer is a natural (`RequestsAssumption`); the ID of a job, which is what a claim answers
with, is none of the words that other calls answer with (`BackendAssumption`: the code has an error in their place); a thread's timestamp is not
empty (`ReactionsAssumption`: `server.go:266` puts the message's own in its place). Three
theorems have a hypothesis besides, `Lag = 0`: that a caller's `now` is the time its
transaction commits. Without it `OneReactionLeaseIsLive` is false, as `store_lag` shows, and
the two about `Reactions` rest on it: one live lease per thread.

Each theorem follows from an inductive invariant that says what the property leaves out.

**The work queue** (`WorkInv`). `NoQueuedEventLost` is not inductive: what completing covers
depends on the lease, what the lease covers on when it was claimed. `WorkInv` adds the
two missing links. `KeyInv(k)`, per thread: the record is sound, its token is at most
the last one issued, and the two properties hold. `LeaseInv(l)`, per lease: its token was
issued, its generation is at most the thread's requested one, and if it is equal,
everything queued is in what the lease has seen. Completing raises `completed` to
the lease's generation at most; when that reaches `requested` the two generations are
equal, so everything queued has been seen. A new event raises `requested`, and the
equality is gone for every lease there is. The same argument proves that a failure
parks only what was tried.

Fencing: a lost lease differs from the record in token or revision, or the record is
not tracked. Tokens are only replaced by 0 or by one never drawn before, and tracking is
only resumed with a new revision and no token. So no step brings the pair back.

Each record operation has a lemma (`QueuedSound`, `UntrackedSound`, `CompletedSound`,
...) stating what it keeps of a sound record; each action has one that lifts it to
`WorkInv`; `NextWork` puts them together by cases of `Next`.

**Commands and answers** (`CommandInv`, `EventInv`). That the newest command decides is not
inductive, as the record keeps only a timestamp. `CommandInv(k)` says of every command the
thread has heard: it is not newer than `lastCommandTS`, and if it is the one with
that timestamp, tracking is as it says; and that `lastCommandTS` is 0 or the timestamp of a
command that was heard. No other operation changes tracking or that field (`SameTracking`).
`EventInv` ties the three places in which an event leaves a trace: a recorded event has its
message among `actions`, no two recorded events have the same message, and a reply in the
outbox is of a recorded event.

**The outbox** (`OutboxInv`). `JobsSound` says what a job is: a lease makes it present, and a
job that concerns reactions has its thread. `WillFollow(k)` is the property turned round: a
thread whose marks may be stale has work left (`CoreWork`), a tracking reply that is not
delivered, or a reaction job nobody has claimed. Each operation is a composition of two
edits, one job moving on (`Settle`) and a request joining or adding a job
(`WithReactions`), and has a lemma for each. `OneLive` is kept because `ClaimReaction` looks at every
job of the thread; with a lag, a renewal may pass a check the claim has already failed.

**Transcripts** (`TranscriptInv`). The theorems about the store say what a lease has seen; the
note is written from what a *worker* has read. `WorkerInv(w)` and `RequestInv(r)` say, of each
worker and each request on the wire: its lease is one that was claimed, and a body read under it, while it
still owns the thread, contains everything covered before and everything seen at its claim
(`Whole`). A body read before an event arrived is not complete, but then its lease's generation is
behind, and completing it leaves the thread unfinished. `NoteInv(k)` says that the note shows all
that is covered, unless a request of a lost lease wrote last, and counts: a thread has at most one
note more than creates applied late. The count is not inductive by itself: a worker that has
looked for a note and found none will create one, so while its lease is owned every note
there is must be a late one (`Searched`). `OneWorkerPerLease` keeps two workers from creating
under one lease. `NewestInv` says that recorded events are finitely many, since
`Complete` takes the timestamp of the newest message.

**Files** (`CopiesInv`). `PassInv(w)` ties the locals of a pass to the store: a pass that still holds its
lease has, for each file it is through with, an answer (`Answered`: a copy, a failure, or one
of the two exceptions that the property names) or a retry noted, or is its thread's last attempt; a failure about to
be recorded as the file's own is of a file in `troubled`. `AnswersKept` says that no
step takes an answer from a pass that holds its lease: the only step that reopens a file is another
thread's sync, which the exception names.

**The process** (`StopInv`, `CleanInv`). A worker that claims after the stop is at its last
claim: it holds what it claimed or is about to look at the stop (`StopInv`). A stop is clean
because every lease in the store is held by a worker of the process (`AllHeld`), unless a crash or an
expired grace period lost one, which is what `lost` records; a process that ends with its workers
done has no holders, hence no leases.

**Acknowledgement and summaries** (`AckInv`, `SummaryInv`). A handler carries the event of a
delivery (`Bears`), and one that is about to answer 200 carries an event that is recorded, or whose
message is. For summaries, `ToldOnce(k)` is the property with its witness: a linked thread has
exactly one reply with the summary, one that is not linked has none. `Asks` bridges the
read and the write: a handler that is recording a link with another reply than the summary found the
thread linked, and no step unlinks it; one that found it unlinked may have been overtaken, and then `Record`
decides by the record, in its own transaction.

**Loading** (`ConfigInv`). The loop rewrites the section key by key, and a chained source is rewritten
twice or once. What stays is where a key leads: `Traced` says that two keys of one field lead, through whatever
sources are left to read, to the same text or both to nothing. `Tracing` says that every key of the document is
traced by a key of the section and the other way round, and that a field has several keys in one if it has in the other;
each step keeps it, since a base leads where its source did. So what is accepted, having no source left, is what
the document means, and each refusal on the way is of a document that is not acceptable. For the refusal of an unknown field
`Resolving` is needed: without chained sources, a key that names a source has yet to be looked at, so none is left at the end.
This is where a chained source escapes.

**Pages and notes** (`RequestsInv`). `PagesInv` says where a pass stands in the thread: every
message that was there when it began and still is, up to the cursor in hand, has been read; and a page leaves nothing
out between its own cursor and the next one. So a pass whose cursor is past the end has read
all of it, though pages shift as messages come and go. `NoteInv` does the same for the lookup of the note: while a note with the
marker exists, it is known, on the page in hand, or ahead of the lookup, so a lookup that ends without one finds
none to double.

**Delays** (`BackoffStaysInBounds`). The doubling is a recursive function of the attempt, and induction
over data is out of reach; but descent is not. A bounded set of naturals is finite, and finite sets are well founded
by inclusion, which the library proves without an operator parameter in the way; so a set of naturals has a
least element, and the set of the attempts whose delay is out of bounds has none.

**Reactions** (`ReactionsInv`). A thread at rest is right because of what is true of one that is
not. `Marked(k)`: the marks of `k` are right, or somebody will look again (a job is open; work or a
tracking reply will queue one; a worker that has lost its job will, when it finds out), or a
property's exception holds (a job parked, a request nobody waited for). `Progress(w)` says
how far a worker that holds its job has got: the changes it still has to make, applied to what is on the
messages, lead to what its reading of the record calls for (`Covers`), and a record that
has changed since excuses it, for that change left work behind. `RequestInv`
allows one request per claim on the wire, `OneHolder` one worker per claim, and the
theorem `OneReactionLeaseIsLive` one claim per thread, so nobody else changes the marks a holder has
listed. `Moved`, the four things a step may do to a job, gives what keeps this: a lost
job stays lost, and a job that closes was finished by its holder, whose progress was
complete. `ThreadDated` says that reactions are on messages that exist.

**Drivers** (`BackendInv`). A call takes effect at its commit, but what it writes was computed when its
function ran, on the records of then. Two facts bridge the gap. `Repeated`, about the functions: run on
two databases that hold the same records under the names it *reads*, a function answers the same, and what it wrote
on the first, merged into the second, is what it would have written there. For a claim this is because it reads
every job before it picks one; for a completion on Spanner because its scan looks for reaction
jobs, and so need not see the reply it has just completed (`FinishedAlike`). `Current`, about the transactions: a
database there once was, which the open transaction's run was made on, differs from the one there is now only in the
names written since (`DifferIn`, `stale`). A commit is allowed when nothing read is among them; so by `Repeated` it is
the step `Records` takes, and it answers what that step finds. `Keeps` says that no run sets a reply
job back, which with `Sound` (a reply job has its event) gives `AnsweredOnce`.

**What the proofs changed.** Attempts that failed were findings about the models:

- `NoFileForgotten` was false beyond the bounds of its run. A refusal for good that meets an
  upload lease already expired is not recorded (`FailUpload` answers `ErrLeaseLost`, which
  `worker.go:325` drops), and the pass goes on and completes; and a file that failed may be
  reopened by the sync of *another* thread, after the first is up to date. Both are in the property now, the first with a history
  variable (`unrecorded`).
- `Config` read a source's name before its references were expanded; a document of the run now
  has such a name.
- `Reactions` is about threads that have a timestamp, which is what makes 0 the mark of a reaction on
  no message; the assumption is now stated (`ReactionsAssumption`).
- An outbox or thread failure may be of any error, not of the one a run uses (`UseLease`).
- A completion in `Backend` that needed another reaction job than its bound had would have taken an ID that is in use; its
  attempt now waits (`HasRoom`), as `Store`'s does.
- `CASE` with overlapping arms means any of them; the arms in `Ingress`, `Remote`, `Requests` and
  `Config` are now exclusive, as the code's `switch` is.

**Model-checked only.** Liveness (`QueuedIsShown`, `EventuallyQuiet`, `PassEnds`, `LeftCopyIsFound`, `Settles`,
`CallsEnd`, `ProcessEnds`, `EveryEventHeard`): it rests on fairness, hence on `ENABLED`, which the prover does
not handle.
`CodesInOrder`, about the order of the HTTP checks, is evaluated on the cases of the tests.

## Where documents and code disagree

- `store_delay`: the README says an attachment failure never blocks text. `Complete` keeps
  the attachment's retry time even when a message was queued meanwhile, so that
  message waits for it.
- `store_lag`: the store's README says one reaction job per thread may hold a live lease.
  A renewal whose `now` was read before its lease expired, and that commits after
  another job was claimed, revives it.
- `worker_late`: the README says a later reconciliation repairs what a request finishing
  after its lease was invalidated wrote. Nothing schedules that reconciliation: if the
  thread was completed by another worker in between, the older transcript stays until
  the next event.

The README also says in one place (line 154) that a sync does not reset failed uploads, and
in another (line 67) that it gives them a fresh retry. The code does the latter
(`uploads.go:54`), and so does the model.

## Not modelled

- *Telemetry* (`internal/telemetry`): counters nothing reads back; a scrape calls the
  read-only `Counts`.
- *The storage conformance suite* (`internal/store/conformance`): tests. They were read for
  what the coordinator must do, and are no part of the program.
- *Layout* (`internal/render`): Markdown to HTML, escaping, truncation of long notes,
  wording of replies. Nothing decides by it; what of a message is shown, and what a mention asks
  for, is modelled.
- *Bytes*: signature computation, JSON and YAML, multipart bodies, URLs, generated getters
  and encoders. Outcomes are modelled, as choices.
- *The several requests of `Ticket`* (owner, company, pipeline): one request in `Ingress`,
  failing as the worst of them.
- *Reactions on deleted messages, and the branch for records older than the outbox*
  (`reactions.go:76-84`): the first are Slack's to forget; the second is for records
  that synchronized before the checkpoint existed.
- *Lease tokens' randomness, real time, the sizes of pools and pages*: see the abstractions.

## Plan

All components are modelled, checked and proved about, except as listed above: the safety
properties of every passing run are theorems, and liveness is TLC's. What would add most:

1. A database that promises less, such as snapshot isolation, to see which functions need
   serializable transactions.
2. Sources of three and more suffixes in `Config`, as a recursive function over a key's suffixes.
