------------------------------- MODULE Store -------------------------------
(***************************************************************************)
(* The store coordinator (internal/store): every operation of domain.Store *)
(* on threads and on the notification outbox, as one serializable          *)
(* transaction each.  Its callers are left free: a Slack event may be      *)
(* delivered any number of times and in any order, and any lease ever      *)
(* granted may be used again at any time, as a worker that was paused,     *)
(* crashed after a remote call, or runs in another replica would use it.   *)
(*                                                                         *)
(* A caller reads the clock before its transaction commits, so the "now"   *)
(* of an operation is at most Lag behind the clock.                        *)
(***************************************************************************)
EXTENDS ThreadRecord, OutboxRecord, FiniteSets

CONSTANTS
  Events,          \* the Slack events that may arrive
  Backoff,         \* delay of a retry
  Lag,             \* bound: how far behind the clock an operation's now can be
  MaxTime,         \* bound on the clock
  MaxClaims,       \* bound: claims of one thread
  MaxJobClaims     \* bound: claims of one outbox job

TrackingCommands == {"sync", "untrack", "resume"}

Event == [id: ReplyIds, key: Keys, kind: {"link", "message", "command", "reply"},
          command: TrackingCommands \cup {"", "status", "help"},
          messageTS: Nat \ {0}, ticketID: Tickets \cup {NoText}]

ASSUME StoreAssumption ==
  /\ Events \subseteq Event
  /\ \A d, e \in Events : d.id = e.id => d = e
  /\ \A e \in Events : e.kind = "link" => e.ticketID \in Tickets
  /\ \A e \in Events : e.kind = "command" <=> e.command # ""
  /\ Backoff \in Nat \ {0} /\ Lag \in Nat
  /\ {MaxTime, MaxClaims, MaxJobClaims} \subseteq Nat

VARIABLES
  threads,         \* thread records
  events,          \* IDs of the events recorded, for deduplication
  actions,         \* messages whose command or reply was recorded
  outbox,          \* notification jobs
  clock,           \* wall clock
  leases,          \* every lease Claim has returned
  issued,          \* leases issued per thread: the last token drawn
  \* History, read by no guard:
  queued,          \* events that asked for a synchronization of the thread
  covered,         \* those recorded before the claim of a completed lease
  tried,           \* those recorded before the claim of the lease that ended last
  heard,           \* commands recorded while the thread was linked
  dirty            \* threads whose reactions no settled claim has looked at

durable == <<threads, events, actions, outbox>>
granted == <<leases, issued>>
history == <<queued, covered, tried, heard, dirty>>
vars == <<durable, clock, granted, history>>

Lease == [key: Keys, token: Nat \ {0}, generation: Nat, revision: Nat,
          seen: SUBSET ReplyIds]

(* An action is a message that must be acted on once, whatever its event IDs. *)
Action(e) == <<e.key.channelID, e.messageTS>>
IsAction(e) == e.kind \in {"command", "reply"}

(* The instants a caller may have read before its transaction. *)
Nows == {n \in (clock - Lag)..clock : n > 0}

RetryTimes(now) == {now, now + Backoff}
SyncableTS(k) == {0} \cup {e.messageTS : e \in {x \in Events : x.key = k /\ x.kind \in {"link", "message"}}}

(* What the reaction worker compares to know that reactions are up to date. *)
Marks(thread) == <<thread.active, thread.lastSyncedTS, thread.lastMessageTS, thread.currentError>>

(* Store one thread; history notes a change that its reactions must follow. *)
Put(k, thread) ==
  /\ threads' = [threads EXCEPT ![k] = thread]
  /\ dirty' = IF Marks(thread) = Marks(threads[k]) THEN dirty ELSE dirty \cup {k}

Init ==
  /\ threads = [k \in Keys |-> NoThread]
  /\ events = {}
  /\ actions = {}
  /\ outbox = [id \in JobIds |-> NoJob]
  /\ clock = Lag + 1
  /\ leases = {}
  /\ issued = [k \in Keys |-> 0]
  /\ queued = [k \in Keys |-> {}]
  /\ covered = [k \in Keys |-> {}]
  /\ tried = [k \in Keys |-> {}]
  /\ heard = [k \in Keys |-> {}]
  /\ dirty = {}

-----------------------------------------------------------------------------
(* Record: an event, its deduplication, its transition and its reply. *)

\* Mutation: only the event ID is deduplicated, not the message.
DuplicateEvent(e) == e.id \in events

Duplicate(e) == e.id \in events \/ (IsAction(e) /\ Action(e) \in actions)

Applies(e) ==
  /\ e.kind = "command" /\ e.command \in TrackingCommands
  /\ Exists(threads[e.key])
  /\ Newer(e.messageTS, threads[e.key].lastCommandTS)

\* Mutation: a link that was on its way when the thread was linked links it again.
LinksAgain(e) == e.kind = "link"
NewThread(e) == e.kind = "link" /\ ~Exists(threads[e.key])
NewMessage(e) == e.kind = "message" /\ Exists(threads[e.key]) /\ threads[e.key].active

Changes(e) == NewThread(e) \/ NewMessage(e) \/ Applies(e)

Effect(e, now) ==
  CASE NewThread(e)  -> Linked(e)
    [] NewMessage(e) -> Messaged(threads[e.key], e, now)
    [] Applies(e)    -> Commanded(threads[e.key], e, now)
    [] OTHER         -> threads[e.key]

(* Every command and reply is answered; a link unless it repeats the mapping. *)
Replies(e) ==
  \/ IsAction(e)
  \/ NewThread(e)
  \/ e.kind = "link" /\ threads[e.key].ticketID # e.ticketID

UpdatesTracking(e) == NewThread(e) \/ Applies(e)

Queues(e, now) == Changes(e) /\ Effect(e, now).requested > threads[e.key].requested
Heard(e) == e.kind = "command" /\ e.command \in TrackingCommands /\ Exists(threads[e.key])

Record(e, now) ==
  /\ ~Duplicate(e)
  /\ Put(e.key, Effect(e, now))
  /\ events' = events \cup {e.id}
  /\ actions' = IF IsAction(e) THEN actions \cup {Action(e)} ELSE actions
  /\ outbox' = IF Replies(e)
                 THEN [outbox EXCEPT ![e.id] = NewJob(e.key, FALSE, UpdatesTracking(e))]
                 ELSE outbox
  /\ queued' = IF Queues(e, now)
                 THEN [queued EXCEPT ![e.key] = @ \cup {e.id}] ELSE queued
  /\ heard' = IF Heard(e) THEN [heard EXCEPT ![e.key] = @ \cup {e}] ELSE heard
  /\ UNCHANGED <<clock, granted, covered, tried>>

-----------------------------------------------------------------------------
(* The work queue.  Claim takes the first claimable record of a scan: any. *)

(* The lease the next claim of a thread returns. *)
NewLease(k) ==
  [key |-> k, token |-> issued[k] + 1, generation |-> threads[k].requested,
   revision |-> threads[k].revision, seen |-> queued[k]]

Claim(k, now) ==
  /\ Claimable(threads[k], now)
  /\ issued[k] < MaxClaims
  /\ Put(k, Claimed(threads[k], issued[k] + 1, now))
  /\ issued' = [issued EXCEPT ![k] = @ + 1]
  /\ leases' = leases \cup {NewLease(k)}
  /\ UNCHANGED <<events, actions, outbox, clock, queued, covered, tried, heard>>

Renew(l, now) ==
  /\ Validate(threads[l.key], l, now)
  /\ Put(l.key, Renewed(threads[l.key], now))
  /\ UNCHANGED <<events, actions, outbox, clock, granted, queued, covered, tried, heard>>

SaveNote(l, note, now) ==
  /\ Validate(threads[l.key], l, now)
  /\ NoteAccepted(threads[l.key], note)
  /\ Put(l.key, NoteSaved(threads[l.key], note))
  /\ UNCHANGED <<events, actions, outbox, clock, granted, queued, covered, tried, heard>>

\* Mutation: a completion does not queue the reaction update.
CompleteSilently(l, syncedTS, retryAt, now) ==
  /\ Validate(threads[l.key], l, now)
  /\ Put(l.key, Completed(threads[l.key], l, syncedTS, retryAt))
  /\ covered' = [covered EXCEPT ![l.key] = @ \cup l.seen]
  /\ tried' = [tried EXCEPT ![l.key] = l.seen]
  /\ UNCHANGED <<events, actions, outbox, clock, granted, queued, heard>>

Complete(l, syncedTS, retryAt, now) ==
  /\ Validate(threads[l.key], l, now)
  /\ RoomFor(outbox, l.key)
  /\ Put(l.key, Completed(threads[l.key], l, syncedTS, retryAt))
  /\ outbox' = WithReactions(outbox, l.key)
  /\ covered' = [covered EXCEPT ![l.key] = @ \cup l.seen]
  /\ tried' = [tried EXCEPT ![l.key] = l.seen]
  /\ UNCHANGED <<events, actions, clock, granted, queued, heard>>

Fail(l, error, nextAttempt, permanent, now) ==
  /\ Validate(threads[l.key], l, now)
  /\ RoomFor(outbox, l.key)
  /\ Put(l.key, Failed(threads[l.key], l, error, nextAttempt, permanent))
  /\ outbox' = WithReactions(outbox, l.key)
  /\ tried' = [tried EXCEPT ![l.key] = l.seen]
  /\ UNCHANGED <<events, actions, clock, granted, queued, covered, heard>>

-----------------------------------------------------------------------------
(* The outbox. *)

ClaimNotification(id, now) ==
  /\ ~outbox[id].reactions /\ Deliverable(outbox[id], now)
  /\ outbox[id].attempts < MaxJobClaims
  /\ outbox' = [outbox EXCEPT ![id] = JobClaimed(@, now)]
  /\ UNCHANGED <<threads, events, actions, clock, granted, history>>

(* Transcript work that will queue its own reaction update when it ends. *)
CoreWork(thread) == thread.active /\ thread.state \in {"pending", "running"}

ClaimReactionNotification(id, now) ==
  LET thread == threads[outbox[id].key] IN
  /\ outbox[id].reactions /\ Deliverable(outbox[id], now)
  /\ ~Blocked(outbox, outbox[id].key, now)
  /\ Exists(thread)
  /\ ~ /\ thread.active
       /\ \/ thread.state = "pending"
          \/ thread.state = "running" /\ After(thread.leaseExpires, now)
  /\ outbox[id].attempts < MaxJobClaims
  /\ outbox' = [outbox EXCEPT ![id] = JobClaimed(@, now)]
  /\ dirty' = IF CoreWork(thread) THEN dirty ELSE dirty \ {outbox[id].key}
  /\ UNCHANGED <<threads, events, actions, clock, granted, queued, covered, tried, heard>>

\* Mutation: a job is queued without reading the thread.
QueueUnlinked(k) ==
  /\ RoomFor(outbox, k)
  /\ outbox' = WithReactions(outbox, k)
  /\ UNCHANGED <<threads, events, actions, clock, granted, history>>

QueueReactions(k) ==
  /\ Exists(threads[k])
  /\ RoomFor(outbox, k)
  /\ outbox' = WithReactions(outbox, k)
  /\ UNCHANGED <<threads, events, actions, clock, granted, history>>

RenewNotification(id, token, now) ==
  /\ ValidateNotification(outbox[id], token, now)
  /\ outbox' = [outbox EXCEPT ![id] = [@ EXCEPT !.leaseExpires = now + JobLease]]
  /\ UNCHANGED <<threads, events, actions, clock, granted, history>>

(* A tracking reply that is over queues the reactions of its thread. *)
Settle(id, job, over) ==
  LET box == [outbox EXCEPT ![id] = job] IN
  IF over /\ job.updateTracking
    THEN RoomFor(box, job.key) /\ outbox' = WithReactions(box, job.key)
    ELSE outbox' = box

CompleteNotification(id, token, now) ==
  /\ ValidateNotification(outbox[id], token, now)
  /\ Settle(id, JobCompleted(outbox[id]), TRUE)
  /\ UNCHANGED <<threads, events, actions, clock, granted, history>>

FailNotification(id, token, nextAttempt, permanent, now) ==
  /\ ValidateNotification(outbox[id], token, now)
  /\ Settle(id, JobFailed(outbox[id], nextAttempt, permanent), permanent)
  /\ UNCHANGED <<threads, events, actions, clock, granted, history>>

Tick ==
  /\ clock < MaxTime
  /\ clock' = clock + 1
  /\ UNCHANGED <<durable, granted, history>>

-----------------------------------------------------------------------------
RecordEvent == \E e \in Events, now \in Nows : Record(e, now)

ClaimThread == \E k \in Keys, now \in Nows : Claim(k, now)

UseLease ==
  \E l \in leases, now \in Nows :
    \/ Renew(l, now)
    \/ \E note \in Notes : SaveNote(l, note, now)
    \/ \E ts \in SyncableTS(l.key), at \in {0, now + Backoff} : Complete(l, ts, at, now)
    \/ \E error \in Errors \ {NoText}, at \in RetryTimes(now), permanent \in BOOLEAN :
         Fail(l, error, at, permanent, now)

ClaimJob ==
  \E id \in JobIds, now \in Nows :
    ClaimNotification(id, now) \/ ClaimReactionNotification(id, now)

UseJob ==
  \E id \in JobIds, now \in Nows : \E token \in 1..outbox[id].attempts :
    \/ RenewNotification(id, token, now)
    \/ CompleteNotification(id, token, now)
    \/ \E at \in RetryTimes(now) : FailNotification(id, token, at, FALSE, now)
    \/ FailNotification(id, token, 0, TRUE, now)

RequestReactions == \E k \in Keys : QueueReactions(k)

Next == \/ RecordEvent \/ ClaimThread \/ UseLease
        \/ ClaimJob \/ UseJob \/ RequestReactions \/ Tick

Spec == Init /\ [][Next]_vars

-----------------------------------------------------------------------------
(* Every variable has its type: records as internal/domain declares them. *)
TypeOK ==
  /\ threads \in [Keys -> Thread]
  /\ events \subseteq ReplyIds
  /\ actions \subseteq {Action(e) : e \in Events}
  /\ outbox \in [JobIds -> Job]
  /\ clock \in Nat
  /\ leases \subseteq Lease
  /\ issued \in [Keys -> Nat]
  /\ queued \in [Keys -> SUBSET ReplyIds]
  /\ covered \in [Keys -> SUBSET ReplyIds]
  /\ tried \in [Keys -> SUBSET ReplyIds]
  /\ heard \in [Keys -> SUBSET Events]
  /\ dirty \subseteq Keys

(* The State string agrees with the fields Claim, Counts and the reaction     *)
(* worker decide by: work that is wanted is never shown as done, a lease is   *)
(* held exactly while running, and tracking is off exactly while stopped.     *)
StateMeaningOf(t) ==
  /\ (t.state = "") <=> ~Exists(t)
  /\ Exists(t) => (t.active <=> t.state # "stopped")
  /\ (t.state = "running") <=> (t.leaseToken # 0)
  /\ (t.leaseToken # 0) <=> (t.leaseExpires # 0)
  /\ t.completed <= t.requested
  /\ t.state = "up-to-date" => t.completed = t.requested
  /\ t.state \in {"pending", "running", "retrying", "failed"} => t.completed < t.requested
StateMeaning == \A k \in Keys : StateMeaningOf(threads[k])

(* An event that was queued while a worker synchronized, failed, was stopped  *)
(* or recovered is never taken for synchronized: a thread with nothing left   *)
(* to do has completed a lease claimed after every queued event.              *)
NoQueuedEventLost ==
  \A k \in Keys : threads[k].completed = threads[k].requested => queued[k] \subseteq covered[k]

(* A permanent failure parks the thread only for the events it was tried     *)
(* with: one that arrived during the failing attempt keeps it claimable.      *)
FailureCoversAllQueued ==
  \A k \in Keys : threads[k].state = "failed" => queued[k] \subseteq tried[k]

(* Whatever order commands arrive in, tracking is as the newest one by Slack  *)
(* timestamp says, an older one arriving late notwithstanding.                *)
NewestCommandDecides ==
  \A k \in Keys, e \in Events :
    (e \in heard[k] /\ \A d \in heard[k] : d.messageTS <= e.messageTS)
      => /\ e.command = "untrack" => ~threads[k].active
         /\ e.command = "resume" => threads[k].active

(* README: an attachment failure never blocks eligible text.  A retry delay   *)
(* may hold back only events the delayed attempt has already synchronized.    *)
DelayHoldsNothingNew ==
  \A k \in Keys : After(threads[k].nextAttempt, clock) => queued[k] \subseteq tried[k]

(* The lease l still owns its thread, its expiry aside. *)
Owns(l) == LET t == threads[l.key] IN
  t.active /\ t.revision = l.revision /\ t.leaseToken # 0 /\ t.leaseToken = l.token

(* A worker that lost its lease to recovery, untrack, resume, completion or   *)
(* failure never passes Validate again, whatever happens to the thread later. *)
FencedForever == [][\A l \in leases : ~Owns(l) => ~Owns(l)']_vars

(* The ticket of a thread and, once saved, its note never change. *)
MappingsKept ==
  [][\A k \in Keys :
       /\ Exists(threads[k]) => threads'[k].ticketID = threads[k].ticketID
       /\ threads[k].noteID # NoText => threads'[k].noteID = threads[k].noteID]_vars

(* Slack delivers one message as several events; its command or reply is      *)
(* answered by one outbox job and applied by one event only.                  *)
OneReplyPerMessage ==
  \A d, e \in Events :
    ( /\ d # e /\ IsAction(d) /\ IsAction(e) /\ Action(d) = Action(e) )
      => /\ ~(outbox[d.id].present /\ outbox[e.id].present)
         /\ ~(d.id \in queued[d.key] /\ e.id \in queued[e.key])

(* A reaction job always has its thread: claimNotification aborts its scan    *)
(* with an error on one that has not, and no reaction would be updated again. *)
ReactionJobHasThread ==
  \A id \in ReactionIds : outbox[id].present => Exists(threads[outbox[id].key])

(* Store README: only one reaction job per thread may hold a live lease. *)
OneLiveReactionLease ==
  \A i, j \in ReactionIds :
    ( /\ Open(outbox[i]) /\ Open(outbox[j]) /\ outbox[i].key = outbox[j].key
      /\ outbox[i].leaseExpires > clock /\ outbox[j].leaseExpires > clock ) => i = j

(* A change that reactions must show is never forgotten: until a claim reads  *)
(* the settled thread there is transcript work that will queue an update when *)
(* it ends, a tracking reply that will, or a reaction job nobody has claimed. *)
ReactionsWillFollow ==
  \A k \in dirty :
    \/ CoreWork(threads[k])
    \/ \E id \in ReplyIds : Open(outbox[id]) /\ outbox[id].updateTracking /\ outbox[id].key = k
    \/ \E id \in ReactionIds : Open(outbox[id]) /\ outbox[id].key = k /\ outbox[id].leaseToken = 0
=============================================================================
