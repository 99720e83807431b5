--------------------------- MODULE ThreadRecord ---------------------------
(***************************************************************************)
(* The durable record of one tracked Slack thread (domain.Thread) and what *)
(* each store operation does to it.  Everything here is a pure operator on *)
(* one record: the transactions that read and write it are in Store.       *)
(*                                                                         *)
(* A time.Time, a lease token and a Slack timestamp are naturals, 0 being  *)
(* the zero time, the empty token and the empty timestamp.  Fields that no *)
(* decision of the store reads (ChangedAt, ChangedBy, HistoricalError,     *)
(* LastEventID, LastSuccess, PartialError, TicketURL) are left out.        *)
(***************************************************************************)
EXTENDS Integers

CONSTANTS
  Tickets,         \* HubSpot ticket IDs
  Notes,           \* HubSpot note IDs
  LeaseDuration    \* the duration a claim or a renewal asks for

NoText == ""       \* an empty ticket ID, note ID or error

ASSUME RecordAssumption ==
  /\ NoText \notin Tickets
  /\ NoText \notin Notes
  /\ LeaseDuration \in Nat \ {0}

States == {"", "pending", "running", "retrying", "failed", "up-to-date", "stopped"}
Errors == {NoText, "error", "operation cancelled"}

(***************************************************************************)
(* time.Time.After and the comparison of Slack timestamps.                 *)
(***************************************************************************)
After(t, now) == t > now
\* Mutation: any timestamp is newer.
NewerAlways(left, right) == left > 0
Newer(left, right) == left > right
Larger(a, b) == IF a > b THEN a ELSE b

Thread == [active: BOOLEAN, attempts: Nat, attachmentRetryTS: Nat,
           completed: Nat, currentError: Errors, lastCommandTS: Nat,
           lastMessageTS: Nat, lastSyncedTS: Nat, leaseExpires: Nat,
           leaseToken: Nat, nextAttempt: Nat, noteID: Notes \cup {NoText},
           requested: Nat, revision: Nat, state: States,
           ticketID: Tickets \cup {NoText}]

(* The zero domain.Thread: what read returns with ErrNotFound. *)
NoThread ==
  [active |-> FALSE, attempts |-> 0, attachmentRetryTS |-> 0,
   completed |-> 0, currentError |-> NoText, lastCommandTS |-> 0,
   lastMessageTS |-> 0, lastSyncedTS |-> 0, leaseExpires |-> 0,
   leaseToken |-> 0, nextAttempt |-> 0, noteID |-> NoText,
   requested |-> 0, revision |-> 0, state |-> "", ticketID |-> NoText]

(* A stored thread always carries a ticket, so the ticket tells it exists. *)
Exists(thread) == thread.ticketID # NoText

ClearLease(thread) == [thread EXCEPT !.leaseExpires = 0, !.leaseToken = 0]

(* A lease is honoured only while tracking, revision, token and expiry all agree. *)
Validate(thread, lease, now) ==
  /\ thread.active
  /\ thread.revision = lease.revision
  /\ thread.leaseToken # 0
  /\ thread.leaseToken = lease.token
  /\ After(thread.leaseExpires, now)

-----------------------------------------------------------------------------
(* Events: link, message and the three tracking commands. *)

\* Mutation: the outcome is stored as the state.
LinkedAsOutcome(e) ==
  [NoThread EXCEPT !.active = TRUE, !.requested = 1, !.revision = 1,
                   !.state = "linked", !.ticketID = e.ticketID]

Linked(e) ==
  [NoThread EXCEPT !.active = TRUE, !.lastMessageTS = e.messageTS,
                   !.requested = 1, !.revision = 1, !.state = "pending",
                   !.ticketID = e.ticketID]

\* Mutation: requeuing forgets to clear the expired lease.
QueuedKeepingLease(thread, now) ==
  [thread EXCEPT !.currentError = NoText, !.requested = @ + 1, !.attempts = 0,
     !.nextAttempt = 0,
     !.state = IF After(thread.leaseExpires, now) THEN @ ELSE "pending"]

(* One more generation is wanted; a live lease keeps running. *)
Queued(thread, now) ==
  LET wanted == [thread EXCEPT !.currentError = NoText, !.requested = @ + 1,
                               !.attempts = 0, !.nextAttempt = 0]
  IN  IF After(thread.leaseExpires, now)
        THEN wanted
        ELSE [ClearLease(wanted) EXCEPT !.state = "pending"]

Messaged(thread, e, now) ==
  [Queued(thread, now) EXCEPT
     !.lastMessageTS = IF Newer(e.messageTS, @) THEN e.messageTS ELSE @]

Synced(thread, e, now) ==
  IF thread.active
    THEN [Queued(thread, now) EXCEPT !.attachmentRetryTS = e.messageTS]
    ELSE thread

Untracked(thread) ==
  IF thread.active
    THEN [ClearLease(thread) EXCEPT !.active = FALSE, !.currentError = NoText,
            !.revision = @ + 1, !.nextAttempt = 0, !.state = "stopped"]
    ELSE thread

Resumed(thread) ==
  IF thread.active
    THEN thread
    ELSE [ClearLease(thread) EXCEPT !.active = TRUE, !.attempts = 0,
            !.currentError = NoText, !.nextAttempt = 0, !.requested = @ + 1,
            !.revision = @ + 1, !.state = "pending"]

Commanded(thread, e, now) ==
  LET stamped == [thread EXCEPT !.lastCommandTS = e.messageTS]
  IN  CASE e.command = "sync"    -> Synced(stamped, e, now)
        [] e.command = "untrack" -> Untracked(stamped)
        [] e.command = "resume"  -> Resumed(stamped)

-----------------------------------------------------------------------------
(* The work queue: claim, renew, save the note, complete, fail. *)

\* Mutation: a lease that expired is not recovered.
ClaimableUnleased(thread, now) ==
  /\ thread.active
  /\ thread.completed < thread.requested
  /\ thread.state # "failed"
  /\ ~After(thread.nextAttempt, now)
  /\ thread.leaseToken = 0

Claimable(thread, now) ==
  /\ thread.active
  /\ thread.completed < thread.requested
  /\ thread.state # "failed"
  /\ ~After(thread.nextAttempt, now)
  /\ ~After(thread.leaseExpires, now)

\* Mutation: the attempt number, which is reset, serves as the token.
ClaimedByAttempt(thread, token, now) ==
  [thread EXCEPT !.attempts = @ + 1, !.leaseExpires = now + LeaseDuration,
                 !.leaseToken = thread.attempts + 1, !.state = "running"]

Claimed(thread, token, now) ==
  [thread EXCEPT !.attempts = @ + 1, !.leaseExpires = now + LeaseDuration,
                 !.leaseToken = token, !.state = "running"]

Renewed(record, now) == [record EXCEPT !.leaseExpires = now + LeaseDuration]

\* Mutation: a different note mapping is overwritten.
NoteAlwaysAccepted(thread, note) == TRUE
NoteAccepted(thread, note) == thread.noteID \in {NoText, note}
NoteSaved(thread, note) == [thread EXCEPT !.noteID = note]

\* Mutation: completes what is requested by now instead of what was claimed.
CompletedAll(thread, lease, syncedTS, retryAt) ==
  [ClearLease(thread) EXCEPT
     !.completed = thread.requested, !.currentError = NoText, !.attempts = 0,
     !.lastSyncedTS = syncedTS, !.nextAttempt = 0, !.state = "up-to-date"]

(* retryAt # 0: an attachment failed for now, so another pass is requested. *)
Completed(thread, lease, syncedTS, retryAt) ==
  LET done == [ClearLease(thread) EXCEPT
                 !.completed = Larger(@, lease.generation),
                 !.currentError = NoText, !.lastSyncedTS = syncedTS,
                 !.nextAttempt = retryAt]
  IN  IF retryAt # 0
        THEN [done EXCEPT !.requested = Larger(@, lease.generation + 1),
                          !.state = "retrying"]
        ELSE [done EXCEPT !.attempts = 0,
                !.state = IF done.requested > done.completed
                            THEN "pending" ELSE "up-to-date"]

\* Mutation: a failure ignores what was requested since the claim.
FailedForAll(thread, lease, error, nextAttempt, permanent) ==
  [ClearLease(thread) EXCEPT !.currentError = error,
     !.nextAttempt = IF permanent THEN 0 ELSE nextAttempt,
     !.state = IF permanent THEN "failed" ELSE "retrying"]

(* A newer generation than the one that failed starts afresh. *)
Failed(thread, lease, error, nextAttempt, permanent) ==
  LET failed == [ClearLease(thread) EXCEPT !.currentError = error]
  IN  IF thread.requested > lease.generation
        THEN [failed EXCEPT !.attempts = 0, !.nextAttempt = 0, !.state = "pending"]
        ELSE [failed EXCEPT !.nextAttempt = IF permanent THEN 0 ELSE nextAttempt,
                            !.state = IF permanent THEN "failed" ELSE "retrying"]
=============================================================================
