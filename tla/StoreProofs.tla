---------------------------- MODULE StoreProofs ----------------------------
(***************************************************************************)
(* Proofs about Store, for any set of keys, events, tickets and notes, any *)
(* lag of the callers' clocks and any bounds, in four parts: types, the    *)
(* work queue, the order of events, the outbox.                            *)
(***************************************************************************)
EXTENDS Store, TLAPS

-----------------------------------------------------------------------------
(* Operations on one record return a record. *)

LEMMA ClearLeaseType ==
  ASSUME NEW t \in Thread
  PROVE  ClearLease(t) \in Thread
BY DEF ClearLease, Thread

LEMMA QueuedType ==
  ASSUME NEW t \in Thread, NEW now \in Nat
  PROVE  Queued(t, now) \in Thread
<1>1. t.requested + 1 \in Nat
  BY DEF Thread
<1> DEFINE w == [t EXCEPT !.currentError = NoText, !.requested = @ + 1,
                          !.attempts = 0, !.nextAttempt = 0]
<1>2. w \in Thread
  BY <1>1 DEF Thread, Errors
<1>3. [ClearLease(w) EXCEPT !.state = "pending"] \in Thread
  <2> DEFINE c == ClearLease(w)
  <2>1. c \in Thread
    BY <1>2, ClearLeaseType
  <2> HIDE DEF c
  <2>2. [c EXCEPT !.state = "pending"] \in Thread
    BY <2>1 DEF Thread, States
  <2>3. QED
    BY <2>2 DEF c
<1>4. QED
  BY <1>2, <1>3 DEF Queued

LEMMA MessagedType ==
  ASSUME NEW t \in Thread, NEW e \in Events, NEW now \in Nat
  PROVE  Messaged(t, e, now) \in Thread
BY QueuedType, StoreAssumption DEF Messaged, Thread, Event

LEMMA LinkedType ==
  ASSUME NEW e \in Events, e.kind = "link"
  PROVE  Linked(e) \in Thread
BY StoreAssumption DEF Linked, NoThread, Thread, States, Errors, Event

LEMMA CommandedType ==
  ASSUME NEW t \in Thread, NEW e \in Events, NEW now \in Nat,
         e.command \in TrackingCommands
  PROVE  Commanded(t, e, now) \in Thread
<1> DEFINE s == [t EXCEPT !.lastCommandTS = e.messageTS]
<1>0. e.messageTS \in Nat
  BY StoreAssumption DEF Event
<1>1. s \in Thread
  BY <1>0 DEF Thread
<1>2. Synced(s, e, now) \in Thread
  BY <1>0, <1>1, QueuedType DEF Synced, Thread
<1>c. ClearLease(s) \in Thread
  BY <1>1, ClearLeaseType
<1>3. Untracked(s) \in Thread
  <2>1. ClearLease(s).revision + 1 \in Nat
    BY <1>c DEF Thread
  <2>2. [ClearLease(s) EXCEPT !.active = FALSE, !.currentError = NoText,
           !.revision = @ + 1, !.nextAttempt = 0, !.state = "stopped"] \in Thread
    BY <1>c, <2>1 DEF Thread, States, Errors
  <2>3. QED
    BY <1>1, <2>2 DEF Untracked
<1>4. Resumed(s) \in Thread
  <2>1. ClearLease(s).revision + 1 \in Nat /\ ClearLease(s).requested + 1 \in Nat
    BY <1>c DEF Thread
  <2>2. [ClearLease(s) EXCEPT !.active = TRUE, !.attempts = 0,
           !.currentError = NoText, !.nextAttempt = 0, !.requested = @ + 1,
           !.revision = @ + 1, !.state = "pending"] \in Thread
    BY <1>c, <2>1 DEF Thread, States, Errors
  <2>3. QED
    BY <1>1, <2>2 DEF Resumed
<1> HIDE DEF s
<1>5. QED
  BY <1>2, <1>3, <1>4 DEF Commanded, TrackingCommands, s

LEMMA ClaimedType ==
  ASSUME NEW t \in Thread, NEW token \in Nat, NEW now \in Nat
  PROVE  Claimed(t, token, now) \in Thread
<1>1. t.attempts + 1 \in Nat /\ now + LeaseDuration \in Nat
  BY RecordAssumption DEF Thread
<1>2. QED
  BY <1>1 DEF Claimed, Thread, States

LEMMA RenewedType ==
  ASSUME NEW t \in Thread, NEW now \in Nat
  PROVE  Renewed(t, now) \in Thread
BY RecordAssumption DEF Renewed, Thread

LEMMA CompletedType ==
  ASSUME NEW t \in Thread, NEW l \in Lease, NEW ts \in Nat, NEW at \in Nat
  PROVE  Completed(t, l, ts, at) \in Thread
<1> DEFINE done == [ClearLease(t) EXCEPT
                      !.completed = Larger(@, l.generation), !.currentError = NoText,
                      !.lastSyncedTS = ts, !.nextAttempt = at]
<1>1. l.generation + 1 \in Nat /\ l.generation \in Nat
  BY DEF Lease
<1>2. ClearLease(t) \in Thread
  BY ClearLeaseType
<1>3. Larger(ClearLease(t).completed, l.generation) \in Nat
  BY <1>1, <1>2 DEF Larger, Thread
<1>4. done \in Thread
  BY <1>2, <1>3 DEF Thread, Errors
<1>5. Larger(done.requested, l.generation + 1) \in Nat
  BY <1>1, <1>4 DEF Larger, Thread
<1> HIDE DEF done
<1>6. [done EXCEPT !.requested = Larger(@, l.generation + 1), !.state = "retrying"] \in Thread
  BY <1>4, <1>5 DEF Thread, States
<1>7. [done EXCEPT !.attempts = 0,
         !.state = IF done.requested > done.completed THEN "pending" ELSE "up-to-date"] \in Thread
  BY <1>4 DEF Thread, States
<1>8. QED
  BY <1>6, <1>7 DEF Completed, done

LEMMA FailedType ==
  ASSUME NEW t \in Thread, NEW l \in Lease, NEW error \in Errors,
         NEW at \in Nat, NEW permanent \in BOOLEAN
  PROVE  Failed(t, l, error, at, permanent) \in Thread
<1> DEFINE c == ClearLease(t)
           failed == [c EXCEPT !.currentError = error]
<1>1. c \in Thread
  BY ClearLeaseType
<1> HIDE DEF c
<1>2. failed \in Thread
  BY <1>1 DEF Thread
<1> HIDE DEF failed
<1>3. [failed EXCEPT !.attempts = 0, !.nextAttempt = 0, !.state = "pending"] \in Thread
  BY <1>2 DEF Thread, States
<1>4. [failed EXCEPT !.nextAttempt = IF permanent THEN 0 ELSE at,
                     !.state = IF permanent THEN "failed" ELSE "retrying"] \in Thread
  BY <1>2 DEF Thread, States
<1>5. QED
  BY <1>3, <1>4 DEF Failed, failed, c

LEMMA NewJobType ==
  ASSUME NEW k \in Keys, NEW r \in BOOLEAN, NEW u \in BOOLEAN
  PROVE  NewJob(k, r, u) \in Job
BY DEF NewJob, Job

LEMMA JobStepsType ==
  ASSUME NEW j \in Job, NEW now \in Nat, NEW at \in Nat, NEW permanent \in BOOLEAN
  PROVE  /\ JobClaimed(j, now) \in Job
         /\ [j EXCEPT !.leaseExpires = now + JobLease] \in Job
         /\ JobCompleted(j) \in Job
         /\ JobFailed(j, at, permanent) \in Job
<1>1. j.attempts + 1 \in Nat /\ now + JobLease \in Nat
  BY OutboxAssumption DEF Job
<1>2. QED
  BY <1>1 DEF JobClaimed, JobCompleted, JobFailed, Job

LEMMA WithReactionsType ==
  ASSUME NEW box \in [JobIds -> Job], NEW k \in Keys, RoomFor(box, k)
  PROVE  WithReactions(box, k) \in [JobIds -> Job]
<1>1. CASE Unclaimed(box, k) # {}
  BY <1>1 DEF WithReactions
<1>2. CASE Unclaimed(box, k) = {}
  BY <1>2, NewJobType DEF WithReactions
<1>3. QED
  BY <1>1, <1>2

-----------------------------------------------------------------------------
(* Type correctness. *)

LEMMA NowsType ==
  ASSUME clock \in Nat
  PROVE  Nows \subseteq Nat
<1>1. Lag \in Nat
  BY StoreAssumption
<1>2. QED
  BY <1>1 DEF Nows

LEMMA EffectType ==
  ASSUME TypeOK, NEW e \in Events, NEW now \in Nat
  PROVE  Effect(e, now) \in Thread
<1>1. e.key \in Keys /\ threads[e.key] \in Thread
  BY StoreAssumption DEF TypeOK, Event
<1>2. NewThread(e) => Linked(e) \in Thread
  BY LinkedType DEF NewThread
<1>3. Messaged(threads[e.key], e, now) \in Thread
  BY <1>1, MessagedType
<1>4. Applies(e) => Commanded(threads[e.key], e, now) \in Thread
  BY <1>1, CommandedType DEF Applies
<1>5. QED
  BY <1>1, <1>2, <1>3, <1>4 DEF Effect

LEMMA PutType ==
  ASSUME TypeOK, NEW k \in Keys, NEW t \in Thread, Put(k, t)
  PROVE  threads' \in [Keys -> Thread] /\ dirty' \subseteq Keys
BY DEF TypeOK, Put

LEMMA SettleType ==
  ASSUME TypeOK, NEW id \in JobIds, NEW j \in Job, NEW over \in BOOLEAN,
         Settle(id, j, over)
  PROVE  outbox' \in [JobIds -> Job]
<1> DEFINE box == [outbox EXCEPT ![id] = j]
<1>1. box \in [JobIds -> Job]
  BY DEF TypeOK
<1>2. j.key \in Keys
  BY DEF Job
<1>3. RoomFor(box, j.key) => WithReactions(box, j.key) \in [JobIds -> Job]
  BY <1>1, <1>2, WithReactionsType
<1>4. QED
  BY <1>1, <1>3 DEF Settle

LEMMA InitType ==
  ASSUME Init
  PROVE  TypeOK
<1>1. NoThread \in Thread
  BY DEF NoThread, Thread, States, Errors
<1>2. NoJob \in Job
  BY OutboxAssumption DEF NoJob, NewJob, Job, SomeKey
<1>3. clock \in Nat
  <2>1. Lag \in Nat
    BY StoreAssumption
  <2>2. QED
    BY <2>1 DEF Init
<1>4. QED
  BY <1>1, <1>2, <1>3 DEF Init, TypeOK

(* One step keeps every variable in its type: one case per action. *)
LEMMA NextType ==
  ASSUME TypeOK, [Next]_vars
  PROVE  TypeOK'
<1>n. Nows \subseteq Nat
  BY NowsType DEF TypeOK
<1>b. Backoff \in Nat
  BY StoreAssumption
<1>1. ASSUME NEW e \in Events, NEW now \in Nows, Record(e, now)
      PROVE  TypeOK'
  <2>1. e.key \in Keys /\ e.id \in ReplyIds
    BY StoreAssumption DEF Event
  <2>2. threads' \in [Keys -> Thread] /\ dirty' \subseteq Keys
    BY <1>1, <1>n, <2>1, EffectType, PutType DEF Record
  <2>3. events' \subseteq ReplyIds /\ actions' \subseteq {Action(d) : d \in Events}
    BY <1>1, <2>1 DEF Record, TypeOK
  <2>4. NewJob(e.key, FALSE, UpdatesTracking(e)) \in Job
    <3>1. UpdatesTracking(e) \in BOOLEAN
      BY DEF UpdatesTracking, NewThread, Applies
    <3>2. QED
      BY <2>1, <3>1, NewJobType
  <2>5. outbox' \in [JobIds -> Job]
    BY <1>1, <2>1, <2>4 DEF Record, TypeOK, JobIds
  <2>6. queued' \in [Keys -> SUBSET ReplyIds] /\ heard' \in [Keys -> SUBSET Events]
    BY <1>1, <2>1 DEF Record, TypeOK
  <2>7. QED
    BY <1>1, <2>2, <2>3, <2>5, <2>6 DEF Record, TypeOK, granted
<1>2. ASSUME NEW k \in Keys, NEW now \in Nows, Claim(k, now)
      PROVE  TypeOK'
  <2>1. threads[k] \in Thread /\ issued[k] + 1 \in Nat \ {0} /\ queued[k] \subseteq ReplyIds
    BY DEF TypeOK
  <2>2. threads' \in [Keys -> Thread] /\ dirty' \subseteq Keys
    BY <1>2, <1>n, <2>1, ClaimedType, PutType DEF Claim
  <2>3. [key |-> k, token |-> issued[k] + 1, generation |-> threads[k].requested,
         revision |-> threads[k].revision, seen |-> queued[k]] \in Lease
    BY <2>1 DEF Lease, Thread
  <2>4. leases' \subseteq Lease /\ issued' \in [Keys -> Nat]
    BY <1>2, <2>1, <2>3 DEF Claim, NewLease, TypeOK
  <2>5. QED
    BY <1>2, <2>2, <2>4 DEF Claim, TypeOK
<1>3. ASSUME NEW l \in leases, NEW now \in Nows, Renew(l, now)
      PROVE  TypeOK'
  <2>1. l.key \in Keys /\ threads[l.key] \in Thread
    BY DEF TypeOK, Lease
  <2>2. threads' \in [Keys -> Thread] /\ dirty' \subseteq Keys
    BY <1>3, <1>n, <2>1, RenewedType, PutType DEF Renew
  <2>3. QED
    BY <1>3, <2>2 DEF Renew, TypeOK, granted
<1>4. ASSUME NEW l \in leases, NEW now \in Nows, NEW note \in Notes, SaveNote(l, note, now)
      PROVE  TypeOK'
  <2>1. l.key \in Keys /\ threads[l.key] \in Thread
    BY DEF TypeOK, Lease
  <2>2. NoteSaved(threads[l.key], note) \in Thread
    BY <2>1 DEF NoteSaved, Thread
  <2>3. threads' \in [Keys -> Thread] /\ dirty' \subseteq Keys
    BY <1>4, <2>1, <2>2, PutType DEF SaveNote
  <2>4. QED
    BY <1>4, <2>3 DEF SaveNote, TypeOK, granted
<1>5. ASSUME NEW l \in leases, NEW now \in Nows, NEW ts \in SyncableTS(l.key),
             NEW at \in {0, now + Backoff}, Complete(l, ts, at, now)
      PROVE  TypeOK'
  <2>1. l \in Lease /\ l.key \in Keys /\ threads[l.key] \in Thread /\ l.seen \subseteq ReplyIds
    BY DEF TypeOK, Lease
  <2>2. ts \in Nat /\ at \in Nat
    <3>1. \A e \in Events : e.messageTS \in Nat
      BY StoreAssumption DEF Event
    <3>2. SyncableTS(l.key) \subseteq Nat
      BY <3>1 DEF SyncableTS
    <3>3. now + Backoff \in Nat
      BY <1>n, <1>b
    <3>4. QED
      BY <3>2, <3>3
  <2>3. threads' \in [Keys -> Thread] /\ dirty' \subseteq Keys
    BY <1>5, <2>1, <2>2, CompletedType, PutType DEF Complete
  <2>4. outbox' \in [JobIds -> Job]
    BY <1>5, <2>1, WithReactionsType DEF Complete, TypeOK
  <2>5. covered' \in [Keys -> SUBSET ReplyIds] /\ tried' \in [Keys -> SUBSET ReplyIds]
    BY <1>5, <2>1 DEF Complete, TypeOK
  <2>6. QED
    BY <1>5, <2>3, <2>4, <2>5 DEF Complete, TypeOK, granted
<1>6. ASSUME NEW l \in leases, NEW now \in Nows, NEW at \in RetryTimes(now),
             NEW permanent \in BOOLEAN, NEW error \in Errors, Fail(l, error, at, permanent, now)
      PROVE  TypeOK'
  <2>1. l \in Lease /\ l.key \in Keys /\ threads[l.key] \in Thread /\ l.seen \subseteq ReplyIds
    BY DEF TypeOK, Lease
  <2>2. at \in Nat
    BY <1>n, <1>b DEF RetryTimes
  <2>3. threads' \in [Keys -> Thread] /\ dirty' \subseteq Keys
    BY <1>6, <2>1, <2>2, FailedType, PutType DEF Fail
  <2>4. outbox' \in [JobIds -> Job]
    BY <1>6, <2>1, WithReactionsType DEF Fail, TypeOK
  <2>5. tried' \in [Keys -> SUBSET ReplyIds]
    BY <1>6, <2>1 DEF Fail, TypeOK
  <2>6. QED
    BY <1>6, <2>3, <2>4, <2>5 DEF Fail, TypeOK, granted
<1>7. ASSUME NEW id \in JobIds, NEW now \in Nows, ClaimNotification(id, now)
      PROVE  TypeOK'
  <2>1. JobClaimed(outbox[id], now) \in Job
    BY <1>n, JobStepsType DEF TypeOK
  <2>2. QED
    BY <1>7, <2>1 DEF ClaimNotification, TypeOK, granted, history
<1>8. ASSUME NEW id \in JobIds, NEW now \in Nows, ClaimReactionNotification(id, now)
      PROVE  TypeOK'
  <2>1. JobClaimed(outbox[id], now) \in Job
    BY <1>n, JobStepsType DEF TypeOK
  <2>2. QED
    BY <1>8, <2>1 DEF ClaimReactionNotification, TypeOK, granted
<1>9. ASSUME NEW id \in JobIds, NEW now \in Nows, NEW token \in 1..outbox[id].attempts,
             RenewNotification(id, token, now)
      PROVE  TypeOK'
  <2>1. [outbox[id] EXCEPT !.leaseExpires = now + JobLease] \in Job
    BY <1>n, JobStepsType DEF TypeOK
  <2>2. QED
    BY <1>9, <2>1 DEF RenewNotification, TypeOK, granted, history
<1>10. ASSUME NEW id \in JobIds, NEW now \in Nows, NEW token \in 1..outbox[id].attempts,
              CompleteNotification(id, token, now)
       PROVE  TypeOK'
  <2>1. JobCompleted(outbox[id]) \in Job
    BY <1>n, JobStepsType DEF TypeOK
  <2>2. outbox' \in [JobIds -> Job]
    BY <1>10, <2>1, SettleType DEF CompleteNotification
  <2>3. QED
    BY <1>10, <2>2 DEF CompleteNotification, TypeOK, granted, history
<1>11. ASSUME NEW id \in JobIds, NEW now \in Nows, NEW token \in 1..outbox[id].attempts,
              NEW at \in Nat, NEW permanent \in BOOLEAN,
              FailNotification(id, token, at, permanent, now)
       PROVE  TypeOK'
  <2>1. JobFailed(outbox[id], at, permanent) \in Job
    BY <1>n, JobStepsType DEF TypeOK
  <2>2. outbox' \in [JobIds -> Job]
    BY <1>11, <2>1, SettleType DEF FailNotification
  <2>3. QED
    BY <1>11, <2>2 DEF FailNotification, TypeOK, granted, history
<1>12. ASSUME NEW k \in Keys, QueueReactions(k)
       PROVE  TypeOK'
  <2>1. outbox' \in [JobIds -> Job]
    BY <1>12, WithReactionsType DEF QueueReactions, TypeOK
  <2>2. QED
    BY <1>12, <2>1 DEF QueueReactions, TypeOK, granted, history
<1>13. CASE Tick
  BY <1>13 DEF Tick, TypeOK, durable, granted, history
<1>14. CASE UNCHANGED vars
  BY <1>14 DEF vars, TypeOK, durable, granted, history
<1>15. ASSUME UseLease PROVE TypeOK'
  BY <1>15, <1>3, <1>4, <1>5, <1>6 DEF UseLease
<1>16. ASSUME UseJob PROVE TypeOK'
  <2>1. 0 \in Nat /\ \A now \in Nows : RetryTimes(now) \subseteq Nat
    BY <1>n, <1>b DEF RetryTimes
  <2>2. QED
    BY <1>16, <1>9, <1>10, <1>11, <2>1 DEF UseJob
<1>17. QED
  BY <1>1, <1>2, <1>7, <1>8, <1>12, <1>13, <1>14, <1>15, <1>16
     DEF Next, RecordEvent, ClaimThread, ClaimJob, RequestReactions

(* Every reachable state of the store has the types internal/domain declares. *)
THEOREM TypeCorrect == Spec => []TypeOK
BY InitType, NextType, PTL DEF Spec

-----------------------------------------------------------------------------
(***************************************************************************)
(* The safety of the work queue, proved for every instance of Store.  The  *)
(* inductive invariant is WorkInv with TypeOK: per thread, the meaning of  *)
(* its fields and the bound its lease token has in what Claim issued; per  *)
(* lease ever granted, that its generation is one the thread has reached   *)
(* and that, while it still is the newest, every queued event was recorded *)
(* before the lease was claimed.                                           *)
(***************************************************************************)

(* What an operation that grants no lease leaves of the record it is given. *)
Kept(t, r) ==
  /\ \/ r.leaseToken = 0
     \/ r.leaseToken = t.leaseToken /\ r.active = t.active /\ r.revision = t.revision
  /\ Exists(t) => r.ticketID = t.ticketID
  /\ t.noteID # NoText => r.noteID = t.noteID

(* The meaning of the fields, with what a thread that was never linked is. *)
Sound(t) == StateMeaningOf(t) /\ (~Exists(t) => t = NoThread)

LEMMA ExistsActive ==
  ASSUME NEW t \in Thread, Sound(t), t.active
  PROVE  Exists(t)
<1>1. SUFFICES ASSUME ~Exists(t) PROVE FALSE
  OBVIOUS
<1>2. t = NoThread
  BY <1>1 DEF Sound
<1>3. ~NoThread.active
  BY DEF NoThread
<1>4. QED
  BY <1>2, <1>3

LEMMA QueuedLive ==
  ASSUME NEW t \in Thread, NEW now \in Nat, After(t.leaseExpires, now)
  PROVE  LET r == Queued(t, now) IN
         /\ r.leaseToken = t.leaseToken /\ r.active = t.active /\ r.revision = t.revision
         /\ r.ticketID = t.ticketID /\ r.noteID = t.noteID
         /\ r.requested = t.requested + 1 /\ r.completed = t.completed
         /\ r.state = t.state /\ r.leaseExpires = t.leaseExpires
         /\ r.lastCommandTS = t.lastCommandTS
BY DEF Queued, Thread

LEMMA QueuedFree ==
  ASSUME NEW t \in Thread, NEW now \in Nat, ~After(t.leaseExpires, now)
  PROVE  LET r == Queued(t, now) IN
         /\ r.leaseToken = 0 /\ r.active = t.active /\ r.revision = t.revision
         /\ r.ticketID = t.ticketID /\ r.noteID = t.noteID
         /\ r.requested = t.requested + 1 /\ r.completed = t.completed
         /\ r.state = "pending" /\ r.leaseExpires = 0
         /\ r.lastCommandTS = t.lastCommandTS
BY DEF Queued, ClearLease, Thread

(* A live lease is a running one. *)
LEMMA LiveRuns ==
  ASSUME NEW t \in Thread, NEW now \in Nat, Sound(t), After(t.leaseExpires, now)
  PROVE  t.state = "running" /\ t.leaseToken # 0 /\ t.leaseExpires # 0 /\ t.completed < t.requested
<1>1. t.leaseExpires # 0
  BY DEF After, Thread
<1>2. t.leaseToken # 0
  BY <1>1 DEF Sound, StateMeaningOf
<1>3. t.state = "running"
  BY <1>2 DEF Sound, StateMeaningOf
<1>4. t.completed < t.requested
  BY <1>3 DEF Sound, StateMeaningOf
<1>5. QED
  BY <1>1, <1>2, <1>3, <1>4

LEMMA QueuedSound ==
  ASSUME NEW t \in Thread, NEW now \in Nat, Sound(t), t.active
  PROVE  LET r == Queued(t, now) IN
         /\ Sound(r) /\ Kept(t, r) /\ Exists(r)
         /\ r.requested = t.requested + 1 /\ r.completed = t.completed
         /\ r.state # "failed"
         /\ r.active /\ r.lastCommandTS = t.lastCommandTS
<1> DEFINE r == Queued(t, now)
<1>1. Exists(t)
  BY ExistsActive
<1>2. r \in Thread
  BY QueuedType
<1>3. CASE After(t.leaseExpires, now)
  <2>1. Exists(r) /\ Kept(t, r)
    BY <1>1, <1>3, QueuedLive DEF Exists, Kept
  <2>n. t.completed \in Nat /\ t.requested \in Nat
    BY DEF Thread
  <2>2. StateMeaningOf(r)
    <3>1. /\ r.state = "running" /\ r.leaseToken # 0 /\ r.leaseExpires # 0
          /\ r.active /\ r.completed < r.requested /\ r.completed <= r.requested
      BY <1>3, <2>n, QueuedLive, LiveRuns
    <3>2. QED
      BY <2>1, <3>1 DEF StateMeaningOf
  <2>3. QED
    BY <1>3, <2>1, <2>2, QueuedLive, LiveRuns DEF Sound
<1>4. CASE ~After(t.leaseExpires, now)
  <2>1. Exists(r) /\ Kept(t, r)
    BY <1>1, <1>4, QueuedFree DEF Exists, Kept
  <2>2. t.completed <= t.requested /\ t.completed \in Nat /\ t.requested \in Nat
    BY DEF Sound, StateMeaningOf, Thread
  <2>3. StateMeaningOf(r)
    <3>1. /\ r.state = "pending" /\ r.leaseToken = 0 /\ r.leaseExpires = 0
          /\ r.active /\ r.completed < r.requested /\ r.completed <= r.requested
      BY <1>4, <2>2, QueuedFree
    <3>2. QED
      BY <2>1, <3>1 DEF StateMeaningOf
  <2>4. QED
    BY <1>4, <2>1, <2>3, QueuedFree DEF Sound
<1>5. QED
  BY <1>3, <1>4

(* Fields that Sound and Kept do not read may differ. *)
LEMMA SameFields ==
  ASSUME NEW t \in Thread, NEW r \in Thread, NEW s \in Thread,
         Sound(r), Kept(t, r), Exists(r),
         s.active = r.active, s.leaseToken = r.leaseToken, s.revision = r.revision,
         s.ticketID = r.ticketID, s.noteID = r.noteID, s.state = r.state,
         s.leaseExpires = r.leaseExpires, s.completed = r.completed,
         s.requested = r.requested
  PROVE  Sound(s) /\ Kept(t, s) /\ Exists(s)
<1>1. Exists(s)
  BY DEF Exists
<1>2. StateMeaningOf(s)
  BY <1>1 DEF Sound, StateMeaningOf
<1>3. QED
  BY <1>1, <1>2 DEF Sound, Kept

LEMMA MessagedSound ==
  ASSUME NEW t \in Thread, NEW e \in Events, NEW now \in Nat, Sound(t), t.active
  PROVE  LET r == Messaged(t, e, now) IN
         /\ Sound(r) /\ Kept(t, r) /\ Exists(r)
         /\ r.requested = t.requested + 1 /\ r.completed = t.completed
         /\ r.state # "failed"
         /\ r.active /\ r.lastCommandTS = t.lastCommandTS
<1> DEFINE q == Queued(t, now)
           r == Messaged(t, e, now)
<1>1. q \in Thread /\ r \in Thread
  BY QueuedType, MessagedType
<1>2. /\ r.active = q.active /\ r.leaseToken = q.leaseToken /\ r.revision = q.revision
      /\ r.ticketID = q.ticketID /\ r.noteID = q.noteID /\ r.state = q.state
      /\ r.leaseExpires = q.leaseExpires /\ r.completed = q.completed
      /\ r.requested = q.requested /\ r.lastCommandTS = q.lastCommandTS
  <2> HIDE DEF q
  <2>1. r = [q EXCEPT !.lastMessageTS = IF Newer(e.messageTS, @) THEN e.messageTS ELSE @]
    BY DEF Messaged, q
  <2>2. QED
    BY <1>1, <2>1 DEF Thread
<1>3. Sound(q) /\ Kept(t, q) /\ Exists(q) /\ q.requested = t.requested + 1
      /\ q.completed = t.completed /\ q.state # "failed" /\ q.active
      /\ q.lastCommandTS = t.lastCommandTS
  BY QueuedSound
<1>4. QED
  BY <1>1, <1>2, <1>3, SameFields

LEMMA StampSound ==
  ASSUME NEW t \in Thread, NEW ts \in Nat, Sound(t), Exists(t)
  PROVE  LET s == [t EXCEPT !.lastCommandTS = ts] IN
         /\ s \in Thread /\ Sound(s) /\ Exists(s)
         /\ s.active = t.active /\ s.leaseToken = t.leaseToken /\ s.revision = t.revision
         /\ s.ticketID = t.ticketID /\ s.noteID = t.noteID /\ s.state = t.state
         /\ s.completed = t.completed /\ s.requested = t.requested
         /\ s.lastCommandTS = ts
<1> DEFINE s == [t EXCEPT !.lastCommandTS = ts]
<1>1. s \in Thread
  BY DEF Thread
<1>2. /\ s.active = t.active /\ s.leaseToken = t.leaseToken /\ s.revision = t.revision
      /\ s.ticketID = t.ticketID /\ s.noteID = t.noteID /\ s.state = t.state
      /\ s.completed = t.completed /\ s.requested = t.requested
      /\ s.leaseExpires = t.leaseExpires /\ s.lastCommandTS = ts
  BY DEF Thread
<1>3. Kept(t, t)
  BY DEF Kept
<1> HIDE DEF s
<1>4. Sound(s) /\ Exists(s)
  BY <1>1, <1>2, <1>3, SameFields
<1> USE DEF s
<1>5. QED
  BY <1>1, <1>2, <1>4

LEMMA UntrackedSound ==
  ASSUME NEW t \in Thread, Sound(t), Exists(t)
  PROVE  LET r == Untracked(t) IN
         /\ Sound(r) /\ Kept(t, r) /\ ~r.active
         /\ r.completed = t.completed /\ r.requested = t.requested
         /\ r.state = "failed" => t.state = "failed"
         /\ r.lastCommandTS = t.lastCommandTS
<1> DEFINE r == Untracked(t)
<1>1. CASE ~t.active
  BY <1>1 DEF Untracked, Kept
<1>2. CASE t.active
  <2>1. /\ r.leaseToken = 0 /\ r.leaseExpires = 0 /\ r.active = FALSE
        /\ r.state = "stopped" /\ r.completed = t.completed /\ r.requested = t.requested
        /\ r.ticketID = t.ticketID /\ r.noteID = t.noteID
        /\ r.lastCommandTS = t.lastCommandTS
    BY <1>2 DEF Untracked, ClearLease, Thread
  <2> HIDE DEF r
  <2>2. Exists(r) /\ Kept(t, r)
    BY <2>1 DEF Exists, Kept
  <2>3. r.completed <= r.requested
    BY <2>1 DEF Sound, StateMeaningOf
  <2>4. Sound(r)
    BY <2>1, <2>2, <2>3 DEF Sound, StateMeaningOf
  <2> USE DEF r
  <2>5. QED
    BY <2>1, <2>2, <2>4
<1>3. QED
  BY <1>1, <1>2

LEMMA ResumedSound ==
  ASSUME NEW t \in Thread, Sound(t), Exists(t)
  PROVE  LET r == Resumed(t) IN
         /\ Sound(r) /\ Kept(t, r) /\ r.active
         /\ r.completed = t.completed
         /\ \/ r = t
            \/ r.requested = t.requested + 1 /\ r.state # "failed"
         /\ r.lastCommandTS = t.lastCommandTS
<1> DEFINE r == Resumed(t)
<1>1. CASE t.active
  BY <1>1 DEF Resumed, Kept
<1>2. CASE ~t.active
  <2>1. /\ r.leaseToken = 0 /\ r.leaseExpires = 0 /\ r.active = TRUE
        /\ r.state = "pending" /\ r.completed = t.completed
        /\ r.requested = t.requested + 1
        /\ r.ticketID = t.ticketID /\ r.noteID = t.noteID
        /\ r.lastCommandTS = t.lastCommandTS
    BY <1>2 DEF Resumed, ClearLease, Thread
  <2> HIDE DEF r
  <2>2. Exists(r) /\ Kept(t, r)
    BY <2>1 DEF Exists, Kept
  <2>n. t.completed <= t.requested /\ t.completed \in Nat /\ t.requested \in Nat
    BY DEF Sound, StateMeaningOf, Thread
  <2>3. r.completed <= r.requested /\ r.completed < r.requested
    BY <2>1, <2>n
  <2>4. Sound(r)
    BY <2>1, <2>2, <2>3 DEF Sound, StateMeaningOf
  <2> USE DEF r
  <2>5. QED
    BY <2>1, <2>2, <2>4
<1>3. QED
  BY <1>1, <1>2

LEMMA SyncedSound ==
  ASSUME NEW t \in Thread, NEW e \in Events, NEW now \in Nat, Sound(t), Exists(t)
  PROVE  LET r == Synced(t, e, now) IN
         /\ Sound(r) /\ Kept(t, r)
         /\ r.completed = t.completed
         /\ \/ r = t
            \/ r.requested = t.requested + 1 /\ r.state # "failed"
         /\ r.lastCommandTS = t.lastCommandTS
<1> DEFINE q == Queued(t, now)
           r == Synced(t, e, now)
<1>1. CASE ~t.active
  BY <1>1 DEF Synced, Kept
<1>2. CASE t.active
  <2>1. q \in Thread /\ e.messageTS \in Nat
    BY QueuedType, StoreAssumption DEF Event
  <2>2. Sound(q) /\ Kept(t, q) /\ Exists(q) /\ q.requested = t.requested + 1
        /\ q.completed = t.completed /\ q.state # "failed"
        /\ q.lastCommandTS = t.lastCommandTS
    BY <1>2, QueuedSound
  <2> HIDE DEF q
  <2>3. r = [q EXCEPT !.attachmentRetryTS = e.messageTS]
    BY <1>2 DEF Synced, q
  <2>4. /\ r \in Thread
        /\ r.active = q.active /\ r.leaseToken = q.leaseToken /\ r.revision = q.revision
        /\ r.ticketID = q.ticketID /\ r.noteID = q.noteID /\ r.state = q.state
        /\ r.leaseExpires = q.leaseExpires /\ r.completed = q.completed
        /\ r.requested = q.requested /\ r.lastCommandTS = q.lastCommandTS
    BY <2>1, <2>3 DEF Thread
  <2> HIDE DEF r
  <2>5. Sound(r) /\ Kept(t, r)
    BY <2>1, <2>2, <2>4, SameFields
  <2> USE DEF r
  <2>6. QED
    BY <2>2, <2>4, <2>5
<1>3. QED
  BY <1>1, <1>2

LEMMA CommandedSound ==
  ASSUME NEW t \in Thread, NEW e \in Events, NEW now \in Nat, Sound(t), Exists(t),
         e.command \in TrackingCommands
  PROVE  LET r == Commanded(t, e, now) IN
         /\ Sound(r) /\ Kept(t, r) /\ r.completed = t.completed
         /\ \/ r.requested = t.requested /\ (r.state = "failed" => t.state = "failed")
            \/ r.requested = t.requested + 1 /\ r.state # "failed"
         /\ r.lastCommandTS = e.messageTS
         /\ e.command = "untrack" => ~r.active
         /\ e.command = "resume" => r.active
<1> DEFINE s == [t EXCEPT !.lastCommandTS = e.messageTS]
           r == Commanded(t, e, now)
<1>1. e.messageTS \in Nat
  BY StoreAssumption DEF Event
<1>2. /\ s \in Thread /\ Sound(s) /\ Exists(s)
      /\ s.active = t.active /\ s.leaseToken = t.leaseToken /\ s.revision = t.revision
      /\ s.ticketID = t.ticketID /\ s.noteID = t.noteID /\ s.state = t.state
      /\ s.completed = t.completed /\ s.requested = t.requested
      /\ s.lastCommandTS = e.messageTS
  BY <1>1, StampSound
<1>3. \A x : Kept(s, x) => Kept(t, x)
  BY <1>2 DEF Kept, Exists
<1> HIDE DEF s
<1>4. CASE e.command = "sync"
  <2>1. r = Synced(s, e, now)
    BY <1>4 DEF Commanded, s
  <2>2. QED
    BY <1>2, <1>3, <1>4, <2>1, SyncedSound
<1>5. CASE e.command = "untrack"
  <2>1. r = Untracked(s)
    BY <1>5 DEF Commanded, s
  <2>2. QED
    BY <1>2, <1>3, <1>5, <2>1, UntrackedSound
<1>6. CASE e.command = "resume"
  <2>1. r = Resumed(s)
    BY <1>6 DEF Commanded, s
  <2>2. QED
    BY <1>2, <1>3, <1>6, <2>1, ResumedSound
<1>7. QED
  BY <1>4, <1>5, <1>6 DEF TrackingCommands

(* What Record does to the record of its event's thread. *)
LEMMA EffectSound ==
  ASSUME TypeOK, NEW e \in Events, NEW now \in Nat, Sound(threads[e.key])
  PROVE  LET t == threads[e.key]
             r == Effect(e, now) IN
         /\ Sound(r) /\ Kept(t, r) /\ r.completed = t.completed
         /\ \/ r.requested = t.requested /\ (r.state = "failed" => t.state = "failed")
            \/ r.requested = t.requested + 1 /\ r.state # "failed"
         /\ Queues(e, now) <=> r.requested > t.requested
         /\ Applies(e) => /\ r.lastCommandTS = e.messageTS
                          /\ e.command = "untrack" => ~r.active
                          /\ e.command = "resume" => r.active
         /\ ~Applies(e) => /\ r.lastCommandTS = t.lastCommandTS
                           /\ Exists(t) => r.active = t.active
<1> DEFINE t == threads[e.key]
           r == Effect(e, now)
<1>1. e.key \in Keys /\ t \in Thread
  BY StoreAssumption DEF TypeOK, Event
<1>2. CASE NewThread(e)
  <2>1. t = NoThread /\ ~Exists(t)
    BY <1>2 DEF Sound, NewThread
  <2>2. r = Linked(e)
    <3>1. ~NewMessage(e) /\ ~Applies(e)
      BY <1>2 DEF NewThread, NewMessage, Applies
    <3>2. QED
      BY <1>2, <3>1 DEF Effect
  <2>3. e.ticketID # NoText
    BY <1>2, StoreAssumption, RecordAssumption DEF NewThread
  <2>4. /\ r.active = TRUE /\ r.leaseToken = 0 /\ r.leaseExpires = 0
        /\ r.state = "pending" /\ r.completed = 0 /\ r.requested = 1
        /\ r.ticketID = e.ticketID /\ r.lastCommandTS = 0
    BY <2>2 DEF Linked, NoThread
  <2>5. /\ t.completed = 0 /\ t.requested = 0 /\ t.lastCommandTS = 0
        /\ t.noteID = NoText
    <3>1. /\ NoThread.completed = 0 /\ NoThread.requested = 0
          /\ NoThread.lastCommandTS = 0 /\ NoThread.noteID = NoText
      BY DEF NoThread
    <3>2. QED
      BY <2>1, <3>1
  <2> HIDE DEF r, t
  <2>6. Exists(r) /\ Kept(t, r)
    BY <2>1, <2>3, <2>4, <2>5 DEF Exists, Kept
  <2>7. Sound(r)
    <3>1. r.completed < r.requested /\ r.completed <= r.requested
      BY <2>4
    <3>2. QED
      BY <2>4, <2>6, <3>1 DEF Sound, StateMeaningOf
  <2>8. ~Applies(e)
    BY <1>2 DEF Applies, NewThread
  <2>9. Queues(e, now)
    BY <1>2, <2>4, <2>5 DEF Queues, Changes, r, t
  <2> USE DEF r, t
  <2>10. QED
    BY <2>1, <2>4, <2>5, <2>6, <2>7, <2>8, <2>9
<1>3. CASE NewMessage(e)
  <2>1. ~NewThread(e) /\ ~Applies(e) /\ t.active
    BY <1>3 DEF NewThread, NewMessage, Applies
  <2>2. r = Messaged(t, e, now)
    BY <1>3, <2>1 DEF Effect
  <2>3. /\ Sound(r) /\ Kept(t, r) /\ r.requested = t.requested + 1
        /\ r.completed = t.completed /\ r.state # "failed"
        /\ r.active /\ r.lastCommandTS = t.lastCommandTS
    BY <1>1, <2>1, <2>2, MessagedSound
  <2>a. r.active = t.active
    <3>1. r \in Thread
      BY EffectType
    <3>2. r.active \in BOOLEAN /\ t.active \in BOOLEAN
      BY <1>1, <3>1 DEF Thread
    <3>3. QED
      BY <2>1, <2>3, <3>2
  <2>4. t.requested \in Nat
    BY <1>1 DEF Thread
  <2>5. Queues(e, now) /\ r.requested > t.requested
    BY <1>3, <2>3, <2>4 DEF Queues, Changes
  <2>6. QED
    BY <2>1, <2>3, <2>a, <2>5
<1>4. CASE Applies(e)
  <2>1. ~NewThread(e) /\ ~NewMessage(e) /\ Exists(t) /\ e.command \in TrackingCommands
    BY <1>4 DEF NewThread, NewMessage, Applies
  <2>2. r = Commanded(t, e, now)
    BY <1>4, <2>1 DEF Effect
  <2>3. /\ Sound(r) /\ Kept(t, r) /\ r.completed = t.completed
        /\ \/ r.requested = t.requested /\ (r.state = "failed" => t.state = "failed")
           \/ r.requested = t.requested + 1 /\ r.state # "failed"
        /\ r.lastCommandTS = e.messageTS
        /\ e.command = "untrack" => ~r.active
        /\ e.command = "resume" => r.active
    BY <1>1, <2>1, <2>2, CommandedSound
  <2>5. Queues(e, now) <=> r.requested > t.requested
    BY <1>4 DEF Queues, Changes
  <2>6. QED
    BY <1>4, <2>3, <2>5
<1>5. CASE ~Changes(e)
  <2>1. r = t /\ ~Applies(e)
    BY <1>5 DEF Changes, Effect
  <2>2. Kept(t, t) /\ ~(t.requested > t.requested) /\ ~Queues(e, now)
    BY <1>1, <1>5 DEF Kept, Queues, Thread
  <2>3. QED
    BY <2>1, <2>2
<1>6. QED
  BY <1>2, <1>3, <1>4, <1>5 DEF Changes

LEMMA ClaimedSound ==
  ASSUME NEW t \in Thread, NEW token \in Nat \ {0}, NEW now \in Nat,
         Sound(t), Claimable(t, now)
  PROVE  LET r == Claimed(t, token, now) IN
         /\ Sound(r) /\ r.leaseToken = token
         /\ r.completed = t.completed /\ r.requested = t.requested
         /\ r.active = t.active /\ r.lastCommandTS = t.lastCommandTS
         /\ r.state # "failed" /\ r.ticketID = t.ticketID /\ r.noteID = t.noteID
<1> DEFINE r == Claimed(t, token, now)
<1>1. /\ r.active = t.active /\ r.leaseToken = token /\ r.leaseExpires = now + LeaseDuration
      /\ r.state = "running" /\ r.completed = t.completed /\ r.requested = t.requested
      /\ r.ticketID = t.ticketID /\ r.noteID = t.noteID
      /\ r.lastCommandTS = t.lastCommandTS
  BY DEF Claimed, Thread
<1>2. now + LeaseDuration # 0
  BY RecordAssumption
<1>3. t.active /\ t.completed < t.requested /\ t.completed \in Nat /\ t.requested \in Nat
  BY DEF Claimable, Thread
<1>4. Exists(t)
  BY <1>3, ExistsActive
<1> HIDE DEF r
<1>5. Exists(r)
  BY <1>1, <1>4 DEF Exists
<1>6. Sound(r)
  BY <1>1, <1>2, <1>3, <1>5 DEF Sound, StateMeaningOf
<1> USE DEF r
<1>7. QED
  BY <1>1, <1>6

LEMMA HeldSound ==
  ASSUME NEW t \in Thread, NEW l \in Lease, NEW now \in Nat, Sound(t), Validate(t, l, now)
  PROVE  /\ Exists(t) /\ t.active /\ t.leaseToken = l.token
         /\ t.state = "running" /\ t.leaseToken # 0 /\ t.leaseExpires # 0
         /\ t.completed < t.requested
BY ExistsActive, LiveRuns DEF Validate

LEMMA RenewedSound ==
  ASSUME NEW t \in Thread, NEW l \in Lease, NEW now \in Nat, Sound(t), Validate(t, l, now)
  PROVE  LET r == Renewed(t, now) IN
         /\ Sound(r) /\ Kept(t, r)
         /\ r.completed = t.completed /\ r.requested = t.requested
         /\ r.active = t.active /\ r.lastCommandTS = t.lastCommandTS
         /\ r.state = t.state
<1> DEFINE r == Renewed(t, now)
<1>1. /\ r.active = t.active /\ r.leaseToken = t.leaseToken /\ r.revision = t.revision
      /\ r.leaseExpires = now + LeaseDuration
      /\ r.state = t.state /\ r.completed = t.completed /\ r.requested = t.requested
      /\ r.ticketID = t.ticketID /\ r.noteID = t.noteID
      /\ r.lastCommandTS = t.lastCommandTS
  BY DEF Renewed, Thread
<1>2. now + LeaseDuration # 0
  BY RecordAssumption
<1>3. /\ Exists(t) /\ t.leaseToken # 0 /\ t.leaseExpires # 0
  BY HeldSound
<1> HIDE DEF r
<1>4. Exists(r) /\ Kept(t, r)
  BY <1>1, <1>3 DEF Exists, Kept
<1>5. Sound(r)
  BY <1>1, <1>2, <1>3, <1>4 DEF Sound, StateMeaningOf
<1> USE DEF r
<1>6. QED
  BY <1>1, <1>4, <1>5

LEMMA NoteSavedSound ==
  ASSUME NEW t \in Thread, NEW l \in Lease, NEW now \in Nat, NEW note \in Notes,
         Sound(t), Validate(t, l, now), NoteAccepted(t, note)
  PROVE  LET r == NoteSaved(t, note) IN
         /\ Sound(r) /\ Kept(t, r)
         /\ r.completed = t.completed /\ r.requested = t.requested
         /\ r.active = t.active /\ r.lastCommandTS = t.lastCommandTS
         /\ r.state = t.state
<1> DEFINE r == NoteSaved(t, note)
<1>1. /\ r.active = t.active /\ r.leaseToken = t.leaseToken /\ r.revision = t.revision
      /\ r.leaseExpires = t.leaseExpires
      /\ r.state = t.state /\ r.completed = t.completed /\ r.requested = t.requested
      /\ r.ticketID = t.ticketID /\ r.noteID = note
      /\ r.lastCommandTS = t.lastCommandTS
  BY DEF NoteSaved, Thread
<1>2. Exists(t)
  BY HeldSound
<1> HIDE DEF r
<1>3. Exists(r) /\ Kept(t, r)
  BY <1>1, <1>2 DEF Exists, Kept, NoteAccepted
<1>4. Sound(r)
  BY <1>1, <1>2, <1>3 DEF Sound, StateMeaningOf
<1> USE DEF r
<1>5. QED
  BY <1>1, <1>3, <1>4

LEMMA CompletedSound ==
  ASSUME NEW t \in Thread, NEW l \in Lease, NEW now \in Nat, NEW ts \in Nat, NEW at \in Nat,
         Sound(t), Validate(t, l, now), l.generation <= t.requested
  PROVE  LET r == Completed(t, l, ts, at) IN
         /\ Sound(r) /\ Kept(t, r)
         /\ r.requested >= t.requested
         /\ r.completed = r.requested => l.generation = t.requested
         /\ r.active = t.active /\ r.lastCommandTS = t.lastCommandTS
         /\ r.state # "failed"
<1> DEFINE r == Completed(t, l, ts, at)
           done == Larger(t.completed, l.generation)
           wanted == IF at # 0 THEN Larger(t.requested, l.generation + 1) ELSE t.requested
<1>1. /\ r.active = t.active /\ r.leaseToken = 0 /\ r.leaseExpires = 0
      /\ r.completed = done /\ r.requested = wanted
      /\ r.state = IF at # 0 THEN "retrying"
                   ELSE IF t.requested > done THEN "pending" ELSE "up-to-date"
      /\ r.ticketID = t.ticketID /\ r.noteID = t.noteID
      /\ r.lastCommandTS = t.lastCommandTS
  BY DEF Completed, ClearLease, Thread
<1>2. /\ Exists(t) /\ t.active /\ t.completed < t.requested
      /\ t.completed \in Nat /\ t.requested \in Nat /\ l.generation \in Nat
  BY HeldSound DEF Thread, Lease
<1>3. /\ done \in Nat /\ wanted \in Nat /\ done <= wanted /\ wanted >= t.requested
      /\ at # 0 => done < wanted
      /\ at = 0 => wanted = t.requested
      /\ done = t.requested => l.generation = t.requested
  BY <1>2 DEF Larger
<1> HIDE DEF r, done, wanted
<1>4. Exists(r) /\ Kept(t, r)
  BY <1>1, <1>2 DEF Exists, Kept
<1>5. r.completed <= r.requested
  BY <1>1, <1>3
<1>6. CASE at # 0
  <2>1. r.state = "retrying" /\ r.completed < r.requested
    BY <1>1, <1>3, <1>6
  <2>2. Sound(r)
    BY <1>1, <1>2, <1>4, <1>5, <2>1 DEF Sound, StateMeaningOf
  <2> USE DEF r
  <2>3. QED
    BY <1>1, <1>3, <1>4, <2>1, <2>2
<1>7. CASE at = 0 /\ t.requested > done
  <2>1. r.state = "pending" /\ r.completed < r.requested
    BY <1>1, <1>3, <1>7
  <2>2. Sound(r)
    BY <1>1, <1>2, <1>4, <1>5, <2>1 DEF Sound, StateMeaningOf
  <2> USE DEF r
  <2>3. QED
    BY <1>1, <1>3, <1>4, <2>1, <2>2
<1>8. CASE at = 0 /\ ~(t.requested > done)
  <2>1. r.state = "up-to-date" /\ r.completed = r.requested /\ done = t.requested
    BY <1>1, <1>2, <1>3, <1>8
  <2>2. Sound(r)
    BY <1>1, <1>2, <1>4, <1>5, <2>1 DEF Sound, StateMeaningOf
  <2> USE DEF r
  <2>3. QED
    BY <1>1, <1>3, <1>4, <2>1, <2>2
<1>9. QED
  BY <1>6, <1>7, <1>8

LEMMA FailedSound ==
  ASSUME NEW t \in Thread, NEW l \in Lease, NEW now \in Nat, NEW error \in Errors,
         NEW at \in Nat, NEW permanent \in BOOLEAN,
         Sound(t), Validate(t, l, now), l.generation <= t.requested
  PROVE  LET r == Failed(t, l, error, at, permanent) IN
         /\ Sound(r) /\ Kept(t, r)
         /\ r.requested = t.requested /\ r.completed = t.completed
         /\ r.active = t.active /\ r.lastCommandTS = t.lastCommandTS
         /\ r.state = "failed" => l.generation = t.requested
<1> DEFINE r == Failed(t, l, error, at, permanent)
<1>1. /\ r.active = t.active /\ r.leaseToken = 0 /\ r.leaseExpires = 0
      /\ r.completed = t.completed /\ r.requested = t.requested
      /\ r.state = IF t.requested > l.generation THEN "pending"
                   ELSE IF permanent THEN "failed" ELSE "retrying"
      /\ r.ticketID = t.ticketID /\ r.noteID = t.noteID
      /\ r.lastCommandTS = t.lastCommandTS
  BY DEF Failed, ClearLease, Thread
<1>2. /\ Exists(t) /\ t.active /\ t.completed < t.requested
      /\ t.completed \in Nat /\ t.requested \in Nat /\ l.generation \in Nat
  BY HeldSound DEF Thread, Lease
<1>3. r.state \in {"pending", "failed", "retrying"}
      /\ (r.state = "failed" => l.generation = t.requested)
  BY <1>1, <1>2
<1>4. r.completed <= r.requested /\ r.completed < r.requested
  BY <1>1, <1>2
<1> HIDE DEF r
<1>5. Exists(r) /\ Kept(t, r)
  BY <1>1, <1>2 DEF Exists, Kept
<1>6. Sound(r)
  BY <1>1, <1>2, <1>3, <1>4, <1>5 DEF Sound, StateMeaningOf
<1> USE DEF r
<1>7. QED
  BY <1>1, <1>3, <1>5, <1>6

-----------------------------------------------------------------------------
(* The inductive invariant of the work queue, per thread and per lease: a  *)
(* lease never names more than is requested, and one that names all of it  *)
(* was claimed after every queued event; tokens never exceed those issued. *)
KeyInv(k) ==
  /\ Sound(threads[k])
  /\ threads[k].leaseToken <= issued[k]
  /\ threads[k].completed = threads[k].requested => queued[k] \subseteq covered[k]
  /\ threads[k].state = "failed" => queued[k] \subseteq tried[k]

LeaseInv(l) ==
  /\ l.token <= issued[l.key]
  /\ l.generation <= threads[l.key].requested
  /\ l.generation = threads[l.key].requested => queued[l.key] \subseteq l.seen

WorkInv == (\A k \in Keys : KeyInv(k)) /\ (\A l \in leases : LeaseInv(l))

Fenced == \A l \in leases : ~Owns(l) => ~Owns(l)'
MappingKept ==
  \A k \in Keys :
    /\ Exists(threads[k]) => threads'[k].ticketID = threads[k].ticketID
    /\ threads[k].noteID # NoText => threads'[k].noteID = threads[k].noteID

LEMMA StepCases ==
  ASSUME TypeOK, [Next]_vars
  PROVE  \/ \E e \in Events, now \in Nat : Record(e, now)
         \/ \E k \in Keys, now \in Nat : Claim(k, now)
         \/ \E l \in leases, now \in Nat : Renew(l, now)
         \/ \E l \in leases, now \in Nat, note \in Notes : SaveNote(l, note, now)
         \/ \E l \in leases, now \in Nat, ts \in Nat, at \in Nat : Complete(l, ts, at, now)
         \/ \E l \in leases, now \in Nat, error \in Errors, at \in Nat, permanent \in BOOLEAN :
              Fail(l, error, at, permanent, now)
         \/ UNCHANGED <<threads, leases, issued, queued, covered, tried, heard>>
<1>1. Nows \subseteq Nat
  BY NowsType DEF TypeOK
<1>2. Backoff \in Nat
  BY StoreAssumption
<1>3. \A l \in leases : SyncableTS(l.key) \subseteq Nat
  <2>1. \A e \in Events : e.messageTS \in Nat
    BY StoreAssumption DEF Event
  <2>2. QED
    BY <2>1 DEF SyncableTS
<1>4. \A now \in Nows : RetryTimes(now) \subseteq Nat /\ now + Backoff \in Nat
  BY <1>1, <1>2 DEF RetryTimes
<1>5. UseLease =>
         \/ \E l \in leases, now \in Nat : Renew(l, now)
         \/ \E l \in leases, now \in Nat, note \in Notes : SaveNote(l, note, now)
         \/ \E l \in leases, now \in Nat, ts \in Nat, at \in Nat : Complete(l, ts, at, now)
         \/ \E l \in leases, now \in Nat, error \in Errors, at \in Nat, permanent \in BOOLEAN :
              Fail(l, error, at, permanent, now)
  <2>1. SUFFICES ASSUME NEW l \in leases, NEW now \in Nows,
                   \/ Renew(l, now)
                   \/ \E note \in Notes : SaveNote(l, note, now)
                   \/ \E ts \in SyncableTS(l.key), at \in {0, now + Backoff} : Complete(l, ts, at, now)
                   \/ \E error \in Errors \ {NoText}, at \in RetryTimes(now), permanent \in BOOLEAN :
                        Fail(l, error, at, permanent, now)
        PROVE  \/ Renew(l, now)
               \/ \E note \in Notes : SaveNote(l, note, now)
               \/ \E ts \in Nat, at \in Nat : Complete(l, ts, at, now)
               \/ \E error \in Errors, at \in Nat, permanent \in BOOLEAN :
                    Fail(l, error, at, permanent, now)
    BY <1>1 DEF UseLease
  <2>2. {0, now + Backoff} \subseteq Nat
    BY <1>4
  <2>3. QED
    BY <1>3, <1>4, <2>1, <2>2
<1>6. ClaimJob => UNCHANGED <<threads, leases, issued, queued, covered, tried, heard>>
  BY DEF ClaimJob, ClaimNotification, ClaimReactionNotification, granted, history
<1>7. UseJob => UNCHANGED <<threads, leases, issued, queued, covered, tried, heard>>
  BY DEF UseJob, RenewNotification, CompleteNotification, FailNotification, granted, history
<1>8. RequestReactions \/ Tick \/ UNCHANGED vars
        => UNCHANGED <<threads, leases, issued, queued, covered, tried, heard>>
  BY DEF RequestReactions, QueueReactions, Tick, vars, durable, granted, history
<1>9. RecordEvent => \E e \in Events, now \in Nat : Record(e, now)
  BY <1>1 DEF RecordEvent
<1>10. ClaimThread => \E k \in Keys, now \in Nat : Claim(k, now)
  BY <1>1 DEF ClaimThread
<1>11. QED
  BY <1>5, <1>6, <1>7, <1>8, <1>9, <1>10 DEF Next

LEMMA PutThread ==
  ASSUME TypeOK, NEW k \in Keys, NEW r, Put(k, r)
  PROVE  /\ threads'[k] = r
         /\ \A j \in Keys \ {k} : threads'[j] = threads[j]
BY DEF Put, TypeOK

(* An operation that keeps the record's lease or clears it fences, and keeps mappings. *)
LEMMA KeptStep ==
  ASSUME TypeOK, NEW k \in Keys, NEW r, Put(k, r), Kept(threads[k], r)
  PROVE  Fenced /\ MappingKept
<1>1. /\ threads'[k] = r
      /\ \A j \in Keys \ {k} : threads'[j] = threads[j]
  BY PutThread
<1>2. Fenced
  <2>1. SUFFICES ASSUME NEW l \in leases, ~Owns(l), Owns(l)'
                 PROVE  FALSE
    BY DEF Fenced
  <2>2. l.key \in Keys
    BY DEF TypeOK, Lease
  <2>3. CASE l.key # k
    BY <1>1, <2>1, <2>2, <2>3 DEF Owns
  <2>4. CASE l.key = k
    BY <1>1, <2>1, <2>4 DEF Owns, Kept
  <2>5. QED
    BY <2>3, <2>4
<1>3. MappingKept
  BY <1>1 DEF MappingKept, Kept
<1>4. QED
  BY <1>2, <1>3

LEMMA RecordWork ==
  ASSUME TypeOK, WorkInv, NEW e \in Events, NEW now \in Nat, Record(e, now)
  PROVE  WorkInv' /\ Fenced /\ MappingKept
<1> DEFINE k == e.key
           t == threads[k]
           r == Effect(e, now)
<1>1. k \in Keys /\ t \in Thread /\ r \in Thread
  BY EffectType, StoreAssumption DEF TypeOK, Event
<1>2. /\ Sound(r) /\ Kept(t, r) /\ r.completed = t.completed
      /\ \/ r.requested = t.requested /\ (r.state = "failed" => t.state = "failed")
         \/ r.requested = t.requested + 1 /\ r.state # "failed"
      /\ Queues(e, now) <=> r.requested > t.requested
  BY <1>1, EffectSound DEF WorkInv, KeyInv
<1>3. /\ threads'[k] = r
      /\ \A j \in Keys \ {k} : threads'[j] = threads[j]
  BY <1>1, PutThread DEF Record
<1>4. /\ UNCHANGED <<leases, issued, covered, tried>>
      /\ queued' = IF Queues(e, now) THEN [queued EXCEPT ![k] = @ \cup {e.id}] ELSE queued
  BY DEF Record, granted
<1>5. \A j \in Keys \ {k} : queued'[j] = queued[j]
  BY <1>1, <1>4 DEF TypeOK
<1>6. ~Queues(e, now) => queued'[k] = queued[k] /\ r.requested = t.requested
                         /\ (r.state = "failed" => t.state = "failed")
  <2>1. t.requested \in Nat
    BY <1>1 DEF Thread
  <2>2. QED
    BY <1>2, <1>4, <2>1
<1>7. Queues(e, now) => r.requested = t.requested + 1 /\ r.state # "failed"
  <2>1. t.requested \in Nat
    BY <1>1 DEF Thread
  <2>2. QED
    BY <1>2, <2>1
<1>8. /\ t.requested \in Nat /\ t.completed <= t.requested /\ t.completed \in Nat
      /\ t.leaseToken <= issued[k] /\ issued[k] \in Nat
  BY <1>1 DEF WorkInv, KeyInv, Sound, StateMeaningOf, Thread, TypeOK
<1> HIDE DEF t, r
<1>9. KeyInv(k)'
  <2>1. r.leaseToken <= issued[k]
    BY <1>2, <1>8 DEF Kept
  <2>2. r.completed = r.requested => queued'[k] \subseteq covered[k]
    <3>1. CASE Queues(e, now)
      BY <1>2, <1>7, <1>8, <3>1
    <3>2. CASE ~Queues(e, now)
      BY <1>1, <1>2, <1>6, <3>2 DEF WorkInv, KeyInv, t
    <3>3. QED
      BY <3>1, <3>2
  <2>3. r.state = "failed" => queued'[k] \subseteq tried[k]
    BY <1>1, <1>6, <1>7 DEF WorkInv, KeyInv, t
  <2>4. QED
    BY <1>2, <1>3, <1>4, <2>1, <2>2, <2>3 DEF KeyInv
<1>10. \A j \in Keys \ {k} : KeyInv(j)'
  BY <1>3, <1>4, <1>5 DEF WorkInv, KeyInv
<1>11. \A l \in leases' : LeaseInv(l)'
  <2>1. SUFFICES ASSUME NEW l \in leases PROVE LeaseInv(l)'
    BY <1>4
  <2>2. l.key \in Keys /\ LeaseInv(l) /\ l.generation \in Nat
    BY DEF TypeOK, Lease, WorkInv
  <2>3. CASE l.key # k
    BY <1>3, <1>4, <1>5, <2>2, <2>3 DEF LeaseInv
  <2>4. CASE l.key = k
    BY <1>3, <1>4, <1>6, <1>7, <1>8, <2>2, <2>4 DEF LeaseInv, t
  <2>5. QED
    BY <2>3, <2>4
<1>12. Fenced /\ MappingKept
  BY <1>1, <1>2, KeptStep DEF Record, t, r
<1>13. QED
  BY <1>9, <1>10, <1>11, <1>12 DEF WorkInv

LEMMA ClaimWork ==
  ASSUME TypeOK, WorkInv, NEW k \in Keys, NEW now \in Nat, Claim(k, now)
  PROVE  WorkInv' /\ Fenced /\ MappingKept
<1> DEFINE t == threads[k]
           token == issued[k] + 1
           r == Claimed(t, token, now)
           new == [key |-> k, token |-> token, generation |-> t.requested,
                   revision |-> t.revision, seen |-> queued[k]]
<1>1. t \in Thread /\ issued[k] \in Nat /\ token \in Nat \ {0}
  BY DEF TypeOK
<1>2. /\ Sound(r) /\ r.leaseToken = token
      /\ r.completed = t.completed /\ r.requested = t.requested
      /\ r.active = t.active /\ r.state # "failed"
      /\ r.ticketID = t.ticketID /\ r.noteID = t.noteID
  BY <1>1, ClaimedSound DEF WorkInv, KeyInv, Claim
<1>3. /\ threads'[k] = r
      /\ \A j \in Keys \ {k} : threads'[j] = threads[j]
  BY PutThread DEF Claim
<1>4. /\ UNCHANGED <<queued, covered, tried>>
      /\ issued'[k] = token
      /\ \A j \in Keys \ {k} : issued'[j] = issued[j]
      /\ leases' = leases \cup {new}
  BY DEF Claim, NewLease, TypeOK
<1>5. new.key = k /\ new.token = token /\ new.generation = t.requested /\ new.seen = queued[k]
  OBVIOUS
<1>6. t.requested \in Nat /\ token <= token
  BY <1>1 DEF Thread
<1>t. token = issued[k] + 1
  OBVIOUS
<1> HIDE DEF r, new, token
<1>7. KeyInv(k)'
  BY <1>2, <1>3, <1>4, <1>6 DEF WorkInv, KeyInv
<1>8. \A j \in Keys \ {k} : KeyInv(j)'
  BY <1>3, <1>4 DEF WorkInv, KeyInv
<1>9. \A l \in leases' : LeaseInv(l)'
  <2>1. ASSUME NEW l, l = new PROVE LeaseInv(l)'
    <3>1. l.key = k /\ l.token = token /\ l.generation = t.requested /\ l.seen = queued[k]
      BY <1>5, <2>1
    <3>2. issued'[l.key] = token /\ threads'[l.key] = r /\ queued'[l.key] = queued[k]
      BY <1>3, <1>4, <3>1
    <3>3. l.token <= issued'[l.key]
      BY <1>6, <3>1, <3>2
    <3>4. threads'[l.key].requested = t.requested
      BY <1>2, <3>2
    <3>5. /\ l.generation <= threads'[l.key].requested
          /\ queued'[l.key] \subseteq l.seen
      BY <1>6, <3>1, <3>2, <3>4
    <3>6. QED
      BY <3>3, <3>5 DEF LeaseInv
  <2>2. ASSUME NEW l \in leases PROVE LeaseInv(l)'
    <3>1. l.key \in Keys /\ LeaseInv(l) /\ l.token \in Nat
      BY DEF TypeOK, Lease, WorkInv
    <3>2. CASE l.key # k
      BY <1>3, <1>4, <3>1, <3>2 DEF LeaseInv
    <3>3. CASE l.key = k
      <4>1. l.token <= token
        BY <1>1, <1>t, <3>1, <3>3 DEF LeaseInv
      <4>2. QED
        BY <1>2, <1>3, <1>4, <3>1, <3>3, <4>1 DEF LeaseInv
    <3>4. QED
      BY <3>2, <3>3
  <2>3. ASSUME NEW l \in leases' PROVE LeaseInv(l)'
    <3>1. l = new \/ l \in leases
      BY <1>4
    <3>2. QED
      BY <2>1, <2>2, <3>1
  <2>4. QED
    BY <2>3
<1>10. Fenced
  <2>1. SUFFICES ASSUME NEW l \in leases, ~Owns(l), Owns(l)'
                 PROVE  FALSE
    BY DEF Fenced
  <2>2. l.key \in Keys /\ l.token \in Nat /\ LeaseInv(l)
    BY DEF TypeOK, Lease, WorkInv
  <2>3. CASE l.key # k
    BY <1>3, <2>1, <2>2, <2>3 DEF Owns
  <2>4. CASE l.key = k
    BY <1>1, <1>2, <1>3, <1>t, <2>1, <2>2, <2>4 DEF Owns, LeaseInv
  <2>5. QED
    BY <2>3, <2>4
<1>11. MappingKept
  BY <1>2, <1>3 DEF MappingKept
<1>12. QED
  BY <1>7, <1>8, <1>9, <1>10, <1>11 DEF WorkInv

(* A renewal or a saved note: nothing the invariant reads changes. *)
LEMMA QuietWork ==
  ASSUME TypeOK, WorkInv, NEW k \in Keys, NEW r \in Thread, Put(k, r),
         Sound(r), Kept(threads[k], r),
         r.completed = threads[k].completed, r.requested = threads[k].requested,
         r.state = threads[k].state,
         UNCHANGED <<leases, issued, queued, covered, tried>>
  PROVE  WorkInv' /\ Fenced /\ MappingKept
<1>1. /\ threads'[k] = r
      /\ \A j \in Keys \ {k} : threads'[j] = threads[j]
  BY PutThread
<1>2. threads[k].leaseToken <= issued[k] /\ issued[k] \in Nat
  BY DEF WorkInv, KeyInv, TypeOK
<1>3. r.leaseToken <= issued[k]
  BY <1>2 DEF Kept
<1>4. \A j \in Keys : KeyInv(j)'
  BY <1>1, <1>3 DEF WorkInv, KeyInv
<1>5. \A l \in leases' : LeaseInv(l)'
  <2>1. SUFFICES ASSUME NEW l \in leases PROVE LeaseInv(l)'
    OBVIOUS
  <2>2. l.key \in Keys /\ LeaseInv(l)
    BY DEF TypeOK, Lease, WorkInv
  <2>3. threads'[l.key].requested = threads[l.key].requested
    BY <1>1, <2>2
  <2>4. QED
    BY <2>2, <2>3 DEF LeaseInv
<1>6. Fenced /\ MappingKept
  BY KeptStep
<1>7. QED
  BY <1>4, <1>5, <1>6 DEF WorkInv

LEMMA RenewWork ==
  ASSUME TypeOK, WorkInv, NEW l \in leases, NEW now \in Nat, Renew(l, now)
  PROVE  WorkInv' /\ Fenced /\ MappingKept
<1> DEFINE t == threads[l.key]
           r == Renewed(t, now)
<1>1. l \in Lease /\ l.key \in Keys /\ t \in Thread /\ Sound(t)
  BY DEF TypeOK, Lease, WorkInv, KeyInv
<1>2. r \in Thread
  BY <1>1, RenewedType
<1>3. /\ Sound(r) /\ Kept(t, r) /\ r.completed = t.completed
      /\ r.requested = t.requested /\ r.state = t.state
  BY <1>1, RenewedSound DEF Renew
<1>4. Put(l.key, r) /\ UNCHANGED <<leases, issued, queued, covered, tried>>
  BY DEF Renew, granted
<1>5. QED
  BY <1>1, <1>2, <1>3, <1>4, QuietWork

LEMMA SaveNoteWork ==
  ASSUME TypeOK, WorkInv, NEW l \in leases, NEW now \in Nat, NEW note \in Notes,
         SaveNote(l, note, now)
  PROVE  WorkInv' /\ Fenced /\ MappingKept
<1> DEFINE t == threads[l.key]
           r == NoteSaved(t, note)
<1>1. l \in Lease /\ l.key \in Keys /\ t \in Thread /\ Sound(t)
  BY DEF TypeOK, Lease, WorkInv, KeyInv
<1>2. r \in Thread
  BY <1>1 DEF NoteSaved, Thread
<1>3. /\ Sound(r) /\ Kept(t, r) /\ r.completed = t.completed
      /\ r.requested = t.requested /\ r.state = t.state
  BY <1>1, NoteSavedSound DEF SaveNote
<1>4. Put(l.key, r) /\ UNCHANGED <<leases, issued, queued, covered, tried>>
  BY DEF SaveNote, granted
<1>5. QED
  BY <1>1, <1>2, <1>3, <1>4, QuietWork

LEMMA CompleteWork ==
  ASSUME TypeOK, WorkInv, NEW l \in leases, NEW now \in Nat, NEW ts \in Nat, NEW at \in Nat,
         Complete(l, ts, at, now)
  PROVE  WorkInv' /\ Fenced /\ MappingKept
<1> DEFINE k == l.key
           t == threads[k]
           r == Completed(t, l, ts, at)
<1>1. l \in Lease /\ k \in Keys /\ t \in Thread /\ Sound(t) /\ LeaseInv(l)
  BY DEF TypeOK, Lease, WorkInv, KeyInv
<1>2. r \in Thread
  BY <1>1, CompletedType
<1>3. /\ Sound(r) /\ Kept(t, r) /\ r.requested >= t.requested
      /\ r.completed = r.requested => l.generation = t.requested
      /\ r.state # "failed"
  BY <1>1, CompletedSound DEF Complete, LeaseInv
<1>4. /\ threads'[k] = r
      /\ \A j \in Keys \ {k} : threads'[j] = threads[j]
  BY <1>1, PutThread DEF Complete
<1>5. /\ UNCHANGED <<leases, issued, queued>>
      /\ covered'[k] = covered[k] \cup l.seen
      /\ \A j \in Keys \ {k} : covered'[j] = covered[j] /\ tried'[j] = tried[j]
  BY <1>1 DEF Complete, TypeOK, granted
<1>6. /\ t.leaseToken <= issued[k] /\ issued[k] \in Nat
      /\ t.requested \in Nat /\ r.requested \in Nat
  BY <1>1, <1>2 DEF WorkInv, KeyInv, TypeOK, Thread
<1>7. KeyInv(k)'
  <2>1. r.leaseToken <= issued[k]
    BY <1>3, <1>6 DEF Kept
  <2>2. r.completed = r.requested => queued[k] \subseteq covered'[k]
    BY <1>1, <1>3, <1>5 DEF LeaseInv
  <2>3. QED
    BY <1>3, <1>4, <1>5, <2>1, <2>2 DEF KeyInv
<1>8. \A j \in Keys \ {k} : KeyInv(j)'
  BY <1>4, <1>5 DEF WorkInv, KeyInv
<1>9. \A m \in leases' : LeaseInv(m)'
  <2>1. SUFFICES ASSUME NEW m \in leases PROVE LeaseInv(m)'
    BY <1>5
  <2>2. m.key \in Keys /\ LeaseInv(m) /\ m.generation \in Nat
    BY DEF TypeOK, Lease, WorkInv
  <2>3. CASE m.key # k
    BY <1>4, <1>5, <2>2, <2>3 DEF LeaseInv
  <2>4. CASE m.key = k
    <3>1. m.generation <= t.requested
          /\ (m.generation = t.requested => queued[k] \subseteq m.seen)
      BY <2>2, <2>4 DEF LeaseInv
    <3>2. m.generation <= r.requested
          /\ (m.generation = r.requested => queued[k] \subseteq m.seen)
      BY <1>3, <1>6, <2>2, <3>1
    <3>3. QED
      BY <1>4, <1>5, <2>2, <2>4, <3>2 DEF LeaseInv
  <2>5. QED
    BY <2>3, <2>4
<1>10. Fenced /\ MappingKept
  BY <1>1, <1>3, KeptStep DEF Complete
<1>11. QED
  BY <1>7, <1>8, <1>9, <1>10 DEF WorkInv

LEMMA FailWork ==
  ASSUME TypeOK, WorkInv, NEW l \in leases, NEW now \in Nat, NEW at \in Nat,
         NEW permanent \in BOOLEAN, NEW error \in Errors, Fail(l, error, at, permanent, now)
  PROVE  WorkInv' /\ Fenced /\ MappingKept
<1> DEFINE k == l.key
           t == threads[k]
           r == Failed(t, l, error, at, permanent)
<1>1. l \in Lease /\ k \in Keys /\ t \in Thread /\ Sound(t) /\ LeaseInv(l)
  BY DEF TypeOK, Lease, WorkInv, KeyInv, Errors
<1>2. r \in Thread
  BY <1>1, FailedType
<1>3. /\ Sound(r) /\ Kept(t, r) /\ r.requested = t.requested /\ r.completed = t.completed
      /\ r.state = "failed" => l.generation = t.requested
  BY <1>1, FailedSound DEF Fail, LeaseInv
<1>4. /\ threads'[k] = r
      /\ \A j \in Keys \ {k} : threads'[j] = threads[j]
  BY <1>1, PutThread DEF Fail
<1>5. /\ UNCHANGED <<leases, issued, queued, covered>>
      /\ tried'[k] = l.seen
      /\ \A j \in Keys \ {k} : tried'[j] = tried[j]
  BY <1>1 DEF Fail, TypeOK, granted
<1>6. t.leaseToken <= issued[k] /\ issued[k] \in Nat
  BY <1>1 DEF WorkInv, KeyInv, TypeOK
<1>7. KeyInv(k)'
  <2>1. r.leaseToken <= issued[k]
    BY <1>3, <1>6 DEF Kept
  <2>2. r.state = "failed" => queued[k] \subseteq tried'[k]
    BY <1>1, <1>3, <1>5 DEF LeaseInv
  <2>3. r.completed = r.requested => queued[k] \subseteq covered[k]
    BY <1>1, <1>3 DEF WorkInv, KeyInv
  <2>4. QED
    BY <1>3, <1>4, <1>5, <2>1, <2>2, <2>3 DEF KeyInv
<1>8. \A j \in Keys \ {k} : KeyInv(j)'
  BY <1>4, <1>5 DEF WorkInv, KeyInv
<1>9. \A m \in leases' : LeaseInv(m)'
  <2>1. SUFFICES ASSUME NEW m \in leases PROVE LeaseInv(m)'
    BY <1>5
  <2>2. m.key \in Keys /\ LeaseInv(m)
    BY DEF TypeOK, Lease, WorkInv
  <2>3. threads'[m.key].requested = threads[m.key].requested
    BY <1>3, <1>4, <2>2
  <2>4. QED
    BY <1>5, <2>2, <2>3 DEF LeaseInv
<1>10. Fenced /\ MappingKept
  BY <1>1, <1>3, KeptStep DEF Fail
<1>11. QED
  BY <1>7, <1>8, <1>9, <1>10 DEF WorkInv

LEMMA InitWork ==
  ASSUME Init
  PROVE  WorkInv
<1>1. Sound(NoThread) /\ NoThread.leaseToken = 0 /\ NoThread.state = ""
  BY DEF Sound, StateMeaningOf, NoThread, Exists
<1>2. NoThread.completed = 0 /\ NoThread.requested = 0
  BY DEF NoThread
<1>3. ASSUME NEW k \in Keys PROVE KeyInv(k)
  <2>1. threads[k] = NoThread /\ issued[k] = 0 /\ queued[k] = {}
    BY DEF Init
  <2>2. Sound(threads[k])
    BY <1>1, <2>1
  <2>3. threads[k].leaseToken = 0 /\ threads[k].state = ""
    BY <1>1, <2>1
  <2>4. queued[k] \subseteq covered[k] /\ queued[k] \subseteq tried[k]
    BY <2>1
  <2>5. threads[k].leaseToken <= issued[k]
    <3>1. threads[k].leaseToken = 0
      BY <2>3
    <3>2. issued[k] = 0
      BY <2>1
    <3>3. QED
      BY <3>1, <3>2
  <2>6. QED
    BY <2>2, <2>4, <2>5 DEF KeyInv
<1>4. leases = {}
  BY DEF Init
<1>5. QED
  BY <1>3, <1>4 DEF WorkInv

LEMMA NextWork ==
  ASSUME TypeOK, WorkInv, [Next]_vars
  PROVE  WorkInv' /\ Fenced /\ MappingKept
<1>1. CASE UNCHANGED <<threads, leases, issued, queued, covered, tried, heard>>
  <2>1. WorkInv'
    <3>1. \A k \in Keys : KeyInv(k)'
      BY <1>1 DEF WorkInv, KeyInv
    <3>2. \A l \in leases' : LeaseInv(l)'
      BY <1>1 DEF WorkInv, LeaseInv
    <3>3. QED
      BY <3>1, <3>2 DEF WorkInv
  <2>2. QED
    BY <1>1, <2>1 DEF Fenced, MappingKept, Owns
<1>2. QED
  BY <1>1, StepCases, RecordWork, ClaimWork, RenewWork, SaveNoteWork, CompleteWork, FailWork

-----------------------------------------------------------------------------
(* The work invariant holds of every behavior. *)
LEMMA WorkInvariant == Spec => [](TypeOK /\ WorkInv)
<1>1. Init => TypeOK /\ WorkInv
  BY InitType, InitWork
<1>2. TypeOK /\ WorkInv /\ [Next]_vars => (TypeOK /\ WorkInv)'
  BY NextType, NextWork
<1>3. QED
  BY <1>1, <1>2, PTL DEF Spec

(* State names, generations and leases of a thread record always agree, so    *)
(* wanted work is never shown as done and a lease is held exactly while running. *)
THEOREM StateAlwaysMeans == Spec => []StateMeaning
<1>1. TypeOK /\ WorkInv => StateMeaning
  BY DEF WorkInv, KeyInv, Sound, StateMeaning
<1>2. QED
  BY <1>1, WorkInvariant, PTL

(* No event queued during a claim is taken for synchronized: completed equals  *)
(* requested only after completing a lease claimed after every queued event.   *)
THEOREM NothingQueuedIsLost == Spec => []NoQueuedEventLost
<1>1. TypeOK /\ WorkInv => NoQueuedEventLost
  BY DEF WorkInv, KeyInv, NoQueuedEventLost
<1>2. QED
  BY <1>1, WorkInvariant, PTL

(* A permanent failure never parks an event its attempt was claimed before.    *)
THEOREM FailureParksOnlyTried == Spec => []FailureCoversAllQueued
<1>1. TypeOK /\ WorkInv => FailureCoversAllQueued
  BY DEF WorkInv, KeyInv, FailureCoversAllQueued
<1>2. QED
  BY <1>1, WorkInvariant, PTL

(* A lease that is lost, to any recovery, command or completion, stays lost.   *)
THEOREM LostLeasesStayLost == Spec => FencedForever
<1>1. TypeOK /\ WorkInv /\ [Next]_vars => [\A l \in leases : ~Owns(l) => ~Owns(l)']_vars
  BY NextWork DEF Fenced
<1>2. QED
  BY <1>1, WorkInvariant, PTL DEF Spec, FencedForever

(* A thread's ticket, and its note once saved, are never replaced.             *)
THEOREM MappingsNeverChange == Spec => MappingsKept
<1>1. TypeOK /\ WorkInv /\ [Next]_vars =>
        [\A k \in Keys :
           /\ Exists(threads[k]) => threads'[k].ticketID = threads[k].ticketID
           /\ threads[k].noteID # NoText => threads'[k].noteID = threads[k].noteID]_vars
  BY NextWork DEF MappingKept
<1>2. QED
  BY <1>1, WorkInvariant, PTL DEF Spec, MappingsKept

-----------------------------------------------------------------------------
(***************************************************************************)
(* The deduplication of Slack events and the order of commands, proved for *)
(* every instance of Store.  The inductive invariant is EventInv with one  *)
(* CommandInv per thread: at most one recorded event acts on a message, a  *)
(* reply or a queued generation belongs to a recorded event, and the stamp *)
(* lastCommandTS is that of the newest command heard, whose effect stands. *)
(***************************************************************************)

Recorded(e) == e.id \in events

EventInv ==
  /\ \A e \in Events : Recorded(e) /\ IsAction(e) => Action(e) \in actions
  /\ \A d, e \in Events :
       (Recorded(d) /\ Recorded(e) /\ IsAction(d) /\ IsAction(e) /\ Action(d) = Action(e)) => d = e
  /\ \A id \in ReplyIds : outbox[id].present => id \in events
  /\ \A k \in Keys : queued[k] \subseteq events

(* The command c, were it the newest, has the effect that the thread t shows. *)
Stands(c, t) ==
  /\ c.command = "untrack" => ~t.active
  /\ c.command = "resume" => t.active

(* The stamp of a record is that of a command heard; a command heard is one   *)
(* of its thread, not newer than the stamp, and stands if it is the newest.   *)
StampHeard(r, h) == r.lastCommandTS # 0 => \E c \in h : c.messageTS = r.lastCommandTS
HeardBefore(k, r, c) ==
  /\ IsAction(c) /\ c.key = k
  /\ Exists(r) /\ c.messageTS <= r.lastCommandTS
  /\ c.messageTS = r.lastCommandTS => Stands(c, r)

CommandInv(k) ==
  /\ StampHeard(threads[k], heard[k])
  /\ \A c \in heard[k] : Recorded(c) /\ HeardBefore(k, threads[k], c)

(* What tells the order of commands in a record: every operation of the work *)
(* queue leaves it alone.                                                    *)
SameTracking(t, r) ==
  /\ r.active = t.active
  /\ r.lastCommandTS = t.lastCommandTS
  /\ Exists(t) => Exists(r)

-----------------------------------------------------------------------------
(* The steps of the store, one disjunct per operation. *)
LEMMA Steps ==
  ASSUME TypeOK, [Next]_vars
  PROVE  \/ \E e \in Events, now \in Nat : Record(e, now)
         \/ \E k \in Keys, now \in Nat : Claim(k, now)
         \/ \E l \in leases, now \in Nat : Renew(l, now)
         \/ \E l \in leases, now \in Nat, note \in Notes : SaveNote(l, note, now)
         \/ \E l \in leases, now \in Nat, ts \in Nat, at \in Nat : Complete(l, ts, at, now)
         \/ \E l \in leases, now \in Nat, error \in Errors, at \in Nat, permanent \in BOOLEAN :
              Fail(l, error, at, permanent, now)
         \/ \E id \in JobIds, now \in Nows : ClaimNotification(id, now)
         \/ \E id \in JobIds, now \in Nows : ClaimReactionNotification(id, now)
         \/ \E id \in JobIds, now \in Nows, token \in Nat : RenewNotification(id, token, now)
         \/ \E id \in JobIds, now \in Nows, token \in Nat : CompleteNotification(id, token, now)
         \/ \E id \in JobIds, now \in Nows, token \in Nat, at \in Nat, permanent \in BOOLEAN :
              FailNotification(id, token, at, permanent, now)
         \/ \E k \in Keys : QueueReactions(k)
         \/ Tick
         \/ UNCHANGED vars
<1>1. Nows \subseteq Nat
  BY NowsType DEF TypeOK
<1>2. Backoff \in Nat
  BY StoreAssumption
<1>3. \A now \in Nows : RetryTimes(now) \subseteq Nat /\ now + Backoff \in Nat
  BY <1>1, <1>2 DEF RetryTimes
<1>4. CASE RecordEvent
  BY <1>1, <1>4 DEF RecordEvent
<1>5. CASE ClaimThread
  BY <1>1, <1>5 DEF ClaimThread
<1>6. ASSUME NEW l \in leases, NEW now \in Nows, NEW ts \in SyncableTS(l.key),
             NEW at \in {0, now + Backoff}
      PROVE  ts \in Nat /\ at \in Nat
  <2>1. \A e \in Events : e.messageTS \in Nat
    BY StoreAssumption DEF Event
  <2>2. ts \in Nat
    BY <2>1 DEF SyncableTS
  <2>3. QED
    BY <1>3, <2>2
<1>7. CASE UseLease
  BY <1>1, <1>3, <1>6, <1>7 DEF UseLease
<1>8. CASE ClaimJob
  BY <1>8 DEF ClaimJob
<1>9. CASE UseJob
  <2>1. \A id \in JobIds : 1..outbox[id].attempts \subseteq Nat
    OBVIOUS
  <2>2. 0 \in Nat /\ TRUE \in BOOLEAN /\ FALSE \in BOOLEAN
    OBVIOUS
  <2>3. PICK id \in JobIds, now \in Nows : \E token \in 1..outbox[id].attempts :
              \/ RenewNotification(id, token, now)
              \/ CompleteNotification(id, token, now)
              \/ \E at \in RetryTimes(now) : FailNotification(id, token, at, FALSE, now)
              \/ FailNotification(id, token, 0, TRUE, now)
    BY <1>9 DEF UseJob
  <2>4. QED
    BY <1>3, <2>1, <2>2, <2>3
<1>10. CASE RequestReactions
  BY <1>10 DEF RequestReactions
<1>11. QED
  BY <1>4, <1>5, <1>7, <1>8, <1>9, <1>10 DEF Next

-----------------------------------------------------------------------------
(* Every step but Record leaves the order of commands, and what was recorded. *)

(* An operation of the work queue that stores a record with the same tracking. *)
LEMMA PutTracking ==
  ASSUME TypeOK, NEW k \in Keys, NEW r, Put(k, r), SameTracking(threads[k], r)
  PROVE  \A j \in Keys : SameTracking(threads[j], threads'[j])
<1>1. /\ threads'[k] = r
      /\ \A j \in Keys \ {k} : threads'[j] = threads[j]
  BY PutThread
<1>2. QED
  BY <1>1 DEF SameTracking

LEMMA KeptTracking ==
  ASSUME NEW t, NEW r, Kept(t, r), r.active = t.active, r.lastCommandTS = t.lastCommandTS
  PROVE  SameTracking(t, r)
BY DEF Kept, SameTracking, Exists

(* A reaction request merges with an unclaimed job or takes a free one. *)
LEMMA WithReactionsCases ==
  ASSUME NEW box, NEW k
  PROVE  /\ Unclaimed(box, k) # {} => WithReactions(box, k) = box
         /\ Unclaimed(box, k) = {} =>
              WithReactions(box, k) =
                [box EXCEPT ![CHOOSE id \in FreeIds(box) : TRUE] = NewJob(k, TRUE, FALSE)]
BY DEF WithReactions

LEMMA WithReactionsJob ==
  ASSUME NEW box \in [JobIds -> Job], NEW k \in Keys, RoomFor(box, k)
  PROVE  \/ Unclaimed(box, k) # {} /\ WithReactions(box, k) = box
         \/ \E id \in ReactionIds :
              /\ ~box[id].present
              /\ WithReactions(box, k) = [box EXCEPT ![id] = NewJob(k, TRUE, FALSE)]
<1>1. CASE Unclaimed(box, k) # {}
  BY <1>1, WithReactionsCases
<1>2. CASE Unclaimed(box, k) = {}
  <2> DEFINE free == CHOOSE id \in FreeIds(box) : TRUE
  <2>1. free \in FreeIds(box)
    BY <1>2 DEF RoomFor
  <2>2. WithReactions(box, k) = [box EXCEPT ![free] = NewJob(k, TRUE, FALSE)]
    BY <1>2, WithReactionsCases
  <2> HIDE DEF free
  <2>3. QED
    BY <2>1, <2>2 DEF FreeIds
<1>3. QED
  BY <1>1, <1>2

LEMMA WithReactionsKeeps ==
  ASSUME NEW box \in [JobIds -> Job], NEW k \in Keys, RoomFor(box, k)
  PROVE  \A id \in JobIds :
           WithReactions(box, k)[id] # box[id] => id \in ReactionIds /\ ~box[id].present
<1> DEFINE w == WithReactions(box, k)
<1>1. w \in [JobIds -> Job]
  BY WithReactionsType
<1>2. \/ w = box
      \/ \E i \in ReactionIds : ~box[i].present /\ w = [box EXCEPT ![i] = NewJob(k, TRUE, FALSE)]
  BY WithReactionsJob
<1> HIDE DEF w
<1>3. ASSUME NEW i \in ReactionIds, w = [box EXCEPT ![i] = NewJob(k, TRUE, FALSE)]
      PROVE  \A id \in JobIds : id # i => w[id] = box[id]
  BY <1>3
<1>4. w = box => \A id \in JobIds : w[id] = box[id]
  OBVIOUS
<1>5. ASSUME NEW id \in JobIds, w[id] # box[id]
      PROVE  id \in ReactionIds /\ ~box[id].present
  <2>1. PICK i \in ReactionIds : ~box[i].present /\ w = [box EXCEPT ![i] = NewJob(k, TRUE, FALSE)]
    BY <1>2, <1>4, <1>5
  <2>2. id = i
    BY <1>3, <1>5, <2>1
  <2>3. QED
    BY <2>1, <2>2
<1>6. QED
  BY <1>5 DEF w

(* No operation but Record makes a reply job. *)
RepliesKept == \A id \in ReplyIds : outbox'[id].present => outbox[id].present

(* What Settle leaves: the job it writes, or that and a reaction request. *)
LEMMA SettleCases ==
  ASSUME NEW id \in JobIds, NEW j, NEW over \in BOOLEAN, Settle(id, j, over)
  PROVE  LET box == [outbox EXCEPT ![id] = j] IN
         \/ ~(over /\ j.updateTracking) /\ outbox' = box
         \/ /\ over /\ j.updateTracking
            /\ RoomFor(box, j.key) /\ outbox' = WithReactions(box, j.key)
BY DEF Settle

LEMMA SettleKeepsReplies ==
  ASSUME TypeOK, NEW id \in JobIds, NEW j \in Job, NEW over \in BOOLEAN,
         Settle(id, j, over), j.present = outbox[id].present
  PROVE  RepliesKept
<1> DEFINE box == [outbox EXCEPT ![id] = j]
<1>1. box \in [JobIds -> Job] /\ j.key \in Keys
  BY DEF TypeOK, Job
<1>2. \A i \in JobIds : box[i].present = outbox[i].present
  BY DEF TypeOK
<1>3. \/ ~(over /\ j.updateTracking) /\ outbox' = box
      \/ /\ over /\ j.updateTracking
         /\ RoomFor(box, j.key) /\ outbox' = WithReactions(box, j.key)
  BY SettleCases
<1> HIDE DEF box
<1>4. \A i \in ReplyIds : outbox'[i] = box[i]
  <2>1. CASE outbox' = box
    BY <2>1
  <2>2. CASE RoomFor(box, j.key) /\ outbox' = WithReactions(box, j.key)
    BY <1>1, <2>2, WithReactionsKeeps, OutboxAssumption DEF JobIds
  <2>3. QED
    BY <1>3, <2>1, <2>2
<1>5. QED
  BY <1>2, <1>4 DEF RepliesKept, JobIds

LEMMA QuietStep ==
  ASSUME TypeOK, WorkInv, [Next]_vars,
         ~ \E e \in Events, now \in Nat : Record(e, now)
  PROVE  /\ \A k \in Keys : SameTracking(threads[k], threads'[k])
         /\ RepliesKept
         /\ UNCHANGED <<events, actions, queued, heard>>
<1> DEFINE Quiet == /\ \A k \in Keys : SameTracking(threads[k], threads'[k])
                    /\ RepliesKept
                    /\ UNCHANGED <<events, actions, queued, heard>>
<1>n. Nows \subseteq Nat
  BY NowsType DEF TypeOK
<1>s. \A k \in Keys : threads[k] \in Thread /\ Sound(threads[k])
  BY DEF TypeOK, WorkInv, KeyInv
<1>l. \A l \in leases : l \in Lease /\ l.key \in Keys /\ l.generation <= threads[l.key].requested
  BY DEF TypeOK, Lease, WorkInv, LeaseInv
<1>t. threads' = threads => \A k \in Keys : SameTracking(threads[k], threads'[k])
  BY DEF SameTracking
<1>o. outbox' = outbox => RepliesKept
  BY DEF RepliesKept
<1>w. ASSUME NEW k \in Keys, RoomFor(outbox, k), outbox' = WithReactions(outbox, k)
      PROVE  RepliesKept
  BY <1>w, WithReactionsKeeps, OutboxAssumption DEF TypeOK, JobIds, RepliesKept
<1>1. ASSUME NEW k \in Keys, NEW now \in Nat, Claim(k, now) PROVE Quiet
  <2>1. issued[k] + 1 \in Nat \ {0}
    BY DEF TypeOK
  <2>2. SameTracking(threads[k], Claimed(threads[k], issued[k] + 1, now))
    BY <1>1, <1>s, <2>1, ClaimedSound DEF Claim, SameTracking, Exists
  <2>3. QED
    BY <1>1, <1>o, <2>2, PutTracking DEF Claim
<1>2. ASSUME NEW l \in leases, NEW now \in Nat, Renew(l, now) PROVE Quiet
  <2>1. SameTracking(threads[l.key], Renewed(threads[l.key], now))
    BY <1>2, <1>s, <1>l, RenewedSound, KeptTracking DEF Renew
  <2>2. QED
    BY <1>2, <1>l, <1>o, <2>1, PutTracking DEF Renew
<1>3. ASSUME NEW l \in leases, NEW now \in Nat, NEW note \in Notes, SaveNote(l, note, now)
      PROVE  Quiet
  <2>1. SameTracking(threads[l.key], NoteSaved(threads[l.key], note))
    BY <1>3, <1>s, <1>l, NoteSavedSound, KeptTracking DEF SaveNote
  <2>2. QED
    BY <1>3, <1>l, <1>o, <2>1, PutTracking DEF SaveNote
<1>4. ASSUME NEW l \in leases, NEW now \in Nat, NEW ts \in Nat, NEW at \in Nat,
             Complete(l, ts, at, now)
      PROVE  Quiet
  <2>1. SameTracking(threads[l.key], Completed(threads[l.key], l, ts, at))
    BY <1>4, <1>s, <1>l, CompletedSound, KeptTracking DEF Complete
  <2>2. QED
    BY <1>4, <1>l, <1>w, <2>1, PutTracking DEF Complete
<1>5. ASSUME NEW l \in leases, NEW now \in Nat, NEW error \in Errors, NEW at \in Nat,
             NEW permanent \in BOOLEAN, Fail(l, error, at, permanent, now)
      PROVE  Quiet
  <2>1. SameTracking(threads[l.key], Failed(threads[l.key], l, error, at, permanent))
    BY <1>5, <1>s, <1>l, FailedSound, KeptTracking DEF Fail
  <2>2. QED
    BY <1>5, <1>l, <1>w, <2>1, PutTracking DEF Fail
<1>6. ASSUME NEW id \in JobIds, NEW now \in Nows,
             ClaimNotification(id, now) \/ ClaimReactionNotification(id, now)
      PROVE  Quiet
  <2>1. outbox' = [outbox EXCEPT ![id] = JobClaimed(@, now)]
        /\ UNCHANGED <<threads, events, actions, queued, heard>>
    BY <1>6 DEF ClaimNotification, ClaimReactionNotification, history
  <2>2. JobClaimed(outbox[id], now).present = outbox[id].present
    BY DEF JobClaimed, TypeOK, Job
  <2>3. RepliesKept
    BY <2>1, <2>2 DEF RepliesKept, TypeOK, JobIds
  <2>4. QED
    BY <1>t, <2>1, <2>3
<1>7. ASSUME NEW id \in JobIds, NEW now \in Nows, NEW token \in Nat,
             RenewNotification(id, token, now)
      PROVE  Quiet
  <2>1. outbox' = [outbox EXCEPT ![id] = [@ EXCEPT !.leaseExpires = now + JobLease]]
        /\ UNCHANGED <<threads, events, actions, queued, heard>>
    BY <1>7 DEF RenewNotification, history
  <2>2. [outbox[id] EXCEPT !.leaseExpires = now + JobLease].present = outbox[id].present
    BY DEF TypeOK, Job
  <2>3. RepliesKept
    BY <2>1, <2>2 DEF RepliesKept, TypeOK, JobIds
  <2>4. QED
    BY <1>t, <2>1, <2>3
<1>8. ASSUME NEW id \in JobIds, NEW now \in Nows, NEW token \in Nat,
             CompleteNotification(id, token, now)
      PROVE  Quiet
  <2>1. outbox[id] \in Job
    BY DEF TypeOK
  <2>2. JobCompleted(outbox[id]) \in Job
    BY <1>n, <2>1, JobStepsType
  <2>3. JobCompleted(outbox[id]).present = outbox[id].present
    BY <2>1 DEF JobCompleted, Job
  <2>4. QED
    BY <1>8, <1>t, <2>2, <2>3, SettleKeepsReplies DEF CompleteNotification, history
<1>9. ASSUME NEW id \in JobIds, NEW now \in Nows, NEW token \in Nat, NEW at \in Nat,
             NEW permanent \in BOOLEAN, FailNotification(id, token, at, permanent, now)
      PROVE  Quiet
  <2>1. outbox[id] \in Job
    BY DEF TypeOK
  <2>2. JobFailed(outbox[id], at, permanent) \in Job
    BY <1>n, <2>1, JobStepsType
  <2>3. JobFailed(outbox[id], at, permanent).present = outbox[id].present
    BY <2>1 DEF JobFailed, Job
  <2>4. QED
    BY <1>9, <1>t, <2>2, <2>3, SettleKeepsReplies DEF FailNotification, history
<1>10. ASSUME NEW k \in Keys, QueueReactions(k) PROVE Quiet
  BY <1>10, <1>t, <1>w DEF QueueReactions, history
<1>11. ASSUME Tick PROVE Quiet
  BY <1>11, <1>t, <1>o DEF Tick, durable, history
<1>12. ASSUME UNCHANGED vars PROVE Quiet
  BY <1>12, <1>t, <1>o DEF vars, durable, history
<1> HIDE DEF Quiet
<1>13. Quiet
  BY <1>1, <1>2, <1>3, <1>4, <1>5, <1>6, <1>7, <1>8, <1>9, <1>10, <1>11, <1>12, Steps
<1>14. QED
  BY <1>13 DEF Quiet

-----------------------------------------------------------------------------
(* EventInv: one event acts on a message. *)

LEMMA RecordKeepsEvents ==
  ASSUME TypeOK, EventInv, NEW e \in Events, NEW now \in Nat, Record(e, now)
  PROVE  EventInv'
<1>1. /\ ~Duplicate(e)
      /\ events' = events \cup {e.id}
      /\ actions' = IF IsAction(e) THEN actions \cup {Action(e)} ELSE actions
  BY DEF Record
<1>2. e.id \in ReplyIds /\ e.key \in Keys
  BY StoreAssumption DEF Event
<1>3. \A d \in Events : Recorded(d)' => Recorded(d) \/ d = e
  BY <1>1, StoreAssumption DEF Recorded
<1>4. ~Recorded(e) /\ (IsAction(e) => Action(e) \notin actions)
  BY <1>1 DEF Duplicate, Recorded
<1>5. \A d \in Events : Recorded(d)' /\ IsAction(d) => Action(d) \in actions'
  BY <1>1, <1>3 DEF EventInv
<1>6. ASSUME NEW c \in Events, NEW d \in Events, Recorded(c)', Recorded(d)',
             IsAction(c), IsAction(d), Action(c) = Action(d)
      PROVE  c = d
  <2>1. CASE Recorded(c) /\ Recorded(d)
    BY <1>6, <2>1 DEF EventInv
  <2>2. CASE Recorded(c) /\ d = e
    BY <1>4, <1>6, <2>2 DEF EventInv
  <2>3. CASE c = e /\ Recorded(d)
    BY <1>4, <1>6, <2>3 DEF EventInv
  <2>4. QED
    BY <1>3, <1>6, <2>1, <2>2, <2>3
<1>7. \A id \in ReplyIds : outbox'[id].present => id \in events'
  <2>1. ASSUME NEW id \in ReplyIds, id # e.id PROVE outbox'[id] = outbox[id]
    <3>1. outbox' = outbox
          \/ outbox' = [outbox EXCEPT ![e.id] = NewJob(e.key, FALSE, UpdatesTracking(e))]
      BY DEF Record
    <3>2. outbox \in [JobIds -> Job] /\ id \in JobIds
      BY DEF TypeOK, JobIds
    <3>3. QED
      BY <2>1, <3>1, <3>2
  <2>2. QED
    BY <1>1, <2>1 DEF EventInv
<1>8. \A k \in Keys : queued'[k] \subseteq events'
  <2>1. queued' = queued \/ queued' = [queued EXCEPT ![e.key] = @ \cup {e.id}]
    BY DEF Record
  <2>2. \A k \in Keys : queued'[k] \subseteq queued[k] \cup {e.id}
    BY <2>1 DEF TypeOK
  <2>3. QED
    BY <1>1, <2>2 DEF EventInv
<1>9. QED
  BY <1>5, <1>6, <1>7, <1>8 DEF EventInv

(* CommandInv: the newest command decides.  A command that is not newer than *)
(* lastCommandTS is older: the newest one, at that very stamp, is recorded,  *)
(* so another event for its message is a duplicate.                          *)
LEMMA HeardIsOlder ==
  ASSUME TypeOK, EventInv, NEW e \in Events, ~Duplicate(e), Heard(e), ~Applies(e),
         CommandInv(e.key)
  PROVE  e.messageTS < threads[e.key].lastCommandTS
<1> DEFINE t == threads[e.key]
<1>1. e.key \in Keys /\ e.messageTS \in Nat \ {0}
  BY StoreAssumption DEF Event
<1>2. t.lastCommandTS \in Nat
  BY <1>1 DEF TypeOK, Thread
<1>3. ~Newer(e.messageTS, t.lastCommandTS)
  BY DEF Heard, Applies
<1>4. e.messageTS <= t.lastCommandTS
  BY <1>1, <1>2, <1>3 DEF Newer
<1>5. SUFFICES ASSUME e.messageTS = t.lastCommandTS PROVE FALSE
  BY <1>1, <1>2, <1>4
<1>6. PICK c \in heard[e.key] : c.messageTS = t.lastCommandTS
  BY <1>1, <1>5 DEF CommandInv, StampHeard
<1>7. c \in Events /\ Recorded(c) /\ IsAction(c) /\ c.key = e.key
  BY <1>1, <1>6 DEF CommandInv, HeardBefore, TypeOK
<1>8. Action(c) = Action(e) /\ IsAction(e)
  BY <1>5, <1>6, <1>7 DEF Action, IsAction, Heard
<1>9. Action(e) \in actions
  BY <1>7, <1>8 DEF EventInv
<1>10. QED
  BY <1>8, <1>9 DEF Duplicate

LEMMA CommandInvNext ==
  ASSUME NEW k \in Keys, NEW r, threads'[k] = r, StampHeard(r, heard'[k]),
         \A c \in heard'[k] : Recorded(c)' /\ HeardBefore(k, r, c)
  PROVE  CommandInv(k)'
<1>1. StampHeard(threads'[k], heard'[k])
  OBVIOUS
<1>2. \A c \in heard'[k] : Recorded(c)' /\ HeardBefore(k, threads'[k], c)
  OBVIOUS
<1>3. QED
  BY <1>1, <1>2 DEF CommandInv

LEMMA RecordKeepsCommands ==
  ASSUME TypeOK, WorkInv, EventInv, \A k \in Keys : CommandInv(k),
         NEW e \in Events, NEW now \in Nat, Record(e, now)
  PROVE  \A k \in Keys : CommandInv(k)'
<1> DEFINE t == threads[e.key]
           r == Effect(e, now)
<1>1. /\ e.key \in Keys /\ e.messageTS \in Nat
      /\ t \in Thread /\ r \in Thread /\ Sound(t)
  BY EffectType, StoreAssumption DEF TypeOK, Event, WorkInv, KeyInv
<1>2. /\ threads'[e.key] = r
      /\ \A k \in Keys \ {e.key} : threads'[k] = threads[k]
  BY <1>1, PutThread DEF Record
<1>3. \A c : Recorded(c) => Recorded(c)'
  BY DEF Record, Recorded
<1>4. Recorded(e)'
  BY DEF Record, Recorded
<1>5. /\ \A k \in Keys \ {e.key} : heard'[k] = heard[k]
      /\ heard'[e.key] = IF Heard(e) THEN heard[e.key] \cup {e} ELSE heard[e.key]
  BY <1>1 DEF Record, TypeOK
<1>6. ASSUME NEW k \in Keys \ {e.key} PROVE CommandInv(k)'
  BY <1>2, <1>3, <1>5 DEF CommandInv
<1>7. /\ Exists(t) => Exists(r)
      /\ Applies(e) => r.lastCommandTS = e.messageTS /\ Stands(e, r)
      /\ ~Applies(e) => /\ r.lastCommandTS = t.lastCommandTS
                        /\ Exists(t) => r.active = t.active
  BY <1>1, EffectSound DEF Kept, Exists, Stands
<1>8. t.lastCommandTS \in Nat /\ r.lastCommandTS \in Nat
  BY <1>1 DEF Thread
<1>9. CommandInv(e.key)
  BY <1>1
<1>10. \A c \in heard[e.key] : c.messageTS \in Nat
  <2>1. heard[e.key] \subseteq Events
    BY <1>1 DEF TypeOK
  <2>2. QED
    BY <2>1, StoreAssumption DEF Event
<1> HIDE DEF t, r
<1>11. CASE Applies(e)
  <2>1. Heard(e) /\ IsAction(e) /\ Exists(t) /\ e.messageTS > t.lastCommandTS
    BY <1>11 DEF Applies, Heard, IsAction, Newer, t
  <2>2. heard'[e.key] = heard[e.key] \cup {e}
    BY <1>5, <2>1
  <2>3. r.lastCommandTS = e.messageTS /\ Stands(e, r) /\ Exists(r)
    BY <1>7, <1>11, <2>1
  <2>4. StampHeard(r, heard'[e.key])
    BY <2>2, <2>3 DEF StampHeard
  <2>5. ASSUME NEW c \in heard[e.key]
        PROVE  Recorded(c)' /\ HeardBefore(e.key, r, c)
    <3>1. Recorded(c) /\ IsAction(c) /\ c.key = e.key /\ c.messageTS <= t.lastCommandTS
      BY <1>9 DEF CommandInv, HeardBefore, t
    <3>2. c.messageTS < r.lastCommandTS
      BY <1>1, <1>8, <1>10, <2>1, <2>3, <3>1
    <3>3. c.messageTS <= r.lastCommandTS /\ c.messageTS # r.lastCommandTS
      BY <1>8, <1>10, <3>2
    <3>4. QED
      BY <1>3, <2>3, <3>1, <3>3 DEF HeardBefore
  <2>6. ASSUME NEW c \in heard'[e.key]
        PROVE  Recorded(c)' /\ HeardBefore(e.key, r, c)
    <3>1. CASE c = e
      BY <1>1, <1>4, <2>1, <2>3, <3>1 DEF HeardBefore
    <3>2. CASE c \in heard[e.key]
      BY <2>5, <3>2
    <3>3. QED
      BY <2>2, <2>6, <3>1, <3>2
  <2>7. QED
    BY <1>1, <1>2, <1>6, <2>4, <2>6, CommandInvNext
<1>12. CASE ~Applies(e)
  <2>1. r.lastCommandTS = t.lastCommandTS /\ (Exists(t) => r.active = t.active /\ Exists(r))
    BY <1>7, <1>12
  <2>2. StampHeard(r, heard'[e.key])
    BY <1>5, <1>9, <2>1 DEF CommandInv, StampHeard, t
  <2>3. ASSUME NEW c \in heard[e.key]
        PROVE  Recorded(c)' /\ HeardBefore(e.key, r, c)
    <3>1. /\ Recorded(c) /\ IsAction(c) /\ c.key = e.key
          /\ Exists(t) /\ c.messageTS <= t.lastCommandTS
          /\ c.messageTS = t.lastCommandTS => Stands(c, t)
      BY <1>9 DEF CommandInv, HeardBefore, t
    <3>2. Stands(c, t) => Stands(c, r)
      BY <2>1, <3>1 DEF Stands
    <3>3. QED
      BY <1>3, <2>1, <3>1, <3>2 DEF HeardBefore
  <2>4. CASE ~Heard(e)
    <3>1. \A c \in heard'[e.key] : Recorded(c)' /\ HeardBefore(e.key, r, c)
      BY <1>5, <2>3, <2>4
    <3>2. QED
      BY <1>1, <1>2, <1>6, <2>2, <3>1, CommandInvNext
  <2>5. CASE Heard(e)
    <3>1. e.messageTS < r.lastCommandTS
      BY <1>9, <1>12, <2>1, <2>5, HeardIsOlder DEF Record, t
    <3>2. IsAction(e) /\ Exists(r)
      BY <2>1, <2>5 DEF Heard, IsAction, t
    <3>3. e.messageTS <= r.lastCommandTS /\ e.messageTS # r.lastCommandTS
      BY <1>1, <1>8, <3>1
    <3>4. heard'[e.key] = heard[e.key] \cup {e}
      BY <1>5, <2>5
    <3>5. ASSUME NEW c \in heard'[e.key]
          PROVE  Recorded(c)' /\ HeardBefore(e.key, r, c)
      <4>1. CASE c = e
        BY <1>4, <3>2, <3>3, <4>1 DEF HeardBefore
      <4>2. CASE c \in heard[e.key]
        BY <2>3, <4>2
      <4>3. QED
        BY <3>4, <3>5, <4>1, <4>2
    <3>6. QED
      BY <1>1, <1>2, <1>6, <2>2, <3>5, CommandInvNext
  <2>6. QED
    BY <2>4, <2>5
<1>13. QED
  BY <1>11, <1>12

-----------------------------------------------------------------------------
Commands == \A k \in Keys : CommandInv(k)

LEMMA InitEvents ==
  ASSUME Init
  PROVE  EventInv /\ Commands
<1>1. \A id \in ReplyIds : ~outbox[id].present
  BY DEF Init, NoJob, NewJob, JobIds
<1>2. EventInv
  BY <1>1 DEF Init, EventInv, Recorded
<1>3. NoThread.lastCommandTS = 0
  BY DEF NoThread
<1>4. ASSUME NEW k \in Keys PROVE CommandInv(k)
  <2>1. threads[k] = NoThread /\ heard[k] = {}
    BY DEF Init
  <2>2. QED
    BY <1>3, <2>1 DEF CommandInv, StampHeard
<1>5. QED
  BY <1>2, <1>4 DEF Commands

LEMMA NextEvents ==
  ASSUME TypeOK, WorkInv, EventInv, Commands, [Next]_vars
  PROVE  EventInv' /\ Commands'
<1>1. CASE \E e \in Events, now \in Nat : Record(e, now)
  BY <1>1, RecordKeepsEvents, RecordKeepsCommands DEF Commands
<1>2. CASE ~ \E e \in Events, now \in Nat : Record(e, now)
  <2>1. /\ \A k \in Keys : SameTracking(threads[k], threads'[k])
        /\ RepliesKept
        /\ UNCHANGED <<events, actions, queued, heard>>
    BY <1>2, QuietStep
  <2>2. EventInv'
    BY <2>1 DEF EventInv, Recorded, RepliesKept
  <2>3. ASSUME NEW k \in Keys PROVE CommandInv(k)'
    <3> DEFINE t == threads[k]
               r == threads'[k]
    <3>1. CommandInv(k) /\ SameTracking(t, r) /\ heard'[k] = heard[k]
      BY <2>1 DEF Commands
    <3>2. \A c : Recorded(c)' = Recorded(c)
      BY <2>1 DEF Recorded
    <3> HIDE DEF t, r
    <3>3. StampHeard(r, heard'[k])
      BY <3>1 DEF CommandInv, StampHeard, SameTracking, t
    <3>4. ASSUME NEW c \in heard'[k] PROVE Recorded(c)' /\ HeardBefore(k, r, c)
      <4>1. Recorded(c) /\ HeardBefore(k, t, c)
        BY <3>1, <3>4 DEF CommandInv, t
      <4>2. Recorded(c)'
        BY <3>2, <4>1
      <4>3. QED
        BY <3>1, <4>1, <4>2 DEF HeardBefore, SameTracking, Stands
    <3>5. QED
      BY <3>3, <3>4, CommandInvNext DEF r
  <2>4. QED
    BY <2>2, <2>3 DEF Commands
<1>3. QED
  BY <1>1, <1>2

LEMMA EventInvariant == Spec => [](TypeOK /\ WorkInv /\ EventInv /\ Commands)
<1>1. Init => TypeOK /\ WorkInv /\ EventInv /\ Commands
  BY InitType, InitWork, InitEvents
<1>2. TypeOK /\ WorkInv /\ EventInv /\ Commands /\ [Next]_vars
        => (TypeOK /\ WorkInv /\ EventInv /\ Commands)'
  BY NextType, NextWork, NextEvents
<1>3. QED
  BY <1>1, <1>2, PTL DEF Spec

(* Whatever order the commands of a thread are delivered in, and however often, *)
(* tracking is on or off as the newest untrack or resume by Slack timestamp     *)
(* says: EventRecorder compares with lastCommandTS, and actions is deduplicated *)
(* by message, so no second command carries the newest stamp.                   *)
THEOREM NewestCommandAlwaysDecides == Spec => []NewestCommandDecides
<1>1. ASSUME TypeOK, EventInv, Commands, NEW k \in Keys, NEW e \in Events,
             e \in heard[k], \A d \in heard[k] : d.messageTS <= e.messageTS
      PROVE  Stands(e, threads[k])
  <2>1. CommandInv(k)
    BY <1>1 DEF Commands
  <2>2. HeardBefore(k, threads[k], e) /\ e.messageTS \in Nat \ {0}
    BY <1>1, <2>1, StoreAssumption DEF CommandInv, Event
  <2>3. threads[k].lastCommandTS \in Nat
    BY <1>1 DEF TypeOK, Thread
  <2>4. e.messageTS <= threads[k].lastCommandTS /\ threads[k].lastCommandTS # 0
    BY <2>2, <2>3 DEF HeardBefore
  <2>5. PICK c \in heard[k] : c.messageTS = threads[k].lastCommandTS
    BY <2>1, <2>4 DEF CommandInv, StampHeard
  <2>6. threads[k].lastCommandTS <= e.messageTS
    BY <1>1, <2>5
  <2>7. e.messageTS = threads[k].lastCommandTS
    BY <2>2, <2>3, <2>4, <2>6
  <2>8. QED
    BY <2>2, <2>7 DEF HeardBefore
<1>2. TypeOK /\ WorkInv /\ EventInv /\ Commands => NewestCommandDecides
  BY <1>1 DEF NewestCommandDecides, Stands
<1>3. QED
  BY <1>2, EventInvariant, PTL

(* However many event IDs Slack gives one message, its command or reply is      *)
(* recorded once: one outbox job answers it and one event queues its work.      *)
THEOREM MessagesAreAnsweredOnce == Spec => []OneReplyPerMessage
<1>1. ASSUME EventInv, NEW d \in Events, NEW e \in Events,
             d # e, IsAction(d), IsAction(e), Action(d) = Action(e)
      PROVE  /\ ~(outbox[d.id].present /\ outbox[e.id].present)
             /\ ~(d.id \in queued[d.key] /\ e.id \in queued[e.key])
  <2>1. ~(Recorded(d) /\ Recorded(e))
    BY <1>1 DEF EventInv
  <2>2. d.id \in ReplyIds /\ e.id \in ReplyIds /\ d.key \in Keys /\ e.key \in Keys
    BY StoreAssumption DEF Event
  <2>3. QED
    BY <1>1, <2>1, <2>2 DEF EventInv, Recorded
<1>2. TypeOK /\ WorkInv /\ EventInv /\ Commands => OneReplyPerMessage
  BY <1>1 DEF OneReplyPerMessage
<1>3. QED
  BY <1>2, EventInvariant, PTL
-----------------------------------------------------------------------------
(* What the proofs about the store's callers use besides: recorded events are *)
(* finitely many, so that every set of them has a newest one, and time has    *)
(* begun.                                                                     *)

HasNewest(S) == \E m \in S : \A e \in S : e.messageTS <= m.messageTS
NewestInv == \A S \in SUBSET {e \in Events : Recorded(e)} : S # {} => HasNewest(S)

LEMMA EventsStep ==
  ASSUME TypeOK, WorkInv, [Next]_vars
  PROVE  \/ \E e \in Events : ~Recorded(e) /\ events' = events \cup {e.id}
         \/ events' = events
<1>1. CASE \E e \in Events, now \in Nat : Record(e, now)
  BY <1>1 DEF Record, Duplicate, Recorded
<1>2. CASE ~ \E e \in Events, now \in Nat : Record(e, now)
  BY <1>2, QuietStep
<1>3. QED
  BY <1>1, <1>2

(* The newest of a set with one more event is that event or the newest before. *)
LEMMA NewestStep ==
  ASSUME NewestInv, NEW e \in Events, events' = events \cup {e.id}
  PROVE  NewestInv'
<1>1. SUFFICES ASSUME NEW S \in SUBSET {d \in Events : Recorded(d)'}, S # {}
               PROVE  HasNewest(S)
  BY DEF NewestInv, HasNewest
<1>n. \A d \in Events : d.messageTS \in Nat
  BY StoreAssumption DEF Event
<1>2. \A d \in S : d \in Events /\ (d = e \/ Recorded(d))
  BY <1>1, StoreAssumption DEF Recorded
<1> DEFINE R == S \ {e}
<1>3. R \in SUBSET {d \in Events : Recorded(d)}
  BY <1>2
<1>4. CASE R = {}
  <2>1. S = {e}
    BY <1>1, <1>4
  <2>2. QED
    BY <1>n, <2>1 DEF HasNewest
<1>5. CASE R # {}
  <2>1. PICK m \in R : \A d \in R : d.messageTS <= m.messageTS
    BY <1>3, <1>5 DEF NewestInv, HasNewest
  <2>2. m.messageTS \in Nat /\ e.messageTS \in Nat
    BY <1>n, <1>2, <2>1
  <2>3. CASE e \in S /\ m.messageTS <= e.messageTS
    <3>1. \A d \in S : d.messageTS <= e.messageTS
      BY <1>n, <1>2, <2>1, <2>2, <2>3
    <3>2. QED
      BY <2>3, <3>1 DEF HasNewest
  <2>4. CASE ~(e \in S /\ m.messageTS <= e.messageTS)
    <3>1. \A d \in S : d.messageTS <= m.messageTS
      BY <1>n, <1>2, <2>1, <2>2, <2>4
    <3>2. m \in S
      BY <2>1
    <3>3. QED
      BY <3>1, <3>2 DEF HasNewest
  <2>5. QED
    BY <2>3, <2>4
<1>6. QED
  BY <1>4, <1>5

LEMMA ClockGrows ==
  ASSUME TypeOK, [Next]_vars
  PROVE  clock <= clock' /\ leases \subseteq leases'
<1>o. clock \in Nat
  BY DEF TypeOK
<1>1. CASE Tick
  BY <1>o, <1>1 DEF Tick, granted
<1>2. CASE RecordEvent
  BY <1>o, <1>2 DEF RecordEvent, Record, granted
<1>3. CASE ClaimThread
  BY <1>o, <1>3 DEF ClaimThread, Claim
<1>4. CASE UseLease
  <2>1. clock' = clock /\ leases' = leases
    BY <1>4 DEF UseLease, Renew, SaveNote, Complete, Fail, granted
  <2>2. QED
    BY <1>o, <2>1
<1>5. CASE ClaimJob
  BY <1>o, <1>5 DEF ClaimJob, ClaimNotification, ClaimReactionNotification, granted
<1>6. CASE UseJob
  <2>1. clock' = clock /\ leases' = leases
    BY <1>6 DEF UseJob, RenewNotification, CompleteNotification, FailNotification, granted
  <2>2. QED
    BY <1>o, <2>1
<1>7. CASE RequestReactions
  BY <1>o, <1>7 DEF RequestReactions, QueueReactions, granted
<1>8. CASE UNCHANGED vars
  BY <1>o, <1>8 DEF vars, granted
<1>9. QED
  BY <1>1, <1>2, <1>3, <1>4, <1>5, <1>6, <1>7, <1>8 DEF Next

LEMMA ClockStep ==
  ASSUME TypeOK, clock # 0, [Next]_vars
  PROVE  clock' # 0
BY ClockGrows DEF TypeOK

-----------------------------------------------------------------------------
(***************************************************************************)
(* The safety of the notification outbox, proved for every instance of     *)
(* Store.  The inductive invariants are stated on an outbox and the thread *)
(* records beside it, so that an operation is a composition of two edits:  *)
(* one job moves on, and a reaction request joins or adds a job.           *)
(*                                                                         *)
(*   JobsSound   what a job is: a lease makes it present, a reply is no    *)
(*               reaction job, and what queues reactions has its thread.   *)
(*   Followed    the reactions of a thread will be looked at.              *)
(*   OneLive     one reaction job per thread holds a live lease.           *)
(***************************************************************************)
JobSound(id, j, th) ==
  /\ j.leaseToken # 0 => j.present
  /\ id \in ReplyIds /\ j.present =>
       ~j.reactions /\ (j.updateTracking => Exists(th[j.key]))
  /\ id \in ReactionIds /\ j.present =>
       j.reactions /\ ~j.updateTracking /\ Exists(th[j.key])

JobsSound(box, th) == \A id \in JobIds : JobSound(id, box[id], th)

(* Job id will have the reactions of thread k looked at. *)
Follows(id, j, k) ==
  /\ Open(j) /\ j.key = k
  /\ \/ id \in ReplyIds /\ j.updateTracking
     \/ id \in ReactionIds /\ j.leaseToken = 0

Followed(box, k) == \E id \in JobIds : Follows(id, box[id], k)

Live(j, time) == Open(j) /\ j.leaseExpires > time

OneLive(box, time) ==
  \A i, j \in ReactionIds :
    (Live(box[i], time) /\ Live(box[j], time) /\ box[i].key = box[j].key) => i = j

(* A job after a lease operation is still the same job. *)
SameJob(i, j) ==
  /\ j.present = i.present /\ j.key = i.key
  /\ j.reactions = i.reactions /\ j.updateTracking = i.updateTracking

-----------------------------------------------------------------------------
(* One job moves on. *)

LEMMA EditAt ==
  ASSUME NEW box \in [JobIds -> Job], NEW id \in JobIds, NEW j \in Job,
         NEW w, w = [box EXCEPT ![id] = j]
  PROVE  /\ w \in [JobIds -> Job]
         /\ w[id] = j
         /\ \A i \in JobIds : i # id => w[i] = box[i]
OBVIOUS

LEMMA EditSound ==
  ASSUME NEW box \in [JobIds -> Job], NEW id \in JobIds, NEW j \in Job, NEW th,
         NEW w, w = [box EXCEPT ![id] = j],
         JobsSound(box, th), SameJob(box[id], j), j.leaseToken # 0 => j.present
  PROVE  JobsSound(w, th)
<1>1. JobSound(id, j, th)
  BY DEF JobsSound, JobSound, SameJob
<1>2. w[id] = j /\ \A i \in JobIds : i # id => w[i] = box[i]
  BY EditAt
<1>3. ASSUME NEW i \in JobIds PROVE JobSound(i, w[i], th)
  <2>1. CASE i = id
    BY <1>1, <1>2, <2>1
  <2>2. CASE i # id
    BY <1>2, <2>2 DEF JobsSound
  <2>3. QED
    BY <2>1, <2>2
<1>4. QED
  BY <1>3 DEF JobsSound

LEMMA EditFollowed ==
  ASSUME NEW box \in [JobIds -> Job], NEW id \in JobIds, NEW j \in Job, NEW k,
         NEW w, w = [box EXCEPT ![id] = j],
         Followed(box, k), Follows(id, box[id], k) => Follows(id, j, k)
  PROVE  Followed(w, k)
<1>1. w[id] = j /\ \A i \in JobIds : i # id => w[i] = box[i]
  BY EditAt
<1>2. PICK i \in JobIds : Follows(i, box[i], k)
  BY DEF Followed
<1>3. Follows(i, w[i], k)
  <2>1. CASE i = id
    BY <1>1, <1>2, <2>1
  <2>2. CASE i # id
    BY <1>1, <1>2, <2>2
  <2>3. QED
    BY <2>1, <2>2
<1>4. QED
  BY <1>3 DEF Followed

LEMMA EditOneLive ==
  ASSUME NEW box \in [JobIds -> Job], NEW id \in JobIds, NEW j \in Job, NEW time,
         NEW w, w = [box EXCEPT ![id] = j],
         OneLive(box, time), j.key = box[id].key,
         Live(j, time) => Live(box[id], time)
  PROVE  OneLive(w, time)
<1>1. w[id] = j /\ \A i \in JobIds : i # id => w[i] = box[i]
  BY EditAt
<1>2. ASSUME NEW i \in JobIds
      PROVE  w[i].key = box[i].key /\ (Live(w[i], time) => Live(box[i], time))
  <2>1. CASE i = id
    BY <1>1, <2>1
  <2>2. CASE i # id
    BY <1>1, <2>2
  <2>3. QED
    BY <2>1, <2>2
<1>3. ASSUME NEW a \in ReactionIds, NEW b \in ReactionIds,
             Live(w[a], time), Live(w[b], time), w[a].key = w[b].key
      PROVE  a = b
  <2>1. a \in JobIds /\ b \in JobIds
    BY DEF JobIds
  <2>2. Live(box[a], time) /\ Live(box[b], time) /\ box[a].key = box[b].key
    BY <1>2, <1>3, <2>1
  <2>3. QED
    BY <2>2 DEF OneLive
<1>4. QED
  BY <1>3 DEF OneLive

(* A claim at the time itself, of a thread with no other job leased then. *)
LEMMA ClaimOneLive ==
  ASSUME NEW box \in [JobIds -> Job], NEW id \in JobIds, NEW j \in Job, NEW time,
         NEW w, w = [box EXCEPT ![id] = j],
         OneLive(box, time), j.key = box[id].key, ~Blocked(box, box[id].key, time)
  PROVE  OneLive(w, time)
<1>1. w[id] = j /\ \A i \in JobIds : i # id => w[i] = box[i]
  BY EditAt
<1>2. \A i \in JobIds : box[i].key = box[id].key => ~Live(box[i], time)
  BY DEF Blocked, Live
<1>3. ASSUME NEW a \in ReactionIds, NEW b \in ReactionIds,
             Live(w[a], time), Live(w[b], time), w[a].key = w[b].key
      PROVE  a = b
  <2>1. a \in JobIds /\ b \in JobIds
    BY DEF JobIds
  <2>2. ASSUME a # id, b # id PROVE a = b
    <3>1. w[a] = box[a] /\ w[b] = box[b]
      BY <1>1, <2>1, <2>2
    <3>2. QED
      BY <1>3, <3>1 DEF OneLive
  <2>3. ASSUME a = id, b # id PROVE FALSE
    <3>1. w[a] = j /\ w[b] = box[b]
      BY <1>1, <2>1, <2>3
    <3>2. QED
      BY <1>2, <1>3, <2>1, <3>1
  <2>4. ASSUME a # id, b = id PROVE FALSE
    <3>1. w[b] = j /\ w[a] = box[a]
      BY <1>1, <2>1, <2>4
    <3>2. QED
      BY <1>2, <1>3, <2>1, <3>1
  <2>5. QED
    BY <2>2, <2>3, <2>4
<1>4. QED
  BY <1>3 DEF OneLive

-----------------------------------------------------------------------------
(* A reaction request. *)

LEMMA WithReactionsSound ==
  ASSUME NEW box \in [JobIds -> Job], NEW k \in Keys, RoomFor(box, k), NEW th,
         NEW w, w = WithReactions(box, k),
         JobsSound(box, th), Exists(th[k])
  PROVE  JobsSound(w, th)
<1>1. CASE w = box
  BY <1>1
<1>2. ASSUME NEW i \in ReactionIds, w = [box EXCEPT ![i] = NewJob(k, TRUE, FALSE)]
      PROVE  JobsSound(w, th)
  <2> DEFINE j == NewJob(k, TRUE, FALSE)
  <2>1. i \in JobIds /\ i \notin ReplyIds /\ j \in Job
    BY NewJobType, OutboxAssumption DEF JobIds
  <2>2. JobSound(i, j, th)
    BY <2>1 DEF JobSound, NewJob
  <2> HIDE DEF j
  <2>3. w[i] = j /\ \A m \in JobIds : m # i => w[m] = box[m]
    BY <1>2, <2>1, EditAt DEF j
  <2>4. ASSUME NEW m \in JobIds PROVE JobSound(m, w[m], th)
    <3>1. CASE m = i
      BY <2>2, <2>3, <3>1
    <3>2. CASE m # i
      BY <2>3, <3>2 DEF JobsSound
    <3>3. QED
      BY <3>1, <3>2
  <2>5. QED
    BY <2>4 DEF JobsSound
<1>3. QED
  BY <1>1, <1>2, WithReactionsJob

LEMMA WithReactionsFollowed ==
  ASSUME NEW box \in [JobIds -> Job], NEW k \in Keys, RoomFor(box, k),
         NEW w, w = WithReactions(box, k)
  PROVE  /\ Followed(w, k)
         /\ \A m : Followed(box, m) => Followed(w, m)
<1>1. CASE Unclaimed(box, k) # {} /\ w = box
  <2>1. PICK i \in ReactionIds : Open(box[i]) /\ box[i].key = k /\ box[i].leaseToken = 0
    BY <1>1 DEF Unclaimed
  <2>2. Follows(i, w[i], k) /\ i \in JobIds
    BY <1>1, <2>1 DEF Follows, JobIds
  <2>3. QED
    BY <1>1, <2>2 DEF Followed
<1>2. ASSUME NEW i \in ReactionIds, ~box[i].present,
             w = [box EXCEPT ![i] = NewJob(k, TRUE, FALSE)]
      PROVE  Followed(w, k) /\ \A m : Followed(box, m) => Followed(w, m)
  <2> DEFINE j == NewJob(k, TRUE, FALSE)
  <2>1. i \in JobIds /\ j \in Job
    BY NewJobType DEF JobIds
  <2>2. Follows(i, j, k)
    BY DEF Follows, Open, NewJob
  <2>3. \A m : ~Follows(i, box[i], m)
    BY <1>2 DEF Follows, Open
  <2> HIDE DEF j
  <2>4. w[i] = j
    BY <1>2, <2>1, EditAt DEF j
  <2>5. Followed(w, k)
    BY <2>1, <2>2, <2>4 DEF Followed
  <2>6. ASSUME NEW m, Followed(box, m) PROVE Followed(w, m)
    BY <1>2, <2>1, <2>3, <2>6, EditFollowed DEF j
  <2>7. QED
    BY <2>5, <2>6
<1>3. QED
  BY <1>1, <1>2, WithReactionsJob

LEMMA WithReactionsOneLive ==
  ASSUME NEW box \in [JobIds -> Job], NEW k \in Keys, RoomFor(box, k), NEW time \in Nat,
         NEW w, w = WithReactions(box, k), OneLive(box, time)
  PROVE  OneLive(w, time)
<1>1. CASE w = box
  BY <1>1
<1>2. ASSUME NEW i \in ReactionIds, w = [box EXCEPT ![i] = NewJob(k, TRUE, FALSE)]
      PROVE  OneLive(w, time)
  <2> DEFINE j == NewJob(k, TRUE, FALSE)
  <2>1. i \in JobIds /\ j \in Job
    BY NewJobType DEF JobIds
  <2>2. ~Live(j, time)
    BY DEF Live, NewJob
  <2> HIDE DEF j
  <2>3. w[i] = j /\ \A m \in JobIds : m # i => w[m] = box[m]
    BY <1>2, <2>1, EditAt DEF j
  <2>4. ASSUME NEW a \in ReactionIds, NEW b \in ReactionIds,
               Live(w[a], time), Live(w[b], time), w[a].key = w[b].key
        PROVE  a = b
    <3>1. a # i /\ b # i /\ a \in JobIds /\ b \in JobIds
      BY <2>2, <2>3, <2>4 DEF JobIds
    <3>2. w[a] = box[a] /\ w[b] = box[b]
      BY <2>3, <3>1
    <3>3. QED
      BY <2>4, <3>2 DEF OneLive
  <2>5. QED
    BY <2>4 DEF OneLive
<1>3. QED
  BY <1>1, <1>2, WithReactionsJob

-----------------------------------------------------------------------------
(* The operations on the outbox.  Each keeps the three invariants, except  *)
(* that a claim of a reaction job takes its thread's request, and then     *)
(* takes the thread out of dirty or leaves work for it.                    *)

Taken(k) ==
  \E id \in JobIds, now \in Nows : outbox[id].key = k /\ ClaimReactionNotification(id, now)

JobsStep ==
  /\ JobsSound(outbox', threads)
  /\ dirty' \subseteq dirty
  /\ \A k : Followed(outbox, k) => Followed(outbox', k) \/ Taken(k)
  /\ Lag = 0 /\ OneLive(outbox, clock) => OneLive(outbox', clock)

LEMMA NowIsClock ==
  ASSUME TypeOK, Lag = 0, NEW now \in Nows
  PROVE  now = clock
BY DEF Nows, TypeOK

LEMMA SettleSteps ==
  ASSUME TypeOK, JobsSound(outbox, threads), NEW id \in JobIds, NEW j \in Job,
         NEW over \in BOOLEAN, Settle(id, j, over), dirty' = dirty,
         SameJob(outbox[id], j), outbox[id].present,
         Live(j, clock) => Live(outbox[id], clock),
         \A k : Follows(id, outbox[id], k) => Follows(id, j, k) \/ (over /\ j.updateTracking)
  PROVE  JobsStep
<1> DEFINE box == [outbox EXCEPT ![id] = j]
<1>1. outbox \in [JobIds -> Job] /\ j.key \in Keys /\ clock \in Nat
  BY DEF TypeOK, Job
<1>2. box \in [JobIds -> Job]
  BY <1>1
<1>3. JobsSound(box, threads)
  <2>1. j.leaseToken # 0 => j.present
    BY DEF SameJob
  <2>2. QED
    BY <1>1, <2>1, EditSound
<1>4. OneLive(outbox, clock) => OneLive(box, clock)
  <2>1. j.key = outbox[id].key
    BY DEF SameJob
  <2>2. QED
    BY <1>1, <2>1, EditOneLive
<1>5. box[id] = j
  BY <1>1, EditAt
<1>6. \/ ~(over /\ j.updateTracking) /\ outbox' = box
      \/ /\ over /\ j.updateTracking
         /\ RoomFor(box, j.key) /\ outbox' = WithReactions(box, j.key)
  BY SettleCases
<1>7. ASSUME NEW k, Followed(outbox, k), ~(over /\ j.updateTracking)
      PROVE  Followed(box, k)
  <2>1. Follows(id, outbox[id], k) => Follows(id, j, k)
    BY <1>7
  <2>2. QED
    BY <1>1, <1>7, <2>1, EditFollowed
<1>8. ASSUME NEW k, Followed(outbox, k), k # j.key
      PROVE  Followed(box, k)
  <2>1. ~Follows(id, outbox[id], k)
    BY <1>8 DEF Follows, SameJob
  <2>2. QED
    BY <1>1, <1>8, <2>1, EditFollowed
<1> HIDE DEF box
<1>9. CASE ~(over /\ j.updateTracking) /\ outbox' = box
  BY <1>3, <1>4, <1>7, <1>9 DEF JobsStep
<1>10. CASE over /\ j.updateTracking /\ RoomFor(box, j.key) /\ outbox' = WithReactions(box, j.key)
  <2>1. Exists(threads[j.key])
    <3>1. JobSound(id, outbox[id], threads)
      BY DEF JobsSound
    <3>2. id \in ReplyIds \/ id \in ReactionIds
      BY DEF JobIds
    <3>3. QED
      BY <1>10, <3>1, <3>2 DEF JobSound, SameJob
  <2>2. JobsSound(outbox', threads)
    BY <1>1, <1>2, <1>3, <1>10, <2>1, WithReactionsSound
  <2>3. OneLive(outbox, clock) => OneLive(outbox', clock)
    BY <1>1, <1>2, <1>4, <1>10, WithReactionsOneLive
  <2>4. Followed(outbox', j.key) /\ \A m : Followed(box, m) => Followed(outbox', m)
    BY <1>1, <1>2, <1>10, WithReactionsFollowed
  <2>5. \A k : Followed(outbox, k) => Followed(outbox', k)
    BY <1>8, <2>4
  <2>6. QED
    BY <2>2, <2>3, <2>5 DEF JobsStep
<1>11. QED
  BY <1>6, <1>9, <1>10

LEMMA RequestSteps ==
  ASSUME TypeOK, JobsSound(outbox, threads), NEW k \in Keys, Exists(threads[k]),
         RoomFor(outbox, k), outbox' = WithReactions(outbox, k)
  PROVE  /\ JobsSound(outbox', threads)
         /\ Followed(outbox', k)
         /\ \A m : Followed(outbox, m) => Followed(outbox', m)
         /\ OneLive(outbox, clock) => OneLive(outbox', clock)
<1>1. outbox \in [JobIds -> Job] /\ clock \in Nat
  BY DEF TypeOK
<1>2. JobsSound(outbox', threads)
  BY <1>1, WithReactionsSound
<1>3. Followed(outbox', k) /\ \A m : Followed(outbox, m) => Followed(outbox', m)
  BY <1>1, WithReactionsFollowed
<1>4. OneLive(outbox, clock) => OneLive(outbox', clock)
  BY <1>1, WithReactionsOneLive
<1>5. QED
  BY <1>2, <1>3, <1>4

LEMMA ClaimNotificationSteps ==
  ASSUME TypeOK, JobsSound(outbox, threads), NEW id \in JobIds, NEW now \in Nows,
         ClaimNotification(id, now)
  PROVE  JobsStep
<1> DEFINE i == outbox[id]
           j == JobClaimed(i, now)
<1>1. outbox \in [JobIds -> Job] /\ i \in Job /\ now \in Nat /\ clock \in Nat
  BY NowsType DEF TypeOK
<1>2. j \in Job
  BY <1>1, JobStepsType
<1>3. outbox' = [outbox EXCEPT ![id] = j] /\ dirty' = dirty
  BY DEF ClaimNotification, history
<1>4. Open(i) /\ i.present /\ ~i.reactions
  BY DEF ClaimNotification, Deliverable, Open
<1>5. /\ SameJob(i, j) /\ j.completed = i.completed /\ j.permanent = i.permanent
  BY <1>1 DEF JobClaimed, SameJob, Job
<1>6. id \notin ReactionIds
  BY <1>4 DEF JobsSound, JobSound
<1> HIDE DEF i, j
<1>7. JobsSound(outbox', threads)
  BY <1>1, <1>2, <1>3, <1>4, <1>5, EditSound DEF SameJob, i
<1>8. \A k : Follows(id, i, k) => Follows(id, j, k)
  BY <1>5, <1>6 DEF Follows, Open, SameJob
<1>9. \A k : Followed(outbox, k) => Followed(outbox', k)
  BY <1>1, <1>2, <1>3, <1>8, EditFollowed DEF i
<1>10. OneLive(outbox, clock) => OneLive(outbox', clock)
  <2>1. \A m \in JobIds : m # id => outbox'[m] = outbox[m]
    BY <1>1, <1>2, <1>3, EditAt
  <2>2. \A m \in ReactionIds : outbox'[m] = outbox[m]
    BY <1>6, <2>1 DEF JobIds
  <2>3. QED
    BY <2>2 DEF OneLive
<1>11. QED
  BY <1>3, <1>7, <1>9, <1>10 DEF JobsStep

LEMMA ClaimReactionNotificationSteps ==
  ASSUME TypeOK, JobsSound(outbox, threads), NEW id \in JobIds, NEW now \in Nows,
         ClaimReactionNotification(id, now)
  PROVE  JobsStep
<1> DEFINE i == outbox[id]
           j == JobClaimed(i, now)
<1>1. outbox \in [JobIds -> Job] /\ i \in Job /\ now \in Nat /\ clock \in Nat /\ i.key \in Keys
  BY NowsType DEF TypeOK, Job
<1>2. j \in Job
  BY <1>1, JobStepsType
<1>3. /\ outbox' = [outbox EXCEPT ![id] = j]
      /\ dirty' = IF CoreWork(threads[i.key]) THEN dirty ELSE dirty \ {i.key}
      /\ ~Blocked(outbox, i.key, now)
  BY DEF ClaimReactionNotification
<1>4. Open(i) /\ i.present
  BY DEF ClaimReactionNotification, Deliverable, Open
<1>5. SameJob(i, j)
  BY <1>1 DEF JobClaimed, SameJob, Job
<1> HIDE DEF i, j
<1>6. JobsSound(outbox', threads)
  BY <1>1, <1>2, <1>3, <1>4, <1>5, EditSound DEF SameJob, i
<1>7. ASSUME NEW k, Followed(outbox, k)
      PROVE  Followed(outbox', k) \/ Taken(k)
  <2>1. CASE k # i.key
    <3>1. ~Follows(id, i, k)
      BY <2>1 DEF Follows
    <3>2. QED
      BY <1>1, <1>2, <1>3, <1>7, <3>1, EditFollowed DEF i
  <2>2. CASE k = i.key
    BY <2>2 DEF Taken, i
  <2>3. QED
    BY <2>1, <2>2
<1>8. ASSUME Lag = 0, OneLive(outbox, clock) PROVE OneLive(outbox', clock)
  <2>1. ~Blocked(outbox, outbox[id].key, clock)
    BY <1>3, <1>8, NowIsClock DEF i
  <2>2. j.key = outbox[id].key
    BY <1>5 DEF SameJob, i
  <2>3. QED
    BY <1>1, <1>2, <1>3, <1>8, <2>1, <2>2, ClaimOneLive
<1>9. dirty' \subseteq dirty
  BY <1>3
<1>10. QED
  BY <1>6, <1>7, <1>8, <1>9 DEF JobsStep

LEMMA RenewNotificationSteps ==
  ASSUME TypeOK, JobsSound(outbox, threads), NEW id \in JobIds, NEW now \in Nows,
         NEW token \in Nat, RenewNotification(id, token, now)
  PROVE  JobsStep
<1> DEFINE i == outbox[id]
           j == [i EXCEPT !.leaseExpires = now + JobLease]
<1>1. outbox \in [JobIds -> Job] /\ i \in Job /\ now \in Nat /\ clock \in Nat
  BY NowsType DEF TypeOK
<1>2. j \in Job
  BY <1>1, JobStepsType
<1>3. outbox' = [outbox EXCEPT ![id] = j] /\ dirty' = dirty
  BY DEF RenewNotification, history
<1>4. i.leaseToken # 0 /\ i.leaseExpires > now
  BY DEF RenewNotification, ValidateNotification
<1>5. /\ SameJob(i, j) /\ j.completed = i.completed /\ j.permanent = i.permanent
      /\ j.leaseToken = i.leaseToken
  BY <1>1 DEF SameJob, Job
<1>6. i.present
  BY <1>4 DEF JobsSound, JobSound
<1> HIDE DEF i, j
<1>7. JobsSound(outbox', threads)
  BY <1>1, <1>2, <1>3, <1>5, <1>6, EditSound DEF SameJob, i
<1>8. \A k : Follows(id, i, k) => Follows(id, j, k)
  BY <1>5 DEF Follows, Open, SameJob
<1>9. \A k : Followed(outbox, k) => Followed(outbox', k)
  BY <1>1, <1>2, <1>3, <1>8, EditFollowed DEF i
<1>10. ASSUME Lag = 0, OneLive(outbox, clock) PROVE OneLive(outbox', clock)
  <2>1. j.key = outbox[id].key
    BY <1>5 DEF SameJob, i
  <2>2. Live(j, clock) => Live(outbox[id], clock)
    BY <1>4, <1>5, <1>10, NowIsClock DEF Live, Open, SameJob, i
  <2>3. QED
    BY <1>1, <1>2, <1>3, <1>10, <2>1, <2>2, EditOneLive
<1>11. QED
  BY <1>3, <1>7, <1>9, <1>10 DEF JobsStep

LEMMA CompleteNotificationSteps ==
  ASSUME TypeOK, JobsSound(outbox, threads), NEW id \in JobIds, NEW now \in Nows,
         NEW token \in Nat, CompleteNotification(id, token, now)
  PROVE  JobsStep
<1> DEFINE i == outbox[id]
           j == JobCompleted(i)
<1>1. i \in Job /\ now \in Nat /\ clock \in Nat
  BY NowsType DEF TypeOK
<1>2. j \in Job
  BY <1>1, JobStepsType
<1>3. Settle(id, j, TRUE) /\ dirty' = dirty /\ i.leaseToken # 0
  BY DEF CompleteNotification, ValidateNotification, history
<1>4. SameJob(i, j) /\ j.completed = TRUE
  BY <1>1 DEF JobCompleted, SameJob, Job
<1>5. i.present
  BY <1>3 DEF JobsSound, JobSound
<1> HIDE DEF i, j
<1>6. ~Live(j, clock)
  BY <1>4 DEF Live, Open
<1>7. \A k : Follows(id, i, k) => j.updateTracking
  BY <1>3, <1>4 DEF Follows, SameJob
<1>8. QED
  BY <1>2, <1>3, <1>4, <1>5, <1>6, <1>7, SettleSteps DEF i

LEMMA FailNotificationSteps ==
  ASSUME TypeOK, JobsSound(outbox, threads), NEW id \in JobIds, NEW now \in Nows,
         NEW token \in Nat, NEW at \in Nat, NEW permanent \in BOOLEAN,
         FailNotification(id, token, at, permanent, now)
  PROVE  JobsStep
<1> DEFINE i == outbox[id]
           j == JobFailed(i, at, permanent)
<1>1. i \in Job /\ now \in Nat /\ clock \in Nat
  BY NowsType DEF TypeOK
<1>2. j \in Job
  BY <1>1, JobStepsType
<1>3. Settle(id, j, permanent) /\ dirty' = dirty /\ i.leaseToken # 0
  BY DEF FailNotification, ValidateNotification, history
<1>4. /\ SameJob(i, j) /\ j.completed = i.completed /\ j.permanent = permanent
      /\ j.leaseToken = 0 /\ j.leaseExpires = 0
  BY <1>1 DEF JobFailed, SameJob, Job
<1>5. i.present
  BY <1>3 DEF JobsSound, JobSound
<1> HIDE DEF i, j
<1>6. ~Live(j, clock)
  BY <1>1, <1>4 DEF Live
<1>7. \A k : Follows(id, i, k) => j.updateTracking
  BY <1>3, <1>4 DEF Follows, SameJob
<1>8. ~permanent => \A k : Follows(id, i, k) => Follows(id, j, k)
  BY <1>4 DEF Follows, Open, SameJob
<1>9. QED
  BY <1>2, <1>3, <1>4, <1>5, <1>6, <1>7, <1>8, SettleSteps DEF i

-----------------------------------------------------------------------------
(* The operations on a thread: what they leave that its reactions wait for. *)

LEMMA MessagedWorks ==
  ASSUME NEW t \in Thread, NEW e \in Events, NEW now \in Nat, Sound(t), t.active
  PROVE  CoreWork(Messaged(t, e, now))
<1> DEFINE q == Queued(t, now)
           r == Messaged(t, e, now)
<1>1. q \in Thread /\ r \in Thread
  BY QueuedType, MessagedType
<1>2. q.state \in {"pending", "running"}
  BY QueuedLive, QueuedFree, LiveRuns
<1>3. r.state = q.state
  <2> HIDE DEF q
  <2>1. r = [q EXCEPT !.lastMessageTS = IF Newer(e.messageTS, @) THEN e.messageTS ELSE @]
    BY DEF Messaged, q
  <2>2. QED
    BY <1>1, <2>1 DEF Thread
<1>4. r.active
  BY MessagedSound
<1>5. QED
  BY <1>2, <1>3, <1>4 DEF CoreWork

LEMMA ClaimedWorks ==
  ASSUME NEW t \in Thread, NEW token, NEW now, Claimable(t, now)
  PROVE  CoreWork(Claimed(t, token, now))
BY DEF CoreWork, Claimed, Claimable, Thread

LEMMA UnmarkedWork ==
  ASSUME NEW t \in Thread, NEW now \in Nat, NEW note
  PROVE  /\ Marks(Renewed(t, now)) = Marks(t)
         /\ Marks(NoteSaved(t, note)) = Marks(t)
         /\ CoreWork(t) => CoreWork(Renewed(t, now)) /\ CoreWork(NoteSaved(t, note))
BY DEF Marks, CoreWork, Renewed, NoteSaved, Thread

WillFollow(k) == CoreWork(threads[k]) \/ Followed(outbox, k)

(* What a step does to the requests of threads, and to those it changes visibly. *)
FollowsOn ==
  \A k \in Keys : (WillFollow(k) \/ Marks(threads'[k]) # Marks(threads[k]))
                 => WillFollow(k)' \/ (Taken(k) /\ Marks(threads'[k]) = Marks(threads[k]))

OutboxInv ==
  /\ JobsSound(outbox, threads)
  /\ \A k \in dirty : WillFollow(k)
  /\ Lag = 0 => OneLive(outbox, clock)

(* Nothing unlinks a thread. *)
LEMMA ThreadsStay ==
  ASSUME TypeOK, WorkInv, [Next]_vars
  PROVE  \A k \in Keys : Exists(threads[k]) => Exists(threads'[k])
<1>1. ASSUME NEW e \in Events, NEW now \in Nat, Record(e, now), NEW k \in Keys, Exists(threads[k])
      PROVE  Exists(threads'[k])
  <2>1. e.key \in Keys /\ Sound(threads[e.key])
    BY StoreAssumption DEF Event, WorkInv, KeyInv
  <2>2. Kept(threads[e.key], Effect(e, now))
    BY <2>1, EffectSound
  <2>3. /\ threads'[e.key] = Effect(e, now)
        /\ \A j \in Keys \ {e.key} : threads'[j] = threads[j]
    BY <1>1, <2>1, PutThread DEF Record
  <2>4. QED
    BY <1>1, <2>2, <2>3 DEF Kept, Exists
<1>2. CASE ~ \E e \in Events, now \in Nat : Record(e, now)
  BY <1>2, QuietStep DEF SameTracking
<1>3. QED
  BY <1>1, <1>2

LEMMA SoundLater ==
  ASSUME NEW box \in [JobIds -> Job], NEW th, NEW later, JobsSound(box, th),
         \A k \in Keys : Exists(th[k]) => Exists(later[k])
  PROVE  JobsSound(box, later)
<1>1. ASSUME NEW id \in JobIds PROVE JobSound(id, box[id], later)
  <2>1. box[id].key \in Keys /\ JobSound(id, box[id], th)
    BY DEF Job, JobsSound
  <2>2. QED
    BY <2>1 DEF JobSound
<1>2. QED
  BY <1>1 DEF JobsSound

LEMMA EffectCases ==
  ASSUME NEW e, NEW now
  PROVE  /\ NewThread(e) => Effect(e, now) = Linked(e)
         /\ NewMessage(e) => Effect(e, now) = Messaged(threads[e.key], e, now)
         /\ ~NewThread(e) /\ ~NewMessage(e) /\ ~Applies(e) => Effect(e, now) = threads[e.key]
<1>1. ~(NewThread(e) /\ NewMessage(e)) /\ ~(NewThread(e) /\ Applies(e)) /\ ~(NewMessage(e) /\ Applies(e))
  BY DEF NewThread, NewMessage, Applies
<1>2. QED
  BY <1>1 DEF Effect

LEMMA RecordOutbox ==
  ASSUME TypeOK, WorkInv, EventInv, OutboxInv, NEW e \in Events, NEW now \in Nat,
         Record(e, now), \A k \in Keys : Exists(threads[k]) => Exists(threads'[k])
  PROVE  OutboxInv' /\ FollowsOn
<1> DEFINE j == NewJob(e.key, FALSE, UpdatesTracking(e))
           t == threads[e.key]
           r == Effect(e, now)
<1>1. /\ outbox \in [JobIds -> Job] /\ e.key \in Keys /\ e.id \in ReplyIds /\ e.id \in JobIds
      /\ t \in Thread /\ Sound(t)
  BY StoreAssumption DEF TypeOK, Event, JobIds, WorkInv, KeyInv
<1>2. j \in Job
  <2>1. UpdatesTracking(e) \in BOOLEAN
    BY DEF UpdatesTracking, NewThread, Applies
  <2>2. QED
    BY <1>1, <2>1, NewJobType
<1>3. outbox' = IF Replies(e) THEN [outbox EXCEPT ![e.id] = j] ELSE outbox
  BY DEF Record
<1>4. /\ threads'[e.key] = r
      /\ \A k \in Keys \ {e.key} : threads'[k] = threads[k]
  BY <1>1, PutThread DEF Record
<1>5. ~outbox[e.id].present
  BY <1>1 DEF Record, Duplicate, EventInv
<1>6. UpdatesTracking(e) => Exists(threads'[e.key])
  <2>1. NewThread(e) => r = Linked(e) /\ e.ticketID # NoText
    BY EffectCases, StoreAssumption, RecordAssumption DEF NewThread
  <2>2. NewThread(e) => Exists(r)
    BY <2>1 DEF Linked, NoThread, Exists
  <2>3. Applies(e) => Exists(threads[e.key])
    BY DEF Applies
  <2>4. QED
    BY <1>1, <1>4, <2>2, <2>3 DEF UpdatesTracking
<1>7. /\ ~j.reactions /\ j.updateTracking = UpdatesTracking(e) /\ j.key = e.key
      /\ j.present /\ ~j.completed /\ ~j.permanent
  BY DEF NewJob
<1>j. JobSound(e.id, j, threads')
  BY <1>1, <1>6, <1>7, OutboxAssumption DEF JobSound
<1> HIDE DEF j, r, t
<1>8. JobsSound(outbox', threads')
  <2>1. JobsSound(outbox, threads')
    BY <1>1, SoundLater DEF OutboxInv
  <2>2. CASE Replies(e)
    <3>1. outbox'[e.id] = j /\ \A m \in JobIds : m # e.id => outbox'[m] = outbox[m]
      BY <1>1, <1>2, <1>3, <2>2, EditAt
    <3>2. ASSUME NEW m \in JobIds PROVE JobSound(m, outbox'[m], threads')
      BY <1>j, <2>1, <3>1 DEF JobsSound
    <3>3. QED
      BY <3>2 DEF JobsSound
  <2>3. CASE ~Replies(e)
    BY <1>3, <2>1, <2>3
  <2>4. QED
    BY <2>2, <2>3
<1>9. \A k : Followed(outbox, k) => Followed(outbox', k)
  <2>1. \A k : ~Follows(e.id, outbox[e.id], k)
    BY <1>5 DEF Follows, Open
  <2>2. ASSUME Replies(e), NEW k, Followed(outbox, k) PROVE Followed(outbox', k)
    <3>1. \A m \in JobIds : m # e.id => outbox'[m] = outbox[m]
      BY <1>1, <1>2, <1>3, <2>2, EditAt
    <3>2. PICK i \in JobIds : Follows(i, outbox[i], k)
      BY <2>2 DEF Followed
    <3>3. outbox'[i] = outbox[i]
      BY <2>1, <3>1, <3>2
    <3>4. QED
      BY <3>2, <3>3 DEF Followed
  <2>3. CASE ~Replies(e)
    BY <1>3, <2>3
  <2>4. QED
    BY <2>2, <2>3
<1>10. ASSUME NEW k \in Keys, WillFollow(k) \/ Marks(threads'[k]) # Marks(threads[k])
       PROVE  WillFollow(k)'
  <2>1. CASE threads'[k] = threads[k]
    BY <1>9, <1>10, <2>1 DEF WillFollow
  <2>2. CASE k = e.key /\ NewMessage(e)
    <3>1. r = Messaged(t, e, now) /\ t.active
      BY <2>2, EffectCases DEF NewMessage, r, t
    <3>2. CoreWork(r)
      BY <1>1, <3>1, MessagedWorks
    <3>3. QED
      BY <1>4, <2>2, <3>2 DEF WillFollow
  <2>3. CASE k = e.key /\ UpdatesTracking(e)
    <3>1. Replies(e)
      BY <2>3 DEF UpdatesTracking, Replies, Applies, IsAction
    <3>2. outbox'[e.id] = j
      BY <1>1, <1>2, <1>3, <3>1, EditAt
    <3>3. Follows(e.id, j, k)
      BY <1>1, <1>7, <2>3 DEF Follows, Open
    <3>4. QED
      BY <1>1, <3>2, <3>3 DEF WillFollow, Followed
  <2>4. CASE k = e.key /\ ~NewMessage(e) /\ ~UpdatesTracking(e)
    <3>1. r = t
      BY <2>4, EffectCases DEF UpdatesTracking, r, t
    <3>2. threads'[k] = threads[k]
      BY <1>4, <2>4, <3>1 DEF r, t
    <3>3. QED
      BY <2>1, <3>2
  <2>5. CASE k # e.key
    BY <1>4, <2>1, <2>5
  <2>6. QED
    BY <2>2, <2>3, <2>4, <2>5
<1>d. ASSUME NEW k \in dirty' PROVE WillFollow(k)'
  <2>1. k \in Keys /\ (k \in dirty \/ Marks(threads'[k]) # Marks(threads[k]))
    BY <1>1, <1>4, <1>d DEF Record, Put, TypeOK, r
  <2>2. QED
    BY <1>10, <2>1 DEF OutboxInv
<1>11. Lag = 0 => OneLive(outbox', clock')
  <2>1. \A m \in ReactionIds : outbox'[m] = outbox[m]
    <3>1. \A m \in JobIds : m # e.id => outbox'[m] = outbox[m]
      BY <1>1, <1>2, <1>3, EditAt
    <3>2. QED
      BY <1>1, <3>1, OutboxAssumption DEF JobIds
  <2>2. clock' = clock
    BY DEF Record
  <2>3. QED
    BY <2>1, <2>2 DEF OutboxInv, OneLive
<1>12. QED
  BY <1>8, <1>10, <1>d, <1>11 DEF OutboxInv, FollowsOn

(* An operation of the work queue puts one record; work or a request follows it. *)
LEMMA PutOutbox ==
  ASSUME TypeOK, OutboxInv, NEW k \in Keys, NEW r, Put(k, r), clock' = clock,
         \A j \in Keys : Exists(threads[j]) => Exists(threads'[j]),
         \/ outbox' = outbox /\ CoreWork(r)
         \/ outbox' = outbox /\ Marks(r) = Marks(threads[k])
            /\ (CoreWork(threads[k]) => CoreWork(r))
         \/ RoomFor(outbox, k) /\ outbox' = WithReactions(outbox, k) /\ Exists(threads[k])
  PROVE  OutboxInv' /\ FollowsOn
<1>1. /\ threads'[k] = r
      /\ \A j \in Keys \ {k} : threads'[j] = threads[j]
  BY PutThread
<1>2. dirty' = IF Marks(r) = Marks(threads[k]) THEN dirty ELSE dirty \cup {k}
  BY DEF Put
<1>3. ASSUME NEW j \in dirty'
      PROVE  j \in Keys /\ (j \in dirty \/ Marks(threads'[j]) # Marks(threads[j]))
  BY <1>1, <1>2, <1>3 DEF TypeOK
<1>4. outbox \in [JobIds -> Job]
  BY DEF TypeOK
<1>5. CASE outbox' = outbox
  <2>1. JobsSound(outbox', threads')
    BY <1>4, <1>5, SoundLater DEF OutboxInv
  <2>2. Lag = 0 => OneLive(outbox', clock')
    BY <1>5 DEF OutboxInv
  <2>3. ASSUME NEW j \in Keys, WillFollow(j) \/ Marks(threads'[j]) # Marks(threads[j])
        PROVE  WillFollow(j)'
    <3>1. CASE j # k
      BY <1>1, <1>5, <2>3, <3>1 DEF WillFollow
    <3>2. CASE j = k /\ CoreWork(r)
      BY <1>1, <3>2 DEF WillFollow
    <3>3. CASE j = k /\ Marks(r) = Marks(threads[k]) /\ (CoreWork(threads[k]) => CoreWork(r))
      BY <1>1, <1>5, <2>3, <3>3 DEF WillFollow
    <3>4. CASE RoomFor(outbox, k) /\ outbox' = WithReactions(outbox, k)
      BY <1>1, <1>4, <3>1, <3>4, WithReactionsFollowed DEF WillFollow
    <3>5. QED
      BY <3>1, <3>2, <3>3, <3>4
  <2>4. \A j \in dirty' : WillFollow(j)'
    BY <1>3, <2>3 DEF OutboxInv
  <2>5. QED
    BY <2>1, <2>2, <2>3, <2>4 DEF OutboxInv, FollowsOn
<1>6. CASE RoomFor(outbox, k) /\ outbox' = WithReactions(outbox, k) /\ Exists(threads[k])
  <2>1. /\ JobsSound(outbox', threads)
        /\ Followed(outbox', k)
        /\ \A m : Followed(outbox, m) => Followed(outbox', m)
        /\ OneLive(outbox, clock) => OneLive(outbox', clock)
    BY <1>6, RequestSteps DEF OutboxInv
  <2>2. outbox' \in [JobIds -> Job]
    BY <1>4, <1>6, WithReactionsType
  <2>3. JobsSound(outbox', threads')
    BY <2>1, <2>2, SoundLater
  <2>4. ASSUME NEW j \in Keys, WillFollow(j) \/ Marks(threads'[j]) # Marks(threads[j])
        PROVE  WillFollow(j)'
    <3>1. CASE j # k
      BY <1>1, <2>1, <2>4, <3>1 DEF WillFollow
    <3>2. CASE j = k
      BY <2>1, <3>2 DEF WillFollow
    <3>3. QED
      BY <3>1, <3>2
  <2>5. \A j \in dirty' : WillFollow(j)'
    BY <1>3, <2>4 DEF OutboxInv
  <2>6. QED
    BY <2>1, <2>3, <2>4, <2>5 DEF OutboxInv, FollowsOn
<1>7. QED
  BY <1>5, <1>6

(* An operation of the outbox: no thread changes. *)
LEMMA JobOutbox ==
  ASSUME TypeOK, OutboxInv, JobsStep, UNCHANGED <<threads, clock>>
  PROVE  OutboxInv' /\ FollowsOn
<1>1. ASSUME NEW k \in dirty' PROVE WillFollow(k)'
  <2>1. WillFollow(k) /\ (Followed(outbox, k) => Followed(outbox', k) \/ Taken(k))
    BY <1>1 DEF OutboxInv, JobsStep
  <2>2. ASSUME Taken(k) PROVE CoreWork(threads[k])
    <3>1. PICK id \in JobIds, now \in Nows : outbox[id].key = k /\ ClaimReactionNotification(id, now)
      BY <2>2 DEF Taken
    <3>2. dirty' = IF CoreWork(threads[k]) THEN dirty ELSE dirty \ {k}
      BY <3>1 DEF ClaimReactionNotification
    <3>3. QED
      BY <1>1, <3>2
  <2>3. QED
    BY <2>1, <2>2 DEF WillFollow
<1>2. FollowsOn
  BY DEF FollowsOn, JobsStep, WillFollow
<1>3. QED
  BY <1>1, <1>2 DEF OutboxInv, JobsStep

LEMMA TickOutbox ==
  ASSUME TypeOK, OutboxInv, Tick
  PROVE  OutboxInv' /\ FollowsOn
<1>1. /\ UNCHANGED <<threads, outbox, dirty>> /\ clock' = clock + 1 /\ clock \in Nat
      /\ outbox \in [JobIds -> Job]
  BY DEF Tick, durable, history, TypeOK
<1>2. \A id \in JobIds : Live(outbox[id], clock + 1) => Live(outbox[id], clock)
  BY <1>1 DEF Live, Job
<1>3. OneLive(outbox, clock) => OneLive(outbox, clock + 1)
  BY <1>2 DEF OneLive, JobIds
<1>4. QED
  BY <1>1, <1>3 DEF OutboxInv, FollowsOn, WillFollow

LEMMA NextOutbox ==
  ASSUME TypeOK, WorkInv, EventInv, OutboxInv, [Next]_vars
  PROVE  OutboxInv' /\ FollowsOn
<1>e. \A k \in Keys : Exists(threads[k]) => Exists(threads'[k])
  BY ThreadsStay
<1>s. /\ \A k \in Keys : threads[k] \in Thread /\ Sound(threads[k])
      /\ \A l \in leases : l \in Lease /\ l.key \in Keys
      /\ JobsSound(outbox, threads)
  BY DEF TypeOK, Lease, WorkInv, KeyInv, OutboxInv
<1>1. ASSUME NEW e \in Events, NEW now \in Nat, Record(e, now) PROVE OutboxInv' /\ FollowsOn
  BY <1>1, <1>e, RecordOutbox
<1>2. ASSUME NEW k \in Keys, NEW now \in Nat, Claim(k, now) PROVE OutboxInv' /\ FollowsOn
  <2>1. CoreWork(Claimed(threads[k], issued[k] + 1, now))
    BY <1>2, <1>s, ClaimedWorks DEF Claim
  <2>2. QED
    BY <1>2, <1>e, <2>1, PutOutbox DEF Claim
<1>3. ASSUME NEW l \in leases, NEW now \in Nat, Renew(l, now) PROVE OutboxInv' /\ FollowsOn
  <2> DEFINE r == Renewed(threads[l.key], now)
  <2>1. /\ Put(l.key, r) /\ UNCHANGED <<outbox, clock>>
        /\ Marks(r) = Marks(threads[l.key]) /\ (CoreWork(threads[l.key]) => CoreWork(r))
    BY <1>3, <1>s, UnmarkedWork DEF Renew
  <2> HIDE DEF r
  <2>2. QED
    BY <1>e, <1>s, <2>1, PutOutbox
<1>4. ASSUME NEW l \in leases, NEW now \in Nat, NEW note \in Notes, SaveNote(l, note, now)
      PROVE  OutboxInv' /\ FollowsOn
  <2> DEFINE r == NoteSaved(threads[l.key], note)
  <2>1. /\ Put(l.key, r) /\ UNCHANGED <<outbox, clock>>
        /\ Marks(r) = Marks(threads[l.key]) /\ (CoreWork(threads[l.key]) => CoreWork(r))
    BY <1>4, <1>s, UnmarkedWork DEF SaveNote
  <2> HIDE DEF r
  <2>2. QED
    BY <1>e, <1>s, <2>1, PutOutbox
<1>5. ASSUME NEW l \in leases, NEW now \in Nat, NEW ts \in Nat, NEW at \in Nat,
             Complete(l, ts, at, now)
      PROVE  OutboxInv' /\ FollowsOn
  <2>1. Exists(threads[l.key])
    BY <1>5, <1>s, HeldSound DEF Complete
  <2>2. QED
    BY <1>5, <1>e, <1>s, <2>1, PutOutbox DEF Complete
<1>6. ASSUME NEW l \in leases, NEW now \in Nat, NEW error \in Errors, NEW at \in Nat,
             NEW permanent \in BOOLEAN, Fail(l, error, at, permanent, now)
      PROVE  OutboxInv' /\ FollowsOn
  <2>1. Exists(threads[l.key])
    BY <1>6, <1>s, HeldSound DEF Fail
  <2>2. QED
    BY <1>6, <1>e, <1>s, <2>1, PutOutbox DEF Fail
<1>7. ASSUME NEW id \in JobIds, NEW now \in Nows, ClaimNotification(id, now) PROVE OutboxInv' /\ FollowsOn
  BY <1>7, <1>s, ClaimNotificationSteps, JobOutbox DEF ClaimNotification
<1>8. ASSUME NEW id \in JobIds, NEW now \in Nows, ClaimReactionNotification(id, now) PROVE OutboxInv' /\ FollowsOn
  BY <1>8, <1>s, ClaimReactionNotificationSteps, JobOutbox DEF ClaimReactionNotification
<1>9. ASSUME NEW id \in JobIds, NEW now \in Nows, NEW token \in Nat, RenewNotification(id, token, now)
      PROVE  OutboxInv' /\ FollowsOn
  BY <1>9, <1>s, RenewNotificationSteps, JobOutbox DEF RenewNotification
<1>10. ASSUME NEW id \in JobIds, NEW now \in Nows, NEW token \in Nat, CompleteNotification(id, token, now)
       PROVE  OutboxInv' /\ FollowsOn
  BY <1>10, <1>s, CompleteNotificationSteps, JobOutbox DEF CompleteNotification
<1>11. ASSUME NEW id \in JobIds, NEW now \in Nows, NEW token \in Nat, NEW at \in Nat,
              NEW permanent \in BOOLEAN, FailNotification(id, token, at, permanent, now)
       PROVE  OutboxInv' /\ FollowsOn
  BY <1>11, <1>s, FailNotificationSteps, JobOutbox DEF FailNotification
<1>12. ASSUME NEW k \in Keys, QueueReactions(k) PROVE OutboxInv' /\ FollowsOn
  <2>1. /\ JobsSound(outbox', threads)
        /\ \A m : Followed(outbox, m) => Followed(outbox', m)
        /\ OneLive(outbox, clock) => OneLive(outbox', clock)
    BY <1>12, <1>s, RequestSteps DEF QueueReactions
  <2>2. UNCHANGED <<threads, clock, dirty>>
    BY <1>12 DEF QueueReactions, history
  <2>3. QED
    BY <2>1, <2>2 DEF OutboxInv, FollowsOn, WillFollow
<1>13. ASSUME Tick PROVE OutboxInv' /\ FollowsOn
  BY <1>13, TickOutbox
<1>14. ASSUME UNCHANGED vars PROVE OutboxInv' /\ FollowsOn
  BY <1>14 DEF vars, durable, history, OutboxInv, FollowsOn, WillFollow
<1>15. QED
  BY <1>1, <1>2, <1>3, <1>4, <1>5, <1>6, <1>7, <1>8, <1>9, <1>10, <1>11, <1>12, <1>13, <1>14, Steps

LEMMA InitOutbox ==
  ASSUME Init
  PROVE  OutboxInv
<1>1. \A id \in JobIds : ~outbox[id].present /\ outbox[id].leaseToken = 0
  BY DEF Init, NoJob, NewJob
<1>2. JobsSound(outbox, threads)
  BY <1>1 DEF JobsSound, JobSound
<1>3. OneLive(outbox, clock)
  BY <1>1 DEF OneLive, Live, Open, JobIds
<1>4. dirty = {}
  BY DEF Init
<1>5. QED
  BY <1>2, <1>3, <1>4 DEF OutboxInv

LEMMA OutboxInvariant == Spec => [](TypeOK /\ WorkInv /\ EventInv /\ OutboxInv)
<1>1. Init => OutboxInv
  BY InitOutbox
<1>2. TypeOK /\ WorkInv /\ EventInv /\ OutboxInv /\ [Next]_vars => OutboxInv'
  BY NextOutbox
<1>3. QED
  BY <1>1, <1>2, EventInvariant, PTL DEF Spec

(* A reaction job is only ever queued for a linked thread, and no thread is     *)
(* unlinked, so claimNotification's scan never aborts on a job without one.     *)
THEOREM ReactionJobsHaveThreads == Spec => []ReactionJobHasThread
<1>1. OutboxInv => ReactionJobHasThread
  BY DEF OutboxInv, JobsSound, JobSound, ReactionJobHasThread, JobIds
<1>2. QED
  BY <1>1, OutboxInvariant, PTL

(* A change of what a thread's reactions show, by any event or worker, leaves   *)
(* work or a job that will look at them: updateCommand and the workers queue    *)
(* the update in the transaction of the change or when the work they leave ends. *)
THEOREM ReactionsAlwaysFollow == Spec => []ReactionsWillFollow
<1>1. OutboxInv => ReactionsWillFollow
  <2>1. SUFFICES ASSUME OutboxInv, NEW k \in dirty, ~CoreWork(threads[k])
                 PROVE  \/ \E id \in ReplyIds : /\ Open(outbox[id]) /\ outbox[id].updateTracking
                                               /\ outbox[id].key = k
                        \/ \E id \in ReactionIds : /\ Open(outbox[id]) /\ outbox[id].key = k
                                                  /\ outbox[id].leaseToken = 0
    BY DEF ReactionsWillFollow
  <2>2. PICK id \in JobIds : Follows(id, outbox[id], k)
    BY <2>1 DEF OutboxInv, WillFollow, Followed
  <2>3. QED
    BY <2>2 DEF Follows
<1>2. QED
  BY <1>1, OutboxInvariant, PTL

(* When callers act at the time they read, one reaction job per thread at most  *)
(* holds a live lease.  With a lag it does not hold: the run store_lag shows it. *)
THEOREM OneReactionLeaseIsLive == ASSUME Lag = 0 PROVE Spec => []OneLiveReactionLease
<1>1. OutboxInv => OneLiveReactionLease
  BY DEF OutboxInv, OneLive, Live, OneLiveReactionLease
<1>2. QED
  BY <1>1, OutboxInvariant, PTL
=============================================================================
