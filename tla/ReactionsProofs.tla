--------------------------- MODULE ReactionsProofs ---------------------------
(***************************************************************************)
(* Proofs about the reaction worker (module Reactions): its steps are      *)
(* steps of the store, and a thread at rest shows its record's reactions.  *)
(*                                                                         *)
(* ReactionsInv, the inductive invariant, says of every thread that its    *)
(* reactions are right, or that somebody will still look at them: a job    *)
(* is open, work will queue one, or a worker that lost its job will (the   *)
(* last conjunct, Marked).  That takes knowing how far each worker that    *)
(* holds its job has got (Progress), that the requests to Slack of one     *)
(* claim are one at most (RequestInv), that a claim has one worker         *)
(* (OneHolder), and that a lost job stays lost (Moved, JobsKept).          *)
(*                                                                         *)
(* Sections: a step of one job; the invariant; steps as the store's; types *)
(* and timestamps; leases, jobs and requests; reactions; the theorems.     *)
(***************************************************************************)
EXTENDS Reactions, StoreProofs
-----------------------------------------------------------------------------
(* What one step of the store does to one job, when callers are prompt: the  *)
(* job is new, claimed, renewed or given up, the last two by its holder.     *)

Spent(j) ==
  /\ j.completed \/ j.permanent => j.leaseToken = 0 /\ j.present
  /\ j.leaseToken # 0 => j.present

Holder(j, time) == ValidateNotification(j, j.leaseToken, time)

Moved(i, j) ==
  \/ j = i
  \/ ~i.present /\ j.leaseToken = 0 /\ ~j.completed /\ ~j.permanent
  \/ /\ SameJob(i, j) /\ Open(i) /\ Open(j) /\ ~(i.leaseExpires > clock)
     /\ j.attempts = i.attempts + 1 /\ j.leaseToken = i.attempts + 1
  \/ /\ SameJob(i, j) /\ Holder(i, clock) /\ j.attempts = i.attempts
     /\ \/ j.leaseToken = 0
        \/ j.leaseToken = i.leaseToken /\ j.completed = i.completed /\ j.permanent = i.permanent

LEMMA MovedKeeps ==
  ASSUME NEW i \in Job, NEW j \in Job, Moved(i, j), i.present, clock \in Nat
  PROVE  SameJob(i, j) /\ i.attempts <= j.attempts
<1>1. i.attempts \in Nat /\ (j = i => SameJob(i, j))
  BY DEF SameJob, Job
<1>2. CASE j = i
  BY <1>1, <1>2
<1>3. CASE j # i
  <2>1. SameJob(i, j) /\ (j.attempts = i.attempts + 1 \/ j.attempts = i.attempts)
    BY <1>3, Zenon DEF Moved
  <2>2. QED
    BY <1>1, <2>1
<1>4. QED
  BY <1>2, <1>3

LEMMA MovedSpent ==
  ASSUME NEW i \in Job, NEW j \in Job, Moved(i, j), Spent(i)
  PROVE  /\ Spent(j)
         /\ i.present /\ i.permanent => j = i
BY DEF Moved, Spent, Holder, ValidateNotification, Open, SameJob

(* A lease of a job that is lost stays lost: no later claim draws its token. *)
LEMMA MovedLost ==
  ASSUME NEW i \in Job, NEW j \in Job, Moved(i, j), clock \in Nat, NEW later \in Nat,
         clock <= later, NEW token \in Nat, token # 0, token <= i.attempts,
         ValidateNotification(j, token, later)
  PROVE  ValidateNotification(i, token, clock)
<1> USE DEF ValidateNotification
<1>1. CASE j = i
  BY <1>1 DEF Job
<1>2. CASE j # i
  BY <1>2 DEF Moved, Holder, Job
<1>3. QED
  BY <1>1, <1>2

(* A request joins the jobs there are, or takes a free one. *)
Joined(i, j, k) == j = i \/ (~i.present /\ j = NewJob(k, TRUE, FALSE))

LEMMA RequestJoins ==
  ASSUME NEW box \in [JobIds -> Job], NEW k \in Keys, RoomFor(box, k),
         NEW w, w = WithReactions(box, k)
  PROVE  \A id \in JobIds : Joined(box[id], w[id], k)
<1> SUFFICES ASSUME NEW id \in JobIds PROVE Joined(box[id], w[id], k)
  OBVIOUS
<1>1. CASE w = box
  BY <1>1 DEF Joined
<1>2. ASSUME NEW i \in ReactionIds, ~box[i].present, w = [box EXCEPT ![i] = NewJob(k, TRUE, FALSE)]
      PROVE  Joined(box[id], w[id], k)
  <2> DEFINE j == NewJob(k, TRUE, FALSE)
  <2>1. i \in JobIds /\ j \in Job
    BY NewJobType DEF JobIds
  <2> HIDE DEF j
  <2>2. w[i] = j /\ \A m \in JobIds : m # i => w[m] = box[m]
    BY <1>2, <2>1, EditAt DEF j
  <2>3. QED
    BY <1>2, <2>2 DEF j, Joined
<1>3. QED
  BY <1>1, <1>2, WithReactionsJob

LEMMA NewMoves ==
  ASSUME NEW i, NEW k, NEW r, NEW u, ~i.present
  PROVE  Moved(i, NewJob(k, r, u))
BY DEF Moved, NewJob

LEMMA JoinedMoves ==
  ASSUME NEW i, NEW j, NEW k, Joined(i, j, k)
  PROVE  Moved(i, j)
<1>1. CASE j = i
  BY <1>1 DEF Moved
<1>2. CASE ~i.present /\ j = NewJob(k, TRUE, FALSE)
  BY <1>2, NewMoves
<1>3. QED
  BY <1>1, <1>2 DEF Joined

LEMMA EditMoves ==
  ASSUME outbox \in [JobIds -> Job], NEW id \in JobIds, NEW j \in Job,
         outbox' = [outbox EXCEPT ![id] = j], Moved(outbox[id], j)
  PROVE  \A m \in JobIds : Moved(outbox[m], outbox'[m])
<1>1. outbox'[id] = j /\ \A m \in JobIds : m # id => outbox'[m] = outbox[m]
  BY EditAt
<1>2. QED
  BY <1>1 DEF Moved

LEMMA AddMoves ==
  ASSUME outbox \in [JobIds -> Job], NEW k \in Keys, RoomFor(outbox, k),
         outbox' = WithReactions(outbox, k)
  PROVE  \A m \in JobIds : Moved(outbox[m], outbox'[m])
BY RequestJoins, JoinedMoves

LEMMA SettleMoves ==
  ASSUME TypeOK, NEW id \in JobIds, NEW j \in Job, NEW over \in BOOLEAN, Settle(id, j, over),
         outbox[id].present, SameJob(outbox[id], j), Moved(outbox[id], j)
  PROVE  \A m \in JobIds : Moved(outbox[m], outbox'[m])
<1> DEFINE box == [outbox EXCEPT ![id] = j]
<1>1. outbox \in [JobIds -> Job] /\ j.key \in Keys
  BY DEF TypeOK, Job
<1>2. box \in [JobIds -> Job] /\ box[id] = j /\ \A m \in JobIds : m # id => box[m] = outbox[m]
  BY <1>1, EditAt
<1>3. \/ outbox' = box
      \/ RoomFor(box, j.key) /\ outbox' = WithReactions(box, j.key)
  BY SettleCases
<1> HIDE DEF box
<1>4. \A m \in JobIds : Moved(outbox[m], box[m])
  BY <1>2 DEF Moved
<1>5. ASSUME RoomFor(box, j.key), outbox' = WithReactions(box, j.key), NEW m \in JobIds
      PROVE  Moved(outbox[m], outbox'[m])
  <2>1. Joined(box[m], outbox'[m], j.key)
    BY <1>1, <1>2, <1>5, RequestJoins
  <2>2. ~box[m].present => ~outbox[m].present
    BY <1>2 DEF SameJob
  <2>3. CASE outbox'[m] = box[m]
    BY <1>4, <2>3
  <2>4. CASE ~box[m].present /\ outbox'[m] = NewJob(j.key, TRUE, FALSE)
    BY <2>2, <2>4, NewMoves
  <2>5. QED
    BY <2>1, <2>3, <2>4 DEF Joined
<1>6. QED
  BY <1>3, <1>4, <1>5

LEMMA JobsMove ==
  ASSUME TypeOK, EventInv, JobsSound(outbox, threads), Lag = 0, [Next]_vars
  PROVE  \A m \in JobIds : Moved(outbox[m], outbox'[m])
<1> DEFINE Moves_ == \A m \in JobIds : Moved(outbox[m], outbox'[m])
<1>o. outbox \in [JobIds -> Job] /\ clock \in Nat
  BY DEF TypeOK
<1>s. outbox' = outbox => Moves_
  BY DEF Moved
<1>l. \A l \in leases : l.key \in Keys
  BY DEF TypeOK, Lease
<1>1. ASSUME NEW e \in Events, NEW now \in Nat, Record(e, now) PROVE Moves_
  <2> DEFINE j == NewJob(e.key, FALSE, UpdatesTracking(e))
  <2>1. e.key \in Keys /\ e.id \in ReplyIds /\ e.id \in JobIds
    BY StoreAssumption DEF Event, JobIds
  <2>2. UpdatesTracking(e) \in BOOLEAN
    BY DEF UpdatesTracking, NewThread, Applies
  <2>3. j \in Job
    BY <2>1, <2>2, NewJobType
  <2>4. outbox' = IF Replies(e) THEN [outbox EXCEPT ![e.id] = j] ELSE outbox
    BY <1>1 DEF Record
  <2>5. ~outbox[e.id].present
    BY <1>1, <2>1 DEF Record, Duplicate, EventInv
  <2>6. Moved(outbox[e.id], j)
    BY <2>5, NewMoves
  <2> HIDE DEF j
  <2>7. QED
    BY <1>o, <1>s, <2>1, <2>3, <2>4, <2>6, EditMoves
<1>2. ASSUME NEW id \in JobIds, NEW now \in Nows,
             ClaimNotification(id, now) \/ ClaimReactionNotification(id, now)
      PROVE  Moves_
  <2> DEFINE i == outbox[id]
             j == JobClaimed(i, clock)
  <2>1. now = clock
    BY NowIsClock
  <2>2. i \in Job /\ j \in Job
    BY <1>o, JobStepsType
  <2>3. Open(i) /\ ~(i.leaseExpires > clock) /\ outbox' = [outbox EXCEPT ![id] = j]
    BY <1>2, <2>1 DEF ClaimNotification, ClaimReactionNotification, Deliverable
  <2>4. SameJob(i, j) /\ Open(j) /\ j.attempts = i.attempts + 1 /\ j.leaseToken = i.attempts + 1
    BY <2>2, <2>3 DEF JobClaimed, SameJob, Job, Open
  <2> HIDE DEF j
  <2>5. Moved(i, j)
    BY <2>3, <2>4 DEF Moved
  <2>6. QED
    BY <1>o, <2>2, <2>3, <2>5, EditMoves
<1>3. ASSUME NEW id \in JobIds, NEW now \in Nows, NEW token \in Nat, RenewNotification(id, token, now)
      PROVE  Moves_
  <2> DEFINE i == outbox[id]
             j == [i EXCEPT !.leaseExpires = clock + JobLease]
  <2>1. now = clock
    BY NowIsClock
  <2>2. i \in Job /\ j \in Job
    BY <1>o, JobStepsType
  <2>3. Holder(i, clock) /\ outbox' = [outbox EXCEPT ![id] = j]
    BY <1>3, <2>1 DEF RenewNotification, Holder, ValidateNotification
  <2>4. /\ SameJob(i, j) /\ j.attempts = i.attempts /\ j.leaseToken = i.leaseToken
        /\ j.completed = i.completed /\ j.permanent = i.permanent
    BY <2>2 DEF SameJob, Job
  <2> HIDE DEF j
  <2>5. Moved(i, j)
    BY <2>3, <2>4 DEF Moved
  <2>6. QED
    BY <1>o, <2>2, <2>3, <2>5, EditMoves
<1>4. ASSUME NEW id \in JobIds, NEW now \in Nows, NEW token \in Nat, CompleteNotification(id, token, now)
      PROVE  Moves_
  <2> DEFINE i == outbox[id]
             j == JobCompleted(i)
  <2>1. now = clock
    BY NowIsClock
  <2>2. i \in Job /\ j \in Job
    BY <1>o, JobStepsType
  <2>3. Holder(i, clock) /\ Settle(id, j, TRUE) /\ i.present
    BY <1>4, <2>1 DEF CompleteNotification, Holder, ValidateNotification, JobsSound, JobSound
  <2>4. SameJob(i, j) /\ j.attempts = i.attempts /\ j.leaseToken = 0
    BY <2>2 DEF JobCompleted, SameJob, Job
  <2> HIDE DEF j
  <2>5. Moved(i, j)
    BY <2>3, <2>4 DEF Moved
  <2>6. QED
    BY <2>2, <2>3, <2>4, <2>5, SettleMoves
<1>5. ASSUME NEW id \in JobIds, NEW now \in Nows, NEW token \in Nat, NEW at \in Nat,
             NEW permanent \in BOOLEAN, FailNotification(id, token, at, permanent, now)
      PROVE  Moves_
  <2> DEFINE i == outbox[id]
             j == JobFailed(i, at, permanent)
  <2>1. now = clock
    BY NowIsClock
  <2>2. i \in Job /\ j \in Job
    BY <1>o, JobStepsType
  <2>3. Holder(i, clock) /\ Settle(id, j, permanent) /\ i.present
    BY <1>5, <2>1 DEF FailNotification, Holder, ValidateNotification, JobsSound, JobSound
  <2>4. SameJob(i, j) /\ j.attempts = i.attempts /\ j.leaseToken = 0
    BY <2>2 DEF JobFailed, SameJob, Job
  <2> HIDE DEF j
  <2>5. Moved(i, j)
    BY <2>3, <2>4 DEF Moved
  <2>6. QED
    BY <2>2, <2>3, <2>4, <2>5, SettleMoves
<1>6. ASSUME NEW k \in Keys, RoomFor(outbox, k), outbox' = WithReactions(outbox, k) PROVE Moves_
  BY <1>o, <1>6, AddMoves
<1>7. ASSUME NEW l \in leases, NEW now \in Nat, NEW ts \in Nat, NEW at \in Nat,
             Complete(l, ts, at, now)
      PROVE  Moves_
  BY <1>6, <1>7, <1>l DEF Complete
<1>8. ASSUME NEW l \in leases, NEW now \in Nat, NEW error \in Errors, NEW at \in Nat,
             NEW permanent \in BOOLEAN, Fail(l, error, at, permanent, now)
      PROVE  Moves_
  BY <1>6, <1>8, <1>l DEF Fail
<1>9. ASSUME \/ \E k \in Keys, now \in Nat : Claim(k, now)
             \/ \E l \in leases, now \in Nat : Renew(l, now)
             \/ \E l \in leases, now \in Nat, note \in Notes : SaveNote(l, note, now)
             \/ Tick \/ UNCHANGED vars
      PROVE  Moves_
  BY <1>9, <1>s DEF Claim, Renew, SaveNote, Tick, vars, durable
<1>10. ASSUME NEW k \in Keys, QueueReactions(k) PROVE Moves_
  BY <1>6, <1>10 DEF QueueReactions
<1> HIDE DEF Moves_
<1>11. QED
  BY <1>1, <1>2, <1>3, <1>4, <1>5, <1>7, <1>8, <1>9, <1>10, Steps DEF Moves_

-----------------------------------------------------------------------------
(* The inductive invariant. *)

Target == [ts: Nat, name: {"success", "tracking", "failure"}]
Change == [add: BOOLEAN, target: Target]
Seen == BOOLEAN \X Nat \X Nat \X Errors
Marking == {"listing", "changing", "awaiting"}

Points == {"idle", "syncing", "replying", "ended", "lost"} \cup Reacting
Ends == {"", "temporary", "cancelled", "permanent"}

WorkerState ==
  [pc: Points,
   lease: Lease \cup {NoLease}, id: JobIds \cup {""}, key: Keys, token: Nat,
   seen: Seen \cup {<<>>}, todo: SUBSET Change,
   error: Ends]
RequestState == [worker: Workers, id: JobIds, token: Nat, key: Keys, change: Change]

ReactionsTypeOK ==
  /\ worker \in [Workers -> WorkerState]
  /\ wire \subseteq RequestState
  /\ marks \in [Keys -> SUBSET Target]
  /\ late \subseteq Keys

(* A timestamp that a reaction is put on is that of a message, or none. *)
Dated(k, ts) == ts = 0 \/ ts \in Messages(k)
ThreadDated(k) ==
  /\ Dated(k, threads[k].lastMessageTS) /\ Dated(k, threads[k].lastSyncedTS)
  /\ Exists(threads[k]) => threads[k].lastMessageTS \in SyncableTS(k) \cap Messages(k)

(* What a worker knows of its lease or its job, which it may have lost. *)
SyncInv(w) == worker[w].pc = "syncing" => worker[w].lease \in leases
JobInv(w) == HasJob(w) =>
  LET s == worker[w]
      j == outbox[s.id]
  IN  /\ s.id \in JobIds /\ j.present /\ j.key = s.key
      /\ s.token \in 1..j.attempts
      /\ s.pc \in Reacting \cup {"lost"} => j.reactions
      /\ s.pc = "replying" => ~j.reactions
      /\ s.pc = "lost" => ~HoldsJob(w)
      /\ s.pc \in Marking => s.seen \in Seen /\ Dated(s.key, s.seen[2]) /\ Dated(s.key, s.seen[3])

(* One worker per claim of a job. *)
OneHolder ==
  \A v, w \in Workers :
    (HasJob(v) /\ HasJob(w) /\ worker[v].id = worker[w].id /\ worker[v].token = worker[w].token)
      => v = w

(* A request is of one claim, and the only one; while its sender has moved on *)
(* in that claim, it has stopped waiting.                                     *)
From(r, w) == r.worker = w /\ r.id = worker[w].id /\ r.token = worker[w].token
RequestInv(r) ==
  /\ outbox[r.id].present /\ outbox[r.id].key = r.key /\ r.token <= outbox[r.id].attempts
  /\ \A w \in Workers : HasJob(w) /\ From(r, w) =>
       worker[w].pc \notin {"looking", "listing", "changing"}
  /\ \A q \in wire : q.worker = r.worker /\ q.id = r.id /\ q.token = r.token => q = r

(* Why the reactions of a thread may differ from its record: a change not yet *)
(* looked at, a request nobody waits for, or a worker that has lost its job.  *)
Reacts(w) == HasJob(w) /\ outbox[worker[w].id].reactions
Stray(w, k) == Reacts(w) /\ worker[w].key = k /\ ~HoldsJob(w)
Strays(k) == \E w \in Workers : Stray(w, k)
Excused(k) == WillFollow(k) \/ k \in late \/ Strays(k)

Right(k) == marks[k] = Desired(k, Marks(threads[k]))
OpenJob(k) == \E id \in ReactionIds : Open(outbox[id]) /\ outbox[id].key = k
Marked(k) == Excused(k) \/ OpenJob(k) \/ Parked(k) \/ Right(k)

(* The changes are towards what is desired, and reach it. *)
Covers(present, changes, desired) ==
  /\ \A c \in changes : c.add <=> c.target \in desired
  /\ \A t \in (present \ desired) \cup (desired \ present) : \E c \in changes : c.target = t

(* How far a worker that still holds its job has got. *)
Progress(w) ==
  LET s == worker[w] IN
  /\ s.pc = "changing" => Covers(marks[s.key], s.todo, Desired(s.key, s.seen))
  /\ s.pc = "awaiting" =>
       \A r \in wire : From(r, w) => Covers(marks[s.key], s.todo \cup {r.change}, Desired(s.key, s.seen))
  /\ s.pc = "ended" /\ s.error = "" => Right(s.key)
MarkInv(w) == Reacts(w) /\ HoldsJob(w) => Excused(worker[w].key) \/ Progress(w)

StoreInv == TypeOK /\ WorkInv /\ EventInv /\ Commands /\ OutboxInv /\ NewestInv /\ clock # 0
DatedInv == \A k \in Keys : ThreadDated(k)
HoldersInv == OneHolder /\ \A w \in Workers : SyncInv(w) /\ JobInv(w)
WireInv == \A r \in wire : RequestInv(r)
SpentInv == \A id \in JobIds : Spent(outbox[id])
MarksInv == /\ \A k \in Keys : Marked(k)
            /\ \A w \in Workers : MarkInv(w)

ReactionsInv ==
  StoreInv /\ ReactionsTypeOK /\ DatedInv /\ HoldersInv /\ WireInv /\ SpentInv /\ MarksInv

-----------------------------------------------------------------------------
(* Every step is a step of the store. *)

LEMMA ClockIsNow ==
  ASSUME StoreInv
  PROVE  clock \in Nows /\ clock \in Nat
<1>1. clock \in Nat /\ clock # 0 /\ Lag \in Nat
  BY StoreAssumption DEF StoreInv, TypeOK
<1>2. QED
  BY <1>1 DEF Nows

LEMMA LatestIsMessage ==
  ASSUME StoreInv, DatedInv, NEW k \in Keys, Exists(threads[k])
  PROVE  Latest(k) \in SyncableTS(k) \cap Messages(k)
<1> DEFINE T == SyncableTS(k) \cap Messages(k)
           S == {e \in Events : Recorded(e) /\ e.key = k /\ e.messageTS \in T}
<1>1. T # {}
  BY DEF DatedInv, ThreadDated
<1>2. \A t \in T : t = k.threadTS \/ \E e \in S : e.messageTS = t
  BY DEF Messages, Recorded
<1>3. k.threadTS \in Nat /\ \A e \in Events : e.messageTS \in Nat
  BY ReactionsAssumption, StoreAssumption DEF Event
<1>4. \E ts \in T : \A other \in T : other <= ts
  <2>1. CASE S = {}
    BY <1>1, <1>2, <1>3, <2>1
  <2>2. CASE S # {}
    <3>1. S \in SUBSET {e \in Events : Recorded(e)}
      OBVIOUS
    <3>2. PICK m \in S : \A e \in S : e.messageTS <= m.messageTS
      BY <2>2, <3>1 DEF StoreInv, NewestInv, HasNewest
    <3>3. m.messageTS \in T /\ m.messageTS \in Nat
      BY <1>3, <3>2
    <3>4. \A t \in T : t = k.threadTS \/ t <= m.messageTS
      BY <1>2, <3>2
    <3>5. CASE k.threadTS \in T /\ m.messageTS <= k.threadTS
      <4>1. \A t \in T : t \in Nat
        BY <1>2, <1>3
      <4>2. \A t \in T : t <= k.threadTS
        BY <1>3, <3>3, <3>4, <3>5, <4>1
      <4>3. QED
        BY <3>5, <4>2
    <3>6. CASE ~(k.threadTS \in T /\ m.messageTS <= k.threadTS)
      <4>1. \A t \in T : t <= m.messageTS
        BY <1>3, <3>3, <3>4, <3>6
      <4>2. QED
        BY <3>3, <4>1
    <3>7. QED
      BY <3>5, <3>6
  <2>3. QED
    BY <2>1, <2>2
<1>5. QED
  BY <1>4 DEF Latest

(* Receive, StartSync, ..., Wait: what each does to the store. *)
LEMMA EndSyncStores ==
  ASSUME StoreInv, DatedInv, NEW w \in Workers, SyncInv(w), EndSync(w)
  PROVE  [Next]_vars
<1> DEFINE l == worker[w].lease
<1>1. l \in leases /\ l.key \in Keys
  BY DEF SyncInv, EndSync, StoreInv, TypeOK, Lease
<1>2. clock \in Nows
  BY ClockIsNow
<1>3. CASE UNCHANGED vars
  BY <1>3
<1>4. CASE Complete(l, Latest(l.key), 0, clock)
  <2>1. Exists(threads[l.key])
    BY <1>1, <1>4, HeldSound DEF Complete, StoreInv, TypeOK, WorkInv, KeyInv
  <2>2. Latest(l.key) \in SyncableTS(l.key)
    BY <1>1, <2>1, LatestIsMessage
  <2>3. QED
    BY <1>1, <1>2, <1>4, <2>2 DEF Next, UseLease
<1>5. ASSUME NEW permanent \in BOOLEAN, NEW error \in Errors \ {NoText}, NEW at \in RetryTimes(clock),
             Fail(l, error, at, permanent, clock)
      PROVE  [Next]_vars
  BY <1>1, <1>2, <1>5 DEF Next, UseLease
<1>6. /\ {"operation cancelled", "error"} \subseteq Errors \ {NoText}
      /\ {clock, clock + Backoff} \subseteq RetryTimes(clock)
  BY DEF Errors, NoText, RetryTimes
<1>7. \/ UNCHANGED vars
      \/ Complete(l, Latest(l.key), 0, clock)
      \/ Fail(l, "operation cancelled", clock, FALSE, clock)
      \/ \E permanent \in BOOLEAN : Fail(l, "error", clock + Backoff, permanent, clock)
  BY DEF EndSync
<1>8. QED
  BY <1>3, <1>4, <1>5, <1>6, <1>7

LEMMA OutcomeStores ==
  ASSUME StoreInv, NEW w \in Workers, JobInv(w), Finish(w)
  PROVE  /\ HasJob(w) /\ worker[w].id \in JobIds
         /\ LET id == worker[w].id
                token == worker[w].token
            IN  \/ worker[w].error = "" /\ CompleteNotification(id, token, clock)
                \/ FailNotification(id, token, clock, FALSE, clock)
                \/ FailNotification(id, token, clock + Backoff, FALSE, clock)
                \/ FailNotification(id, token, 0, TRUE, clock)
<1>1. HasJob(w) /\ worker[w].id \in JobIds
  BY DEF HasJob, Finish, JobInv
<1>2. Outcome(w)
  BY DEF Finish
<1>3. worker[w].error = "" => CompleteNotification(worker[w].id, worker[w].token, clock)
  BY <1>2 DEF Outcome
<1>4. worker[w].error = "cancelled" => FailNotification(worker[w].id, worker[w].token, clock, FALSE, clock)
  BY <1>2 DEF Outcome
<1>5. worker[w].error \notin {"", "cancelled"} =>
        \/ FailNotification(worker[w].id, worker[w].token, clock + Backoff, FALSE, clock)
        \/ FailNotification(worker[w].id, worker[w].token, 0, TRUE, clock)
  BY <1>2, Zenon DEF Outcome
<1>6. QED
  BY <1>1, <1>3, <1>4, <1>5

LEMMA StepStores ==
  ASSUME StoreInv, DatedInv, HoldersInv, [ReactionsNext]_reactionVars
  PROVE  [Next]_vars
<1>c. clock \in Nows
  BY ClockIsNow
<1>t. ASSUME NEW w \in Workers, HasJob(w)
      PROVE  /\ worker[w].id \in JobIds /\ worker[w].key \in Keys
             /\ worker[w].token \in 1..outbox[worker[w].id].attempts
  BY <1>t DEF HoldersInv, JobInv, StoreInv, TypeOK, Job
<1>1. ASSUME NEW e \in Events, Receive(e) PROVE Next
  BY <1>1, <1>c DEF Receive, Next, RecordEvent
<1>2. ASSUME NEW w \in Workers, NEW id \in JobIds, StartReply(w, id) \/ StartReactions(w, id) PROVE Next
  BY <1>2, <1>c DEF StartReply, StartReactions, Next, ClaimJob
<1>3. ASSUME NEW w \in Workers, NEW k \in Keys, StartSync(w, k) PROVE Next
  BY <1>3, <1>c DEF StartSync, Next, ClaimThread
<1>4. ASSUME NEW w \in Workers, EndSync(w) PROVE [Next]_vars
  BY <1>4, EndSyncStores DEF HoldersInv
<1>5. ASSUME NEW w \in Workers, Finish(w) PROVE Next
  <2> DEFINE id == worker[w].id
             token == worker[w].token
  <2>1. /\ HasJob(w)
        /\ \/ CompleteNotification(id, token, clock)
           \/ FailNotification(id, token, clock, FALSE, clock)
           \/ FailNotification(id, token, clock + Backoff, FALSE, clock)
           \/ FailNotification(id, token, 0, TRUE, clock)
    BY <1>5, OutcomeStores DEF HoldersInv
  <2>2. id \in JobIds /\ token \in 1..outbox[id].attempts
    BY <1>t, <2>1
  <2>3. {clock, clock + Backoff} \subseteq RetryTimes(clock)
    BY DEF RetryTimes
  <2> HIDE DEF id, token
  <2>4. UseJob
    BY <1>c, <2>1, <2>2, <2>3 DEF UseJob
  <2>5. QED
    BY <2>4 DEF Next
<1>6. ASSUME NEW w \in Workers, Requeue(w) PROVE Next
  <2>1. HasJob(w) /\ QueueReactions(worker[w].key)
    BY <1>6 DEF Requeue, HasJob
  <2>2. worker[w].key \in Keys
    BY <1>t, <2>1
  <2>3. QED
    BY <2>1, <2>2 DEF Next, RequestReactions
<1>7. ASSUME NEW w \in Workers, Heartbeat(w) PROVE Next
  <2> DEFINE id == worker[w].id
             token == worker[w].token
  <2>1. HasJob(w) /\ RenewNotification(id, token, clock)
    BY <1>7 DEF Heartbeat, HasJob, Reacting
  <2>2. id \in JobIds /\ token \in 1..outbox[id].attempts
    BY <1>t, <2>1
  <2> HIDE DEF id, token
  <2>3. UseJob
    BY <1>c, <2>1, <2>2 DEF UseJob
  <2>4. QED
    BY <2>3 DEF Next
<1>8. ASSUME NEW w \in Workers,
             \/ Post(w) \/ Look(w) \/ List(w) \/ Call(w) \/ Recheck(w) \/ Abandon(w)
             \/ FinishLost(w) \/ Error(w) \/ Crash(w)
      PROVE  UNCHANGED vars
  BY <1>8, Zenon DEF Post, Look, List, Call, Recheck, Abandon, FinishLost, Error, Crash, Only
<1>9. ASSUME NEW r \in wire, Apply(r) \/ Lose(r) PROVE UNCHANGED vars
  BY <1>9, Zenon DEF Apply, Lose
<1>10. Wait => Next
  BY DEF Wait, Next
<1>11. UNCHANGED reactionVars => UNCHANGED vars
  BY DEF reactionVars
<1>12. QED
  BY <1>1, <1>2, <1>3, <1>4, <1>5, <1>6, <1>7, <1>8, <1>9, <1>10, <1>11
     DEF ReactionsNext, Reply, Sync, React, ReactionStep

-----------------------------------------------------------------------------
(* Types, and what is left of a worker's state when it moves. *)

Same(s, u) == u.id = s.id /\ u.key = s.key /\ u.token = s.token /\ u.lease = s.lease

LEMMA MovesOn ==
  ASSUME ReactionsTypeOK, NEW w \in Workers, NEW s \in WorkerState, Moves(w, s)
  PROVE  /\ worker' \in [Workers -> WorkerState]
         /\ worker'[w] = s
         /\ \A v \in Workers : v # w => worker'[v] = worker[v]
BY DEF ReactionsTypeOK, Moves

LEMMA GoOn ==
  ASSUME NEW s \in WorkerState, NEW p \in Points
  PROVE  LET u == [s EXCEPT !.pc = p] IN
         u \in WorkerState /\ u.pc = p /\ Same(s, u) /\ u.seen = s.seen /\ u.todo = s.todo /\ u.error = s.error
BY DEF WorkerState, Same

LEMMA GoSee ==
  ASSUME NEW s \in WorkerState, NEW p \in Points, NEW seen \in Seen
  PROVE  LET u == [s EXCEPT !.pc = p, !.seen = seen] IN
         u \in WorkerState /\ u.pc = p /\ Same(s, u) /\ u.seen = seen /\ u.todo = s.todo
BY DEF WorkerState, Same

LEMMA GoDo ==
  ASSUME NEW s \in WorkerState, NEW p \in Points, NEW todo \in SUBSET Change
  PROVE  LET u == [s EXCEPT !.pc = p, !.todo = todo] IN
         u \in WorkerState /\ u.pc = p /\ Same(s, u) /\ u.seen = s.seen /\ u.todo = todo
BY DEF WorkerState, Same

LEMMA GoWrong ==
  ASSUME NEW s \in WorkerState, NEW e \in Ends, NEW p \in Points
  PROVE  LET u == [s EXCEPT !.pc = p, !.error = e] IN
         /\ u \in WorkerState /\ u.pc = p /\ Same(s, u) /\ u.error = e
         /\ LET v == [s EXCEPT !.pc = p, !.error = e, !.todo = {}] IN
            v \in WorkerState /\ v.pc = p /\ Same(s, v) /\ v.error = e
BY DEF WorkerState, Same

LEMMA IdleType ==
  ASSUME StoreInv
  PROVE  /\ Idle \in WorkerState /\ Idle.pc = "idle"
         /\ \A l \in Lease : LET u == [Idle EXCEPT !.pc = "syncing", !.lease = l] IN
              u \in WorkerState /\ u.pc = "syncing" /\ u.lease = l
         /\ \A id \in JobIds, p \in {"replying", "looking"} :
              LET u == Working(id, p) IN
              /\ u \in WorkerState /\ u.pc = p /\ u.id = id
              /\ u.key = outbox[id].key /\ u.token = outbox[id].attempts + 1
<1>1. SomeKey \in Keys
  BY OutboxAssumption DEF SomeKey
<1>2. Idle \in WorkerState /\ Idle.pc = "idle"
  BY <1>1 DEF Idle, WorkerState, Points, Ends
<1>3. ASSUME NEW l \in Lease
      PROVE  LET u == [Idle EXCEPT !.pc = "syncing", !.lease = l] IN
             u \in WorkerState /\ u.pc = "syncing" /\ u.lease = l
  BY <1>2 DEF WorkerState, Points
<1>4. ASSUME NEW id \in JobIds, NEW p \in {"replying", "looking"}
      PROVE  LET u == Working(id, p) IN
             /\ u \in WorkerState /\ u.pc = p /\ u.id = id
             /\ u.key = outbox[id].key /\ u.token = outbox[id].attempts + 1
  <2> DEFINE n == outbox[id].attempts + 1
  <2>1. outbox[id].key \in Keys /\ n \in Nat /\ p \in Points
    BY DEF StoreInv, TypeOK, Job, Points, Reacting
  <2>2. Working(id, p) = [Idle EXCEPT !.pc = p, !.id = id, !.key = outbox[id].key, !.token = n]
    BY DEF Working
  <2> HIDE DEF n
  <2>3. /\ Working(id, p) \in WorkerState /\ Working(id, p).pc = p /\ Working(id, p).id = id
        /\ Working(id, p).key = outbox[id].key /\ Working(id, p).token = n
    BY <1>2, <2>1, <2>2 DEF WorkerState
  <2>4. QED
    BY <2>3 DEF n
<1>5. QED
  BY <1>2, <1>3, <1>4

LEMMA TodoType ==
  ASSUME ReactionsTypeOK, NEW k \in Keys, NEW seen \in Seen
  PROVE  Todo(marks[k], Desired(k, seen)) \subseteq Change
<1>1. marks[k] \subseteq Target
  BY DEF ReactionsTypeOK
<1>2. k.threadTS \in Nat /\ seen[2] \in Nat /\ seen[3] \in Nat
  BY ReactionsAssumption DEF Seen
<1>3. ASSUME NEW t \in Desired(k, seen) PROVE t \in Target
  <2>1. \/ t = [ts |-> seen[2], name |-> "success"]
        \/ t = [ts |-> k.threadTS, name |-> "tracking"]
        \/ t = [ts |-> seen[3], name |-> "failure"]
    BY Zenon DEF Desired
  <2>2. QED
    BY <1>2, <2>1 DEF Target
<1>4. ASSUME NEW c \in Todo(marks[k], Desired(k, seen)) PROVE c \in Change
  <2>1. PICK a \in BOOLEAN, t \in Target : c = [add |-> a, target |-> t]
    BY <1>1, <1>3 DEF Todo
  <2>2. QED
    BY <2>1 DEF Change
<1>5. QED
  BY <1>4

LEMMA MarksType ==
  ASSUME StoreInv, NEW k \in Keys
  PROVE  Marks(threads[k]) \in Seen
BY DEF StoreInv, TypeOK, Thread, Marks, Seen

LEMMA AwaitedGoes ==
  ASSUME ReactionsTypeOK, NEW r \in wire, Apply(r)
  PROVE  /\ r.worker \in Workers /\ r.key \in Keys /\ r.change \in Change
         /\ worker' \in [Workers -> WorkerState]
         /\ \A v \in Workers : ~(Awaited(r) /\ v = r.worker) => worker'[v] = worker[v]
         /\ Awaited(r) => worker'[r.worker] = [worker[r.worker] EXCEPT !.pc = "changing"]
<1>1. r.worker \in Workers /\ r.key \in Keys /\ r.change \in Change
  BY DEF ReactionsTypeOK, RequestState
<1>2. CASE Awaited(r)
  <2> DEFINE s == [worker[r.worker] EXCEPT !.pc = "changing"]
  <2>1. Moves(r.worker, s)
    BY <1>2 DEF Apply, Moves
  <2>2. s \in WorkerState
    BY <1>1, GoOn DEF ReactionsTypeOK, Points, Reacting
  <2> HIDE DEF s
  <2>3. /\ worker' \in [Workers -> WorkerState] /\ worker'[r.worker] = s
        /\ \A v \in Workers : v # r.worker => worker'[v] = worker[v]
    BY <1>1, <2>1, <2>2, MovesOn
  <2>4. QED
    BY <1>1, <1>2, <2>3 DEF s
<1>3. CASE ~Awaited(r)
  BY <1>1, <1>3 DEF Apply, ReactionsTypeOK
<1>4. QED
  BY <1>2, <1>3

LEMMA CallType ==
  ASSUME ReactionsTypeOK, HoldersInv, NEW w \in Workers, Call(w)
  PROVE  \E c \in worker[w].todo :
           /\ c \in Change
           /\ Moves(w, [worker[w] EXCEPT !.pc = "awaiting", !.todo = worker[w].todo \ {c}])
           /\ LET r == [worker |-> w, id |-> worker[w].id, token |-> worker[w].token,
                        key |-> worker[w].key, change |-> c]
              IN  r \in RequestState /\ wire' = wire \cup {r}
<1>1. worker[w] \in WorkerState /\ HasJob(w)
  BY DEF ReactionsTypeOK, Call, HasJob
<1>2. PICK c \in worker[w].todo :
        /\ Moves(w, [worker[w] EXCEPT !.pc = "awaiting", !.todo = worker[w].todo \ {c}])
        /\ wire' = wire \cup {[worker |-> w, id |-> worker[w].id, token |-> worker[w].token,
                               key |-> worker[w].key, change |-> c]}
  BY <1>1 DEF Call, WorkerState
<1>3. c \in Change /\ worker[w].token \in Nat /\ worker[w].key \in Keys
  BY <1>1 DEF WorkerState
<1>4. worker[w].id \in JobIds
  BY <1>1 DEF HoldersInv, JobInv
<1>5. QED
  BY <1>2, <1>3, <1>4 DEF RequestState

LEMMA NextTypes ==
  ASSUME StoreInv, ReactionsTypeOK, HoldersInv, [ReactionsNext]_reactionVars
  PROVE  ReactionsTypeOK'
<1> USE DEF ReactionsTypeOK
<1>s. ASSUME NEW w \in Workers PROVE worker[w] \in WorkerState
  OBVIOUS
<1>p. {"idle", "syncing", "replying", "ended", "lost", "looking", "listing", "changing", "awaiting"}
        \subseteq Points
  BY DEF Points, Reacting
<1>1. ASSUME UNCHANGED <<worker, wire, marks, late>> PROVE ReactionsTypeOK'
  BY <1>1
<1>2. ASSUME NEW w \in Workers, NEW s \in WorkerState, Moves(w, s), wire' \subseteq RequestState,
             marks' = marks, late' \subseteq Keys
      PROVE  ReactionsTypeOK'
  BY <1>2, MovesOn
<1> HIDE DEF ReactionsTypeOK
<1>3. ASSUME NEW w \in Workers, NEW s \in WorkerState, Moves(w, s), UNCHANGED <<wire, marks, late>>
      PROVE  ReactionsTypeOK'
  BY <1>2, <1>3 DEF ReactionsTypeOK
<1>4. ASSUME NEW w \in Workers, NEW id \in JobIds, StartReply(w, id) \/ StartReactions(w, id)
      PROVE  ReactionsTypeOK'
  BY <1>3, <1>4, IdleType DEF StartReply, StartReactions, OnlyStore, slack
<1>5. ASSUME NEW w \in Workers, NEW k \in Keys, StartSync(w, k) PROVE ReactionsTypeOK'
  <2>1. NewLease(k) \in Lease
    BY DEF NewLease, Lease, StoreInv, TypeOK, Thread
  <2>2. QED
    BY <1>3, <1>5, <2>1, IdleType DEF StartSync, OnlyStore, slack
<1>6. ASSUME NEW w \in Workers, EndSync(w) \/ Finish(w) \/ Requeue(w) PROVE ReactionsTypeOK'
  BY <1>3, <1>6, IdleType DEF EndSync, Finish, Requeue, OnlyStore, slack
<1>7. ASSUME NEW w \in Workers, Post(w) PROVE ReactionsTypeOK'
  BY <1>3, <1>7, <1>p, <1>s, GoOn DEF Post, Only, slack
<1>8. ASSUME NEW w \in Workers, Look(w) PROVE ReactionsTypeOK'
  <2>1. HasJob(w) /\ worker[w].key \in Keys
    BY <1>8, <1>s DEF Look, HasJob, WorkerState
  <2>2. Marks(threads[worker[w].key]) \in Seen
    BY <2>1, MarksType
  <2>3. QED
    BY <1>3, <1>8, <1>p, <1>s, <2>2, GoOn, GoSee DEF Look, Only, slack
<1>9. ASSUME NEW w \in Workers, List(w) PROVE ReactionsTypeOK'
  <2> DEFINE k == worker[w].key
             todo == Todo(marks[k], Desired(k, worker[w].seen))
  <2>1. k \in Keys /\ worker[w].seen \in Seen
    BY <1>9, <1>s DEF List, HasJob, WorkerState, HoldersInv, JobInv, Marking
  <2>2. todo \in SUBSET Change
    BY <2>1, TodoType
  <2> HIDE DEF todo
  <2>3. /\ Moves(w, [worker[w] EXCEPT !.pc = "changing", !.todo = todo])
        /\ UNCHANGED <<wire, marks>> /\ late' \subseteq late
    BY <1>9 DEF List, slack, todo
  <2>4. QED
    BY <1>2, <1>p, <1>s, <2>2, <2>3, GoDo DEF ReactionsTypeOK
<1>10. ASSUME NEW w \in Workers, Call(w) PROVE ReactionsTypeOK'
  <2>1. PICK c \in worker[w].todo :
          /\ Moves(w, [worker[w] EXCEPT !.pc = "awaiting", !.todo = worker[w].todo \ {c}])
          /\ wire' \subseteq RequestState
    BY <1>10, CallType DEF ReactionsTypeOK
  <2>2. worker[w].todo \ {c} \in SUBSET Change
    BY <1>s DEF WorkerState
  <2>3. marks' = marks /\ late' \subseteq Keys
    BY <1>10 DEF Call, ReactionsTypeOK
  <2>4. QED
    BY <1>2, <1>p, <1>s, <2>1, <2>2, <2>3, GoDo
<1>11. ASSUME NEW w \in Workers, Recheck(w) PROVE ReactionsTypeOK'
  BY <1>3, <1>11, <1>p, <1>s, GoOn DEF Recheck, Only, slack
<1>12. ASSUME NEW w \in Workers, Abandon(w) PROVE ReactionsTypeOK'
  <2>1. "cancelled" \in Ends
    BY DEF Ends
  <2>2. QED
    BY <1>3, <1>12, <1>p, <1>s, <2>1, GoWrong DEF Abandon, Only, slack
<1>13. ASSUME NEW w \in Workers, FinishLost(w) PROVE ReactionsTypeOK'
  BY <1>3, <1>13, <1>p, <1>s, GoOn, IdleType DEF FinishLost, Only, slack
<1>14. ASSUME NEW w \in Workers, Error(w) PROVE ReactionsTypeOK'
  <2>1. PICK e \in {"temporary", "cancelled", "permanent"} :
          Moves(w, [worker[w] EXCEPT !.pc = "ended", !.error = e, !.todo = {}])
    BY <1>14, Zenon DEF Error
  <2>2. e \in Ends
    BY DEF Ends
  <2>3. UNCHANGED <<wire, marks, late>>
    BY <1>14 DEF Error, slack
  <2>4. QED
    BY <1>3, <1>p, <1>s, <2>1, <2>2, <2>3, GoWrong
<1>15. ASSUME NEW w \in Workers, Crash(w) PROVE ReactionsTypeOK'
  <2>1. worker[w].key \in Keys
    BY <1>s DEF WorkerState
  <2>2. late' \subseteq Keys
    BY <1>15, <2>1 DEF Crash, ReactionsTypeOK
  <2>3. QED
    BY <1>2, <1>15, <2>2, IdleType DEF Crash, slack, ReactionsTypeOK
<1>16. ASSUME NEW r \in wire, Apply(r) PROVE ReactionsTypeOK'
  <2>1. /\ r.key \in Keys /\ r.change.target \in Target
        /\ worker' \in [Workers -> WorkerState]
    BY <1>16, AwaitedGoes DEF Change
  <2>2. marks' \in [Keys -> SUBSET Target]
    BY <1>16, <2>1 DEF Apply, ReactionsTypeOK
  <2>3. wire' \subseteq RequestState /\ late' \subseteq Keys
    BY <1>16, <2>1 DEF Apply, ReactionsTypeOK
  <2>4. QED
    BY <2>1, <2>2, <2>3 DEF ReactionsTypeOK
<1>17. ASSUME NEW r \in wire, Lose(r) PROVE ReactionsTypeOK'
  BY <1>17 DEF Lose, ReactionsTypeOK
<1>18. ASSUME \/ \E e \in Events : Receive(e)
              \/ \E w \in Workers : Heartbeat(w)
              \/ Wait \/ UNCHANGED reactionVars
       PROVE  ReactionsTypeOK'
  BY <1>1, <1>18 DEF Receive, Heartbeat, Wait, OnlyStore, slack, reactionVars
<1>19. QED
  BY <1>4, <1>5, <1>6, <1>7, <1>8, <1>9, <1>10, <1>11, <1>12, <1>13, <1>14, <1>15, <1>16, <1>17, <1>18
     DEF ReactionsNext, Reply, Sync, React, ReactionStep

-----------------------------------------------------------------------------
(* The store's own invariants, and the timestamps of a thread.               *)

LEMMA StoreKept ==
  ASSUME StoreInv, [Next]_vars
  PROVE  /\ StoreInv' /\ FollowsOn
         /\ \A k \in Keys : Messages(k) \subseteq Messages(k)'
<1> USE DEF StoreInv
<1>1. TypeOK' /\ WorkInv' /\ EventInv' /\ Commands' /\ OutboxInv' /\ FollowsOn
  BY NextType, NextWork, NextEvents, NextOutbox
<1>2. NewestInv'
  <2>1. events' = events => NewestInv'
    BY DEF NewestInv, HasNewest, Recorded
  <2>2. QED
    BY <2>1, EventsStep, NewestStep
<1>3. clock' # 0
  BY ClockStep
<1>4. events \subseteq events'
  BY EventsStep
<1>5. \A k \in Keys : Messages(k) \subseteq Messages(k)'
  BY <1>4 DEF Messages
<1>6. QED
  BY <1>1, <1>2, <1>3, <1>5

SameDates(t, r) ==
  /\ r.lastMessageTS = t.lastMessageTS /\ r.lastSyncedTS = t.lastSyncedTS
  /\ Exists(r) => Exists(t)

LEMMA QueuedDates ==
  ASSUME NEW t \in Thread, NEW now \in Nat
  PROVE  SameDates(t, Queued(t, now))
BY DEF SameDates, Exists, Queued, ClearLease, Thread

LEMMA WorkDates ==
  ASSUME NEW t \in Thread, NEW now \in Nat, NEW token \in Nat, NEW l \in Lease,
         NEW error \in Errors, NEW at \in Nat, NEW permanent \in BOOLEAN
  PROVE  /\ SameDates(t, Claimed(t, token, now))
         /\ SameDates(t, Failed(t, l, error, at, permanent))
<1>1. SameDates(t, Claimed(t, token, now))
  BY DEF SameDates, Exists, Claimed, Thread
<1>2. SameDates(t, Failed(t, l, error, at, permanent))
  BY DEF SameDates, Exists, Failed, ClearLease, Thread
<1>3. QED
  BY <1>1, <1>2

LEMMA CompletedDates ==
  ASSUME NEW t \in Thread, NEW l \in Lease, NEW ts \in Nat, Exists(t)
  PROVE  LET r == Completed(t, l, ts, 0) IN
         r.lastMessageTS = t.lastMessageTS /\ r.lastSyncedTS = ts
BY DEF Completed, ClearLease, Thread

LEMMA CommandedDates ==
  ASSUME NEW t \in Thread, NEW e \in Events, NEW now \in Nat, Exists(t),
         e.command \in TrackingCommands
  PROVE  SameDates(t, Commanded(t, e, now))
<1> DEFINE s == [t EXCEPT !.lastCommandTS = e.messageTS]
<1>1. s \in Thread
  BY StoreAssumption DEF Thread, Event
<1>2. SameDates(t, s)
  BY DEF SameDates, Exists, Thread
<1> HIDE DEF s
<1>3. SameDates(s, Synced(s, e, now))
  <2>1. Queued(s, now) \in Thread /\ SameDates(s, Queued(s, now))
    BY <1>1, QueuedType, QueuedDates
  <2>2. CASE s.active
    <3> DEFINE q == Queued(s, now)
    <3>1. Synced(s, e, now) = [q EXCEPT !.attachmentRetryTS = e.messageTS]
      BY <2>2 DEF Synced
    <3> HIDE DEF q
    <3>2. q \in Thread /\ SameDates(s, q)
      BY <2>1 DEF q
    <3>3. QED
      BY <3>1, <3>2 DEF SameDates, Exists, Thread
  <2>3. CASE ~s.active
    BY <2>3 DEF Synced, SameDates
  <2>4. QED
    BY <2>2, <2>3
<1>4. SameDates(s, Untracked(s))
  BY <1>1 DEF SameDates, Exists, Untracked, ClearLease, Thread
<1>5. SameDates(s, Resumed(s))
  BY <1>1 DEF SameDates, Exists, Resumed, ClearLease, Thread
<1>6. \/ Commanded(t, e, now) = Synced(s, e, now)
      \/ Commanded(t, e, now) = Untracked(s)
      \/ Commanded(t, e, now) = Resumed(s)
  BY DEF Commanded, TrackingCommands, s
<1>7. QED
  BY <1>2, <1>3, <1>4, <1>5, <1>6 DEF SameDates

LEMMA EffectDates ==
  ASSUME TypeOK, NEW e \in Events, NEW now \in Nat
  PROVE  LET t == threads[e.key]
             r == Effect(e, now) IN
         \/ SameDates(t, r)
         \/ e.kind = "link" /\ r.lastMessageTS = e.messageTS /\ r.lastSyncedTS = 0
         \/ /\ e.kind = "message" /\ Exists(t)
            /\ r.lastMessageTS \in {t.lastMessageTS, e.messageTS} /\ r.lastSyncedTS = t.lastSyncedTS
<1> DEFINE t == threads[e.key]
           r == Effect(e, now)
<1>1. t \in Thread /\ e.messageTS \in Nat
  BY StoreAssumption DEF TypeOK, Event
<1>2. CASE NewThread(e)
  <2>1. r = Linked(e)
    BY <1>2 DEF Effect, NewThread, NewMessage, Applies
  <2>2. QED
    BY <1>2, <2>1 DEF Linked, NoThread, NewThread
<1>3. CASE NewMessage(e)
  <2> DEFINE q == Queued(t, now)
  <2>1. r = Messaged(t, e, now)
    BY <1>3 DEF Effect, NewThread, NewMessage, Applies
  <2>2. q \in Thread /\ SameDates(t, q)
    BY <1>1, QueuedType, QueuedDates
  <2> HIDE DEF q
  <2>3. r = [q EXCEPT !.lastMessageTS = IF Newer(e.messageTS, @) THEN e.messageTS ELSE @]
    BY <2>1 DEF Messaged, q
  <2>4. QED
    BY <1>3, <2>2, <2>3 DEF NewMessage, SameDates, Thread
<1>4. CASE Applies(e)
  <2>1. r = Commanded(t, e, now)
    BY <1>4 DEF Effect, NewThread, NewMessage, Applies
  <2>2. QED
    BY <1>1, <1>4, <2>1, CommandedDates DEF Applies
<1>5. CASE ~NewThread(e) /\ ~NewMessage(e) /\ ~Applies(e)
  BY <1>5 DEF Effect, SameDates
<1>6. QED
  BY <1>2, <1>3, <1>4, <1>5

(* A thread whose dates stay stays dated, as messages only come. *)
LEMMA DatesStay ==
  ASSUME NEW k \in Keys, ThreadDated(k), SameDates(threads[k], threads'[k]),
         Messages(k) \subseteq Messages(k)'
  PROVE  ThreadDated(k)'
BY DEF ThreadDated, Dated, SameDates, SyncableTS

LEMMA PutDates ==
  ASSUME StoreInv, DatedInv, NEW k \in Keys, NEW r, Put(k, r),
         \A j \in Keys : Messages(j) \subseteq Messages(j)',
         SameDates(threads[k], r) \/ ThreadDated(k)'
  PROVE  DatedInv'
<1>1. threads'[k] = r /\ \A j \in Keys \ {k} : threads'[j] = threads[j]
  BY PutThread DEF StoreInv
<1>2. ASSUME NEW j \in Keys PROVE ThreadDated(j)'
  <2>1. CASE j = k
    BY <1>1, <2>1, DatesStay DEF DatedInv
  <2>2. CASE j # k
    <3>1. SameDates(threads[j], threads'[j])
      BY <1>1, <2>2 DEF SameDates
    <3>2. QED
      BY <3>1, DatesStay DEF DatedInv
  <2>3. QED
    BY <2>1, <2>2
<1>3. QED
  BY <1>2 DEF DatedInv

LEMMA RecordDates ==
  ASSUME StoreInv, DatedInv, NEW e \in Events, NEW now \in Nat, Record(e, now),
         \A j \in Keys : Messages(j) \subseteq Messages(j)'
  PROVE  DatedInv'
<1> DEFINE k == e.key
           r == Effect(e, now)
<1>1. k \in Keys /\ Put(k, r) /\ TypeOK
  BY StoreAssumption DEF Record, Event, StoreInv
<1>2. threads'[k] = r
  BY <1>1, PutThread
<1>3. e.messageTS \in Messages(k)'
  BY DEF Record, Messages
<1>4. e.kind \in {"link", "message"} => e.messageTS \in SyncableTS(k)
  BY DEF SyncableTS
<1>5. ThreadDated(k) /\ Messages(k) \subseteq Messages(k)' /\ SyncableTS(k)' = SyncableTS(k)
  BY <1>1 DEF DatedInv, SyncableTS
<1>6. CASE SameDates(threads[k], r)
  BY <1>1, <1>6, PutDates
<1>7. CASE e.kind = "link" /\ r.lastMessageTS = e.messageTS /\ r.lastSyncedTS = 0
  <2>1. ThreadDated(k)'
    BY <1>2, <1>3, <1>4, <1>5, <1>7 DEF ThreadDated, Dated
  <2>2. QED
    BY <1>1, <2>1, PutDates
<1>8. CASE /\ e.kind = "message" /\ Exists(threads[k])
           /\ r.lastMessageTS \in {threads[k].lastMessageTS, e.messageTS}
           /\ r.lastSyncedTS = threads[k].lastSyncedTS
  <2>1. ThreadDated(k)'
    BY <1>2, <1>3, <1>4, <1>5, <1>8 DEF ThreadDated, Dated
  <2>2. QED
    BY <1>1, <2>1, PutDates
<1>9. QED
  BY <1>1, <1>6, <1>7, <1>8, EffectDates

LEMMA CompleteDates ==
  ASSUME StoreInv, DatedInv, NEW l \in leases, NEW now \in Nat, Complete(l, Latest(l.key), 0, now),
         \A j \in Keys : Messages(j) \subseteq Messages(j)'
  PROVE  DatedInv'
<1>1. PICK k \in Keys : k = l.key
  BY DEF StoreInv, TypeOK, Lease
<1>2. l \in Lease
  BY DEF StoreInv, TypeOK
<1>3. PICK ts : ts = Latest(k)
  OBVIOUS
<1> DEFINE t == threads[k]
           r == Completed(t, l, ts, 0)
<1>4. t \in Thread /\ Exists(t) /\ Put(k, r)
  BY <1>1, <1>3, HeldSound DEF Complete, StoreInv, TypeOK, WorkInv, KeyInv
<1>5. ts \in SyncableTS(k) /\ ts \in Messages(k)
  BY <1>3, <1>4, LatestIsMessage
<1>6. ts \in Nat
  <2>1. \A e \in Events : e.messageTS \in Nat
    BY StoreAssumption DEF Event
  <2>2. QED
    BY <1>5, <2>1 DEF SyncableTS
<1>7. r.lastMessageTS = t.lastMessageTS /\ r.lastSyncedTS = ts
  BY <1>2, <1>4, <1>6, CompletedDates
<1>8. threads'[k] = r
  BY <1>4, PutThread DEF StoreInv
<1> HIDE DEF r
<1>9. ThreadDated(k)'
  BY <1>4, <1>5, <1>7, <1>8 DEF ThreadDated, Dated, SyncableTS, DatedInv
<1>10. QED
  BY <1>4, <1>9, PutDates

LEMMA NextDates ==
  ASSUME StoreInv, DatedInv, HoldersInv, [ReactionsNext]_reactionVars
  PROVE  DatedInv'
<1>m. \A j \in Keys : Messages(j) \subseteq Messages(j)'
  BY StepStores, StoreKept
<1>t. clock \in Nat /\ Backoff \in Nat /\ \A k \in Keys : threads[k] \in Thread /\ issued[k] \in Nat
  BY ClockIsNow, StoreAssumption DEF StoreInv, TypeOK
<1>1. ASSUME threads' = threads PROVE DatedInv'
  <2>1. \A k \in Keys : SameDates(threads[k], threads'[k])
    BY <1>1 DEF SameDates
  <2>2. QED
    BY <1>m, <2>1, DatesStay DEF DatedInv
<1>2. ASSUME NEW e \in Events, Receive(e) PROVE DatedInv'
  BY <1>2, <1>m, <1>t, RecordDates DEF Receive
<1>3. ASSUME NEW w \in Workers, NEW k \in Keys, StartSync(w, k) PROVE DatedInv'
  <2> DEFINE r == Claimed(threads[k], issued[k] + 1, clock)
  <2>1. Put(k, r)
    BY <1>3 DEF StartSync, Claim
  <2>2. SameDates(threads[k], r)
    BY <1>t DEF SameDates, Exists, Claimed, Thread
  <2> HIDE DEF r
  <2>3. QED
    BY <1>m, <2>1, <2>2, PutDates
<1>4. ASSUME NEW w \in Workers, EndSync(w) PROVE DatedInv'
  <2> DEFINE l == worker[w].lease
  <2>1. l \in Lease /\ l.key \in Keys /\ l \in leases
    BY <1>4 DEF EndSync, HoldersInv, SyncInv, StoreInv, TypeOK, Lease
  <2>2. ASSUME Complete(l, Latest(l.key), 0, clock) PROVE DatedInv'
    <3>1. PICK m \in leases : m = l
      BY <2>1
    <3>2. Complete(m, Latest(m.key), 0, clock)
      BY <2>2, <3>1
    <3>3. QED
      BY <1>m, <1>t, <3>2, CompleteDates
  <2>3. ASSUME NEW error \in Errors, NEW at \in Nat, NEW permanent \in BOOLEAN,
               Fail(l, error, at, permanent, clock)
        PROVE  DatedInv'
    <3> DEFINE r == Failed(threads[l.key], l, error, at, permanent)
    <3>1. Put(l.key, r)
      BY <2>3 DEF Fail
    <3>2. SameDates(threads[l.key], r)
      BY <1>t, <2>1, WorkDates
    <3> HIDE DEF r
    <3>3. QED
      BY <1>m, <2>1, <3>1, <3>2, PutDates
  <2>4. /\ {"operation cancelled", "error"} \subseteq Errors
        /\ clock + Backoff \in Nat
    BY <1>t DEF Errors
  <2>5. \/ UNCHANGED vars
        \/ Complete(l, Latest(l.key), 0, clock)
        \/ Fail(l, "operation cancelled", clock, FALSE, clock)
        \/ \E permanent \in BOOLEAN : Fail(l, "error", clock + Backoff, permanent, clock)
    BY <1>4 DEF EndSync
  <2>6. CASE UNCHANGED vars
    BY <1>1, <2>6 DEF vars, durable
  <2> HIDE DEF l
  <2>7. QED
    BY <1>t, <2>2, <2>3, <2>4, <2>5, <2>6
<1>5. ASSUME NEW w \in Workers, NEW id \in JobIds, StartReply(w, id) \/ StartReactions(w, id)
      PROVE  threads' = threads
  BY <1>5 DEF StartReply, StartReactions, ClaimNotification, ClaimReactionNotification
<1>6. ASSUME NEW w \in Workers, Finish(w) PROVE threads' = threads
  BY <1>6, OutcomeStores DEF HoldersInv, CompleteNotification, FailNotification
<1>7. ASSUME NEW w \in Workers,
             \/ Post(w) \/ Look(w) \/ List(w) \/ Call(w) \/ Recheck(w) \/ Abandon(w)
             \/ FinishLost(w) \/ Error(w) \/ Crash(w) \/ Requeue(w) \/ Heartbeat(w)
      PROVE  threads' = threads
  BY <1>7, Zenon DEF Post, Look, List, Call, Recheck, Abandon, FinishLost, Error, Crash, Only,
                     Requeue, QueueReactions, Heartbeat, RenewNotification, vars, durable
<1>8. ASSUME NEW r \in wire, Apply(r) \/ Lose(r) PROVE threads' = threads
  BY <1>8 DEF Apply, Lose, vars, durable
<1>9. Wait => threads' = threads
  BY DEF Wait, Tick, durable
<1>10. UNCHANGED reactionVars => threads' = threads
  BY DEF reactionVars, vars, durable
<1>11. QED
  BY <1>1, <1>2, <1>3, <1>4, <1>5, <1>6, <1>7, <1>8, <1>9, <1>10
     DEF ReactionsNext, Reply, Sync, React, ReactionStep

-----------------------------------------------------------------------------
(* What every step keeps.                                                    *)

JobsKept ==
  \A id \in JobIds :
    /\ outbox[id].present =>
         SameJob(outbox[id], outbox'[id]) /\ outbox[id].attempts <= outbox'[id].attempts
    /\ outbox[id].permanent => outbox'[id] = outbox[id]
    /\ \A token \in 1..outbox[id].attempts :
         ValidateNotification(outbox'[id], token, clock') => ValidateNotification(outbox[id], token, clock)

Base ==
  /\ StoreInv' /\ ReactionsTypeOK' /\ DatedInv' /\ SpentInv' /\ JobsKept /\ FollowsOn
  /\ leases \subseteq leases'
  /\ \A k \in Keys : Messages(k) \subseteq Messages(k)'

LEMMA StepBase ==
  ASSUME Lag = 0, ReactionsInv, [ReactionsNext]_reactionVars
  PROVE  Base
<1> USE DEF ReactionsInv
<1>1. [Next]_vars
  BY StepStores
<1>2. /\ StoreInv' /\ FollowsOn
      /\ \A k \in Keys : Messages(k) \subseteq Messages(k)'
  BY <1>1, StoreKept
<1>3. ReactionsTypeOK' /\ DatedInv'
  BY NextTypes, NextDates
<1>4. TypeOK /\ EventInv /\ JobsSound(outbox, threads) /\ TypeOK'
  BY <1>2 DEF StoreInv, OutboxInv
<1>5. \A id \in JobIds : Moved(outbox[id], outbox'[id])
  BY <1>1, <1>4, JobsMove
<1>6. clock <= clock' /\ leases \subseteq leases' /\ clock \in Nat /\ clock' \in Nat
  BY <1>1, <1>4, ClockGrows DEF TypeOK
<1>7. ASSUME NEW id \in JobIds
      PROVE  /\ outbox[id] \in Job /\ outbox'[id] \in Job
             /\ Moved(outbox[id], outbox'[id]) /\ Spent(outbox[id])
  BY <1>4, <1>5 DEF TypeOK, SpentInv
<1>8. SpentInv'
  BY <1>7, MovedSpent DEF SpentInv
<1>9. ASSUME NEW id \in JobIds
      PROVE  /\ outbox[id].present =>
                  SameJob(outbox[id], outbox'[id]) /\ outbox[id].attempts <= outbox'[id].attempts
             /\ outbox[id].permanent => outbox'[id] = outbox[id]
             /\ \A token \in 1..outbox[id].attempts :
                  ValidateNotification(outbox'[id], token, clock')
                    => ValidateNotification(outbox[id], token, clock)
  <2>1. PICK i \in Job, j \in Job : i = outbox[id] /\ j = outbox'[id] /\ Moved(i, j) /\ Spent(i)
    BY <1>7
  <2>2. i.present => SameJob(i, j) /\ i.attempts <= j.attempts
    BY <1>6, <2>1, MovedKeeps
  <2>3. i.permanent => j = i
    BY <2>1, MovedSpent DEF Spent
  <2>4. ASSUME NEW token \in 1..i.attempts, ValidateNotification(j, token, clock')
        PROVE  ValidateNotification(i, token, clock)
    <3>1. token \in Nat /\ token # 0 /\ token <= i.attempts
      BY <2>1 DEF Job
    <3>2. QED
      BY <1>6, <2>1, <2>4, <3>1, MovedLost
  <2>5. QED
    BY <2>1, <2>2, <2>3, <2>4
<1>10. JobsKept
  BY <1>9 DEF JobsKept
<1>11. QED
  BY <1>2, <1>3, <1>6, <1>8, <1>10 DEF Base

(* A worker that goes on with its job, which it may have lost. *)
Onward(w) == HasJob(w) /\ HasJob(w)' /\ Same(worker[w], worker'[w])

LEMMA HeldStays ==
  ASSUME ReactionsInv, Base, NEW w \in Workers, Onward(w)
  PROVE  LET s == worker'[w]
             j == outbox'[s.id]
         IN  /\ s.id \in JobIds /\ s.key \in Keys /\ j.present /\ j.key = s.key
             /\ s.token \in 1..j.attempts
             /\ j.reactions = outbox[worker[w].id].reactions
             /\ HoldsJob(w)' => HoldsJob(w)
<1> DEFINE id == worker[w].id
           token == worker[w].token
<1>1. /\ worker'[w].id = id /\ worker'[w].key = worker[w].key /\ worker'[w].token = token
  BY DEF Onward, Same
<1>2. /\ id \in JobIds /\ outbox[id].present /\ outbox[id].key = worker[w].key
      /\ token \in 1..outbox[id].attempts
  BY DEF Onward, ReactionsInv, HoldersInv, JobInv
<1>3. /\ SameJob(outbox[id], outbox'[id]) /\ outbox[id].attempts <= outbox'[id].attempts
      /\ ValidateNotification(outbox'[id], token, clock') => ValidateNotification(outbox[id], token, clock)
  BY <1>2 DEF Base, JobsKept
<1>4. outbox[id].attempts \in Nat /\ outbox'[id].attempts \in Nat /\ outbox'[id].key \in Keys
  BY <1>2 DEF Base, ReactionsInv, StoreInv, TypeOK, Job
<1>5. token \in 1..outbox'[id].attempts
  BY <1>2, <1>3, <1>4
<1>6. outbox'[id].present /\ outbox'[id].key = worker[w].key
  BY <1>2, <1>3 DEF SameJob
<1>7. outbox'[id].reactions = outbox[id].reactions
  BY <1>3 DEF SameJob
<1>8. HoldsJob(w)' => HoldsJob(w)
  BY <1>1, <1>3 DEF HoldsJob
<1> HIDE DEF id, token
<1>9. QED
  BY <1>1, <1>2, <1>4, <1>5, <1>6, <1>7, <1>8 DEF id

(* JobInv of a worker that goes on, from what its next point asks for. *)
LEMMA OnwardJob ==
  ASSUME ReactionsInv, Base, NEW w \in Workers, Onward(w),
         LET s == worker'[w]
             reactions == outbox[worker[w].id].reactions
         IN  /\ s.pc \in Reacting \cup {"lost"} => reactions
             /\ s.pc = "replying" => ~reactions
             /\ s.pc = "lost" => ~HoldsJob(w)
             /\ s.pc \in Marking =>
                  s.seen \in Seen /\ Dated(s.key, s.seen[2]) /\ Dated(s.key, s.seen[3])
  PROVE  JobInv(w)'
<1> DEFINE s == worker'[w]
<1>1. /\ s.id \in JobIds /\ s.key \in Keys /\ outbox'[s.id].present /\ outbox'[s.id].key = s.key
      /\ s.token \in 1..outbox'[s.id].attempts
      /\ outbox'[s.id].reactions = outbox[worker[w].id].reactions
      /\ HoldsJob(w)' => HoldsJob(w)
  BY HeldStays
<1>2. (worker[w].pc \in Marking =>
         /\ worker[w].seen \in Seen
         /\ Dated(worker[w].key, worker[w].seen[2]) /\ Dated(worker[w].key, worker[w].seen[3]))'
  <2>1. ASSUME NEW k \in Keys, NEW ts, Dated(k, ts) PROVE ts = 0 \/ ts \in Messages(k)'
    <3>1. Messages(k) \subseteq Messages(k)'
      BY DEF Base
    <3>2. QED
      BY <2>1, <3>1 DEF Dated
  <2>2. s.pc \in Marking => s.seen \in Seen /\ Dated(s.key, s.seen[2]) /\ Dated(s.key, s.seen[3])
    OBVIOUS
  <2>3. PICK k \in Keys : k = s.key
    BY <1>1
  <2>4. PICK u : u = s.seen
    OBVIOUS
  <2>5. s.pc \in Marking =>
          /\ u \in Seen
          /\ u[2] = 0 \/ u[2] \in Messages(k)'
          /\ u[3] = 0 \/ u[3] \in Messages(k)'
    BY <2>1, <2>2, <2>3, <2>4
  <2>6. QED
    BY <2>3, <2>4, <2>5 DEF Dated, Messages
<1>3. QED
  BY <1>1, <1>2 DEF JobInv

LEMMA RestingJob ==
  ASSUME ReactionsInv, Base, NEW w \in Workers, worker'[w] = worker[w]
  PROVE  /\ SyncInv(w)' /\ JobInv(w)'
         /\ HasJob(w)' <=> HasJob(w)
<1>1. SyncInv(w)'
  BY DEF ReactionsInv, HoldersInv, SyncInv, Base
<1>2. HasJob(w)' <=> HasJob(w)
  BY DEF HasJob
<1>3. CASE HasJob(w)
  <2>1. Onward(w)
    BY <1>2, <1>3 DEF Onward, Same
  <2>2. JobInv(w)
    BY DEF ReactionsInv, HoldersInv
  <2>3. QED
    BY <1>1, <1>2, <1>3, <2>1, <2>2, OnwardJob DEF JobInv
<1>4. CASE ~HasJob(w)
  BY <1>1, <1>2, <1>4 DEF JobInv
<1>5. QED
  BY <1>3, <1>4

(* Workers that rest, go on or end keep what is known of leases and jobs. *)
GoesIdle(w) == ~HasJob(w)' /\ SyncInv(w)'
GoesOn(w) == Onward(w) /\ JobInv(w)'

LEMMA HoldersStay ==
  ASSUME ReactionsInv, Base,
         \A w \in Workers : worker'[w] = worker[w] \/ GoesIdle(w) \/ GoesOn(w)
  PROVE  HoldersInv'
<1>1. ASSUME NEW w \in Workers
      PROVE  SyncInv(w)' /\ JobInv(w)'
  <2>1. CASE worker'[w] = worker[w]
    BY <2>1, RestingJob
  <2>2. CASE GoesIdle(w)
    BY <2>2 DEF GoesIdle, JobInv
  <2>3. CASE GoesOn(w)
    BY <2>3 DEF GoesOn, Onward, HasJob, SyncInv
  <2>4. QED
    BY <2>1, <2>2, <2>3
<1>2. ASSUME NEW w \in Workers, HasJob(w)'
      PROVE  HasJob(w) /\ worker'[w].id = worker[w].id /\ worker'[w].token = worker[w].token
  BY <1>2 DEF GoesIdle, GoesOn, Onward, Same, HasJob
<1>3. OneHolder'
  <2>1. SUFFICES ASSUME NEW v \in Workers, NEW w \in Workers, HasJob(v)', HasJob(w)',
                        worker'[v].id = worker'[w].id, worker'[v].token = worker'[w].token
                 PROVE  v = w
    BY DEF OneHolder
  <2>2. QED
    BY <1>2, <2>1 DEF ReactionsInv, HoldersInv, OneHolder
<1>4. QED
  BY <1>1, <1>3 DEF HoldersInv

(* A worker at work on its job was so before, with the same claim of it. *)
AtWork == {"looking", "listing", "changing"}
Calm(w) ==
  HasJob(w)' /\ worker'[w].pc \in AtWork =>
    /\ HasJob(w) /\ worker[w].pc \in AtWork
    /\ worker'[w].id = worker[w].id /\ worker'[w].token = worker[w].token

LEMMA RequestStays ==
  ASSUME ReactionsInv, Base, NEW r \in wire
  PROVE  LET j == outbox'[r.id] IN j.present /\ j.key = r.key /\ r.token <= j.attempts
<1>1. /\ r.id \in JobIds /\ r.token \in Nat
      /\ outbox[r.id].present /\ outbox[r.id].key = r.key /\ r.token <= outbox[r.id].attempts
  BY DEF ReactionsInv, ReactionsTypeOK, RequestState, WireInv, RequestInv
<1>2. SameJob(outbox[r.id], outbox'[r.id]) /\ outbox[r.id].attempts <= outbox'[r.id].attempts
  BY <1>1 DEF Base, JobsKept
<1>3. outbox[r.id].attempts \in Nat /\ outbox'[r.id].attempts \in Nat
  BY <1>1 DEF Base, ReactionsInv, StoreInv, TypeOK, Job
<1>4. QED
  BY <1>1, <1>2, <1>3 DEF SameJob

LEMMA WireStays ==
  ASSUME ReactionsInv, Base, wire' \subseteq wire, \A w \in Workers : Calm(w)
  PROVE  WireInv'
<1>1. ASSUME NEW r \in wire'
      PROVE  RequestInv(r)'
  <2>1. r \in wire /\ RequestInv(r)
    BY DEF ReactionsInv, WireInv
  <2>2. /\ outbox'[r.id].present /\ outbox'[r.id].key = r.key /\ r.token <= outbox'[r.id].attempts
    BY <2>1, RequestStays
  <2>3. ASSUME NEW w \in Workers, HasJob(w)', From(r, w)'
        PROVE  worker'[w].pc \notin AtWork
    BY <2>1, <2>3 DEF Calm, RequestInv, From, AtWork
  <2>4. QED
    BY <2>1, <2>2, <2>3 DEF RequestInv, AtWork
<1>2. QED
  BY <1>1 DEF WireInv

-----------------------------------------------------------------------------
(* Leases, jobs and requests, action by action.                              *)

LEMMA Steady ==
  ASSUME ReactionsInv, Base, worker' = worker, wire' \subseteq wire
  PROVE  HoldersInv' /\ WireInv'
<1>1. \A w \in Workers : Calm(w)
  BY DEF Calm, HasJob
<1>2. QED
  BY <1>1, HoldersStay, WireStays

LEMMA OneMoves ==
  ASSUME ReactionsInv, Base, NEW w \in Workers, \A v \in Workers : v # w => worker'[v] = worker[v],
         GoesIdle(w) \/ (GoesOn(w) /\ Calm(w)), wire' \subseteq wire
  PROVE  HoldersInv' /\ WireInv'
<1>1. ASSUME NEW v \in Workers PROVE Calm(v)
  <2>1. CASE v = w
    BY <2>1 DEF GoesIdle, Calm
  <2>2. CASE v # w
    BY <2>2 DEF Calm, HasJob
  <2>3. QED
    BY <2>1, <2>2
<1>2. \A v \in Workers : worker'[v] = worker[v] \/ GoesIdle(v) \/ GoesOn(v)
  OBVIOUS
<1>3. QED
  BY <1>1, <1>2, HoldersStay, WireStays

LEMMA GoingIdle ==
  ASSUME ReactionsInv, Base, NEW w \in Workers, Moves(w, Idle), wire' = wire
  PROVE  HoldersInv' /\ WireInv' /\ GoesIdle(w)
<1>1. /\ worker'[w] = Idle /\ Idle.pc = "idle"
      /\ \A v \in Workers : v # w => worker'[v] = worker[v]
  <2>1. Idle \in WorkerState /\ Idle.pc = "idle"
    BY IdleType DEF ReactionsInv
  <2>2. QED
    BY <2>1, MovesOn DEF ReactionsInv
<1>2. GoesIdle(w)
  <2>1. worker'[w].pc = "idle"
    BY <1>1
  <2>2. QED
    BY <2>1 DEF GoesIdle, HasJob, SyncInv
<1>3. QED
  BY <1>1, <1>2, OneMoves

LEMMA GoingOn ==
  ASSUME ReactionsInv, Base, NEW w \in Workers, NEW s \in WorkerState, Moves(w, s), wire' = wire,
         HasJob(w), Same(worker[w], s), s.pc \notin {"idle", "syncing", "replying"},
         s.pc \in Reacting \cup {"lost"} => outbox[worker[w].id].reactions,
         s.pc = "lost" => ~HoldsJob(w),
         s.pc \in Marking => s.seen \in Seen /\ Dated(s.key, s.seen[2]) /\ Dated(s.key, s.seen[3]),
         s.pc \in AtWork => worker[w].pc \in AtWork
  PROVE  HoldersInv' /\ WireInv' /\ GoesOn(w)
<1>1. worker'[w] = s /\ \A v \in Workers : v # w => worker'[v] = worker[v]
  BY MovesOn DEF ReactionsInv
<1>2. HasJob(w)' /\ Onward(w)
  BY <1>1 DEF Onward, HasJob
<1>3. JobInv(w)'
  BY <1>1, <1>2, OnwardJob
<1>4. Calm(w)
  BY <1>1 DEF Calm, Same
<1>5. QED
  BY <1>1, <1>2, <1>3, <1>4, OneMoves DEF GoesOn

LEMMA Delivering ==
  ASSUME ReactionsInv, Base, NEW w \in Workers,
         Post(w) \/ Look(w) \/ List(w) \/ Recheck(w) \/ Abandon(w) \/ Error(w)
  PROVE  HoldersInv' /\ WireInv' /\ GoesOn(w)
<1> DEFINE s == worker[w]
           t == threads[s.key]
<1>1. s \in WorkerState /\ s.key \in Keys
  BY DEF ReactionsInv, ReactionsTypeOK, WorkerState
<1>2. /\ s.pc \in Reacting => HasJob(w) /\ outbox[s.id].reactions
      /\ s.pc \in Marking => s.seen \in Seen /\ Dated(s.key, s.seen[2]) /\ Dated(s.key, s.seen[3])
      /\ s.pc = "replying" => HasJob(w)
  BY DEF ReactionsInv, HoldersInv, JobInv, HasJob, Reacting, Marking
<1>3. Marks(t) \in Seen /\ Dated(s.key, Marks(t)[2]) /\ Dated(s.key, Marks(t)[3])
  BY <1>1, MarksType DEF ReactionsInv, DatedInv, ThreadDated, Marks
<1>e. /\ "listing" \in Points /\ "ended" \in Points /\ "looking" \in Points
      /\ "changing" \in Points /\ "awaiting" \in Points
  BY DEF Points, Reacting
<1>4. CASE Post(w)
  <2> DEFINE u == [s EXCEPT !.pc = "ended"]
  <2>1. Moves(w, u) /\ wire' = wire /\ s.pc = "replying"
    BY <1>4 DEF Post, Only, slack
  <2>2. u \in WorkerState /\ u.pc = "ended" /\ Same(s, u)
    BY <1>1, <1>e, GoOn
  <2> HIDE DEF u
  <2>3. QED
    BY <1>2, <2>1, <2>2, GoingOn DEF Reacting, Marking, AtWork
<1>5. CASE Look(w) /\ CoreWork(t)
  <2> DEFINE u == [s EXCEPT !.pc = "ended"]
  <2>1. Moves(w, u) /\ wire' = wire /\ s.pc = "looking"
    BY <1>5 DEF Look, Only, slack
  <2>2. u \in WorkerState /\ u.pc = "ended" /\ Same(s, u)
    BY <1>1, <1>e, GoOn
  <2> HIDE DEF u
  <2>3. QED
    BY <1>2, <2>1, <2>2, GoingOn DEF Reacting, Marking, AtWork
<1>6. CASE Look(w) /\ ~CoreWork(t)
  <2> DEFINE m == Marks(t)
             u == [s EXCEPT !.pc = "listing", !.seen = m]
  <2>1. Moves(w, u) /\ wire' = wire /\ s.pc = "looking"
    BY <1>6 DEF Look, Only, slack
  <2> HIDE DEF m, s
  <2>2. u \in WorkerState /\ u.pc = "listing" /\ Same(s, u) /\ u.seen = m
    <3>1. PICK x \in WorkerState, y \in Seen : x = s /\ y = m
      BY <1>1, <1>3 DEF m
    <3> DEFINE z == [x EXCEPT !.pc = "listing", !.seen = y]
    <3>2. z \in WorkerState /\ z.pc = "listing" /\ Same(x, z) /\ z.seen = y
      BY <1>e DEF WorkerState, Same
    <3>3. z = u
      BY <3>1
    <3> HIDE DEF z, u
    <3>4. QED
      BY <3>1, <3>2, <3>3
  <2> USE DEF m, s
  <2> HIDE DEF u
  <2>3. u.key = s.key
    BY <2>2 DEF Same
  <2>4. QED
    BY <1>2, <1>3, <2>1, <2>2, <2>3, GoingOn DEF Reacting, Marking, AtWork
<1>7. CASE List(w)
  <2> DEFINE todo == Todo(marks[s.key], Desired(s.key, s.seen))
             u == [s EXCEPT !.pc = "changing", !.todo = todo]
  <2>1. Moves(w, u) /\ wire' = wire /\ s.pc = "listing"
    BY <1>7 DEF List, slack
  <2>2. todo \in SUBSET Change
    BY <1>1, <1>2, <2>1, TodoType DEF Marking, ReactionsInv
  <2> HIDE DEF todo
  <2> HIDE DEF s
  <2>3. u \in WorkerState /\ u.pc = "changing" /\ Same(s, u) /\ u.seen = s.seen
    <3>1. PICK x \in WorkerState, y \in SUBSET Change : x = s /\ y = todo
      BY <1>1, <2>2
    <3> DEFINE z == [x EXCEPT !.pc = "changing", !.todo = y]
    <3>2. z \in WorkerState /\ z.pc = "changing" /\ Same(x, z) /\ z.seen = x.seen
      BY <1>e DEF WorkerState, Same
    <3>3. z = u
      BY <3>1
    <3> HIDE DEF z, u
    <3>4. QED
      BY <3>1, <3>2, <3>3
  <2> USE DEF s
  <2> HIDE DEF u
  <2>4. u.key = s.key
    BY <2>3 DEF Same
  <2>5. s.seen \in Seen /\ Dated(s.key, s.seen[2]) /\ Dated(s.key, s.seen[3]) /\ HasJob(w) /\ outbox[s.id].reactions
    BY <1>2, <2>1 DEF Marking, Reacting
  <2>6. Dated(u.key, u.seen[2]) /\ Dated(u.key, u.seen[3])
    BY <2>3, <2>4, <2>5
  <2>7. QED
    BY <2>1, <2>3, <2>5, <2>6, GoingOn DEF Reacting, Marking, AtWork
<1>8. CASE Recheck(w)
  <2> DEFINE p == IF Marks(t) = s.seen THEN "ended" ELSE "looking"
             u == [s EXCEPT !.pc = p]
  <2>1. Moves(w, u) /\ wire' = wire /\ s.pc = "changing"
    BY <1>8 DEF Recheck, Only, slack
  <2>2. p \in {"ended", "looking"}
    OBVIOUS
  <2> HIDE DEF p
  <2>3. u \in WorkerState /\ u.pc = p /\ Same(s, u)
    BY <1>1, <1>e, <2>2, GoOn
  <2> HIDE DEF u
  <2>4. QED
    BY <1>2, <2>1, <2>2, <2>3, GoingOn DEF Reacting, Marking, AtWork
<1>9. CASE Abandon(w) \/ Error(w)
  <2>1. PICK e \in Ends : \/ Moves(w, [s EXCEPT !.pc = "ended", !.error = e])
                          \/ Moves(w, [s EXCEPT !.pc = "ended", !.error = e, !.todo = {}])
    BY <1>9 DEF Abandon, Error, Only, Ends
  <2> HIDE DEF s
  <2>2. \E u : u \in WorkerState /\ u.pc = "ended" /\ Same(s, u) /\ Moves(w, u)
    <3> DEFINE a == [s EXCEPT !.pc = "ended", !.error = e]
               b == [s EXCEPT !.pc = "ended", !.error = e, !.todo = {}]
    <3>1. /\ a \in WorkerState /\ a.pc = "ended" /\ Same(s, a)
          /\ b \in WorkerState /\ b.pc = "ended" /\ Same(s, b)
      <4>1. PICK x \in WorkerState : x = s
        BY <1>1
      <4> DEFINE y == [x EXCEPT !.pc = "ended", !.error = e]
                 z == [x EXCEPT !.pc = "ended", !.error = e, !.todo = {}]
      <4>2. /\ y \in WorkerState /\ y.pc = "ended" /\ Same(x, y)
            /\ z \in WorkerState /\ z.pc = "ended" /\ Same(x, z)
        BY <1>e DEF WorkerState, Same
      <4>3. y = a /\ z = b
        BY <4>1
      <4> HIDE DEF y, z, a, b
      <4>4. QED
        BY <4>1, <4>2, <4>3
    <3>2. Moves(w, a) \/ Moves(w, b)
      BY <2>1
    <3> HIDE DEF a, b
    <3>3. QED
      BY <3>1, <3>2
  <2> USE DEF s
  <2>a. PICK u : u \in WorkerState /\ u.pc = "ended" /\ Same(s, u) /\ Moves(w, u)
    BY <2>2
  <2>3. wire' = wire /\ s.pc \in Reacting \cup {"replying"}
    BY <1>9 DEF Abandon, Error, Only, slack
  <2>4. QED
    BY <1>2, <2>a, <2>3, GoingOn DEF Reacting, Marking, AtWork
<1>10. QED
  BY <1>4, <1>5, <1>6, <1>7, <1>8, <1>9

LEMMA Starting ==
  ASSUME ReactionsInv, Base, NEW w \in Workers, NEW id \in JobIds,
         StartReply(w, id) \/ StartReactions(w, id)
  PROVE  /\ HoldersInv' /\ WireInv'
         /\ worker'[w].pc \in {"replying", "looking"}
         /\ worker'[w].id = id /\ worker'[w].key = outbox[id].key
         /\ worker'[w].token = outbox[id].attempts + 1
<1> DEFINE p == IF outbox[id].reactions THEN "looking" ELSE "replying"
           s == Working(id, p)
<1>1. outbox[id] \in Job /\ outbox \in [JobIds -> Job]
  BY DEF ReactionsInv, StoreInv, TypeOK
<1>2. /\ Moves(w, s) /\ wire' = wire /\ ~Busy(w) /\ Deliverable(outbox[id], clock)
      /\ outbox' = [outbox EXCEPT ![id] = JobClaimed(outbox[id], clock)]
  BY DEF StartReply, StartReactions, Free, OnlyStore, slack, ClaimNotification, ClaimReactionNotification
<1>3. s \in WorkerState /\ s.pc = p /\ s.id = id /\ s.key = outbox[id].key /\ s.token = outbox[id].attempts + 1
  BY IdleType DEF ReactionsInv
<1> HIDE DEF s
<1>4. worker'[w] = s /\ \A v \in Workers : v # w => worker'[v] = worker[v]
  BY <1>2, <1>3, MovesOn DEF ReactionsInv
<1>5. /\ outbox'[id].present /\ outbox'[id].key = outbox[id].key
      /\ outbox'[id].reactions = outbox[id].reactions /\ outbox'[id].attempts = outbox[id].attempts + 1
  BY <1>1, <1>2 DEF Deliverable, Open, JobClaimed, Job
<1>6. p \in {"replying", "looking"} /\ outbox[id].attempts \in Nat
  BY <1>1 DEF Job
<1>7. JobInv(w)' /\ SyncInv(w)'
  BY <1>3, <1>4, <1>5, <1>6 DEF JobInv, SyncInv, Reacting, Marking, HasJob
<1>8. ASSUME NEW v \in Workers, v # w
      PROVE  JobInv(v)' /\ SyncInv(v)' /\ (HasJob(v)' <=> HasJob(v)) /\ worker'[v] = worker[v]
  BY <1>4, <1>8, RestingJob
<1>9. ASSUME NEW v \in Workers, HasJob(v), worker[v].id = id
      PROVE  worker[v].token < outbox[id].attempts + 1
  BY <1>6, <1>9 DEF ReactionsInv, HoldersInv, JobInv
<1>10. OneHolder'
  <2>1. SUFFICES ASSUME NEW u \in Workers, NEW v \in Workers, HasJob(u)', HasJob(v)',
                        worker'[u].id = worker'[v].id, worker'[u].token = worker'[v].token
                 PROVE  u = v
    BY DEF OneHolder
  <2>2. CASE u # w /\ v # w
    BY <1>8, <2>1, <2>2 DEF ReactionsInv, HoldersInv, OneHolder
  <2>3. ASSUME NEW x \in Workers, x # w, HasJob(x)', worker'[x].id = id
        PROVE  worker'[x].token # s.token
    <3>1. HasJob(x) /\ worker[x].id = id /\ worker'[x].token = worker[x].token
      BY <1>8, <2>3
    <3>2. worker[x].token \in 1..outbox[id].attempts
      BY <3>1 DEF ReactionsInv, HoldersInv, JobInv
    <3>3. QED
      BY <1>3, <1>6, <3>1, <3>2
  <2>4. QED
    BY <1>3, <1>4, <2>1, <2>2, <2>3
<1>11. HoldersInv'
  BY <1>7, <1>8, <1>10 DEF HoldersInv
<1>12. ASSUME NEW r \in wire'
       PROVE  RequestInv(r)'
  <2>1. r \in wire /\ RequestInv(r) /\ r.token \in Nat
    BY <1>2 DEF ReactionsInv, WireInv, ReactionsTypeOK, RequestState
  <2>2. outbox'[r.id].present /\ outbox'[r.id].key = r.key /\ r.token <= outbox'[r.id].attempts
    BY <2>1, RequestStays
  <2>3. ASSUME NEW v \in Workers, HasJob(v)', From(r, v)'
        PROVE  worker'[v].pc \notin AtWork
    <3>1. CASE v = w
      <4>1. r.id = id /\ r.token = outbox[id].attempts + 1
        BY <1>3, <1>4, <2>3, <3>1 DEF From
      <4>2. r.token <= outbox[id].attempts
        BY <2>1, <4>1 DEF RequestInv
      <4>3. QED
        BY <1>6, <4>1, <4>2
    <3>2. CASE v # w
      BY <1>8, <2>1, <2>3, <3>2 DEF RequestInv, From, AtWork
    <3>3. QED
      BY <3>1, <3>2
  <2>4. \A q \in wire' : q.worker = r.worker /\ q.id = r.id /\ q.token = r.token => q = r
    BY <1>2, <2>1 DEF RequestInv
  <2>5. QED
    BY <2>2, <2>3, <2>4 DEF RequestInv, AtWork
<1>13. WireInv'
  BY <1>12 DEF WireInv
<1>14. QED
  BY <1>3, <1>4, <1>6, <1>11, <1>13

LEMMA StartingSync ==
  ASSUME ReactionsInv, Base, NEW w \in Workers, NEW k \in Keys, StartSync(w, k)
  PROVE  HoldersInv' /\ WireInv' /\ GoesIdle(w)
<1> DEFINE s == [Idle EXCEPT !.pc = "syncing", !.lease = NewLease(k)]
<1>1. NewLease(k) \in Lease
  BY DEF NewLease, Lease, ReactionsInv, StoreInv, TypeOK, Thread
<1>2. s \in WorkerState /\ s.pc = "syncing" /\ s.lease = NewLease(k)
  BY <1>1, IdleType DEF ReactionsInv
<1>3. Moves(w, s) /\ wire' = wire /\ NewLease(k) \in leases'
  BY DEF StartSync, OnlyStore, slack, Claim
<1> HIDE DEF s
<1>4. worker'[w] = s /\ \A v \in Workers : v # w => worker'[v] = worker[v]
  BY <1>2, <1>3, MovesOn DEF ReactionsInv
<1>5. GoesIdle(w)
  BY <1>2, <1>3, <1>4 DEF GoesIdle, HasJob, SyncInv
<1>6. QED
  BY <1>3, <1>4, <1>5, OneMoves

LEMMA Calling ==
  ASSUME ReactionsInv, Base, NEW w \in Workers, Call(w)
  PROVE  HoldersInv' /\ WireInv' /\ GoesOn(w)
<1>1. PICK c \in worker[w].todo :
        /\ c \in Change
        /\ Moves(w, [worker[w] EXCEPT !.pc = "awaiting", !.todo = worker[w].todo \ {c}])
        /\ LET r == [worker |-> w, id |-> worker[w].id, token |-> worker[w].token,
                     key |-> worker[w].key, change |-> c]
           IN  r \in RequestState /\ wire' = wire \cup {r}
  BY CallType DEF ReactionsInv
<1> DEFINE s == [worker[w] EXCEPT !.pc = "awaiting", !.todo = worker[w].todo \ {c}]
           n == [worker |-> w, id |-> worker[w].id, token |-> worker[w].token,
                 key |-> worker[w].key, change |-> c]
<1>2. /\ worker[w] \in WorkerState /\ worker[w].pc = "changing" /\ HasJob(w) /\ JobInv(w)
  BY DEF ReactionsInv, ReactionsTypeOK, Call, HasJob, HoldersInv
<1>3. s \in WorkerState /\ s.pc = "awaiting" /\ Same(worker[w], s) /\ s.seen = worker[w].seen
  BY <1>2 DEF WorkerState, Same, Points, Reacting
<1>4. /\ n.worker = w /\ n.id = worker[w].id /\ n.token = worker[w].token /\ n.key = worker[w].key
      /\ n \in RequestState /\ wire' = wire \cup {n} /\ Moves(w, s)
  BY <1>1
<1> HIDE DEF s, n
<1>5. worker'[w] = s /\ \A v \in Workers : v # w => worker'[v] = worker[v]
  BY <1>3, <1>4, MovesOn DEF ReactionsInv
<1>6. Onward(w)
  BY <1>2, <1>3, <1>5 DEF Onward, HasJob
<1>7. /\ outbox[worker[w].id].reactions /\ worker[w].seen \in Seen
      /\ Dated(worker[w].key, worker[w].seen[2]) /\ Dated(worker[w].key, worker[w].seen[3])
      /\ outbox[worker[w].id].present /\ outbox[worker[w].id].key = worker[w].key
  BY <1>2 DEF JobInv, Reacting, Marking
<1>8. s.key = worker[w].key
  BY <1>3 DEF Same
<1>9. JobInv(w)'
  BY <1>3, <1>5, <1>6, <1>7, <1>8, OnwardJob
<1>10. \A v \in Workers : worker'[v] = worker[v] \/ GoesIdle(v) \/ GoesOn(v)
  BY <1>5, <1>6, <1>9 DEF GoesOn
<1>11. HoldersInv'
  BY <1>10, HoldersStay
<1>12. \A v \in Workers : Calm(v)
  BY <1>3, <1>5 DEF Calm, AtWork, HasJob
<1>13. ASSUME NEW q \in wire, q.worker = w, q.id = worker[w].id, q.token = worker[w].token
       PROVE  FALSE
  BY <1>2, <1>13 DEF ReactionsInv, WireInv, RequestInv, From
<1>14. ASSUME NEW r \in wire'
       PROVE  RequestInv(r)'
  <2>1. outbox'[r.id].present /\ outbox'[r.id].key = r.key /\ r.token <= outbox'[r.id].attempts
    <3>1. CASE r \in wire
      BY <3>1, RequestStays
    <3>2. CASE r = n
      <4>1. /\ worker'[w].id = r.id /\ worker'[w].token = r.token /\ worker'[w].key = r.key
        BY <1>3, <1>4, <1>5, <3>2 DEF Same
      <4>2. /\ outbox'[r.id].present /\ outbox'[r.id].key = r.key
            /\ r.token \in 1..outbox'[r.id].attempts
        BY <1>6, <4>1, HeldStays
      <4>3. QED
        BY <4>2
    <3>3. QED
      BY <1>4, <3>1, <3>2
  <2>2. ASSUME NEW v \in Workers, HasJob(v)', From(r, v)'
        PROVE  worker'[v].pc \notin AtWork
    <3>1. CASE v = w
      BY <1>3, <1>5, <3>1 DEF AtWork
    <3>2. CASE v # w
      <4>1. r \in wire
        BY <1>4, <2>2, <3>2 DEF From
      <4>2. QED
        BY <1>12, <2>2, <4>1 DEF Calm, From, AtWork, ReactionsInv, WireInv, RequestInv
    <3>3. QED
      BY <3>1, <3>2
  <2>3. ASSUME NEW q \in wire', q.worker = r.worker, q.id = r.id, q.token = r.token PROVE q = r
    <3>1. q = n \/ q \in wire
      BY <1>4
    <3>2. r = n \/ r \in wire
      BY <1>4
    <3>3. QED
      BY <1>4, <1>13, <2>3, <3>1, <3>2 DEF ReactionsInv, WireInv, RequestInv
  <2>4. QED
    BY <2>1, <2>2, <2>3 DEF RequestInv, AtWork
<1>15. QED
  BY <1>6, <1>9, <1>11, <1>14 DEF WireInv, GoesOn

LEMMA Applying ==
  ASSUME ReactionsInv, Base, NEW r \in wire, Apply(r)
  PROVE  HoldersInv' /\ WireInv' /\ (Awaited(r) => GoesOn(r.worker))
<1>1. /\ r.worker \in Workers /\ wire' = wire \ {r}
      /\ \A v \in Workers : ~(Awaited(r) /\ v = r.worker) => worker'[v] = worker[v]
      /\ Awaited(r) => worker'[r.worker] = [worker[r.worker] EXCEPT !.pc = "changing"]
  BY AwaitedGoes DEF Apply, ReactionsInv
<1>2. CASE ~Awaited(r)
  BY <1>1, <1>2, Steady DEF Apply
<1>3. CASE Awaited(r)
  <2>1. PICK w \in Workers : w = r.worker
    BY <1>1
  <2> DEFINE s == [worker[w] EXCEPT !.pc = "changing"]
  <2>2. worker[w] \in WorkerState /\ worker[w].pc = "awaiting" /\ HasJob(w) /\ JobInv(w) /\ From(r, w)
    BY <1>3, <2>1 DEF ReactionsInv, ReactionsTypeOK, HoldersInv, Awaited, HasJob, From
  <2>3. s \in WorkerState /\ s.pc = "changing" /\ Same(worker[w], s) /\ s.seen = worker[w].seen
    BY <2>2 DEF WorkerState, Same, Points, Reacting
  <2>4. worker'[w] = s /\ \A v \in Workers : v # w => worker'[v] = worker[v]
    BY <1>1, <1>3, <2>1
  <2> HIDE DEF s
  <2>5. Onward(w)
    BY <2>2, <2>3, <2>4 DEF Onward, HasJob
  <2>6. /\ outbox[worker[w].id].reactions /\ worker[w].seen \in Seen
        /\ Dated(worker[w].key, worker[w].seen[2]) /\ Dated(worker[w].key, worker[w].seen[3])
    BY <2>2 DEF JobInv, Reacting, Marking
  <2>7. s.key = worker[w].key
    BY <2>3 DEF Same
  <2>8. GoesOn(w)
    BY <2>3, <2>4, <2>5, <2>6, <2>7, OnwardJob DEF GoesOn
  <2>9. HoldersInv'
    BY <2>4, <2>8, HoldersStay
  <2>10. ASSUME NEW q \in wire'
         PROVE  RequestInv(q)'
    <3>1. q \in wire /\ q # r /\ RequestInv(q)
      BY <1>1 DEF ReactionsInv, WireInv
    <3>2. outbox'[q.id].present /\ outbox'[q.id].key = q.key /\ q.token <= outbox'[q.id].attempts
      BY <3>1, RequestStays
    <3>3. ASSUME NEW v \in Workers, HasJob(v)', From(q, v)'
          PROVE  worker'[v].pc \notin AtWork
      <4>1. CASE v = w
        <5>1. q.worker = r.worker /\ q.id = r.id /\ q.token = r.token
          BY <2>2, <2>3, <2>4, <3>3, <4>1 DEF From, Same
        <5>2. QED
          BY <3>1, <5>1 DEF RequestInv
      <4>2. CASE v # w
        BY <2>4, <3>1, <3>3, <4>2 DEF RequestInv, From, HasJob, AtWork
      <4>3. QED
        BY <4>1, <4>2
    <3>4. \A p \in wire' : p.worker = q.worker /\ p.id = q.id /\ p.token = q.token => p = q
      BY <1>1, <3>1 DEF RequestInv
    <3>5. QED
      BY <3>2, <3>3, <3>4 DEF RequestInv, AtWork
  <2>11. QED
    BY <2>1, <2>8, <2>9, <2>10 DEF WireInv
<1>4. QED
  BY <1>2, <1>3

LEMMA Ending ==
  ASSUME ReactionsInv, Base, NEW w \in Workers,
         EndSync(w) \/ Finish(w) \/ FinishLost(w) \/ Requeue(w) \/ Crash(w)
  PROVE  /\ HoldersInv' /\ WireInv'
         /\ \/ GoesIdle(w) /\ Moves(w, Idle)
            \/ GoesOn(w) /\ FinishLost(w) /\ outbox[worker[w].id].reactions /\ worker'[w].pc = "lost"
<1>1. CASE Moves(w, Idle)
  <2>1. wire' = wire
    BY DEF EndSync, Finish, FinishLost, Requeue, Crash, OnlyStore, Only, slack
  <2>2. QED
    BY <1>1, <2>1, GoingIdle
<1>2. CASE FinishLost(w) /\ outbox[worker[w].id].reactions
  <2> DEFINE s == [worker[w] EXCEPT !.pc = "lost"]
  <2>1. worker[w] \in WorkerState /\ HasJob(w) /\ ~HoldsJob(w) /\ Moves(w, s) /\ wire' = wire
    BY <1>2 DEF ReactionsInv, ReactionsTypeOK, FinishLost, HasJob, Only, slack
  <2>2. s \in WorkerState /\ s.pc = "lost" /\ Same(worker[w], s)
    BY <2>1 DEF WorkerState, Same, Points
  <2> HIDE DEF s
  <2>3. HoldersInv' /\ WireInv' /\ GoesOn(w)
    BY <1>2, <2>1, <2>2, GoingOn DEF Reacting, Marking, AtWork
  <2>4. worker'[w] = s
    BY <2>1, <2>2, MovesOn DEF ReactionsInv
  <2>5. QED
    BY <1>2, <2>2, <2>3, <2>4
<1>3. QED
  BY <1>1, <1>2 DEF EndSync, Finish, FinishLost, Requeue, Crash, Only

LEMMA NextHolders ==
  ASSUME ReactionsInv, Base, [ReactionsNext]_reactionVars
  PROVE  HoldersInv' /\ WireInv'
<1>1. ASSUME \/ \E e \in Events : Receive(e)
             \/ \E w \in Workers : Heartbeat(w)
             \/ \E r \in wire : Lose(r)
             \/ Wait \/ UNCHANGED reactionVars
      PROVE  HoldersInv' /\ WireInv'
  <2>1. worker' = worker /\ wire' \subseteq wire
    BY <1>1 DEF Receive, Heartbeat, Lose, Wait, OnlyStore, slack, reactionVars
  <2>2. QED
    BY <2>1, Steady
<1>2. QED
  BY <1>1, Starting, StartingSync, Delivering, Calling, Applying, Ending
     DEF ReactionsNext, Reply, Sync, React, ReactionStep

-----------------------------------------------------------------------------
(* What holds of a holder, and what a step leaves of a thread's reactions.   *)

LEMMA HolderIsLive ==
  ASSUME ReactionsInv, NEW w \in Workers, Reacts(w), HoldsJob(w)
  PROVE  LET id == worker[w].id IN
         /\ id \in ReactionIds /\ Live(outbox[id], clock)
         /\ outbox[id].key = worker[w].key /\ outbox[id].leaseToken = worker[w].token
<1> DEFINE id == worker[w].id
           j == outbox[id]
<1>1. HasJob(w) /\ j.reactions
  BY DEF Reacts
<1>2. id \in JobIds /\ j.present /\ j.key = worker[w].key
  BY <1>1 DEF ReactionsInv, HoldersInv, JobInv
<1>3. Spent(j) /\ JobSound(id, j, threads)
  BY <1>2 DEF ReactionsInv, SpentInv, StoreInv, OutboxInv, JobsSound
<1>4. ~j.completed /\ j.leaseToken # 0 /\ j.leaseToken = worker[w].token /\ j.leaseExpires > clock
  BY DEF HoldsJob, ValidateNotification
<1> HIDE DEF j
<1>5. ~j.permanent
  BY <1>3, <1>4 DEF Spent
<1>6. id \in ReactionIds
  BY <1>1, <1>2, <1>3 DEF JobSound, JobIds
<1>7. Live(j, clock)
  BY <1>2, <1>4, <1>5 DEF Live, Open
<1>8. QED
  BY <1>2, <1>4, <1>6, <1>7 DEF j

(* One worker at a time holds a reaction job of a thread. *)
LEMMA SoleHolder ==
  ASSUME Lag = 0, ReactionsInv, NEW v \in Workers, Reacts(v), HoldsJob(v),
         NEW w \in Workers, Reacts(w), HoldsJob(w), worker[v].key = worker[w].key
  PROVE  v = w
<1>1. /\ worker[v].id \in ReactionIds /\ Live(outbox[worker[v].id], clock)
      /\ outbox[worker[v].id].key = worker[v].key /\ outbox[worker[v].id].leaseToken = worker[v].token
  BY HolderIsLive
<1>2. /\ worker[w].id \in ReactionIds /\ Live(outbox[worker[w].id], clock)
      /\ outbox[worker[w].id].key = worker[w].key /\ outbox[worker[w].id].leaseToken = worker[w].token
  BY HolderIsLive
<1>3. worker[v].id = worker[w].id
  BY <1>1, <1>2 DEF ReactionsInv, StoreInv, OutboxInv, OneLive
<1>4. worker[v].token = worker[w].token
  BY <1>1, <1>2, <1>3
<1>5. QED
  BY <1>3, <1>4 DEF ReactionsInv, HoldersInv, OneHolder, Reacts

(* The reaction job of a thread is claimed while no worker holds one. *)
LEMMA TakenAlone ==
  ASSUME Lag = 0, ReactionsInv, NEW k \in Keys, Taken(k)
  PROVE  /\ OpenJob(k)'
         /\ \A w \in Workers : Reacts(w) /\ HoldsJob(w) => worker[w].key # k
<1>1. TypeOK /\ JobsSound(outbox, threads) /\ outbox \in [JobIds -> Job]
  BY DEF ReactionsInv, StoreInv, OutboxInv, TypeOK
<1>2. PICK id \in JobIds : outbox[id].key = k /\ ClaimReactionNotification(id, clock)
  BY <1>1, NowIsClock DEF Taken
<1>3. /\ outbox[id].reactions /\ Open(outbox[id]) /\ ~Blocked(outbox, k, clock)
      /\ outbox' = [outbox EXCEPT ![id] = JobClaimed(outbox[id], clock)]
  BY <1>2 DEF ClaimReactionNotification, Deliverable
<1>4. id \in ReactionIds
  BY <1>1, <1>3 DEF JobsSound, JobSound, JobIds, Open
<1>5. Open(outbox'[id]) /\ outbox'[id].key = k
  BY <1>1, <1>2, <1>3 DEF JobClaimed, Open, Job
<1>6. ASSUME NEW w \in Workers, Reacts(w), HoldsJob(w), worker[w].key = k
      PROVE  FALSE
  <2>1. /\ worker[w].id \in JobIds /\ Live(outbox[worker[w].id], clock)
        /\ outbox[worker[w].id].key = k
    BY <1>6, HolderIsLive DEF JobIds
  <2>2. QED
    BY <1>3, <2>1 DEF Blocked, Live
<1>7. QED
  BY <1>4, <1>5, <1>6 DEF OpenJob

(* Desired, the messages there are aside. *)
DesiredOf(k, seen, messages) ==
  {target \in {[ts |-> seen[2], name |-> "success"]}
       \cup (IF seen[1] THEN {[ts |-> k.threadTS, name |-> "tracking"]} ELSE {})
       \cup (IF seen[4] \in {NoText, "operation cancelled"} THEN {}
               ELSE {[ts |-> seen[3], name |-> "failure"]}) :
   target.ts \in messages}

LEMMA MessagesDated ==
  ASSUME NEW k \in Keys
  PROVE  0 \notin Messages(k) /\ 0 \notin Messages(k)' /\ k.threadTS \in Messages(k)
BY ReactionsAssumption, StoreAssumption DEF Messages, Event

(* What is desired is a matter of a thread's key, what was seen, and messages. *)
LEMMA DesiredSame ==
  ASSUME NEW w \in Workers, NEW k, worker'[w].key = k, events' = events
  PROVE  /\ Desired(worker[w].key, worker[w].seen)' = Desired(k, worker'[w].seen)
         /\ Desired(worker[w].key, Marks(threads[worker[w].key]))' = Desired(k, Marks(threads'[k]))
<1> DEFINE m == Messages(worker[w].key)'
<1>1. \A seen : Desired(k, seen) = DesiredOf(k, seen, Messages(k))
  BY DEF Desired, DesiredOf
<1>2. /\ Desired(worker[w].key, worker[w].seen)' = DesiredOf(worker'[w].key, worker'[w].seen, m)
      /\ Desired(worker[w].key, Marks(threads[worker[w].key]))' =
           DesiredOf(worker'[w].key, Marks(threads'[worker'[w].key]), m)
  BY DEF Desired, DesiredOf
<1>3. m = Messages(k)
  BY DEF Messages
<1> HIDE DEF m
<1>4. QED
  BY <1>1, <1>2, <1>3

LEMMA DesiredStays ==
  ASSUME Base, NEW k \in Keys, NEW seen \in Seen, Dated(k, seen[2]), Dated(k, seen[3])
  PROVE  DesiredOf(k, seen, Messages(k)') = DesiredOf(k, seen, Messages(k))
<1>1. 0 \notin Messages(k)' /\ 0 \notin Messages(k) /\ k.threadTS \in Messages(k)
  BY MessagesDated
<1>2. Messages(k) \subseteq Messages(k)'
  BY DEF Base
<1>3. \A ts \in {seen[2], k.threadTS, seen[3]} : ts \in Messages(k) <=> ts \in Messages(k)'
  BY <1>1, <1>2 DEF Dated
<1>4. QED
  <2> DEFINE S == {[ts |-> seen[2], name |-> "success"]}
               \cup (IF seen[1] THEN {[ts |-> k.threadTS, name |-> "tracking"]} ELSE {})
               \cup (IF seen[4] \in {NoText, "operation cancelled"} THEN {}
                       ELSE {[ts |-> seen[3], name |-> "failure"]})
  <2>1. ASSUME NEW t \in S PROVE t.ts \in {seen[2], k.threadTS, seen[3]}
    <3>1. \/ t = [ts |-> seen[2], name |-> "success"]
          \/ t = [ts |-> k.threadTS, name |-> "tracking"]
          \/ t = [ts |-> seen[3], name |-> "failure"]
      BY <2>1, Zenon
    <3>2. \A ts, name : [ts |-> ts, name |-> name].ts = ts
      OBVIOUS
    <3>3. t.ts = seen[2] \/ t.ts = k.threadTS \/ t.ts = seen[3]
      <4> HIDE DEF S
      <4>1. CASE t = [ts |-> seen[2], name |-> "success"]
        BY <3>2, <4>1, Zenon
      <4>2. CASE t = [ts |-> k.threadTS, name |-> "tracking"]
        BY <3>2, <4>2, Zenon
      <4>3. CASE t = [ts |-> seen[3], name |-> "failure"]
        BY <3>2, <4>3, Zenon
      <4>4. QED
        BY <3>1, <4>1, <4>2, <4>3, Zenon
    <3> HIDE DEF S
    <3>4. QED
      BY <3>3, Zenon
  <2>2. /\ DesiredOf(k, seen, Messages(k)) = {t \in S : t.ts \in Messages(k)}
        /\ DesiredOf(k, seen, Messages(k)') = {t \in S : t.ts \in Messages(k)'}
    BY DEF DesiredOf
  <2> HIDE DEF S
  <2>3. QED
    BY <1>3, <2>1, <2>2

LEMMA RightStays ==
  ASSUME ReactionsInv, Base, NEW k \in Keys, marks'[k] = marks[k], Right(k)
  PROVE  Right(k)' \/ WillFollow(k)'
<1>1. CASE Marks(threads'[k]) # Marks(threads[k])
  BY <1>1 DEF Base, FollowsOn
<1>2. CASE Marks(threads'[k]) = Marks(threads[k])
  <2>1. PICK m \in Seen : m = Marks(threads[k])
    BY MarksType DEF ReactionsInv
  <2>2. Dated(k, m[2]) /\ Dated(k, m[3])
    BY <2>1 DEF ReactionsInv, DatedInv, ThreadDated, Marks
  <2>3. DesiredOf(k, m, Messages(k)') = DesiredOf(k, m, Messages(k))
    BY <2>2, DesiredStays
  <2>4. marks[k] = DesiredOf(k, m, Messages(k))
    BY <2>1 DEF Right, Desired, DesiredOf
  <2>5. Desired(k, Marks(threads[k]))' = DesiredOf(k, m, Messages(k)')
    BY <1>2, <2>1 DEF Desired, DesiredOf
  <2>6. QED
    BY <2>3, <2>4, <2>5 DEF Right
<1>3. QED
  BY <1>1, <1>2

(* A worker that reacts to a thread leaves it marked, whatever it has done. *)
LEMMA ReactorMarks ==
  ASSUME ReactionsInv, Base, NEW w \in Workers, Reacts(w), GoesOn(w)
  PROVE  LET k == worker[w].key IN
         /\ k \in Keys /\ worker'[w].key = k /\ Reacts(w)'
         /\ ~HoldsJob(w) => Strays(k)'
         /\ Strays(k)' \/ OpenJob(k)'
<1> DEFINE s == worker'[w]
           j == outbox'[s.id]
<1>1. /\ s.id \in JobIds /\ s.key \in Keys /\ j.present /\ j.key = s.key
      /\ j.reactions = outbox[worker[w].id].reactions
      /\ HoldsJob(w)' => HoldsJob(w)
  BY HeldStays DEF GoesOn
<1>2. s.key = worker[w].key /\ HasJob(w)'
  BY DEF GoesOn, Onward, Same
<1>3. Reacts(w)'
  BY <1>1, <1>2 DEF Reacts
<1>4. ~HoldsJob(w)' => \A k \in Keys : k = s.key => Strays(k)'
  BY <1>3 DEF Stray, Strays
<1>5. HoldsJob(w)' => \A k \in Keys : k = s.key => OpenJob(k)'
  <2>1. SUFFICES ASSUME HoldsJob(w)', NEW k \in Keys, k = s.key PROVE OpenJob(k)'
    OBVIOUS
  <2>2. j.leaseToken # 0 /\ ~j.completed
    BY <2>1 DEF HoldsJob, ValidateNotification
  <2>3. Spent(j) /\ JobSound(s.id, j, threads')
    BY <1>1 DEF Base, SpentInv, StoreInv, OutboxInv, JobsSound
  <2> HIDE DEF j, s
  <2>4. Open(j)
    BY <1>1, <2>2, <2>3 DEF Spent, Open
  <2>5. j.reactions
    BY <1>3 DEF Reacts, j, s
  <2>6. s.id \in ReactionIds
    BY <1>1, <2>3, <2>5 DEF JobSound, JobIds
  <2>7. QED
    BY <1>1, <2>1, <2>4, <2>6 DEF OpenJob, j
<1>6. QED
  BY <1>1, <1>2, <1>3, <1>4, <1>5

(* The reactions of a thread that a step leaves alone. *)
Lasting(k) ==
  /\ marks'[k] = marks[k]
  /\ Excused(k) => Excused(k)' \/ Taken(k)

LEMMA KeyStays ==
  ASSUME Lag = 0, ReactionsInv, Base, NEW k \in Keys, Lasting(k),
         OpenJob(k) => OpenJob(k)' \/ Parked(k)' \/ Right(k) \/ Excused(k)
  PROVE  Marked(k)'
<1>1. Excused(k) => Excused(k)' \/ OpenJob(k)'
  BY TakenAlone DEF Lasting
<1>2. Parked(k) => Parked(k)'
  BY DEF Parked, Base, JobsKept, JobIds
<1>3. Right(k) => Right(k)' \/ WillFollow(k)'
  BY RightStays DEF Lasting
<1>4. Marked(k)
  BY DEF ReactionsInv, MarksInv
<1>5. QED
  BY <1>1, <1>2, <1>3, <1>4 DEF Marked, Excused

Still(w) == worker'[w] = worker[w] /\ \A r \in wire' : From(r, w) => r \in wire

LEMMA WorkerStays ==
  ASSUME Lag = 0, ReactionsInv, Base, NEW w \in Workers, Still(w),
         NEW k \in Keys, k = worker[w].key, Lasting(k)
  PROVE  MarkInv(w)'
<1>1. SUFFICES ASSUME Reacts(w)', HoldsJob(w)'
               PROVE  Excused(worker[w].key)' \/ Progress(w)'
  BY DEF MarkInv
<1>2. worker'[w] = worker[w]
  BY DEF Still
<1>3. GoesOn(w) /\ JobInv(w)
  BY <1>1, <1>2, RestingJob DEF GoesOn, Onward, Same, Reacts, ReactionsInv, HoldersInv
<1>4. Reacts(w) /\ HoldsJob(w)
  BY <1>1, <1>2, <1>3, HeldStays DEF GoesOn, Onward, Reacts
<1>5. k = worker[w].key
  OBVIOUS
<1>6. Excused(k) \/ Progress(w)
  BY <1>4, <1>5 DEF ReactionsInv, MarksInv, MarkInv
<1>7. Excused(k) => Excused(k)'
  BY <1>4, <1>5, TakenAlone DEF Lasting
<1>8. marks'[k] = marks[k]
  BY <1>5 DEF Lasting
<1>9. ASSUME Progress(w)
      PROVE  WillFollow(k)' \/ Progress(w)'
  <2> DEFINE s == worker[w]
  <2>1. s.pc \in Marking => s.seen \in Seen /\ Dated(k, s.seen[2]) /\ Dated(k, s.seen[3])
    BY <1>3, <1>4, <1>5 DEF JobInv, Reacts
  <2>2. s.pc \in Marking => DesiredOf(k, s.seen, Messages(k)') = DesiredOf(k, s.seen, Messages(k))
    <3>1. CASE s.pc \in Marking
      <4>1. PICK m \in Seen : m = s.seen
        BY <2>1, <3>1
      <4>2. DesiredOf(k, m, Messages(k)') = DesiredOf(k, m, Messages(k))
        BY <2>1, <3>1, <4>1, DesiredStays
      <4>3. QED
        BY <4>1, <4>2
    <3>2. QED
      BY <3>1
  <2>3. /\ s.pc = "changing" => Covers(marks[k], s.todo, DesiredOf(k, s.seen, Messages(k)))
        /\ s.pc = "awaiting" =>
             \A r \in wire : From(r, w) =>
               Covers(marks[k], s.todo \cup {r.change}, DesiredOf(k, s.seen, Messages(k)))
        /\ s.pc = "ended" /\ s.error = "" => Right(k)
    BY <1>5, <1>9 DEF Progress, Desired, DesiredOf
  <2>4. s.pc = "ended" /\ s.error = "" => Right(k)' \/ WillFollow(k)'
    BY <1>8, <2>3, RightStays
  <2>5. \A r \in wire' : From(r, w)' => r \in wire /\ From(r, w)
    BY <1>2 DEF Still, From
  <2>6. s.pc = "changing" => Covers(marks'[k], s.todo, DesiredOf(k, s.seen, Messages(k)'))
    BY <1>8, <2>2, <2>3 DEF Marking
  <2>7. s.pc = "awaiting" =>
             \A r \in wire' : From(r, w)' =>
               Covers(marks'[k], s.todo \cup {r.change}, DesiredOf(k, s.seen, Messages(k)'))
    BY <1>8, <2>2, <2>3, <2>5 DEF Marking
  <2>8. SUFFICES ASSUME ~WillFollow(k)' PROVE Progress(w)'
    OBVIOUS
  <2>10. worker'[w] = s
    BY <1>2
  <2>11. s.key = k
    BY <1>5
  <2> HIDE DEF s
  <2>12. Desired(worker[w].key, worker[w].seen)' = DesiredOf(k, s.seen, Messages(k)')
    BY <2>10, <2>11 DEF Desired, DesiredOf, Messages
  <2>13. (s.pc = "ended" /\ s.error = "") => Right(worker[w].key)'
    <3>1. Desired(worker[w].key, Marks(threads[worker[w].key]))' =
            DesiredOf(k, Marks(threads'[k]), Messages(k)')
      BY <2>10, <2>11 DEF Desired, DesiredOf, Messages
    <3>2. Right(k)' => marks'[k] = DesiredOf(k, Marks(threads'[k]), Messages(k)')
      BY DEF Right, Desired, DesiredOf
    <3>3. QED
      BY <2>4, <2>8, <2>10, <2>11, <3>1, <3>2 DEF Right
  <2>14. QED
    BY <2>6, <2>7, <2>10, <2>11, <2>12, <2>13 DEF Progress
<1>10. QED
  BY <1>2, <1>5, <1>6, <1>7, <1>9 DEF Excused

LEMMA StillHolds ==
  ASSUME ReactionsInv, Base, NEW w \in Workers, worker'[w] = worker[w], Reacts(w)', HoldsJob(w)'
  PROVE  Reacts(w) /\ HoldsJob(w)
<1>1. GoesOn(w)
  BY RestingJob DEF GoesOn, Onward, Same, Reacts
<1>2. QED
  BY <1>1, HeldStays DEF GoesOn, Onward, Reacts

(* The others take for granted what a worker does to its thread's reactions. *)
LEMMA ReactorKey ==
  ASSUME Lag = 0, ReactionsInv, Base, NEW w \in Workers, Reacts(w), GoesOn(w),
         NEW k \in Keys, k = worker[w].key
  PROVE  /\ Marked(k)'
         /\ \A v \in Workers : v # w /\ worker'[v] = worker[v] /\ worker[v].key = k => MarkInv(v)'
<1>1. (~HoldsJob(w) => Strays(k)') /\ (Strays(k)' \/ OpenJob(k)')
  BY ReactorMarks DEF Strays, Stray, OpenJob
<1>2. Marked(k)'
  BY <1>1 DEF Marked, Excused
<1>3. ASSUME NEW v \in Workers, v # w, worker'[v] = worker[v], worker[v].key = k,
             Reacts(v)', HoldsJob(v)'
      PROVE  Excused(worker[v].key)'
  <2>1. Reacts(v) /\ HoldsJob(v)
    BY <1>3, StillHolds
  <2>2. ~HoldsJob(w)
    BY <1>3, <2>1, SoleHolder
  <2>3. Strays(k)' /\ worker'[v].key = k
    BY <1>1, <1>3, <2>2
  <2>4. QED
    BY <2>3 DEF Excused, Strays, Stray
<1>4. QED
  BY <1>2, <1>3 DEF MarkInv

LEMMA ExcusedStays ==
  ASSUME ReactionsInv, Base, NEW k \in Keys, k \in late => k \in late',
         \A w \in Workers : Stray(w, k) =>
           GoesOn(w) \/ worker'[w] = worker[w] \/ WillFollow(k)' \/ k \in late'
  PROVE  Excused(k) => Excused(k)' \/ Taken(k)
<1>1. WillFollow(k) => WillFollow(k)' \/ Taken(k)
  BY DEF Base, FollowsOn
<1>2. ASSUME NEW w \in Workers, Stray(w, k)
      PROVE  WillFollow(k)' \/ k \in late' \/ Strays(k)'
  <2>1. CASE GoesOn(w) \/ worker'[w] = worker[w]
    <3>1. Reacts(w) /\ ~HoldsJob(w) /\ worker[w].key = k
      BY <1>2 DEF Stray
    <3>2. GoesOn(w)
      BY <2>1, <3>1, RestingJob DEF GoesOn, Onward, Same, Reacts, ReactionsInv, HoldersInv
    <3>3. QED
      BY <3>1, <3>2, ReactorMarks DEF Strays, Stray
  <2>2. QED
    BY <1>2, <2>1
<1>3. QED
  BY <1>1, <1>2 DEF Excused, Strays

(* Open jobs stay open. *)
StaysOpen(k) == OpenJob(k) => OpenJob(k)' \/ Parked(k)' \/ Right(k) \/ Excused(k)
OpenKept == \A id \in JobIds : Open(outbox[id]) => Open(outbox'[id])

LEMMA KeptStaysOpen ==
  ASSUME Base, OpenKept, NEW k \in Keys
  PROVE  StaysOpen(k)
<1>1. SUFFICES ASSUME NEW id \in ReactionIds, Open(outbox[id]), outbox[id].key = k
               PROVE  OpenJob(k)'
  BY DEF StaysOpen, OpenJob
<1>2. id \in JobIds /\ outbox[id].present
  BY <1>1 DEF JobIds, Open
<1>3. outbox'[id].key = k /\ Open(outbox'[id])
  BY <1>1, <1>2 DEF Base, JobsKept, SameJob, OpenKept
<1>4. QED
  BY <1>3 DEF OpenJob

LEMMA EditKept ==
  ASSUME outbox \in [JobIds -> Job], NEW id \in JobIds, NEW j,
         outbox' = [outbox EXCEPT ![id] = j], Open(outbox[id]) => Open(j)
  PROVE  OpenKept
BY DEF OpenKept

LEMMA RequestKept ==
  ASSUME outbox \in [JobIds -> Job], NEW k \in Keys, RoomFor(outbox, k),
         outbox' = WithReactions(outbox, k)
  PROVE  OpenKept
<1>1. \A id \in JobIds : Joined(outbox[id], outbox'[id], k)
  BY RequestJoins
<1>2. QED
  BY <1>1 DEF OpenKept, Joined, Open

LEMMA NextOpen ==
  ASSUME ReactionsInv, [ReactionsNext]_reactionVars, \A w \in Workers : ~Finish(w)
  PROVE  OpenKept
<1>1. outbox \in [JobIds -> Job] /\ TypeOK
  BY DEF ReactionsInv, StoreInv, TypeOK
<1>2. ASSUME outbox' = outbox PROVE OpenKept
  BY <1>2 DEF OpenKept
<1>3. ASSUME NEW e \in Events, Receive(e) PROVE OpenKept
  <2> DEFINE j == NewJob(e.key, FALSE, UpdatesTracking(e))
  <2>1. e.id \in JobIds /\ e.id \in ReplyIds
    BY StoreAssumption DEF Event, JobIds
  <2>2. outbox' = IF Replies(e) THEN [outbox EXCEPT ![e.id] = j] ELSE outbox
    BY <1>3 DEF Receive, Record
  <2>3. ~outbox[e.id].present
    BY <1>3, <2>1 DEF Receive, Record, Duplicate, ReactionsInv, StoreInv, EventInv
  <2> HIDE DEF j
  <2>4. QED
    BY <1>1, <1>2, <2>1, <2>2, <2>3, EditKept DEF Open
<1>4. ASSUME NEW w \in Workers, NEW id \in JobIds, StartReply(w, id) \/ StartReactions(w, id)
      PROVE  OpenKept
  <2> DEFINE j == JobClaimed(outbox[id], clock)
  <2>1. outbox' = [outbox EXCEPT ![id] = j]
    BY <1>4 DEF StartReply, StartReactions, ClaimNotification, ClaimReactionNotification
  <2>2. Open(outbox[id]) => Open(j)
    BY <1>1 DEF JobClaimed, Open, Job
  <2> HIDE DEF j
  <2>3. QED
    BY <1>1, <2>1, <2>2, EditKept
<1>5. ASSUME NEW w \in Workers, Heartbeat(w) PROVE OpenKept
  <2> DEFINE id == worker[w].id
             j == [outbox[id] EXCEPT !.leaseExpires = clock + JobLease]
  <2>1. HasJob(w) /\ outbox' = [outbox EXCEPT ![id] = j]
    BY <1>5 DEF Heartbeat, RenewNotification, HasJob, Reacting
  <2>2. id \in JobIds
    BY <2>1 DEF ReactionsInv, HoldersInv, JobInv
  <2>3. Open(outbox[id]) => Open(j)
    BY <1>1, <2>2 DEF Open, Job
  <2> HIDE DEF j, id
  <2>4. QED
    BY <1>1, <2>1, <2>2, <2>3, EditKept
<1>6. ASSUME NEW w \in Workers, EndSync(w) PROVE OpenKept
  <2>1. worker[w].lease \in leases /\ worker[w].lease.key \in Keys
    BY <1>6 DEF EndSync, ReactionsInv, HoldersInv, SyncInv, StoreInv, TypeOK, Lease
  <2>2. \/ outbox' = outbox
        \/ /\ RoomFor(outbox, worker[w].lease.key)
           /\ outbox' = WithReactions(outbox, worker[w].lease.key)
    BY <1>6 DEF EndSync, Complete, Fail, vars, durable
  <2>3. QED
    BY <1>1, <1>2, <2>1, <2>2, RequestKept
<1>7. ASSUME NEW w \in Workers, Requeue(w) PROVE OpenKept
  <2>1. worker[w].key \in Keys
    BY DEF ReactionsInv, ReactionsTypeOK, WorkerState
  <2>2. RoomFor(outbox, worker[w].key) /\ outbox' = WithReactions(outbox, worker[w].key)
    BY <1>7 DEF Requeue, QueueReactions
  <2>3. QED
    BY <1>1, <2>1, <2>2, RequestKept
<1>8. ASSUME \/ \E w \in Workers, k \in Keys : StartSync(w, k)
             \/ \E w \in Workers : \/ Post(w) \/ Look(w) \/ List(w) \/ Call(w) \/ Recheck(w) \/ Abandon(w)
                                   \/ FinishLost(w) \/ Error(w) \/ Crash(w)
             \/ \E r \in wire : Apply(r) \/ Lose(r)
             \/ Wait \/ UNCHANGED reactionVars
      PROVE  outbox' = outbox
  BY <1>8 DEF StartSync, Claim, Post, Look, List, Call, Recheck, Abandon, FinishLost, Error, Crash,
              Only, Apply, Lose, Wait, Tick, reactionVars, vars, durable
<1>9. QED
  BY <1>2, <1>3, <1>4, <1>5, <1>6, <1>7, <1>8 DEF ReactionsNext, Reply, Sync, React, ReactionStep

LEMMA MarksFromParts ==
  ASSUME Lag = 0, ReactionsInv, Base,
         \A w \in Workers : Still(w) \/ MarkInv(w)',
         \A k \in Keys :
           \/ Lasting(k) /\ StaysOpen(k)
           \/ Marked(k)' /\ \A v \in Workers : Still(v) /\ worker[v].key = k => MarkInv(v)'
  PROVE  MarksInv'
<1>1. ASSUME NEW k \in Keys PROVE Marked(k)'
  BY KeyStays DEF StaysOpen
<1>2. ASSUME NEW w \in Workers PROVE MarkInv(w)'
  <2>1. PICK k \in Keys : k = worker[w].key
    BY DEF ReactionsInv, ReactionsTypeOK, WorkerState
  <2>2. CASE Still(w)
    BY <2>1, <2>2, WorkerStays
  <2>3. QED
    BY <2>2
<1>3. QED
  BY <1>1, <1>2 DEF MarksInv

-----------------------------------------------------------------------------
(* Reactions, action by action.                                              *)

(* Nobody moves on, nothing is applied. *)
LEMMA CalmMarks ==
  ASSUME Lag = 0, ReactionsInv, Base, worker' = worker, wire' \subseteq wire, marks' = marks,
         late' = late, OpenKept
  PROVE  MarksInv'
<1>1. ASSUME NEW k \in Keys PROVE Lasting(k) /\ StaysOpen(k)
  BY ExcusedStays, KeptStaysOpen DEF Lasting
<1>2. \A w \in Workers : Still(w)
  BY DEF Still
<1>3. QED
  BY <1>1, <1>2, MarksFromParts

(* One worker moves on, nothing is applied. *)
LEMMA OneMarks ==
  ASSUME Lag = 0, ReactionsInv, Base, NEW w \in Workers, MarkInv(w)',
         \A v \in Workers : v # w => Still(v),
         marks' = marks, late \subseteq late',
         \A k \in Keys : StaysOpen(k) /\ (Stray(w, k) => GoesOn(w) \/ WillFollow(k)' \/ k \in late')
  PROVE  MarksInv'
<1>1. ASSUME NEW k \in Keys PROVE Lasting(k) /\ StaysOpen(k)
  <2>1. \A v \in Workers : Stray(v, k) =>
          GoesOn(v) \/ worker'[v] = worker[v] \/ WillFollow(k)' \/ k \in late'
    BY DEF Still
  <2>2. QED
    BY <2>1, ExcusedStays DEF Lasting
<1>2. QED
  BY <1>1, MarksFromParts

LEMMA IdleMarks ==
  ASSUME NEW w \in Workers, GoesIdle(w)
  PROVE  MarkInv(w)' /\ \A k \in Keys : ~Stray(w, k)'
BY DEF GoesIdle, MarkInv, Reacts, Stray

LEMMA OthersStill ==
  ASSUME ReactionsInv, NEW w \in Workers, NEW s, Moves(w, s), wire' \subseteq wire
  PROVE  worker'[w] = s /\ \A v \in Workers : v # w => Still(v)
BY DEF Moves, ReactionsInv, ReactionsTypeOK, Still

(* A worker that has looked at nothing, or does not claim to have, owes nothing. *)
LEMMA OwesNothing ==
  ASSUME NEW w \in Workers,
         \/ worker'[w].pc \in {"replying", "looking", "listing", "lost"}
         \/ worker'[w].pc = "ended" /\ worker'[w].error # ""
  PROVE  MarkInv(w)'
BY DEF MarkInv, Progress

(* What excused the thread of a worker that goes on, and holds its job, still does. *)
LEMMA HolderExcused ==
  ASSUME Lag = 0, ReactionsInv, Base, NEW w \in Workers, GoesOn(w), Reacts(w)', HoldsJob(w)'
  PROVE  /\ Reacts(w) /\ HoldsJob(w) /\ worker'[w].key = worker[w].key /\ worker[w].key \in Keys
         /\ Excused(worker[w].key) \/ Progress(w)
         /\ ~Taken(worker[w].key)
<1>1. Reacts(w) /\ HoldsJob(w)
  BY HeldStays DEF GoesOn, Onward, Reacts
<1>2. worker'[w].key = worker[w].key /\ worker[w].key \in Keys
  BY <1>1, ReactorMarks
<1>3. Excused(worker[w].key) \/ Progress(w)
  BY <1>1 DEF ReactionsInv, MarksInv, MarkInv
<1>4. \A k \in Keys : Taken(k) => worker[w].key # k
  BY <1>1, TakenAlone
<1>5. ~Taken(worker[w].key)
  <2>1. PICK k \in Keys : k = worker[w].key
    BY <1>2
  <2>2. ~Taken(k)
    BY <1>4, <2>1
  <2>3. QED
    BY <2>1, <2>2 DEF Taken
<1>6. QED
  BY <1>1, <1>2, <1>3, <1>5

(* While the store is as it was, so is what is desired. *)
LEMMA SameDesired ==
  ASSUME UNCHANGED vars
  PROVE  /\ \A k \in Keys : Messages(k)' = Messages(k)
         /\ threads' = threads /\ outbox' = outbox
BY DEF vars, durable, Messages

LEMMA CoversNothing ==
  ASSUME NEW present, NEW desired, Covers(present, {}, desired)
  PROVE  present = desired
BY DEF Covers

LEMMA CoversTodo ==
  ASSUME NEW present, NEW desired
  PROVE  Covers(present, Todo(present, desired), desired)
<1> DEFINE todo == Todo(present, desired)
<1>1. ASSUME NEW c \in todo PROVE c.add <=> c.target \in desired
  BY DEF Todo
<1>2. ASSUME NEW t \in present \ desired PROVE \E c \in todo : c.target = t
  <2>1. [add |-> FALSE, target |-> t] \in todo
    BY DEF Todo
  <2>2. QED
    BY <2>1
<1>3. ASSUME NEW t \in desired \ present PROVE \E c \in todo : c.target = t
  <2>1. [add |-> TRUE, target |-> t] \in todo
    BY DEF Todo
  <2>2. QED
    BY <2>1
<1>4. QED
  BY <1>1, <1>2, <1>3 DEF Covers

(* A change made brings the reactions nearer to what is desired. *)
LEMMA CoversChange ==
  ASSUME NEW present, NEW desired, NEW todo, NEW c, Covers(present, todo \cup {c}, desired),
         NEW after, after = IF c.add THEN present \cup {c.target} ELSE present \ {c.target}
  PROVE  Covers(after, todo, desired)
<1>1. \A d \in todo \cup {c} : d.add <=> d.target \in desired
  BY DEF Covers
<1>2. ASSUME NEW t \in (after \ desired) \cup (desired \ after)
      PROVE  \E d \in todo : d.target = t
  <2>1. t # c.target
    BY <1>1, <1>2
  <2>2. t \in (present \ desired) \cup (desired \ present)
    BY <1>2, <2>1
  <2>3. PICK d \in todo \cup {c} : d.target = t
    BY <2>2 DEF Covers
  <2>4. QED
    BY <2>1, <2>3
<1>3. QED
  BY <1>1, <1>2 DEF Covers

LEMMA LookMarks ==
  ASSUME Lag = 0, ReactionsInv, Base, NEW w \in Workers, Look(w), GoesOn(w)
  PROVE  MarkInv(w)'
<1> DEFINE t == threads[worker[w].key]
<1>1. worker[w] \in WorkerState /\ UNCHANGED vars
  BY DEF ReactionsInv, ReactionsTypeOK, Look, Only
<1>2. CASE CoreWork(t)
  <2>1. SUFFICES ASSUME Reacts(w)', HoldsJob(w)' PROVE Excused(worker[w].key)'
    BY DEF MarkInv
  <2>2. worker'[w].key = worker[w].key /\ threads' = threads
    BY <1>1, <2>1, HolderExcused, SameDesired
  <2>3. CoreWork(threads'[worker'[w].key])
    BY <1>2, <2>2
  <2>4. QED
    BY <2>3 DEF Excused, WillFollow
<1>3. CASE ~CoreWork(t)
  <2> DEFINE s == [worker[w] EXCEPT !.pc = "listing", !.seen = Marks(t)]
  <2>1. Moves(w, s) /\ wire' = wire
    BY <1>3 DEF Look, Only, slack
  <2>2. s.pc = "listing"
    BY <1>1 DEF WorkerState
  <2> HIDE DEF s
  <2>3. worker'[w].pc = "listing"
    BY <2>1, <2>2, OthersStill
  <2>4. QED
    BY <2>3, OwesNothing
<1>4. QED
  BY <1>2, <1>3

LEMMA ListMarks ==
  ASSUME Lag = 0, ReactionsInv, Base, NEW w \in Workers, List(w), GoesOn(w)
  PROVE  MarkInv(w)'
<1> DEFINE k == worker[w].key
           todo == Todo(marks[k], Desired(k, worker[w].seen))
           s == [worker[w] EXCEPT !.pc = "changing", !.todo = todo]
<1>1. worker[w] \in WorkerState /\ UNCHANGED vars /\ marks' = marks /\ Moves(w, s) /\ wire' = wire
  BY DEF ReactionsInv, ReactionsTypeOK, List, slack
<1> HIDE DEF todo
<1>2. s.pc = "changing" /\ s.key = k /\ s.todo = todo /\ s.seen = worker[w].seen
  BY <1>1 DEF WorkerState
<1> HIDE DEF s
<1>3. worker'[w] = s
  BY <1>1, OthersStill
<1>4. Covers(marks[k], todo, Desired(k, worker[w].seen))
  BY CoversTodo DEF todo
<1>5. Desired(worker[w].key, worker[w].seen)' = Desired(k, worker[w].seen)
  <2>1. worker'[w].key = k /\ worker'[w].seen = worker[w].seen /\ events' = events
    BY <1>1, <1>2, <1>3 DEF vars, durable
  <2>2. QED
    BY <2>1, DesiredSame
<1>6. Progress(w)'
  BY <1>1, <1>2, <1>3, <1>4, <1>5 DEF Progress
<1>7. QED
  BY <1>6 DEF MarkInv

LEMMA CallMarks ==
  ASSUME Lag = 0, ReactionsInv, Base, NEW w \in Workers, Call(w), GoesOn(w)
  PROVE  /\ MarkInv(w)'
         /\ \A v \in Workers : v # w => Still(v)
<1>1. PICK c \in worker[w].todo :
        /\ c \in Change
        /\ Moves(w, [worker[w] EXCEPT !.pc = "awaiting", !.todo = worker[w].todo \ {c}])
        /\ LET r == [worker |-> w, id |-> worker[w].id, token |-> worker[w].token,
                     key |-> worker[w].key, change |-> c]
           IN  r \in RequestState /\ wire' = wire \cup {r}
  BY CallType DEF ReactionsInv
<1> DEFINE k == worker[w].key
           s == [worker[w] EXCEPT !.pc = "awaiting", !.todo = worker[w].todo \ {c}]
           n == [worker |-> w, id |-> worker[w].id, token |-> worker[w].token,
                 key |-> worker[w].key, change |-> c]
<1>2. /\ worker[w] \in WorkerState /\ worker \in [Workers -> WorkerState] /\ UNCHANGED vars /\ marks' = marks
      /\ worker[w].pc = "changing" /\ HasJob(w)
  BY DEF ReactionsInv, ReactionsTypeOK, Call, HasJob
<1>3. /\ s.pc = "awaiting" /\ s.key = k /\ s.todo = worker[w].todo \ {c} /\ s.seen = worker[w].seen
      /\ s.id = worker[w].id /\ s.token = worker[w].token
  BY <1>2 DEF WorkerState
<1>4. Moves(w, s) /\ wire' = wire \cup {n} /\ n.worker = w /\ n.change = c
  BY <1>1
<1> HIDE DEF s, n
<1>5. worker'[w] = s /\ \A v \in Workers : v # w => worker'[v] = worker[v]
  BY <1>2, <1>4 DEF Moves
<1>6. \A v \in Workers : v # w => Still(v)
  BY <1>4, <1>5 DEF Still, From
<1>7. ASSUME NEW r \in wire', From(r, w)' PROVE r.change = c
  <2>1. r.worker = w /\ r.id = worker[w].id /\ r.token = worker[w].token
    BY <1>3, <1>5, <1>7 DEF From
  <2>2. r \notin wire
    BY <1>2, <2>1 DEF ReactionsInv, WireInv, RequestInv, From
  <2>3. QED
    BY <1>4, <1>7, <2>2
<1>8. SUFFICES ASSUME Reacts(w)', HoldsJob(w)' PROVE Excused(worker[w].key)' \/ Progress(w)'
  BY <1>6 DEF MarkInv
<1>9. k \in Keys /\ (Excused(k) \/ Progress(w)) /\ ~Taken(k)
  BY <1>8, HolderExcused
<1>10. CASE Excused(k)
  <2>1. PICK j \in Keys : j = k
    BY <1>9
  <2>2. late' = late /\ \A v \in Workers : GoesOn(v) \/ worker'[v] = worker[v]
    BY <1>5 DEF Call
  <2>3. Excused(j) /\ ~Taken(j)
    BY <1>9, <1>10, <2>1 DEF Taken
  <2>4. Excused(j)'
    BY <2>2, <2>3, ExcusedStays
  <2>5. worker'[w].key = j
    BY <1>3, <1>5, <2>1
  <2>6. QED
    BY <2>4, <2>5 DEF Excused, WillFollow, Strays, Stray
<1>11. CASE Progress(w)
  <2>1. Covers(marks[k], worker[w].todo, Desired(k, worker[w].seen))
    BY <1>2, <1>11 DEF Progress
  <2>2. (worker[w].todo \ {c}) \cup {c} = worker[w].todo
    BY <1>1
  <2>3. Desired(worker[w].key, worker[w].seen)' = Desired(k, worker[w].seen)
    <3>1. worker'[w].key = k /\ worker'[w].seen = worker[w].seen /\ events' = events
      BY <1>2, <1>3, <1>5 DEF vars, durable
    <3>2. QED
      BY <3>1, DesiredSame
  <2>4. \A r \in wire' : From(r, w)' => s.todo \cup {r.change} = worker[w].todo
    BY <1>3, <1>7, <2>2
  <2>5. Progress(w)'
    BY <1>2, <1>3, <1>5, <2>1, <2>3, <2>4 DEF Progress
  <2>6. QED
    BY <2>5
<1>12. QED
  BY <1>9, <1>10, <1>11

LEMMA RecheckMarks ==
  ASSUME Lag = 0, ReactionsInv, Base, NEW w \in Workers, Recheck(w), GoesOn(w)
  PROVE  MarkInv(w)'
<1> DEFINE k == worker[w].key
           t == threads[k]
           p == IF Marks(t) = worker[w].seen THEN "ended" ELSE "looking"
           s == [worker[w] EXCEPT !.pc = p]
<1>1. /\ worker[w] \in WorkerState /\ UNCHANGED vars /\ marks' = marks /\ wire' = wire /\ late' = late
      /\ worker[w].pc = "changing" /\ worker[w].todo = {} /\ Moves(w, s)
  BY DEF ReactionsInv, ReactionsTypeOK, Recheck, Only, slack
<1> HIDE DEF p
<1>2. s.pc = p /\ s.key = k
  BY <1>1 DEF WorkerState
<1> HIDE DEF s
<1>3. worker'[w] = s /\ \A v \in Workers : v # w => worker'[v] = worker[v]
  BY <1>1, OthersStill DEF Still
<1>4. CASE Marks(t) # worker[w].seen
  BY <1>2, <1>3, <1>4, OwesNothing DEF p
<1>5. CASE Marks(t) = worker[w].seen
  <2>1. SUFFICES ASSUME Reacts(w)', HoldsJob(w)' PROVE Excused(worker[w].key)' \/ Progress(w)'
    BY DEF MarkInv
  <2>2. k \in Keys /\ (Excused(k) \/ Progress(w)) /\ ~Taken(k)
    BY <2>1, HolderExcused
  <2>3. CASE Excused(k)
    <3>1. PICK j \in Keys : j = k
      BY <2>2
    <3>2. \A v \in Workers : GoesOn(v) \/ worker'[v] = worker[v]
      BY <1>3
    <3>3. Excused(j) /\ ~Taken(j)
      BY <2>2, <2>3, <3>1 DEF Taken
    <3>4. Excused(j)'
      BY <1>1, <3>2, <3>3, ExcusedStays
    <3>5. worker'[w].key = j
      BY <1>2, <1>3, <3>1
    <3>6. QED
      BY <3>4, <3>5 DEF Excused, WillFollow, Strays, Stray
  <2>4. CASE Progress(w)
    <3>1. Covers(marks[k], {}, Desired(k, worker[w].seen))
      BY <1>1, <2>4 DEF Progress
    <3>2. marks[k] = Desired(k, Marks(t))
      BY <1>5, <3>1, CoversNothing
    <3>3. Desired(worker[w].key, Marks(threads[worker[w].key]))' = Desired(k, Marks(t))
      <4>1. worker'[w].key = k /\ threads'[k] = t /\ events' = events
        BY <1>1, <1>2, <1>3 DEF vars, durable
      <4>2. QED
        BY <4>1, DesiredSame
    <3>4. Right(worker[w].key)'
      BY <1>1, <1>2, <1>3, <3>2, <3>3 DEF Right
    <3>5. worker'[w].pc = "ended"
      BY <1>2, <1>3, <1>5 DEF p
    <3>6. Progress(w)'
      BY <3>4, <3>5 DEF Progress
    <3>7. QED
      BY <3>6
  <2>5. QED
    BY <2>2, <2>3, <2>4
<1>6. QED
  BY <1>4, <1>5

LEMMA PostMarks ==
  ASSUME Lag = 0, ReactionsInv, Base, NEW w \in Workers, Post(w), GoesOn(w)
  PROVE  MarkInv(w)'
<1>1. SUFFICES ASSUME Reacts(w)', HoldsJob(w)' PROVE FALSE
  BY DEF MarkInv
<1>2. Reacts(w)
  BY <1>1, HolderExcused
<1>3. QED
  BY <1>2 DEF Reacts, Post, ReactionsInv, HoldersInv, JobInv

LEMMA WrongMarks ==
  ASSUME ReactionsInv, NEW w \in Workers, Abandon(w) \/ Error(w)
  PROVE  MarkInv(w)'
<1>1. worker[w] \in WorkerState /\ worker \in [Workers -> WorkerState]
  BY DEF ReactionsInv, ReactionsTypeOK
<1>2. PICK e \in Ends \ {""} : \/ Moves(w, [worker[w] EXCEPT !.pc = "ended", !.error = e])
                               \/ Moves(w, [worker[w] EXCEPT !.pc = "ended", !.error = e, !.todo = {}])
  BY DEF Abandon, Error, Only, Ends
<1>3. worker'[w].pc = "ended" /\ worker'[w].error = e
  <2>1. CASE Moves(w, [worker[w] EXCEPT !.pc = "ended", !.error = e])
    BY <1>1, <2>1 DEF Moves, WorkerState
  <2>2. CASE Moves(w, [worker[w] EXCEPT !.pc = "ended", !.error = e, !.todo = {}])
    BY <1>1, <2>2 DEF Moves, WorkerState
  <2>3. QED
    BY <1>2, <2>1, <2>2
<1>4. QED
  BY <1>3, OwesNothing

LEMMA DeliveringMarks ==
  ASSUME Lag = 0, ReactionsInv, Base, NEW w \in Workers, OpenKept,
         Post(w) \/ Look(w) \/ Recheck(w) \/ Abandon(w) \/ Error(w) \/ Call(w)
  PROVE  MarksInv'
<1>1. GoesOn(w)
  BY Delivering, Calling
<1>2. MarkInv(w)'
  BY <1>1, PostMarks, LookMarks, RecheckMarks, WrongMarks, CallMarks
<1>3. marks' = marks /\ late' = late
  BY DEF Post, Look, Recheck, Abandon, Error, Call, Only, slack
<1>4. \A v \in Workers : v # w => Still(v)
  <2>1. CASE Call(w)
    BY <1>1, <2>1, CallMarks
  <2>2. CASE ~Call(w)
    <3>1. wire' = wire /\ \E s : Moves(w, s)
      BY <2>2 DEF Post, Look, Recheck, Abandon, Error, Only, slack
    <3>2. QED
      BY <3>1, OthersStill
  <2>3. QED
    BY <2>1, <2>2
<1>5. QED
  BY <1>1, <1>2, <1>3, <1>4, KeptStaysOpen, OneMarks

LEMMA ListingMarks ==
  ASSUME Lag = 0, ReactionsInv, Base, NEW w \in Workers, OpenKept, List(w)
  PROVE  MarksInv'
<1>1. GoesOn(w) /\ MarkInv(w)'
  BY Delivering, ListMarks
<1>2. PICK j \in Keys : j = worker[w].key
  BY DEF ReactionsInv, ReactionsTypeOK, WorkerState
<1>3. marks' = marks /\ wire' = wire /\ late' = late \ {j} /\ \E s : Moves(w, s)
  BY <1>2 DEF List, slack
<1>4. \A v \in Workers : v # w => Still(v)
  BY <1>3, OthersStill
<1>5. Reacts(w)
  BY DEF List, Reacts, HasJob, Reacting, ReactionsInv, HoldersInv, JobInv
<1>6. /\ Marked(j)'
      /\ \A v \in Workers : v # w /\ worker'[v] = worker[v] /\ worker[v].key = j => MarkInv(v)'
  BY <1>1, <1>2, <1>5, ReactorKey
<1>7. ASSUME NEW k \in Keys, k # j PROVE Lasting(k) /\ StaysOpen(k)
  <2>1. \A v \in Workers : Stray(v, k) => GoesOn(v) \/ worker'[v] = worker[v]
    BY <1>1, <1>4 DEF Still
  <2>2. k \in late => k \in late'
    BY <1>3, <1>7
  <2>3. QED
    BY <1>3, <2>1, <2>2, ExcusedStays, KeptStaysOpen DEF Lasting
<1>8. \A v \in Workers : Still(v) \/ MarkInv(v)'
  BY <1>1, <1>4
<1>9. \A v \in Workers : Still(v) /\ worker[v].key = j => MarkInv(v)'
  BY <1>1, <1>6 DEF Still
<1>10. QED
  BY <1>6, <1>7, <1>8, <1>9, MarksFromParts

LEMMA AppliedMarks ==
  ASSUME Lag = 0, ReactionsInv, Base, NEW r \in wire, Apply(r), Awaited(r),
         NEW w \in Workers, w = r.worker, GoesOn(w)
  PROVE  Reacts(w) /\ worker[w].key = r.key /\ MarkInv(w)'
<1> DEFINE k == r.key
           s == [worker[w] EXCEPT !.pc = "changing"]
<1>1. /\ worker[w] \in WorkerState /\ worker[w].pc = "awaiting" /\ From(r, w) /\ UNCHANGED vars
      /\ k \in Keys /\ marks \in [Keys -> SUBSET Target] /\ HasJob(w) /\ late' = late
  BY DEF ReactionsInv, ReactionsTypeOK, RequestState, Awaited, From, Apply, HasJob
<1>2. /\ worker'[w] = s /\ \A v \in Workers : v # w => worker'[v] = worker[v]
  BY AwaitedGoes DEF ReactionsInv
<1>3. s.pc = "changing" /\ s.key = worker[w].key /\ s.todo = worker[w].todo /\ s.seen = worker[w].seen
  BY <1>1 DEF WorkerState
<1> HIDE DEF s
<1>4. Reacts(w) /\ outbox[worker[w].id].key = worker[w].key
  BY <1>1 DEF ReactionsInv, HoldersInv, JobInv, Reacts, Reacting
<1>5. worker[w].key = k
  BY <1>1, <1>4 DEF ReactionsInv, WireInv, RequestInv, From
<1>6. marks'[k] = IF r.change.add THEN marks[k] \cup {r.change.target}
                                  ELSE marks[k] \ {r.change.target}
  BY <1>1 DEF Apply
<1>7. ASSUME Reacts(w)', HoldsJob(w)' PROVE Excused(worker[w].key)' \/ Progress(w)'
  <2>1. (Excused(k) \/ Progress(w)) /\ ~Taken(k)
    BY <1>5, <1>7, HolderExcused
  <2>2. CASE Excused(k)
    <3>1. PICK j \in Keys : j = k
      BY <1>1
    <3>2. \A v \in Workers : GoesOn(v) \/ worker'[v] = worker[v]
      BY <1>2
    <3>3. Excused(j) /\ ~Taken(j)
      BY <2>1, <2>2, <3>1 DEF Taken
    <3>4. Excused(j)'
      BY <1>1, <3>2, <3>3, ExcusedStays
    <3>5. worker'[w].key = j
      BY <1>2, <1>3, <1>5, <3>1
    <3>6. QED
      BY <3>4, <3>5 DEF Excused, WillFollow, Strays, Stray
  <2>3. CASE Progress(w)
    <3>1. Covers(marks[k], worker[w].todo \cup {r.change}, Desired(k, worker[w].seen))
      BY <1>1, <1>5, <2>3 DEF Progress
    <3>2. Covers(marks'[k], worker[w].todo, Desired(k, worker[w].seen))
      BY <1>6, <3>1, CoversChange
    <3>3. Desired(worker[w].key, worker[w].seen)' = Desired(k, worker[w].seen)
      <4>1. worker'[w].key = k /\ worker'[w].seen = worker[w].seen /\ events' = events
        BY <1>1, <1>2, <1>3, <1>5 DEF vars, durable
      <4>2. QED
        BY <4>1, DesiredSame
    <3>4. Progress(w)'
      BY <1>2, <1>3, <1>5, <3>2, <3>3 DEF Progress
    <3>5. QED
      BY <3>4
  <2>4. QED
    BY <2>1, <2>2, <2>3
<1>8. QED
  BY <1>4, <1>5, <1>7 DEF MarkInv

LEMMA ApplyingMarks ==
  ASSUME Lag = 0, ReactionsInv, Base, NEW r \in wire, OpenKept, Apply(r)
  PROVE  MarksInv'
<1>1. PICK j \in Keys : j = r.key
  BY DEF ReactionsInv, ReactionsTypeOK, RequestState
<1>2. /\ \A k \in Keys : k # j => marks'[k] = marks[k]
      /\ wire' \subseteq wire /\ late \subseteq late' /\ marks \in [Keys -> SUBSET Target]
  BY <1>1 DEF Apply, ReactionsInv, ReactionsTypeOK
<1>3. CASE Awaited(r)
  <2>1. PICK w \in Workers : w = r.worker
    BY AwaitedGoes DEF ReactionsInv
  <2>2. GoesOn(w)
    BY <1>3, <2>1, Applying
  <2>3. Reacts(w) /\ worker[w].key = j /\ MarkInv(w)'
    BY <1>1, <1>3, <2>1, <2>2, AppliedMarks
  <2>4. \A v \in Workers : v # w => Still(v)
    BY <1>2, <2>1, AwaitedGoes DEF ReactionsInv, Still
  <2>5. /\ Marked(j)'
        /\ \A v \in Workers : v # w /\ worker'[v] = worker[v] /\ worker[v].key = j => MarkInv(v)'
    BY <2>2, <2>3, ReactorKey
  <2>6. ASSUME NEW k \in Keys, k # j PROVE Lasting(k) /\ StaysOpen(k)
    <3>1. \A v \in Workers : Stray(v, k) => GoesOn(v) \/ worker'[v] = worker[v]
      BY <2>2, <2>4 DEF Still
    <3>2. QED
      BY <1>2, <2>6, <3>1, ExcusedStays, KeptStaysOpen DEF Lasting
  <2>7. \A v \in Workers : Still(v) \/ MarkInv(v)'
    BY <2>3, <2>4
  <2>8. \A v \in Workers : Still(v) /\ worker[v].key = j => MarkInv(v)'
    BY <2>3, <2>5 DEF Still
  <2>9. QED
    BY <2>5, <2>6, <2>7, <2>8, MarksFromParts
<1>4. CASE ~Awaited(r)
  <2>1. worker' = worker
    BY <1>4 DEF Apply
  <2>2. \A v \in Workers : Still(v)
    BY <1>2, <2>1 DEF Still
  <2>3. ASSUME NEW k \in Keys, marks'[k] = marks[k] PROVE Lasting(k) /\ StaysOpen(k)
    BY <1>2, <2>1, <2>3, ExcusedStays, KeptStaysOpen DEF Lasting
  <2>4. ASSUME marks'[j] # marks[j]
        PROVE  Marked(j)' /\ \A v \in Workers : Still(v) /\ worker[v].key = j => MarkInv(v)'
    <3>1. j \in late'
      BY <1>1, <1>4, <2>4 DEF Apply
    <3>2. \A v \in Workers : worker'[v].key = j => MarkInv(v)'
      BY <3>1 DEF MarkInv, Excused
    <3>3. QED
      BY <2>1, <3>1, <3>2 DEF Marked, Excused
  <2>5. QED
    BY <1>2, <2>2, <2>3, <2>4, MarksFromParts
<1>5. QED
  BY <1>3, <1>4

LEMMA StartingMarks ==
  ASSUME Lag = 0, ReactionsInv, Base, NEW w \in Workers, OpenKept,
         \/ \E k \in Keys : StartSync(w, k)
         \/ \E id \in JobIds : StartReply(w, id) \/ StartReactions(w, id)
  PROVE  MarksInv'
<1>1. /\ \E s : Moves(w, s)
      /\ wire' = wire /\ marks' = marks /\ late' = late /\ ~Busy(w)
  BY DEF StartSync, StartReply, StartReactions, OnlyStore, slack, Free
<1>2. \A v \in Workers : v # w => Still(v)
  BY <1>1, OthersStill
<1>3. \A k \in Keys : ~Stray(w, k)
  BY <1>1 DEF Stray, Reacts, HasJob, Busy
<1>4. MarkInv(w)'
  <2>1. ASSUME NEW k \in Keys, StartSync(w, k) PROVE MarkInv(w)'
    BY <2>1, StartingSync, IdleMarks
  <2>2. ASSUME NEW id \in JobIds, StartReply(w, id) \/ StartReactions(w, id) PROVE MarkInv(w)'
    <3>1. worker'[w].pc \in {"replying", "looking"}
      BY <2>2, Starting
    <3>2. QED
      BY <3>1, OwesNothing
  <2>3. QED
    BY <2>1, <2>2
<1>5. QED
  BY <1>1, <1>2, <1>3, <1>4, KeptStaysOpen, OneMarks

LEMMA EndingMarks ==
  ASSUME Lag = 0, ReactionsInv, Base, NEW w \in Workers, OpenKept,
         EndSync(w) \/ FinishLost(w) \/ Requeue(w) \/ Crash(w)
  PROVE  MarksInv'
<1>1. \/ GoesIdle(w) /\ Moves(w, Idle)
      \/ GoesOn(w) /\ worker'[w].pc = "lost"
  BY Ending
<1>2. MarkInv(w)'
  BY <1>1, IdleMarks, OwesNothing
<1>3. wire' = wire /\ marks' = marks /\ late \subseteq late' /\ \E s : Moves(w, s)
  BY DEF EndSync, FinishLost, Requeue, Crash, OnlyStore, Only, slack
<1>4. \A v \in Workers : v # w => Still(v)
  BY <1>3, OthersStill
<1>5. ASSUME NEW k \in Keys, Stray(w, k) PROVE GoesOn(w) \/ WillFollow(k)' \/ k \in late'
  <2>1. Reacts(w) /\ worker[w].key = k /\ ~HoldsJob(w)
    BY <1>5 DEF Stray
  <2>2. CASE EndSync(w)
    BY <2>1, <2>2 DEF EndSync, Reacts, HasJob
  <2>3. CASE FinishLost(w)
    <3>1. outbox[worker[w].id].reactions
      BY <2>1 DEF Reacts
    <3>2. CASE GoesIdle(w) /\ Moves(w, Idle)
      <4>1. worker'[w].pc = "idle"
        BY <3>2, IdleType DEF Moves, ReactionsInv, ReactionsTypeOK
      <4>2. Moves(w, [worker[w] EXCEPT !.pc = "lost"])
        BY <2>3, <3>1 DEF FinishLost, Only
      <4>3. worker'[w].pc = "lost"
        BY <4>2 DEF Moves, ReactionsInv, ReactionsTypeOK, WorkerState
      <4>4. QED
        BY <4>1, <4>3
    <3>3. QED
      BY <1>1, <3>2
  <2>4. CASE Requeue(w)
    <3>1. Exists(threads[k]) /\ RoomFor(outbox, k) /\ outbox' = WithReactions(outbox, k)
      BY <2>1, <2>4 DEF Requeue, QueueReactions
    <3>2. Followed(outbox', k)
      BY <3>1, RequestSteps DEF ReactionsInv, StoreInv, OutboxInv
    <3>3. QED
      BY <3>2 DEF WillFollow
  <2>5. CASE Crash(w)
    BY <2>1, <2>5 DEF Crash, Reacts
  <2>6. QED
    BY <2>2, <2>3, <2>4, <2>5
<1>6. QED
  BY <1>2, <1>3, <1>4, <1>5, KeptStaysOpen, OneMarks

LEMMA SettleOpen ==
  ASSUME TypeOK, NEW id \in JobIds, NEW j \in Job, NEW over \in BOOLEAN, Settle(id, j, over),
         outbox[id].present, SameJob(outbox[id], j)
  PROVE  /\ \A m \in JobIds : m # id /\ Open(outbox[m]) => Open(outbox'[m])
         /\ ~(over /\ outbox[id].updateTracking) => outbox'[id] = j
<1> DEFINE box == [outbox EXCEPT ![id] = j]
<1>1. outbox \in [JobIds -> Job] /\ j.key \in Keys
  BY DEF TypeOK, Job
<1>2. box \in [JobIds -> Job] /\ box[id] = j /\ \A m \in JobIds : m # id => box[m] = outbox[m]
  BY <1>1, EditAt
<1>3. \/ ~(over /\ j.updateTracking) /\ outbox' = box
      \/ over /\ j.updateTracking /\ RoomFor(box, j.key) /\ outbox' = WithReactions(box, j.key)
  BY SettleCases
<1> HIDE DEF box
<1>4. CASE outbox' = box
  BY <1>2, <1>4
<1>5. CASE over /\ j.updateTracking /\ RoomFor(box, j.key) /\ outbox' = WithReactions(box, j.key)
  <2>1. \A m \in JobIds : Joined(box[m], outbox'[m], j.key)
    BY <1>1, <1>2, <1>5, RequestJoins
  <2>2. ASSUME NEW m \in JobIds, m # id, Open(outbox[m]) PROVE Open(outbox'[m])
    BY <1>2, <2>1, <2>2 DEF Joined, Open
  <2>3. j.updateTracking = outbox[id].updateTracking
    BY DEF SameJob
  <2>4. QED
    BY <1>5, <2>2, <2>3
<1>6. QED
  BY <1>3, <1>4, <1>5

(* A finished reconciliation that is not repeated has marked its thread. *)
LEMMA FinishOpens ==
  ASSUME ReactionsInv, Base, NEW w \in Workers, Finish(w), NEW k \in Keys
  PROVE  StaysOpen(k)
<1> DEFINE id == worker[w].id
           token == worker[w].token
<1>1. /\ HasJob(w) /\ id \in JobIds /\ HoldsJob(w) /\ JobInv(w)
      /\ \/ worker[w].error = "" /\ CompleteNotification(id, token, clock)
         \/ FailNotification(id, token, clock, FALSE, clock)
         \/ FailNotification(id, token, clock + Backoff, FALSE, clock)
         \/ FailNotification(id, token, 0, TRUE, clock)
  BY OutcomeStores DEF ReactionsInv, HoldersInv, Finish
<1>2. /\ outbox[id] \in Job /\ TypeOK /\ clock \in Nat /\ Backoff \in Nat
      /\ outbox[id].present /\ outbox[id].key = worker[w].key /\ JobSound(id, outbox[id], threads)
  BY <1>1, StoreAssumption DEF ReactionsInv, StoreInv, OutboxInv, JobsSound, TypeOK, JobInv
<1>3. PICK j \in Job, over \in BOOLEAN :
        /\ Settle(id, j, over) /\ SameJob(outbox[id], j)
        /\ \/ worker[w].error = ""
           \/ Open(outbox[id]) => Open(j)
           \/ j.permanent
  <2>1. CASE worker[w].error = "" /\ CompleteNotification(id, token, clock)
    <3> DEFINE j == JobCompleted(outbox[id])
    <3>1. j \in Job /\ SameJob(outbox[id], j)
      BY <1>2 DEF JobCompleted, SameJob, Job
    <3>2. Settle(id, j, TRUE)
      BY <2>1 DEF CompleteNotification
    <3> HIDE DEF j
    <3>3. QED
      BY <2>1, <3>1, <3>2
  <2>2. ASSUME NEW at \in Nat, NEW permanent \in BOOLEAN, FailNotification(id, token, at, permanent, clock)
        PROVE  \E j \in Job, over \in BOOLEAN :
                 /\ Settle(id, j, over) /\ SameJob(outbox[id], j)
                 /\ (Open(outbox[id]) => Open(j)) \/ j.permanent
    <3> DEFINE j == JobFailed(outbox[id], at, permanent)
    <3>1. j \in Job /\ SameJob(outbox[id], j) /\ j.permanent = permanent
      BY <1>2, <2>2 DEF JobFailed, SameJob, Job
    <3>2. Settle(id, j, permanent)
      BY <2>2 DEF FailNotification
    <3>3. ~permanent => (Open(outbox[id]) => Open(j))
      BY <1>2 DEF JobFailed, Open, Job
    <3> HIDE DEF j
    <3>4. QED
      BY <2>2, <3>1, <3>2, <3>3
  <2>3. clock + Backoff \in Nat /\ 0 \in Nat
    BY <1>2
  <2>4. QED
    BY <1>1, <1>2, <2>1, <2>2, <2>3
<1>4. /\ \A m \in JobIds : m # id /\ Open(outbox[m]) => Open(outbox'[m])
      /\ ~(over /\ outbox[id].updateTracking) => outbox'[id] = j
  BY <1>1, <1>2, <1>3, SettleOpen
<1>5. SUFFICES ASSUME NEW m \in ReactionIds, Open(outbox[m]), outbox[m].key = k
               PROVE  OpenJob(k)' \/ Parked(k)' \/ Right(k) \/ Excused(k)
  BY DEF StaysOpen, OpenJob
<1>6. m \in JobIds /\ outbox'[m].key = k
  BY <1>5 DEF JobIds, Open, Base, JobsKept, SameJob
<1>7. CASE m # id
  BY <1>4, <1>5, <1>6, <1>7 DEF OpenJob
<1>8. CASE m = id
  <2>1. outbox[id].reactions /\ ~outbox[id].updateTracking
    BY <1>2, <1>5, <1>8 DEF JobSound
  <2>2. outbox'[m] = j
    BY <1>4, <1>8, <2>1
  <2>3. CASE worker[w].error = ""
    <3>1. Reacts(w) /\ worker[w].key = k /\ worker[w].pc = "ended"
      BY <1>1, <1>2, <1>5, <1>8, <2>1 DEF Reacts, Finish
    <3>2. Excused(worker[w].key) \/ Progress(w)
      BY <1>1, <3>1 DEF ReactionsInv, MarksInv, MarkInv
    <3>3. QED
      BY <2>3, <3>1, <3>2 DEF Progress
  <2>4. CASE Open(outbox[id]) => Open(j)
    BY <1>5, <1>6, <1>8, <2>2, <2>4 DEF OpenJob
  <2>5. CASE j.permanent
    BY <1>5, <1>6, <2>2, <2>5 DEF Parked
  <2>6. QED
    BY <1>3, <2>3, <2>4, <2>5
<1>9. QED
  BY <1>7, <1>8

LEMMA FinishingMarks ==
  ASSUME Lag = 0, ReactionsInv, Base, NEW w \in Workers, Finish(w)
  PROVE  MarksInv'
<1>1. wire' = wire /\ marks' = marks /\ late' = late /\ Moves(w, Idle) /\ HoldsJob(w)
  BY DEF Finish, OnlyStore, slack
<1>2. GoesIdle(w) /\ MarkInv(w)'
  BY <1>1, GoingIdle, IdleMarks
<1>3. \A v \in Workers : v # w => Still(v)
  BY <1>1, OthersStill
<1>4. \A k \in Keys : ~Stray(w, k)
  BY <1>1 DEF Stray
<1>5. QED
  BY <1>1, <1>2, <1>3, <1>4, FinishOpens, OneMarks

LEMMA NextMarks ==
  ASSUME Lag = 0, ReactionsInv, Base, [ReactionsNext]_reactionVars
  PROVE  MarksInv'
<1>1. CASE \E w \in Workers : Finish(w)
  BY <1>1, FinishingMarks
<1>2. CASE \A w \in Workers : ~Finish(w)
  <2>1. OpenKept
    BY <1>2, NextOpen
  <2>2. ASSUME \/ \E e \in Events : Receive(e)
               \/ \E w \in Workers : Heartbeat(w)
               \/ \E r \in wire : Lose(r)
               \/ Wait \/ UNCHANGED reactionVars
        PROVE  MarksInv'
    <3>1. worker' = worker /\ wire' \subseteq wire /\ marks' = marks /\ late' = late
      BY <2>2 DEF Receive, Heartbeat, Lose, Wait, OnlyStore, slack, reactionVars
    <3>2. QED
      BY <2>1, <3>1, CalmMarks
  <2>3. QED
    BY <1>2, <2>1, <2>2, DeliveringMarks, ListingMarks, ApplyingMarks, StartingMarks, EndingMarks
       DEF ReactionsNext, Reply, Sync, React, ReactionStep
<1>3. QED
  BY <1>1, <1>2

-----------------------------------------------------------------------------
(* The invariant holds, and what follows from it.                            *)

LEMMA InitReactions ==
  ASSUME ReactionsInit
  PROVE  ReactionsInv
<1>1. Init /\ StoreInv
  <2>1. Init
    BY DEF ReactionsInit
  <2>2. TypeOK /\ WorkInv /\ EventInv /\ Commands /\ OutboxInv
    BY <2>1, InitType, InitWork, InitEvents, InitOutbox
  <2>3. NewestInv
    BY <2>1 DEF Init, NewestInv, Recorded
  <2>4. clock # 0
    <3>1. Lag \in Nat
      BY StoreAssumption
    <3>2. QED
      BY <2>1, <3>1 DEF Init
  <2>5. QED
    BY <2>1, <2>2, <2>3, <2>4 DEF StoreInv
<1>2. \A w \in Workers : worker[w] = Idle /\ ~HasJob(w) /\ worker[w].pc # "syncing"
  BY <1>1, IdleType DEF ReactionsInit, HasJob
<1>3. ReactionsTypeOK
  BY <1>1, IdleType DEF ReactionsInit, ReactionsTypeOK
<1>4. \A k \in Keys : /\ threads[k].lastMessageTS = 0 /\ threads[k].lastSyncedTS = 0
                      /\ ~Exists(threads[k]) /\ Marks(threads[k]) = <<FALSE, 0, 0, NoText>>
  BY <1>1 DEF Init, NoThread, Exists, Marks
<1>5. DatedInv
  BY <1>4 DEF DatedInv, ThreadDated, Dated
<1>6. HoldersInv /\ WireInv
  BY <1>2 DEF HoldersInv, WireInv, OneHolder, SyncInv, JobInv, ReactionsInit
<1>7. SpentInv
  BY <1>1 DEF Init, SpentInv, Spent, NoJob, NewJob
<1>8. ASSUME NEW k \in Keys PROVE Right(k)
  <2>1. Marks(threads[k])[1] = FALSE /\ Marks(threads[k])[2] = 0 /\ Marks(threads[k])[4] = NoText
    <3>1. Marks(threads[k]) = <<FALSE, 0, 0, NoText>>
      BY <1>4
    <3> HIDE DEF NoText
    <3>2. QED
      BY <3>1
  <2>2. 0 \notin Messages(k)
    BY MessagesDated
  <2>3. Desired(k, Marks(threads[k])) = {target \in {[ts |-> 0, name |-> "success"]} : target.ts \in Messages(k)}
    BY <2>1, Zenon DEF Desired
  <2>4. Desired(k, Marks(threads[k])) = {}
    BY <2>2, <2>3
  <2>5. QED
    BY <2>4 DEF Right, ReactionsInit
<1>9. MarksInv
  BY <1>2, <1>8 DEF MarksInv, Marked, MarkInv, Reacts
<1>10. QED
  BY <1>1, <1>3, <1>5, <1>6, <1>7, <1>9 DEF ReactionsInv

LEMMA NextReactions ==
  ASSUME Lag = 0, ReactionsInv, [ReactionsNext]_reactionVars
  PROVE  ReactionsInv'
<1>1. Base
  BY StepBase
<1>2. HoldersInv' /\ WireInv'
  BY <1>1, NextHolders
<1>3. MarksInv'
  BY <1>1, NextMarks
<1>4. QED
  BY <1>1, <1>2, <1>3 DEF Base, ReactionsInv

LEMMA ReactionsInvariant == ASSUME Lag = 0 PROVE ReactionsSpec => []ReactionsInv
<1>1. ReactionsInit => ReactionsInv
  BY InitReactions
<1>2. ReactionsInv /\ [ReactionsNext]_reactionVars => ReactionsInv'
  BY NextReactions
<1>3. QED
  BY <1>1, <1>2, PTL DEF ReactionsSpec

(* However replies, synchronizations and reconciliations interleave, fail and  *)
(* crash, deliverReactions and finishNotification use the store as its          *)
(* operations allow: what is proved of the store holds under these workers.     *)
THEOREM ReactionsImplementStore == ASSUME Lag = 0 PROVE ReactionsSpec => Spec
<1>1. ReactionsInit => Init
  BY DEF ReactionsInit
<1>2. ReactionsInv /\ [ReactionsNext]_reactionVars => [Next]_vars
  BY StepStores DEF ReactionsInv
<1>3. QED
  BY <1>1, <1>2, ReactionsInvariant, PTL DEF ReactionsSpec, Spec

(* A thread at rest shows the reactions of its record: reconcileReactions       *)
(* checks again after its last change, and a worker that finds its lease lost   *)
(* queues another check, so nothing a slower worker did to the message stays.   *)
THEOREM QuietThreadsAreMarked == ASSUME Lag = 0 PROVE ReactionsSpec => []QuietThreadIsMarked
<1>1. ReactionsInv => QuietThreadIsMarked
  <2>1. SUFFICES ASSUME ReactionsInv, NEW k \in Keys, Quiet(k), ~Parked(k), k \notin late
                 PROVE  Right(k)
    BY DEF QuietThreadIsMarked, Right
  <2>2. ~WillFollow(k)
    BY <2>1 DEF Quiet, WillFollow, Followed, Follows
  <2>3. ~OpenJob(k)
    BY <2>1 DEF Quiet, OpenJob, JobIds
  <2>4. ~Strays(k)
    BY <2>1 DEF Quiet, Strays, Stray, Reacts, HasJob, Busy
  <2>5. Marked(k)
    BY <2>1 DEF ReactionsInv, MarksInv
  <2>6. QED
    BY <2>1, <2>2, <2>3, <2>4, <2>5 DEF Marked, Excused
<1>2. QED
  BY <1>1, ReactionsInvariant, PTL
=============================================================================
