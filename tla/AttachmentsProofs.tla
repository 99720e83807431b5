-------------------------- MODULE AttachmentsProofs --------------------------
(***************************************************************************)
(* Proofs about Attachments, for any threads, files, workers, faults and   *)
(* times.  The workers are callers of Uploads, so all that is proved of    *)
(* free callers holds of them; CopiesInv, the inductive invariant, ties    *)
(* the locals of every pass to what the store granted it and has settled.  *)
(***************************************************************************)
EXTENDS Attachments, UploadsProofs

(* The control point, the locals and the history of a pass. *)
PassStates == Copying \cup {"idle", "files", "storing", "failing"}
PassErrors == {"", "temporary", "permanent", "cancelled", "lost"}
Pass == [pc: PassStates, lease: Lease \cup {NoLease}, attempts: Nat, todo: SUBSET Files,
         retry: BOOLEAN, claim: UploadClaim \cup {NoClaim}, tries: Nat,
         copy: Copies \cup {NoText}, error: PassErrors]

PassTypeOK ==
  /\ worker \in [Workers -> Pass]
  /\ folder \in [Files -> Copies \cup {NoText}]
  /\ wire \subseteq [worker: Workers, claim: UploadClaim]
  /\ rejected \subseteq Files /\ troubled \subseteq Files
  /\ spent \subseteq Keys /\ unrecorded \subseteq Keys \X Files

(* The store as its free callers keep it. *)
StoreBase == AllTypeOK /\ WorkInv /\ UploadInv /\ clock # 0

(* What lets a thread be done with a file: what NoFileForgotten says. *)
Answered(k, f) ==
  \/ uploads[f].state \in {"complete", "failed"}
  \/ <<k, f>> \in unrecorded
  \/ \E j \in Keys \ {k} : reopened[f][j] > 0

(* While its lease is live, a pass has an answer for each file it has left behind. *)
Visited(w) ==
  Held(w) => \/ worker[w].retry \/ worker[w].attempts >= MaxAttempts
             \/ \A f \in Files \ worker[w].todo : Answered(worker[w].lease.key, f)

(* A worker acts under a lease and a claim that the store has granted. *)
PassInv(w) ==
  /\ Busy(w) => worker[w].lease \in leases /\ Visited(w)
  /\ worker[w].pc \in Copying \cup {"storing", "failing"} =>
       worker[w].claim \in uploadClaims
  /\ worker[w].pc = "storing" => worker[w].copy # NoText
  /\ worker[w].pc = "failing" => worker[w].error # ""
  /\ (worker[w].pc = "failing" /\ worker[w].error \in {"temporary", "permanent"})
       => File(w) \in troubled

SameLease(v, w) ==
  worker[v].lease.key = worker[w].lease.key /\ worker[v].lease.token = worker[w].lease.token
OnePassPerLease ==
  \A v, w \in Workers : (Busy(v) /\ Busy(w) /\ SameLease(v, w)) => v = w

CopiesInv ==
  /\ StoreBase /\ PassTypeOK
  /\ \A w \in Workers : PassInv(w)
  /\ OnePassPerLease
  /\ FailedForCause /\ NoFileForgotten

(* Nothing that could write is taken away, and no lease comes to life again. *)
LiveStays ==
  \A l \in leases : Validate(threads'[l.key], l, clock') => Validate(threads[l.key], l, clock)
Grows ==
  /\ leases \subseteq leases' /\ uploadClaims \subseteq uploadClaims'
  /\ troubled \subseteq troubled' /\ LiveStays
StaysDone(k) == threads'[k].state = "up-to-date" => threads[k].state = "up-to-date"
AnswersKept(k) == \A f \in Files : Answered(k, f) => Answered(k, f)'

-----------------------------------------------------------------------------
(* Threads: every operation is made at the time of the clock. *)

LEMMA ClockNow ==
  ASSUME StoreBase
  PROVE  clock \in Nows /\ clock \in Nat /\ clock # 0
<1>1. clock \in Nat /\ clock # 0 /\ Lag \in Nat
  BY StoreAssumption DEF StoreBase, AllTypeOK, TypeOK
<1>2. QED
  BY <1>1 DEF Nows

(* A lease that the event leaves is left its expiry. *)
LEMMA QueuedLease ==
  ASSUME NEW t \in Thread, NEW now \in Nat
  PROVE  LET r == Queued(t, now) IN
         /\ r.leaseToken # 0 => r.leaseExpires = t.leaseExpires
         /\ r.state = "up-to-date" => t.state = "up-to-date"
<1>1. CASE After(t.leaseExpires, now)
  BY <1>1, QueuedLive
<1>2. CASE ~After(t.leaseExpires, now)
  BY <1>2, QueuedFree
<1>3. QED
  BY <1>1, <1>2

LEMMA CommandedLease ==
  ASSUME NEW t \in Thread, NEW e \in Events, NEW now \in Nat, e.command \in TrackingCommands
  PROVE  LET r == Commanded(t, e, now) IN
         /\ r.leaseToken # 0 => r.leaseExpires = t.leaseExpires
         /\ r.state = "up-to-date" => t.state = "up-to-date"
<1> DEFINE s == [t EXCEPT !.lastCommandTS = e.messageTS]
<1>0. e.messageTS \in Nat
  BY StoreAssumption DEF Event
<1>1. s \in Thread /\ s.leaseExpires = t.leaseExpires /\ s.state = t.state
  BY <1>0 DEF Thread
<1> HIDE DEF s
<1>2. CASE e.command = "sync"
  <2>1. Commanded(t, e, now) = Synced(s, e, now)
    BY <1>2 DEF Commanded, s
  <2>2. CASE s.active
    <3>1. Synced(s, e, now) = [Queued(s, now) EXCEPT !.attachmentRetryTS = e.messageTS]
      BY <2>2 DEF Synced
    <3>2. Queued(s, now) \in Thread
      BY <1>1, QueuedType
    <3>3. /\ Synced(s, e, now).leaseToken = Queued(s, now).leaseToken
          /\ Synced(s, e, now).leaseExpires = Queued(s, now).leaseExpires
          /\ Synced(s, e, now).state = Queued(s, now).state
      BY <3>1, <3>2 DEF Thread
    <3>4. QED
      BY <1>1, <2>1, <3>3, QueuedLease
  <2>3. CASE ~s.active
    BY <1>1, <2>1, <2>3 DEF Synced
  <2>4. QED
    BY <2>2, <2>3
<1>3. CASE e.command = "untrack"
  <2>1. Commanded(t, e, now) = Untracked(s)
    BY <1>3 DEF Commanded, s
  <2>2. CASE s.active
    <3>1. Untracked(s).leaseToken = 0 /\ Untracked(s).state = "stopped"
      BY <1>1, <2>2 DEF Untracked, ClearLease, Thread
    <3>2. QED
      BY <2>1, <3>1
  <2>3. CASE ~s.active
    BY <1>1, <2>1, <2>3 DEF Untracked
  <2>4. QED
    BY <2>2, <2>3
<1>4. CASE e.command = "resume"
  <2>1. Commanded(t, e, now) = Resumed(s)
    BY <1>4 DEF Commanded, s
  <2>2. CASE ~s.active
    <3>1. Resumed(s).leaseToken = 0 /\ Resumed(s).state = "pending"
      BY <1>1, <2>2 DEF Resumed, ClearLease, Thread
    <3>2. QED
      BY <2>1, <3>1
  <2>3. CASE s.active
    BY <1>1, <2>1, <2>3 DEF Resumed
  <2>4. QED
    BY <2>2, <2>3
<1>5. QED
  BY <1>2, <1>3, <1>4 DEF TrackingCommands

LEMMA EffectLease ==
  ASSUME TypeOK, NEW e \in Events, NEW now \in Nat
  PROVE  LET r == Effect(e, now)
             t == threads[e.key] IN
         /\ r.leaseToken # 0 => r.leaseExpires = t.leaseExpires
         /\ r.state = "up-to-date" => t.state = "up-to-date"
<1> DEFINE t == threads[e.key]
           r == Effect(e, now)
<1>1. t \in Thread
  BY StoreAssumption DEF TypeOK, Event
<1>2. CASE NewThread(e)
  <2>1. r = Linked(e)
    <3>1. ~NewMessage(e) /\ ~Applies(e)
      BY <1>2 DEF NewThread, NewMessage, Applies
    <3>2. QED
      BY <1>2, <3>1 DEF Effect
  <2>2. r.leaseToken = 0 /\ r.state = "pending"
    BY <2>1 DEF Linked, NoThread
  <2>3. QED
    BY <2>2
<1>3. CASE ~NewThread(e) /\ NewMessage(e)
  <2>1. r = Messaged(t, e, now)
    <3>1. ~Applies(e)
      BY <1>3 DEF NewMessage, Applies
    <3>2. QED
      BY <1>3, <3>1 DEF Effect
  <2>2. Queued(t, now) \in Thread
    BY <1>1, QueuedType
  <2>3. /\ r.leaseToken = Queued(t, now).leaseToken
        /\ r.leaseExpires = Queued(t, now).leaseExpires
        /\ r.state = Queued(t, now).state
    BY <2>1, <2>2 DEF Messaged, Thread
  <2>4. QED
    BY <1>1, <2>3, QueuedLease
<1>4. CASE ~NewThread(e) /\ ~NewMessage(e) /\ Applies(e)
  <2>1. r = Commanded(t, e, now) /\ e.command \in TrackingCommands
    BY <1>4 DEF Effect, Applies
  <2>2. QED
    BY <1>1, <2>1, CommandedLease
<1>5. CASE ~NewThread(e) /\ ~NewMessage(e) /\ ~Applies(e)
  BY <1>5 DEF Effect
<1>6. QED
  BY <1>2, <1>3, <1>4, <1>5

(* A record that keeps its lease, whose expiry is kept or was ahead already. *)
LEMMA PutLive ==
  ASSUME StoreBase, NEW k \in Keys, NEW r, Put(k, r), Kept(threads[k], r), clock' = clock,
         r.leaseToken # 0 => \/ r.leaseExpires = threads[k].leaseExpires
                             \/ After(threads[k].leaseExpires, clock)
  PROVE  LiveStays
<1>1. threads'[k] = r /\ \A j \in Keys \ {k} : threads'[j] = threads[j]
  BY PutThread DEF StoreBase, AllTypeOK
<1>2. \A l \in leases : l.key \in Keys
  BY DEF StoreBase, AllTypeOK, TypeOK, Lease
<1>3. SUFFICES ASSUME NEW l \in leases, Validate(threads'[l.key], l, clock)
               PROVE  Validate(threads[l.key], l, clock)
  BY DEF LiveStays
<1>4. CASE l.key # k
  BY <1>1, <1>2, <1>3, <1>4
<1>5. CASE l.key = k
  BY <1>1, <1>3, <1>5 DEF Validate, Kept
<1>6. QED
  BY <1>4, <1>5

LEMMA LeaseFacts ==
  ASSUME StoreBase, NEW l \in leases
  PROVE  /\ l \in Lease /\ l.key \in Keys /\ threads[l.key] \in Thread
         /\ Sound(threads[l.key]) /\ l.generation <= threads[l.key].requested
         /\ l.token <= issued[l.key]
BY DEF StoreBase, AllTypeOK, TypeOK, Lease, WorkInv, KeyInv, LeaseInv

LEMMA RecordLive ==
  ASSUME StoreBase, NEW e \in Events, Record(e, clock)
  PROVE  LiveStays /\ leases' = leases /\ \A k \in Keys : StaysDone(k)
<1>1. clock \in Nat /\ TypeOK /\ e.key \in Keys /\ Sound(threads[e.key])
  BY ClockNow, StoreAssumption DEF StoreBase, AllTypeOK, WorkInv, KeyInv, Event
<1>2. Kept(threads[e.key], Effect(e, clock))
  BY <1>1, EffectSound
<1>3. /\ Effect(e, clock).leaseToken # 0
           => Effect(e, clock).leaseExpires = threads[e.key].leaseExpires
      /\ Effect(e, clock).state = "up-to-date" => threads[e.key].state = "up-to-date"
  BY <1>1, EffectLease
<1>4. Put(e.key, Effect(e, clock)) /\ clock' = clock /\ leases' = leases
  BY DEF Record, granted
<1>5. LiveStays
  BY <1>1, <1>2, <1>3, <1>4, PutLive
<1>6. \A k \in Keys : StaysDone(k)
  BY <1>1, <1>3, <1>4, PutThread DEF StaysDone
<1>7. QED
  BY <1>4, <1>5, <1>6

LEMMA ClaimLive ==
  ASSUME StoreBase, NEW k \in Keys, Claim(k, clock)
  PROVE  LiveStays /\ leases' = leases \cup {NewLease(k)} /\ \A j \in Keys : StaysDone(j)
<1>1. clock' = clock /\ leases' = leases \cup {NewLease(k)}
  BY DEF Claim
<1>2. threads[k] \in Thread /\ issued[k] \in Nat
  BY DEF StoreBase, AllTypeOK, TypeOK
<1>3. /\ threads'[k] = Claimed(threads[k], issued[k] + 1, clock)
      /\ \A j \in Keys \ {k} : threads'[j] = threads[j]
  BY PutThread DEF Claim, StoreBase, AllTypeOK
<1>4. threads'[k].leaseToken = issued[k] + 1 /\ threads'[k].state = "running"
  BY <1>2, <1>3 DEF Claimed, Thread
<1>5. LiveStays
  <2>1. SUFFICES ASSUME NEW l \in leases, Validate(threads'[l.key], l, clock)
                 PROVE  Validate(threads[l.key], l, clock)
    BY <1>1 DEF LiveStays
  <2>2. l.key \in Keys /\ l.token \in Nat /\ l.token <= issued[l.key]
    BY LeaseFacts DEF Lease
  <2>3. l.key # k
    BY <1>2, <1>4, <2>1, <2>2 DEF Validate
  <2>4. QED
    BY <1>3, <2>1, <2>2, <2>3
<1>6. \A j \in Keys : StaysDone(j)
  BY <1>3, <1>4 DEF StaysDone
<1>7. QED
  BY <1>1, <1>5, <1>6

LEMMA RenewLive ==
  ASSUME StoreBase, NEW l \in leases, Renew(l, clock)
  PROVE  LiveStays /\ leases' = leases /\ \A k \in Keys : StaysDone(k)
<1> DEFINE t == threads[l.key]
           r == Renewed(t, clock)
<1>1. clock \in Nat /\ l \in Lease /\ l.key \in Keys /\ t \in Thread /\ Sound(t)
  BY ClockNow, LeaseFacts
<1>2. Validate(t, l, clock) /\ Put(l.key, r) /\ clock' = clock /\ leases' = leases
  BY DEF Renew, granted
<1>3. Kept(t, r) /\ r.state = t.state
  BY <1>1, <1>2, RenewedSound
<1>4. After(t.leaseExpires, clock)
  BY <1>2 DEF Validate
<1> HIDE DEF r
<1>5. LiveStays
  BY <1>1, <1>2, <1>3, <1>4, PutLive
<1>6. \A k \in Keys : StaysDone(k)
  BY <1>1, <1>2, <1>3, PutThread DEF StaysDone, StoreBase, AllTypeOK
<1>7. QED
  BY <1>2, <1>5, <1>6

(* The lease that completes or fails is cleared. *)
LEMMA ClearedLive ==
  ASSUME StoreBase, NEW l \in leases, NEW r, Put(l.key, r), clock' = clock,
         Kept(threads[l.key], r), r.leaseToken = 0
  PROVE  /\ LiveStays
         /\ \A k \in Keys \ {l.key} : StaysDone(k)
         /\ threads'[l.key] = r
<1>1. l.key \in Keys
  BY LeaseFacts
<1>2. QED
  BY <1>1, PutLive, PutThread DEF StaysDone, StoreBase, AllTypeOK

LEMMA CompleteLive ==
  ASSUME StoreBase, NEW l \in leases, NEW ts \in Nat, NEW at \in Nat, Complete(l, ts, at, clock)
  PROVE  /\ LiveStays /\ leases' = leases /\ Validate(threads[l.key], l, clock)
         /\ \A k \in Keys \ {l.key} : StaysDone(k)
         /\ at # 0 => threads'[l.key].state # "up-to-date"
<1> DEFINE t == threads[l.key]
           r == Completed(t, l, ts, at)
<1>1. clock \in Nat /\ l \in Lease /\ t \in Thread /\ Sound(t) /\ l.generation <= t.requested
  BY ClockNow, LeaseFacts
<1>2. Validate(t, l, clock) /\ Put(l.key, r) /\ clock' = clock /\ leases' = leases
  BY DEF Complete, granted
<1>3. Kept(t, r)
  BY <1>1, <1>2, CompletedSound
<1>4. r.leaseToken = 0 /\ (at # 0 => r.state = "retrying")
  BY <1>1 DEF Completed, ClearLease, Thread
<1> HIDE DEF r
<1>5. QED
  BY <1>2, <1>3, <1>4, ClearedLive

LEMMA FailLive ==
  ASSUME StoreBase, NEW l \in leases, NEW error \in Errors, NEW at \in Nat,
         NEW permanent \in BOOLEAN, Fail(l, error, at, permanent, clock)
  PROVE  LiveStays /\ leases' = leases /\ \A k \in Keys : StaysDone(k)
<1> DEFINE t == threads[l.key]
           r == Failed(t, l, error, at, permanent)
<1>1. clock \in Nat /\ l \in Lease /\ t \in Thread /\ Sound(t) /\ l.generation <= t.requested
  BY ClockNow, LeaseFacts
<1>2. Validate(t, l, clock) /\ Put(l.key, r) /\ clock' = clock /\ leases' = leases
  BY DEF Fail, granted
<1>3. Kept(t, r)
  BY <1>1, <1>2, FailedSound
<1>4. r.leaseToken = 0 /\ r.state # "up-to-date"
  BY <1>1 DEF Failed, ClearLease, Thread
<1> HIDE DEF r
<1>5. QED
  BY <1>2, <1>3, <1>4, ClearedLive DEF StaysDone

LEMMA TickLive ==
  ASSUME StoreBase, Tick
  PROVE  LiveStays /\ leases' = leases /\ \A k \in Keys : StaysDone(k)
<1>1. threads' = threads /\ leases' = leases /\ clock' = clock + 1 /\ clock \in Nat
  BY ClockNow DEF Tick, durable, granted
<1>2. \A l \in leases : threads[l.key].leaseExpires \in Nat
  BY LeaseFacts DEF Thread
<1>3. QED
  BY <1>1, <1>2 DEF LiveStays, Validate, After, StaysDone

-----------------------------------------------------------------------------
(* Files: an answer is kept, but for a claim by the thread that was given it. *)

LEMMA SameAnswers ==
  ASSUME UNCHANGED <<uploads, reopened>>, unrecorded \subseteq unrecorded'
  PROVE  \A k \in Keys : AnswersKept(k)
BY DEF AnswersKept, Answered

LEMMA ClaimUploadAnswers ==
  ASSUME StoreBase, NEW l \in leases, NEW g \in Files, ClaimUpload(l, g, clock),
         unrecorded \subseteq unrecorded'
  PROVE  /\ \A k \in Keys \ {l.key} : AnswersKept(k)
         /\ \A k \in Keys, f \in Files \ {g} : Answered(k, f) => Answered(k, f)'
         /\ \A f \in Files : uploads'[f].state = "failed" => uploads[f].state = "failed"
<1>1. /\ uploads \in [Files -> Upload] /\ reopened \in [Files -> [Keys -> Nat]]
      /\ l.key \in Keys /\ threads[l.key] \in Thread /\ drawn[g] + 1 \in Nat \ {0} /\ clock \in Nat
  BY ClockNow, LeaseFacts DEF StoreBase, AllTypeOK, UploadsTypeOK
<1>2. UploadMeaningOf(uploads[g]) /\ uploads[g].hubspotID = NoText
  BY DEF ClaimUpload, UploadClaimable, StoreBase, UploadInv
<1>3. uploads[g].state # "complete"
  BY <1>2 DEF UploadMeaningOf
<1>4. \A f \in Files \ {g} : uploads'[f] = uploads[f]
  BY <1>1 DEF ClaimUpload
<1>5. uploads'[g].state = "running"
  BY <1>1 DEF ClaimUpload, ClaimedUpload, Upload
<1>6. \A f \in Files, j \in Keys : reopened[f][j] > 0 => reopened'[f][j] > 0
  BY <1>1 DEF ClaimUpload
<1>7. uploads[g].state = "failed" => reopened'[g][l.key] > 0
  BY <1>1 DEF ClaimUpload
<1>8. \A k \in Keys \ {l.key} : AnswersKept(k)
  <2>1. SUFFICES ASSUME NEW k \in Keys \ {l.key}, NEW f \in Files, Answered(k, f)
                 PROVE  Answered(k, f)'
    BY DEF AnswersKept
  <2>2. CASE f = g /\ uploads[g].state = "failed"
    <3>1. l.key \in Keys \ {k}
      BY <1>1
    <3>2. QED
      BY <1>7, <2>2, <3>1 DEF Answered
  <2>3. CASE ~(f = g /\ uploads[g].state = "failed")
    BY <1>3, <1>4, <1>6, <2>1, <2>3 DEF Answered
  <2>4. QED
    BY <2>2, <2>3
<1>9. \A k \in Keys, f \in Files \ {g} : Answered(k, f) => Answered(k, f)'
  BY <1>4, <1>6 DEF Answered
<1>10. QED
  BY <1>4, <1>5, <1>8, <1>9

(* Only a running upload is written by its claim. *)
LEMMA ReplaceAnswers ==
  ASSUME StoreBase, NEW c \in uploadClaims, NEW u, Replace(c, u, clock),
         unrecorded \subseteq unrecorded'
  PROVE  /\ \A k \in Keys : AnswersKept(k)
         /\ uploads'[c.file] = u /\ c.file \in Files
         /\ \A f \in Files \ {c.file} : uploads'[f] = uploads[f]
<1>1. uploads \in [Files -> Upload] /\ c.file \in Files /\ UploadMeaningOf(uploads[c.file])
  BY DEF StoreBase, AllTypeOK, UploadsTypeOK, UploadClaim, UploadInv
<1>2. uploads[c.file].state = "running"
  BY <1>1 DEF Replace, ValidateUpload, UploadMeaningOf
<1>3. uploads' = [uploads EXCEPT ![c.file] = u] /\ reopened' = reopened
  BY DEF Replace
<1>4. uploads'[c.file] = u /\ \A f \in Files \ {c.file} : uploads'[f] = uploads[f]
  BY <1>1, <1>3
<1>5. \A k \in Keys : AnswersKept(k)
  BY <1>2, <1>3, <1>4 DEF AnswersKept, Answered
<1>6. QED
  BY <1>1, <1>4, <1>5

-----------------------------------------------------------------------------
(* What every step has in common. *)

LEMMA BaseStep ==
  ASSUME StoreBase, [UploadsNext]_allVars
  PROVE  StoreBase'
<1>1. AllTypeOK'
  BY UploadsNextType DEF StoreBase
<1>2. UploadInv'
  BY UploadsNextInv DEF StoreBase
<1>3. [Next]_vars
  <2>1. UploadsKept \/ UNCHANGED vars
    BY UploadStepCases DEF StoreBase, Writes, ClaimUpload
  <2>2. QED
    BY <2>1 DEF UploadsKept
<1>4. WorkInv'
  BY <1>3, NextWork DEF StoreBase, AllTypeOK
<1>5. clock' # 0
  BY <1>3, ClockStep DEF StoreBase, AllTypeOK
<1>6. QED
  BY <1>1, <1>2, <1>4, <1>5 DEF StoreBase

KeepsAnswers(v) == (Busy(v) /\ Held(v)) => AnswersKept(worker[v].lease.key)

(* A pass goes on: it keeps its lease and its claim, and has an answer for     *)
(* each file it leaves behind.                                                 *)
LEMMA PassMoves ==
  ASSUME CopiesInv, Grows, NEW w \in Workers, NEW l \in leases, l = worker[w].lease,
         Busy(w), KeepsAnswers(w), worker'[w].lease = l,
         worker'[w].attempts = worker[w].attempts, worker[w].retry => worker'[w].retry,
         \A f \in worker[w].todo \ worker'[w].todo :
           Held(w)' => \/ worker'[w].retry \/ worker[w].attempts >= MaxAttempts
                       \/ Answered(l.key, f)'
  PROVE  Visited(w)'
<1>1. SUFFICES ASSUME Held(w)', ~worker'[w].retry, ~(worker'[w].attempts >= MaxAttempts),
                      NEW f \in Files \ worker'[w].todo
               PROVE  Answered(l.key, f)'
  BY DEF Visited
<1>2. Held(w)
  BY <1>1 DEF Held, Grows, LiveStays
<1>3. CASE f \in worker[w].todo
  BY <1>1, <1>3
<1>4. CASE f \notin worker[w].todo
  <2>1. Visited(w)
    BY DEF CopiesInv, PassInv
  <2>2. Answered(l.key, f)
    BY <1>1, <1>2, <1>4, <2>1 DEF Visited
  <2>3. QED
    BY <1>2, <2>2 DEF KeepsAnswers, AnswersKept
<1>5. QED
  BY <1>3, <1>4

LEMMA PassStays ==
  ASSUME CopiesInv, Grows, NEW v \in Workers, worker'[v] = worker[v], KeepsAnswers(v)
  PROVE  PassInv(v)'
<1>1. Busy(v)' => worker'[v].lease \in leases' /\ Visited(v)'
  <2>1. SUFFICES ASSUME Busy(v) PROVE worker'[v].lease \in leases' /\ Visited(v)'
    BY DEF Busy
  <2>2. PICK l \in leases : l = worker[v].lease
    BY <2>1 DEF CopiesInv, PassInv
  <2>3. QED
    BY <2>1, <2>2, PassMoves DEF Grows
<1>2. PassInv(v)
  BY DEF CopiesInv
<1>3. QED
  BY <1>1, <1>2 DEF PassInv, Grows, Busy, File

LEMMA FailedStays ==
  ASSUME CopiesInv, Grows,
         \A f \in Files : uploads'[f].state = "failed" => uploads[f].state = "failed" \/ f \in troubled'
  PROVE  FailedForCause'
BY DEF CopiesInv, FailedForCause, Grows

LEMMA AnswersStay ==
  ASSUME CopiesInv,
         \A k \in Keys : (threads'[k].state = "up-to-date" /\ k \notin spent') =>
           \/ threads[k].state = "up-to-date" /\ k \notin spent /\ AnswersKept(k)
           \/ \A f \in Files : Answered(k, f)'
  PROVE  NoFileForgotten'
<1>1. SUFFICES ASSUME NEW k \in Keys, NEW f \in Files,
                      threads'[k].state = "up-to-date", k \notin spent'
               PROVE  Answered(k, f)'
  BY DEF NoFileForgotten, Answered
<1>2. CASE threads[k].state = "up-to-date" /\ k \notin spent /\ AnswersKept(k)
  <2>1. Answered(k, f)
    BY <1>2 DEF CopiesInv, NoFileForgotten, Answered
  <2>2. QED
    BY <1>2, <2>1 DEF AnswersKept
<1>3. QED
  BY <1>1, <1>2

(* A step of one worker, under the lease it had or one that is new. *)
LEMMA OnePassSteps ==
  ASSUME CopiesInv, [UploadsNext]_allVars, Grows, NEW w \in Workers,
         PassTypeOK', PassInv(w)',
         \A v \in Workers \ {w} : worker'[v] = worker[v] /\ KeepsAnswers(v),
         \/ ~Busy(w)'
         \/ Busy(w) /\ worker'[w].lease = worker[w].lease
         \/ \A l \in leases : ~(l.key = worker'[w].lease.key /\ l.token = worker'[w].lease.token),
         FailedForCause', NoFileForgotten'
  PROVE  CopiesInv'
<1>1. StoreBase'
  BY BaseStep DEF CopiesInv
<1>2. \A v \in Workers : PassInv(v)'
  BY PassStays
<1>3. \A v \in Workers : Busy(v) => worker[v].lease \in leases
  BY DEF CopiesInv, PassInv
<1>4. OnePassPerLease'
  <2>1. SUFFICES ASSUME NEW u \in Workers, NEW v \in Workers, Busy(u)', Busy(v)',
                        SameLease(u, v)', u # v
                 PROVE  FALSE
    BY DEF OnePassPerLease
  <2>2. ASSUME NEW x \in Workers, NEW y \in Workers, x # y, Busy(x), Busy(y), SameLease(x, y)
        PROVE  FALSE
    BY <2>2 DEF CopiesInv, OnePassPerLease
  <2>3. CASE u # w /\ v # w
    <3>1. worker'[u] = worker[u] /\ worker'[v] = worker[v]
      BY <2>3
    <3>2. Busy(u) /\ Busy(v) /\ SameLease(u, v)
      BY <2>1, <3>1 DEF Busy, SameLease
    <3>3. QED
      BY <2>1, <2>2, <3>2
  <2>4. ASSUME NEW x \in Workers \ {w}, Busy(x)', SameLease(x, w)', Busy(w)' PROVE FALSE
    <3>1. worker'[x] = worker[x] /\ Busy(x) /\ worker[x].lease \in leases
      BY <1>3, <2>4 DEF Busy
    <3>2. CASE Busy(w) /\ worker'[w].lease = worker[w].lease
      <4>1. SameLease(x, w)
        BY <2>4, <3>1, <3>2 DEF SameLease
      <4>2. QED
        BY <2>2, <3>1, <3>2, <4>1
    <3>3. CASE \A l \in leases : ~(l.key = worker'[w].lease.key /\ l.token = worker'[w].lease.token)
      BY <2>4, <3>1, <3>3 DEF SameLease
    <3>4. QED
      BY <2>4, <3>2, <3>3
  <2>5. CASE u = w
    BY <2>1, <2>4, <2>5 DEF SameLease
  <2>6. CASE v = w
    BY <2>1, <2>4, <2>6
  <2>7. QED
    BY <2>3, <2>5, <2>6
<1>5. QED
  BY <1>1, <1>2, <1>4 DEF CopiesInv

-----------------------------------------------------------------------------
(* The moves of a worker. *)

Claiming == Copying \cup {"storing", "failing"}

LEMMA IdleType == Idle \in Pass
<1>1. 0 \in Nat /\ FALSE \in BOOLEAN /\ {} \in SUBSET Files
  OBVIOUS
<1>2. QED
  BY <1>1 DEF Idle, Pass, PassStates, PassErrors

LEMMA MovesFacts ==
  ASSUME PassTypeOK, NEW w \in Workers, NEW m \in Pass, Moves(w, m)
  PROVE  /\ worker' \in [Workers -> Pass] /\ worker'[w] = m
         /\ \A v \in Workers \ {w} : worker'[v] = worker[v]
BY DEF PassTypeOK, Moves

LEMMA NextFileFacts ==
  ASSUME NEW s \in Pass, NEW f, NEW error \in PassErrors
  PROVE  LET m == NextFile(s, f, error) IN
         /\ m \in Pass /\ m.pc = "files" /\ m.lease = s.lease /\ m.attempts = s.attempts
         /\ m.todo = s.todo \ {f} /\ (s.retry => m.retry)
         /\ (error = "temporary" /\ ~m.retry) => s.attempts >= MaxAttempts
<1> DEFINE again == s.retry \/ (error = "temporary" /\ s.attempts < MaxAttempts)
           rest == s.todo \ {f}
           m == [s EXCEPT !.pc = "files", !.todo = rest, !.error = "", !.claim = NoClaim,
                          !.copy = NoText, !.tries = 0, !.retry = again]
<1>1. NextFile(s, f, error) = m
  BY DEF NextFile
<1>2. s.attempts \in Nat /\ MaxAttempts \in Nat
  BY AttachmentsAssumption DEF Pass
<1>3. again \in BOOLEAN /\ rest \in SUBSET Files
  BY DEF Pass
<1>4. (s.retry => again) /\ ((error = "temporary" /\ ~again) => s.attempts >= MaxAttempts)
  BY <1>2
<1>5. /\ "files" \in PassStates /\ "" \in PassErrors /\ 0 \in Nat
      /\ NoClaim \in UploadClaim \cup {NoClaim} /\ NoText \in Copies \cup {NoText}
  BY DEF PassStates, PassErrors
<1> HIDE DEF again, rest
<1>6. m \in Pass
  BY <1>3, <1>5 DEF Pass
<1>7. /\ m.pc = "files" /\ m.lease = s.lease /\ m.attempts = s.attempts
      /\ m.todo = rest /\ m.retry = again
  BY DEF Pass
<1> HIDE DEF m
<1>8. QED
  BY <1>1, <1>4, <1>6, <1>7 DEF rest

LEMMA WorkerFacts ==
  ASSUME CopiesInv, NEW w \in Workers
  PROVE  /\ worker[w] \in Pass
         /\ Busy(w) => worker[w].lease \in leases
         /\ worker[w].pc \in Claiming =>
              worker[w].claim \in uploadClaims /\ worker[w].claim \in UploadClaim /\ File(w) \in Files
         /\ worker[w].pc \in Claiming \cup {"files"} => Busy(w)
<1>1. worker[w] \in Pass /\ PassInv(w)
  BY DEF CopiesInv, PassTypeOK
<1>2. worker[w].pc \in Claiming \cup {"files"} => Busy(w)
  BY DEF Claiming, Copying, Busy
<1>3. uploadClaims \subseteq UploadClaim
  BY DEF CopiesInv, StoreBase, AllTypeOK, UploadsTypeOK
<1>4. QED
  BY <1>1, <1>2, <1>3 DEF PassInv, Claiming, File, UploadClaim

LEMMA PassGoesOn ==
  ASSUME CopiesInv, Grows, NEW w \in Workers, NEW m \in Pass, Busy(w), worker'[w] = m,
         KeepsAnswers(w), m.lease = worker[w].lease, m.attempts = worker[w].attempts,
         worker[w].retry => m.retry,
         \A f \in worker[w].todo \ m.todo :
           Held(w)' => \/ m.retry \/ worker[w].attempts >= MaxAttempts
                       \/ Answered(worker[w].lease.key, f)',
         m.pc \in Claiming => m.claim \in uploadClaims',
         m.pc = "storing" => m.copy # NoText,
         m.pc = "failing" => m.error # "",
         (m.pc = "failing" /\ m.error \in {"temporary", "permanent"}) => m.claim.file \in troubled'
  PROVE  PassInv(w)'
<1>1. PICK l \in leases : l = worker[w].lease
  BY WorkerFacts
<1>2. Visited(w)' /\ l \in leases'
  BY <1>1, PassMoves DEF Grows
<1>3. QED
  BY <1>1, <1>2 DEF PassInv, Claiming, File

LEMMA IdlePass ==
  ASSUME NEW w \in Workers, worker'[w].pc = "idle"
  PROVE  PassInv(w)' /\ ~Busy(w)'
BY DEF PassInv, Busy, Copying

(* What a worker's next state m may be: idle, or its pass, further on. *)
GoesOn(w, m) ==
  \/ m.pc = "idle"
  \/ /\ Busy(w) /\ m.lease = worker[w].lease /\ m.attempts = worker[w].attempts
     /\ worker[w].retry => m.retry
     /\ \A f \in worker[w].todo \ m.todo :
          Held(w) => \/ m.retry \/ worker[w].attempts >= MaxAttempts
                     \/ Answered(worker[w].lease.key, f)'
     /\ m.pc \in Claiming => m.claim \in uploadClaims'
     /\ m.pc = "storing" => m.copy # NoText
     /\ m.pc = "failing" => m.error # ""
     /\ (m.pc = "failing" /\ m.error \in {"temporary", "permanent"})
          => m.claim.file \in troubled'

(* A step of a worker that leaves the threads as they are. *)
LEMMA WorkerStep ==
  ASSUME CopiesInv, [UploadsNext]_allVars, UNCHANGED vars,
         NEW w \in Workers, NEW m \in Pass, Moves(w, m), GoesOn(w, m),
         UNCHANGED <<rejected, spent>>, uploadClaims \subseteq uploadClaims',
         troubled \subseteq troubled', troubled' \subseteq Files, unrecorded' \subseteq Keys \X Files,
         folder' \in [Files -> Copies \cup {NoText}],
         wire' \subseteq [worker: Workers, claim: UploadClaim],
         \A k \in Keys : AnswersKept(k),
         \A f \in Files : uploads'[f].state = "failed" => uploads[f].state = "failed" \/ f \in troubled'
  PROVE  CopiesInv'
<1>2. threads' = threads /\ leases' = leases /\ clock' = clock
  BY DEF vars, durable, granted
<1>3. Grows
  BY <1>2 DEF Grows, LiveStays
<1>5. \A v \in Workers : KeepsAnswers(v)
  BY WorkerFacts, LeaseFacts DEF KeepsAnswers, CopiesInv
<1>6. /\ worker' \in [Workers -> Pass] /\ worker'[w] = m
      /\ \A v \in Workers \ {w} : worker'[v] = worker[v]
  BY MovesFacts DEF CopiesInv
<1>7. PassTypeOK'
  BY <1>6 DEF CopiesInv, PassTypeOK
<1>8. FailedForCause'
  BY <1>3, FailedStays
<1>9. NoFileForgotten'
  BY <1>2, AnswersStay
<1>10. CASE m.pc = "idle"
  <2>1. PassInv(w)' /\ ~Busy(w)'
    BY <1>6, <1>10, IdlePass
  <2>2. QED
    BY <1>3, <1>5, <1>6, <1>7, <1>8, <1>9, <2>1, OnePassSteps
<1>11. CASE m.pc # "idle"
  <2>1. Held(w)' => Held(w)
    <3>1. worker'[w].lease = worker[w].lease
      BY <1>6, <1>11 DEF GoesOn
    <3>2. QED
      BY <1>2, <3>1 DEF Held
  <2>2. PassInv(w)'
    BY <1>3, <1>5, <1>6, <1>11, <2>1, PassGoesOn DEF GoesOn
  <2>3. QED
    BY <1>3, <1>5, <1>6, <1>7, <1>8, <1>9, <1>11, <2>2, OnePassSteps DEF GoesOn
<1>12. QED
  BY <1>10, <1>11

(* A step that leaves the store as it is. *)
LEMMA LocalStep ==
  ASSUME CopiesInv, UNCHANGED allVars, NEW w \in Workers, NEW m \in Pass, Moves(w, m),
         GoesOn(w, m), UNCHANGED <<rejected, spent>>,
         troubled \subseteq troubled', troubled' \subseteq Files,
         unrecorded \subseteq unrecorded', unrecorded' \subseteq Keys \X Files,
         folder' \in [Files -> Copies \cup {NoText}],
         wire' \subseteq [worker: Workers, claim: UploadClaim]
  PROVE  [UploadsNext]_allVars /\ CopiesInv'
<1>1. UNCHANGED <<vars, uploads, uploadClaims, drawn, reopened>>
  BY DEF allVars, uploadVars
<1>2. \A k \in Keys : AnswersKept(k)
  BY <1>1, SameAnswers
<1>3. QED
  BY <1>1, <1>2, WorkerStep

-----------------------------------------------------------------------------
(* Steps that leave the store alone. *)

Stepped == [UploadsNext]_allVars /\ CopiesInv'

LEMMA IdleStep ==
  ASSUME CopiesInv, UNCHANGED <<allVars, remote, rejected, hist>>,
         NEW w \in Workers, Moves(w, Idle)
  PROVE  Stepped
<1>1. Idle.pc = "idle"
  BY DEF Idle
<1>2. QED
  BY <1>1, IdleType, LocalStep DEF Stepped, GoesOn, CopiesInv, PassTypeOK, remote, hist

LEMMA DropPassStep ==
  ASSUME CopiesInv, NEW w \in Workers, DropPass(w)
  PROVE  Stepped
BY IdleStep DEF DropPass, Only

LEMMA CrashStep ==
  ASSUME CopiesInv, NEW w \in Workers, Crash(w)
  PROVE  Stepped
BY IdleStep DEF Crash

(* A file is left behind with an answer, or for another pass. *)
LEMMA NextFileStep ==
  ASSUME CopiesInv, NEW w \in Workers, NEW f \in Files, NEW error \in {"", "temporary", "permanent"},
         worker[w].pc = "files", Only(w, NextFile(worker[w], f, error)),
         error = "temporary" \/ uploads[f].state \in {"complete", "failed"}
  PROVE  Stepped
<1> DEFINE m == NextFile(worker[w], f, error)
<1>0. worker[w].pc \in Claiming \cup {"files"}
  OBVIOUS
<1>1. worker[w] \in Pass /\ Busy(w) /\ error \in PassErrors
  BY <1>0, WorkerFacts DEF PassErrors
<1>2. /\ m \in Pass /\ m.pc = "files" /\ m.lease = worker[w].lease
      /\ m.attempts = worker[w].attempts
      /\ m.todo = worker[w].todo \ {f} /\ (worker[w].retry => m.retry)
      /\ (error = "temporary" /\ ~m.retry) => worker[w].attempts >= MaxAttempts
  <2>1. \A s \in Pass, e \in PassErrors : LET n == NextFile(s, f, e) IN
          /\ n \in Pass /\ n.pc = "files" /\ n.lease = s.lease /\ n.attempts = s.attempts
          /\ n.todo = s.todo \ {f} /\ (s.retry => n.retry)
          /\ (e = "temporary" /\ ~n.retry) => s.attempts >= MaxAttempts
    BY NextFileFacts
  <2>2. QED
    BY <1>1, <2>1
<1>3. UNCHANGED <<allVars, remote, rejected, faults, hist>> /\ Moves(w, m)
  BY DEF Only
<1> HIDE DEF m
<1>4. UNCHANGED <<uploads, folder, wire, troubled, spent, unrecorded, rejected>>
  BY <1>3 DEF allVars, uploadVars, remote, hist
<1>5. \A g \in worker[w].todo \ m.todo :
        m.retry \/ worker[w].attempts >= MaxAttempts \/ Answered(worker[w].lease.key, g)'
  BY <1>2, <1>4 DEF Answered
<1>6. GoesOn(w, m)
  BY <1>1, <1>2, <1>5 DEF GoesOn, Claiming, Copying
<1>7. QED
  BY <1>2, <1>3, <1>4, <1>6, LocalStep DEF Stepped, CopiesInv, PassTypeOK

LEMMA UseCopyStep ==
  ASSUME CopiesInv, NEW w \in Workers, NEW f \in Files, UseCopy(w, f)
  PROVE  Stepped
<1>1. uploads[f].state = "complete"
  BY DEF UseCopy, CopiesInv, StoreBase, UploadInv, UploadMeaningOf
<1>2. QED
  BY <1>1, NextFileStep DEF UseCopy, Considers

LEMMA NoWorkStep ==
  ASSUME CopiesInv, NEW w \in Workers, NEW f \in Files, NoWork(w, f)
  PROVE  Stepped
<1>1. CASE uploads[f].state = "failed"
  BY <1>1, NextFileStep DEF NoWork, Considers
<1>2. CASE uploads[f].state # "failed"
  BY <1>2, NextFileStep DEF NoWork, Considers
<1>3. QED
  BY <1>1, <1>2

(* A copy that goes on, or turns to its failure. *)
LEMMA TurnStep ==
  ASSUME CopiesInv, UNCHANGED <<allVars, rejected, spent, unrecorded>>, NEW w \in Workers,
         worker[w].pc \in Claiming, NEW pc \in Claiming, NEW error \in PassErrors,
         NEW copy \in Copies \cup {NoText},
         Moves(w, [worker[w] EXCEPT !.pc = pc, !.error = error, !.copy = copy]),
         folder' \in [Files -> Copies \cup {NoText}],
         wire' \subseteq [worker: Workers, claim: UploadClaim],
         troubled \subseteq troubled', troubled' \subseteq Files,
         pc = "storing" => copy # NoText,
         pc = "failing" => error # "",
         (pc = "failing" /\ error \in {"temporary", "permanent"}) => File(w) \in troubled'
  PROVE  Stepped
<1> DEFINE m == [worker[w] EXCEPT !.pc = pc, !.error = error, !.copy = copy]
<1>1. /\ worker[w] \in Pass /\ Busy(w) /\ worker[w].claim \in uploadClaims
      /\ pc \in PassStates /\ unrecorded \subseteq Keys \X Files
  BY WorkerFacts DEF PassStates, Claiming, CopiesInv, PassTypeOK
<1>2. /\ m \in Pass /\ m.pc = pc /\ m.error = error /\ m.copy = copy
      /\ m.lease = worker[w].lease /\ m.attempts = worker[w].attempts
      /\ m.retry = worker[w].retry /\ m.todo = worker[w].todo /\ m.claim = worker[w].claim
  BY <1>1 DEF Pass
<1>3. Moves(w, m)
  OBVIOUS
<1> HIDE DEF m
<1>4. GoesOn(w, m)
  BY <1>1, <1>2 DEF GoesOn, File, allVars, uploadVars
<1>5. QED
  BY <1>1, <1>2, <1>3, <1>4, LocalStep DEF Stepped

(* The same, when nothing but the worker changes. *)
LEMMA TurnAlone ==
  ASSUME CopiesInv, NEW w \in Workers, worker[w].pc \in Claiming, NEW pc \in Claiming,
         NEW m, Only(w, m),
         \/ /\ m = [worker[w] EXCEPT !.pc = pc] /\ pc \notin {"storing", "failing"}
         \/ m = [worker[w] EXCEPT !.pc = "failing", !.error = "lost"]
         \/ m = [worker[w] EXCEPT !.pc = "failing", !.error = "cancelled"]
  PROVE  Stepped
<1>1. worker[w] \in Pass
  BY WorkerFacts
<1>2. UNCHANGED <<allVars, rejected, spent, unrecorded, folder, wire, troubled>> /\ Moves(w, m)
  BY DEF Only, remote, hist
<1>3. PICK error \in PassErrors, copy \in Copies \cup {NoText} :
        error = worker[w].error /\ copy = worker[w].copy
  BY <1>1 DEF Pass
<1>4. /\ folder' \in [Files -> Copies \cup {NoText}]
      /\ wire' \subseteq [worker: Workers, claim: UploadClaim]
      /\ troubled \subseteq troubled' /\ troubled' \subseteq Files
  BY <1>2 DEF CopiesInv, PassTypeOK
<1>5. CASE m = [worker[w] EXCEPT !.pc = pc] /\ pc \notin {"storing", "failing"}
  <2>1. m = [worker[w] EXCEPT !.pc = pc, !.error = error, !.copy = copy]
    BY <1>1, <1>3, <1>5 DEF Pass
  <2>2. Moves(w, [worker[w] EXCEPT !.pc = pc, !.error = error, !.copy = copy])
    BY <1>2, <2>1
  <2>3. pc # "storing" /\ pc # "failing"
    BY <1>5
  <2>4. QED
    BY <1>2, <1>4, <2>2, <2>3, TurnStep
<1>6. ASSUME NEW e \in {"lost", "cancelled"}, m = [worker[w] EXCEPT !.pc = "failing", !.error = e]
      PROVE  Stepped
  <2>1. m = [worker[w] EXCEPT !.pc = "failing", !.error = e, !.copy = copy]
    BY <1>1, <1>3, <1>6 DEF Pass
  <2>2. e \in PassErrors /\ e # "" /\ e \notin {"temporary", "permanent"} /\ "failing" \in Claiming
    BY DEF PassErrors, Claiming
  <2>3. Moves(w, [worker[w] EXCEPT !.pc = "failing", !.error = e, !.copy = copy])
    BY <1>2, <2>1
  <2>4. QED
    BY <1>2, <1>4, <2>2, <2>3, TurnStep
<1>7. QED
  BY <1>5, <1>6

LEMMA CopyingClaims == Copying \subseteq Claiming
BY DEF Claiming

LEMMA GoesStep ==
  ASSUME CopiesInv, NEW w \in Workers, NEW from \in Copying, NEW to \in Copying, Goes(w, from, to)
  PROVE  Stepped
<1>1. worker[w].pc \in Claiming /\ to \in Claiming /\ to \notin {"storing", "failing"}
  BY CopyingClaims DEF Goes, Copying
<1>2. QED
  BY <1>1, TurnAlone DEF Goes

LEMMA DropCopyStep ==
  ASSUME CopiesInv, NEW w \in Workers, DropCopy(w) \/ CancelCopy(w)
  PROVE  Stepped
<1>1. worker[w].pc \in Claiming /\ "sending" \in Claiming
  BY CopyingClaims DEF DropCopy, CancelCopy, Copying
<1>2. QED
  BY <1>1, TurnAlone DEF DropCopy, CancelCopy

LEMMA FindFileStep ==
  ASSUME CopiesInv, NEW w \in Workers, FindFile(w)
  PROVE  Stepped
<1>1. CASE Held(w) /\ folder[File(w)] # NoText
  <2>1. /\ worker[w].pc = "finding" /\ "storing" \in Claiming
        /\ Only(w, [worker[w] EXCEPT !.pc = "storing", !.copy = folder[File(w)]])
    BY <1>1 DEF FindFile, Claiming
  <2>2. worker[w].pc \in Claiming /\ worker[w] \in Pass /\ File(w) \in Files
    BY <2>1, WorkerFacts DEF Claiming, Copying
  <2>3. PICK copy \in Copies \cup {NoText}, error \in PassErrors :
          copy = folder[File(w)] /\ error = worker[w].error /\ copy # NoText
    BY <1>1, <2>2 DEF Pass, CopiesInv, PassTypeOK
  <2>4. UNCHANGED <<allVars, rejected, spent, unrecorded, folder, wire, troubled>>
    BY <2>1 DEF Only, remote, hist
  <2>5. Moves(w, [worker[w] EXCEPT !.pc = "storing", !.error = error, !.copy = copy])
    <3>1. [worker[w] EXCEPT !.pc = "storing", !.copy = copy]
            = [worker[w] EXCEPT !.pc = "storing", !.error = error, !.copy = copy]
      BY <2>2, <2>3 DEF Pass
    <3>2. QED
      BY <2>1, <2>3, <3>1 DEF Only
  <2>6. /\ folder' \in [Files -> Copies \cup {NoText}]
        /\ wire' \subseteq [worker: Workers, claim: UploadClaim]
        /\ troubled \subseteq troubled' /\ troubled' \subseteq Files
    BY <2>4 DEF CopiesInv, PassTypeOK
  <2>7. "storing" # "failing" /\ copy # NoText
    BY <2>3
  <2>8. QED
    BY <2>1, <2>2, <2>4, <2>5, <2>6, <2>7, TurnStep
<1>2. CASE ~(Held(w) /\ folder[File(w)] # NoText)
  <2>1. Goes(w, "finding", "fetching") /\ {"finding", "fetching"} \subseteq Copying
    BY <1>2 DEF FindFile, Copying
  <2>2. QED
    BY <2>1, GoesStep
<1>3. QED
  BY <1>1, <1>2

(* A failure for a reason of the file's own. *)
LEMMA TroubleStep ==
  ASSUME CopiesInv, NEW w \in Workers, worker[w].pc \in Copying,
         NEW error \in {"temporary", "permanent"},
         Moves(w, [worker[w] EXCEPT !.pc = "failing", !.error = error]),
         troubled' = troubled \cup {File(w)},
         UNCHANGED <<allVars, remote, rejected, spent, unrecorded>>
  PROVE  Stepped
<1>1. worker[w].pc \in Claiming /\ "failing" \in Claiming /\ error \in PassErrors /\ error # ""
  BY CopyingClaims DEF Claiming, PassErrors
<1>2. worker[w] \in Pass /\ File(w) \in Files
  BY <1>1, WorkerFacts
<1>3. PICK copy \in Copies \cup {NoText} : copy = worker[w].copy
  BY <1>2 DEF Pass
<1>4. [worker[w] EXCEPT !.pc = "failing", !.error = error]
        = [worker[w] EXCEPT !.pc = "failing", !.error = error, !.copy = copy]
  BY <1>2, <1>3 DEF Pass
<1>5. UNCHANGED <<folder, wire>>
  BY DEF remote
<1>6. QED
  BY <1>1, <1>2, <1>4, <1>5, TurnStep DEF CopiesInv, PassTypeOK

LEMMA FetchStep ==
  ASSUME CopiesInv, NEW w \in Workers, Fetch(w)
  PROVE  Stepped
<1>1. {"fetching", "sending"} \subseteq Copying
  BY DEF Copying
<1>2. CASE File(w) \in rejected
  BY <1>1, <1>2, TroubleStep DEF Fetch
<1>3. CASE File(w) \notin rejected
  BY <1>1, <1>3, GoesStep DEF Fetch
<1>4. QED
  BY <1>2, <1>3

LEMMA ErrorStep ==
  ASSUME CopiesInv, NEW w \in Workers, Error(w)
  PROVE  Stepped
<1>1. {"finding", "fetching", "sent"} \subseteq Copying
  BY DEF Copying
<1>2. QED
  BY <1>1, TroubleStep DEF Error

LEMMA SendCopyStep ==
  ASSUME CopiesInv, NEW w \in Workers, SendCopy(w)
  PROVE  Stepped
<1>1. worker[w].pc \in Claiming /\ "sent" \in Claiming
  BY DEF SendCopy, Claiming, Copying
<1>2. worker[w] \in Pass /\ worker[w].claim \in UploadClaim
  BY <1>1, WorkerFacts
<1>3. PICK copy \in Copies \cup {NoText}, error \in PassErrors :
        copy = worker[w].copy /\ error = worker[w].error
  BY <1>2 DEF Pass
<1>4. [worker[w] EXCEPT !.pc = "sent"]
        = [worker[w] EXCEPT !.pc = "sent", !.error = error, !.copy = copy]
  BY <1>2, <1>3 DEF Pass
<1>5. UNCHANGED <<allVars, folder, rejected, troubled, spent, unrecorded>>
  BY DEF SendCopy, hist
<1>6. /\ wire' \subseteq [worker: Workers, claim: UploadClaim]
      /\ folder' \in [Files -> Copies \cup {NoText}] /\ troubled' \subseteq Files
  BY <1>2, <1>5 DEF SendCopy, CopiesInv, PassTypeOK
<1>7. "sent" # "storing" /\ "sent" # "failing"
  OBVIOUS
<1>8. Moves(w, [worker[w] EXCEPT !.pc = "sent", !.error = error, !.copy = copy])
  BY <1>4 DEF SendCopy
<1>9. QED
  BY <1>1, <1>5, <1>6, <1>7, <1>8, TurnStep

LEMMA CancelStep ==
  ASSUME CopiesInv, NEW w \in Workers, Cancel(w)
  PROVE  Stepped
<1>1. worker[w].pc \in Claiming /\ "failing" \in Claiming /\ "cancelled" \in PassErrors
  BY CopyingClaims DEF Cancel, Claiming, PassErrors
<1>2. worker[w] \in Pass
  BY <1>1, WorkerFacts
<1>3. PICK copy \in Copies \cup {NoText} : copy = worker[w].copy
  BY <1>2 DEF Pass
<1>4. [worker[w] EXCEPT !.pc = "failing", !.error = "cancelled"]
        = [worker[w] EXCEPT !.pc = "failing", !.error = "cancelled", !.copy = copy]
  BY <1>2, <1>3 DEF Pass
<1>5. UNCHANGED <<allVars, folder, wire, rejected, troubled, spent, unrecorded>>
  BY DEF Cancel, remote, hist
<1>6. /\ wire' \subseteq [worker: Workers, claim: UploadClaim]
      /\ folder' \in [Files -> Copies \cup {NoText}] /\ troubled' \subseteq Files
  BY <1>5 DEF CopiesInv, PassTypeOK
<1>7. "failing" # "storing" /\ "cancelled" \notin {"", "temporary", "permanent"}
  OBVIOUS
<1>8. Moves(w, [worker[w] EXCEPT !.pc = "failing", !.error = "cancelled", !.copy = copy])
  BY <1>4 DEF Cancel
<1>9. QED
  BY <1>1, <1>5, <1>6, <1>7, <1>8, TurnStep

-----------------------------------------------------------------------------
(* Steps that no pass takes part in. *)

LEMMA RestStep ==
  ASSUME CopiesInv, [UploadsNext]_allVars, UNCHANGED <<worker, rejected, hist>>,
         uploadClaims \subseteq uploadClaims', leases \subseteq leases', LiveStays,
         folder' \in [Files -> Copies \cup {NoText}],
         wire' \subseteq [worker: Workers, claim: UploadClaim],
         \A k \in Keys : StaysDone(k) /\ AnswersKept(k),
         \A f \in Files : uploads'[f].state = "failed" => uploads[f].state = "failed"
  PROVE  Stepped
<1>1. worker' = worker /\ UNCHANGED <<rejected, troubled, spent, unrecorded>>
  BY DEF hist
<1>2. Grows
  BY <1>1 DEF Grows
<1>3. \A v \in Workers : KeepsAnswers(v)
  BY WorkerFacts, LeaseFacts DEF KeepsAnswers, CopiesInv
<1>4. PassTypeOK'
  BY <1>1 DEF CopiesInv, PassTypeOK
<1>5. FailedForCause'
  BY <1>2, FailedStays
<1>6. NoFileForgotten'
  BY <1>1, AnswersStay DEF StaysDone
<1>7. PICK w \in Workers : TRUE
  BY AttachmentsAssumption
<1>8. PassInv(w)'
  BY <1>1, <1>2, <1>3, PassStays
<1>9. Busy(w)' = Busy(w)
  BY <1>1 DEF Busy
<1>10. QED
  BY <1>1, <1>2, <1>3, <1>4, <1>5, <1>6, <1>8, <1>9, OnePassSteps DEF Stepped

LEMMA QuietLocalStep ==
  ASSUME CopiesInv, UNCHANGED <<allVars, worker, rejected, hist>>,
         folder' \in [Files -> Copies \cup {NoText}],
         wire' \subseteq [worker: Workers, claim: UploadClaim]
  PROVE  Stepped
<1>1. UNCHANGED <<vars, uploads, uploadClaims, drawn, reopened, unrecorded>>
  BY DEF allVars, uploadVars, hist
<1>2. threads' = threads /\ leases' = leases /\ clock' = clock
  BY <1>1 DEF vars, durable, granted
<1>3. \A k \in Keys : StaysDone(k) /\ AnswersKept(k)
  BY <1>1, <1>2, SameAnswers DEF StaysDone
<1>4. QED
  BY <1>1, <1>2, <1>3, RestStep DEF LiveStays

LEMMA LoseStep ==
  ASSUME CopiesInv, NEW r \in wire, Lose(r)
  PROVE  Stepped
<1>1. /\ folder' \in [Files -> Copies \cup {NoText}]
      /\ wire' \subseteq [worker: Workers, claim: UploadClaim]
  BY DEF Lose, CopiesInv, PassTypeOK
<1>2. QED
  BY <1>1, QuietLocalStep DEF Lose

LEMMA ApplyStep ==
  ASSUME CopiesInv, NEW r \in wire, Apply(r)
  PROVE  Stepped
<1> DEFINE f == r.claim.file
<1>1. /\ r.worker \in Workers /\ f \in Files /\ folder \in [Files -> Copies \cup {NoText}]
      /\ wire \subseteq [worker: Workers, claim: UploadClaim]
  BY DEF CopiesInv, PassTypeOK, UploadClaim
<1>2. PICK copy \in Copies :
        /\ folder' = [folder EXCEPT ![f] = copy]
        /\ worker' = IF Awaited(r)
                       THEN [worker EXCEPT ![r.worker] = [@ EXCEPT !.pc = "storing", !.copy = copy]]
                       ELSE worker
  <2>1. CASE folder[f] # NoText
    BY <1>1, <2>1 DEF Apply
  <2>2. CASE folder[f] = NoText
    <3>1. (CHOOSE c \in Fresh : TRUE) \in Copies
      BY <2>2 DEF Apply, Fresh
    <3>2. QED
      BY <2>2, <3>1 DEF Apply
  <2>3. QED
    BY <2>1, <2>2
<1>3. UNCHANGED <<allVars, rejected, hist>> /\ wire' = wire \ {r}
  BY DEF Apply
<1>4. /\ folder' \in [Files -> Copies \cup {NoText}]
      /\ wire' \subseteq [worker: Workers, claim: UploadClaim]
  BY <1>1, <1>2, <1>3
<1>5. CASE Awaited(r)
  <2>1. PICK w \in Workers : w = r.worker
    BY <1>1
  <2>2. worker[w].pc \in Claiming /\ "storing" \in Claiming
    BY <1>5, <2>1 DEF Awaited, Claiming, Copying
  <2>3. worker[w] \in Pass
    BY WorkerFacts
  <2>4. PICK error \in PassErrors : error = worker[w].error
    BY <2>3 DEF Pass
  <2>5. [worker[w] EXCEPT !.pc = "storing", !.copy = copy]
          = [worker[w] EXCEPT !.pc = "storing", !.error = error, !.copy = copy]
    BY <2>3, <2>4 DEF Pass
  <2>6. Moves(w, [worker[w] EXCEPT !.pc = "storing", !.error = error, !.copy = copy])
    <3>1. Moves(w, [worker[w] EXCEPT !.pc = "storing", !.copy = copy])
      BY <1>2, <1>5, <2>1 DEF Moves
    <3>2. QED
      BY <2>5, <3>1
  <2>7. UNCHANGED <<allVars, rejected, troubled, spent, unrecorded>> /\ troubled' \subseteq Files
    BY <1>3 DEF hist, CopiesInv, PassTypeOK
  <2>8. "storing" # "failing" /\ copy # NoText
    BY UploadsAssumption
  <2>9. QED
    BY <1>4, <2>2, <2>6, <2>7, <2>8, TurnStep
<1>6. CASE ~Awaited(r)
  BY <1>2, <1>3, <1>4, <1>6, QuietLocalStep
<1>7. QED
  BY <1>5, <1>6

(* A step of the threads that changes no upload and no pass. *)
LEMMA ThreadsStep ==
  ASSUME CopiesInv, ThreadStep, UNCHANGED <<uploadVars, worker, remote, rejected, hist>>,
         LiveStays, leases' = leases, \A k \in Keys : StaysDone(k)
  PROVE  Stepped
<1>1. UNCHANGED <<uploads, uploadClaims, drawn, reopened, folder, wire, unrecorded>>
  BY DEF uploadVars, remote, hist
<1>2. \A k \in Keys : AnswersKept(k)
  BY <1>1, SameAnswers
<1>3. [UploadsNext]_allVars
  BY DEF UploadsNext
<1>4. /\ folder' \in [Files -> Copies \cup {NoText}]
      /\ wire' \subseteq [worker: Workers, claim: UploadClaim]
  BY <1>1 DEF CopiesInv, PassTypeOK
<1>5. QED
  BY <1>1, <1>2, <1>3, <1>4, RestStep

LEMMA ReceiveStep ==
  ASSUME CopiesInv, NEW e \in Events, Receive(e)
  PROVE  Stepped
<1>1. StoreBase /\ clock \in Nows
  BY ClockNow DEF CopiesInv
<1>2. Record(e, clock) /\ UNCHANGED <<uploadVars, worker, remote, rejected, hist>>
  BY DEF Receive, OnlyStore
<1>3. ThreadStep
  BY <1>1, <1>2 DEF ThreadStep, RecordEvent
<1>4. QED
  BY <1>1, <1>2, <1>3, RecordLive, ThreadsStep

LEMMA WaitStep ==
  ASSUME CopiesInv, Wait
  PROVE  Stepped
<1>1. StoreBase /\ ThreadStep /\ Tick
  BY DEF CopiesInv, Wait, ThreadStep
<1>2. QED
  BY <1>1, TickLive, ThreadsStep DEF Wait

LEMMA HeartbeatsStep ==
  ASSUME CopiesInv, NEW w \in Workers, Heartbeats(w)
  PROVE  Stepped
<1>1. worker[w].pc \in Claiming /\ worker[w].pc \in Claiming \cup {"files"}
  BY CopyingClaims DEF Heartbeats
<1>2. PICK c \in uploadClaims, l \in leases : c = worker[w].claim /\ l = worker[w].lease
  BY <1>1, WorkerFacts
<1>3. StoreBase /\ clock \in Nows
  BY ClockNow DEF CopiesInv
<1>4. UNCHANGED <<worker, remote, rejected, hist, folder, wire, unrecorded>>
  BY DEF Heartbeats, OnlyStore, remote, hist
<1>5. CASE RenewUpload(c, clock)
  <2> DEFINE u == [uploads[c.file] EXCEPT !.leaseExpires = clock + LeaseDuration]
  <2>1. Replace(c, u, clock)
    BY <1>5 DEF RenewUpload
  <2>2. [UploadsNext]_allVars
    BY <1>3, <1>5 DEF UploadsNext, UseClaim
  <2>3. uploads \in [Files -> Upload] /\ c.file \in Files
    BY DEF CopiesInv, StoreBase, AllTypeOK, UploadsTypeOK, UploadClaim
  <2>4. u.state = uploads[c.file].state
    BY <2>3 DEF Upload
  <2> HIDE DEF u
  <2>5. /\ \A k \in Keys : AnswersKept(k)
        /\ uploads'[c.file] = u
        /\ \A f \in Files \ {c.file} : uploads'[f] = uploads[f]
    BY <1>3, <1>4, <2>1, ReplaceAnswers
  <2>6. UNCHANGED <<vars, uploadClaims>>
    BY <2>1 DEF Replace
  <2>7. threads' = threads /\ leases' = leases /\ clock' = clock
    BY <2>6 DEF vars, durable, granted
  <2>8. LiveStays /\ \A k \in Keys : StaysDone(k)
    BY <2>7 DEF LiveStays, StaysDone
  <2>9. /\ folder' \in [Files -> Copies \cup {NoText}]
        /\ wire' \subseteq [worker: Workers, claim: UploadClaim]
    BY <1>4 DEF CopiesInv, PassTypeOK
  <2>10. \A f \in Files : uploads'[f].state = "failed" => uploads[f].state = "failed"
    BY <2>4, <2>5
  <2>11. QED
    BY <1>4, <2>2, <2>5, <2>6, <2>7, <2>8, <2>9, <2>10, RestStep
<1>6. CASE Renew(l, clock) /\ UNCHANGED uploadVars
  <2>1. ThreadStep
    BY <1>3, <1>6 DEF ThreadStep, UseLease
  <2>2. QED
    BY <1>3, <1>4, <1>6, <2>1, RenewLive, ThreadsStep
<1>7. QED
  BY <1>2, <1>5, <1>6 DEF Heartbeats

-----------------------------------------------------------------------------
(* The steps of a copy that write its upload. *)

LEMMA StartCopyStep ==
  ASSUME CopiesInv, NEW w \in Workers, NEW f \in Files, StartCopy(w, f)
  PROVE  Stepped
<1> DEFINE c == [file |-> f, token |-> uploads'[f].leaseToken]
           m == [worker[w] EXCEPT !.pc = "finding", !.tries = uploads'[f].attempts, !.claim = c]
<1>1. /\ worker[w].pc = "files" /\ worker[w].pc \in Claiming \cup {"files"} /\ f \in worker[w].todo
      /\ UNCHANGED <<remote, rejected, faults, hist>>
  BY DEF StartCopy, Considers, OnlyStore
<1>2. worker[w] \in Pass /\ Busy(w)
  BY <1>1, WorkerFacts
<1>3. PICK l \in leases : l = worker[w].lease
  BY <1>2, WorkerFacts
<1>4. ClaimUpload(l, f, clock) /\ Moves(w, m)
  BY <1>3 DEF StartCopy
<1>5. StoreBase /\ clock \in Nows /\ l.key \in Keys /\ threads[l.key] \in Thread /\ Sound(threads[l.key])
  BY ClockNow, LeaseFacts DEF CopiesInv
<1>6. [UploadsNext]_allVars
  BY <1>4, <1>5 DEF UploadsNext, ClaimFile
<1>7. StoreBase'
  BY <1>5, <1>6, BaseStep
<1>8. c \in uploadClaims' /\ c \in UploadClaim /\ uploads'[f].attempts \in Nat
  <2>1. c \in uploadClaims'
    BY <1>4 DEF ClaimUpload
  <2>2. QED
    BY <1>7, <2>1 DEF StoreBase, AllTypeOK, UploadsTypeOK, Upload
<1> HIDE DEF c
<1>9. /\ m \in Pass /\ m.pc = "finding" /\ m.claim = c /\ m.lease = worker[w].lease
      /\ m.attempts = worker[w].attempts /\ m.retry = worker[w].retry /\ m.todo = worker[w].todo
  BY <1>2, <1>8 DEF Pass, PassStates, Copying
<1>10. /\ worker' \in [Workers -> Pass] /\ worker'[w] = m
       /\ \A v \in Workers \ {w} : worker'[v] = worker[v]
  BY <1>4, <1>9, MovesFacts DEF CopiesInv
<1> HIDE DEF m
<1>11. /\ threads' = threads /\ leases' = leases /\ clock' = clock
       /\ UNCHANGED <<rejected, folder, wire, troubled, spent, unrecorded>>
       /\ uploadClaims \subseteq uploadClaims'
  BY <1>1, <1>4 DEF ClaimUpload, vars, durable, granted, remote, hist
<1>12. Grows
  BY <1>11 DEF Grows, LiveStays
<1>13. /\ \A k \in Keys \ {l.key} : AnswersKept(k)
       /\ \A k \in Keys, g \in Files \ {f} : Answered(k, g) => Answered(k, g)'
       /\ \A g \in Files : uploads'[g].state = "failed" => uploads[g].state = "failed"
  BY <1>4, <1>5, <1>11, ClaimUploadAnswers
<1>14. Held(w) /\ threads[l.key].leaseToken = l.token /\ threads[l.key].state = "running"
  <2>1. Validate(threads[l.key], l, clock)
    BY <1>4 DEF ClaimUpload
  <2>2. QED
    BY <1>3, <1>5, <2>1 DEF Held, Validate, Sound, StateMeaningOf
<1>15. ASSUME NEW v \in Workers \ {w} PROVE KeepsAnswers(v)
  <2>1. SUFFICES ASSUME Busy(v), Held(v) PROVE AnswersKept(worker[v].lease.key)
    BY DEF KeepsAnswers
  <2>2. worker[v].lease.key \in Keys
    BY <1>5, <2>1, WorkerFacts, LeaseFacts
  <2>3. CASE worker[v].lease.key = l.key
    <3>1. SameLease(v, w)
      BY <1>3, <1>14, <2>1, <2>3 DEF Held, Validate, SameLease
    <3>2. QED
      BY <1>2, <2>1, <3>1 DEF CopiesInv, OnePassPerLease
  <2>4. QED
    BY <1>13, <2>2, <2>3
<1>16. Visited(w)'
  <2>1. SUFFICES ASSUME ~worker'[w].retry, ~(worker'[w].attempts >= MaxAttempts),
                        NEW g \in Files \ worker'[w].todo
                 PROVE  Answered(l.key, g)'
    BY <1>3, <1>9, <1>10 DEF Visited
  <2>2. Visited(w) /\ g \in Files \ {f} /\ g \notin worker[w].todo
    BY <1>1, <1>2, <1>9, <1>10, <2>1 DEF CopiesInv, PassInv
  <2>3. Answered(l.key, g)
    BY <1>3, <1>9, <1>10, <1>14, <2>1, <2>2 DEF Visited
  <2>4. QED
    BY <1>5, <1>13, <2>2, <2>3
<1>17. PassInv(w)'
  <2>1. m.pc # "storing" /\ m.pc # "failing" /\ worker'[w].lease \in leases'
    BY <1>3, <1>9, <1>10, <1>11
  <2>2. QED
    BY <1>8, <1>9, <1>10, <1>16, <2>1 DEF PassInv
<1>18. PassTypeOK'
  BY <1>10, <1>11 DEF CopiesInv, PassTypeOK
<1>19. FailedForCause'
  BY <1>12, <1>13, FailedStays
<1>20. NoFileForgotten'
  <2>1. \A k \in Keys : threads[k].state = "up-to-date" => AnswersKept(k)
    BY <1>13, <1>14
  <2>2. QED
    BY <1>11, <2>1, AnswersStay
<1>21. Busy(w) /\ worker'[w].lease = worker[w].lease
  BY <1>2, <1>9, <1>10
<1>22. QED
  BY <1>6, <1>10, <1>12, <1>15, <1>17, <1>18, <1>19, <1>20, <1>21, OnePassSteps DEF Stepped

(* The upload of a copy is settled as u, and the pass goes on as m. *)
LEMMA SettleStep ==
  ASSUME CopiesInv, NEW w \in Workers, NEW m \in Pass, Moves(w, m), GoesOn(w, m),
         NEW c \in uploadClaims, NEW u, Replace(c, u, clock), [UploadsNext]_allVars,
         UNCHANGED <<remote, rejected, troubled, spent>>,
         unrecorded \subseteq unrecorded', unrecorded' \subseteq Keys \X Files,
         u.state = "failed" => c.file \in troubled
  PROVE  Stepped
<1>1. StoreBase /\ UNCHANGED <<folder, wire, vars, uploadClaims>>
  BY DEF CopiesInv, Replace, remote
<1>2. /\ \A k \in Keys : AnswersKept(k)
      /\ uploads'[c.file] = u /\ \A f \in Files \ {c.file} : uploads'[f] = uploads[f]
  BY <1>1, ReplaceAnswers
<1>3. \A f \in Files :
        uploads'[f].state = "failed" => uploads[f].state = "failed" \/ f \in troubled'
  BY <1>1, <1>2
<1>4. /\ folder' \in [Files -> Copies \cup {NoText}]
      /\ wire' \subseteq [worker: Workers, claim: UploadClaim]
      /\ troubled' \subseteq Files
  BY <1>1 DEF CopiesInv, PassTypeOK
<1>5. QED
  BY <1>1, <1>2, <1>3, <1>4, WorkerStep DEF Stepped

(* What the loop has become once it leaves file f behind. *)
LeftBehind(s, f, error, m) ==
  /\ m \in Pass /\ m.pc = "files" /\ m.lease = s.lease /\ m.attempts = s.attempts
  /\ m.todo = s.todo \ {f} /\ (s.retry => m.retry)
  /\ (error = "temporary" /\ ~m.retry) => s.attempts >= MaxAttempts

LEMMA NextFileLeaves ==
  ASSUME NEW s \in Pass, NEW f \in Files, NEW error \in PassErrors
  PROVE  LeftBehind(s, f, error, NextFile(s, f, error))
BY NextFileFacts DEF LeftBehind

(* The pass of worker w, for thread k, leaves the file f of its copy behind. *)
LEMMA LeavesFile ==
  ASSUME CopiesInv, NEW w \in Workers, worker[w].pc \in Claiming,
         NEW k, k = worker[w].lease.key, NEW f \in Files, f = File(w),
         NEW error \in {"", "temporary", "permanent"},
         NEW m, m = NextFile(worker[w], f, error), Moves(w, m),
         error = "temporary" \/ (Held(w) => Answered(k, f)')
  PROVE  m \in Pass /\ GoesOn(w, m)
<1>1. worker[w].pc \in Claiming \cup {"files"}
  OBVIOUS
<1>2. worker[w] \in Pass /\ Busy(w) /\ error \in PassErrors
  BY <1>1, WorkerFacts DEF PassErrors
<1>3. LeftBehind(worker[w], f, error, m)
  BY <1>2, NextFileLeaves
<1>4. worker'[w].lease.key = k
  BY <1>3, MovesFacts DEF CopiesInv, LeftBehind
<1>5. \A g \in worker[w].todo \ m.todo :
        Held(w) => \/ m.retry \/ worker[w].attempts >= MaxAttempts
                   \/ Answered(k, g)'
  <2>1. SUFFICES ASSUME NEW g \in worker[w].todo \ m.todo, Held(w)
                 PROVE  \/ m.retry \/ worker[w].attempts >= MaxAttempts
                        \/ Answered(k, g)'
    OBVIOUS
  <2>2. g = f
    BY <1>3, <2>1 DEF LeftBehind
  <2>3. QED
    BY <1>3, <2>1, <2>2 DEF LeftBehind
<1>6. \A g \in worker[w].todo \ m.todo :
        Held(w) => \/ m.retry \/ worker[w].attempts >= MaxAttempts
                   \/ Answered(worker[w].lease.key, g)'
  BY <1>4, <1>5
<1>7. GoesOn(w, m)
  BY <1>2, <1>3, <1>6 DEF GoesOn, Claiming, Copying, LeftBehind
<1>8. QED
  BY <1>3, <1>7 DEF LeftBehind

LEMMA StoreCopyStep ==
  ASSUME CopiesInv, NEW w \in Workers, StoreCopy(w)
  PROVE  Stepped
<1>1. worker[w].pc \in Claiming /\ worker[w].pc = "storing" /\ UNCHANGED <<remote, rejected, faults, hist>>
  BY DEF StoreCopy, Claiming, OnlyStore
<1>2. CASE HoldsFile(w)
  <2>1. PICK c \in uploadClaims : c = worker[w].claim
    BY <1>1, WorkerFacts
  <2>2. PICK f \in Files, k \in Keys : f = File(w) /\ f = c.file /\ k = worker[w].lease.key
    <3>1. worker[w].pc \in Claiming \cup {"files"}
      BY <1>1
    <3>2. Busy(w) /\ File(w) \in Files /\ File(w) = c.file
      BY <1>1, <2>1, <3>1, WorkerFacts DEF File
    <3>3. worker[w].lease.key \in Keys
      BY <3>2, WorkerFacts, LeaseFacts DEF CopiesInv
    <3>4. QED
      BY <3>2, <3>3
  <2>3. PICK copy \in Copies : copy = worker[w].copy
    BY <1>1, WorkerFacts DEF Pass, CopiesInv, PassInv
  <2> DEFINE u == CompletedUpload(uploads[c.file], copy)
             m == NextFile(worker[w], f, "")
  <2>4. CompleteUpload(c, copy, clock) /\ Moves(w, m)
    BY <1>2, <2>1, <2>2, <2>3 DEF StoreCopy
  <2>5. [UploadsNext]_allVars
    BY <2>4, ClockNow DEF UploadsNext, UseClaim, CopiesInv
  <2>6. uploads[c.file] \in Upload /\ StoreBase
    BY <2>2 DEF CopiesInv, StoreBase, AllTypeOK, UploadsTypeOK
  <2>7. u.state = "complete" /\ Replace(c, u, clock)
    BY <2>4, <2>6 DEF CompleteUpload, CompletedUpload, Upload
  <2> HIDE DEF u
  <2>8. uploads'[c.file] = u
    BY <1>1, <2>6, <2>7, ReplaceAnswers DEF hist
  <2>9. Answered(k, f)'
    BY <2>2, <2>7, <2>8 DEF Answered
  <2>10. m \in Pass /\ GoesOn(w, m)
    BY <1>1, <2>2, <2>4, <2>9, LeavesFile
  <2> HIDE DEF m
  <2>11. u.state # "failed"
    BY <2>7
  <2>12. /\ UNCHANGED <<remote, rejected, troubled, spent>>
         /\ unrecorded \subseteq unrecorded' /\ unrecorded' \subseteq Keys \X Files
    BY <1>1 DEF hist, CopiesInv, PassTypeOK
  <2>13. QED
    BY <2>4, <2>5, <2>7, <2>10, <2>11, <2>12, SettleStep
<1>3. CASE ~HoldsFile(w)
  BY <1>1, <1>3, IdleStep DEF StoreCopy
<1>4. QED
  BY <1>2, <1>3

(* A copy's failure, whose lease the store may have ended already. *)
LEMMA FailCopyStep ==
  ASSUME CopiesInv, NEW w \in Workers, FailCopy(w)
  PROVE  Stepped
<1>1. worker[w].pc \in Claiming /\ worker[w].pc = "failing"
  BY DEF FailCopy, Claiming
<1>2. PICK c \in uploadClaims, l \in leases : c = worker[w].claim /\ l = worker[w].lease
  <2>1. worker[w].pc \in Claiming \cup {"files"}
    BY <1>1
  <2>2. QED
    BY <1>1, <2>1, WorkerFacts
<1>3. PICK f \in Files, k \in Keys, error \in PassErrors :
        f = File(w) /\ f = c.file /\ k = l.key /\ error = worker[w].error
  BY <1>1, <1>2, WorkerFacts, LeaseFacts DEF File, CopiesInv, Pass
<1>4. worker[w] \in Pass /\ Busy(w) /\ error # ""
  BY <1>1, <1>3, WorkerFacts DEF CopiesInv, PassInv, Busy
<1>5. StoreBase /\ clock \in Nows /\ clock \in Nat
  BY ClockNow DEF CopiesInv
<1>6. /\ UNCHANGED <<folder, wire, rejected, troubled, spent>>
      /\ unrecorded \subseteq unrecorded' /\ unrecorded' \subseteq Keys \X Files
      /\ folder' \in [Files -> Copies \cup {NoText}]
      /\ wire' \subseteq [worker: Workers, claim: UploadClaim] /\ troubled' \subseteq Files
      /\ (error = "permanent" /\ ~HoldsFile(w)) => <<k, f>> \in unrecorded'
  BY <1>2, <1>3 DEF FailCopy, remote, CopiesInv, PassTypeOK
<1>7. PICK m : m = AfterFailure(w)
  OBVIOUS
<1>8. Moves(w, m)
  BY <1>7 DEF FailCopy
<1>9. ASSUME error = "lost"
      PROVE  m = Idle
  BY <1>3, <1>7, <1>9 DEF AfterFailure
<1>10. ASSUME error = "cancelled"
       PROVE  m = [worker[w] EXCEPT !.pc = "files"]
  BY <1>3, <1>7, <1>10 DEF AfterFailure
<1>11. ASSUME error \in {"temporary", "permanent"}
       PROVE  m = NextFile(worker[w], f, error)
  BY <1>3, <1>7, <1>11 DEF AfterFailure
<1>12. ASSUME error = "permanent" => (Held(w) => Answered(k, f)')
       PROVE  m \in Pass /\ GoesOn(w, m)
  <2>1. CASE error = "lost"
    <3>1. Idle.pc = "idle"
      BY DEF Idle
    <3>2. QED
      BY <1>9, <2>1, <3>1, IdleType DEF GoesOn
  <2>2. CASE error = "cancelled"
    <3>1. m = [worker[w] EXCEPT !.pc = "files"]
      BY <1>10, <2>2
    <3>2. /\ m \in Pass /\ m.pc = "files" /\ m.lease = worker[w].lease
          /\ m.attempts = worker[w].attempts /\ m.retry = worker[w].retry
          /\ m.todo = worker[w].todo
      BY <1>4, <3>1 DEF Pass, PassStates
    <3>3. QED
      BY <1>4, <3>2 DEF GoesOn, Claiming, Copying
  <2>3. CASE error \in {"temporary", "permanent"}
    <3>1. m = NextFile(worker[w], f, error)
      BY <1>11, <2>3
    <3>2. error = "temporary" \/ (Held(w) => Answered(k, f)')
      BY <1>12, <2>3
    <3>3. k = worker[w].lease.key
      BY <1>2, <1>3
    <3>4. QED
      BY <1>1, <1>3, <1>8, <2>3, <3>1, <3>2, <3>3, LeavesFile
  <2>4. QED
    BY <1>4, <2>1, <2>2, <2>3 DEF PassErrors
<1>13. CASE HoldsFile(w)
  <2>1. PICK at \in RetryTimes(clock), permanent \in BOOLEAN :
          /\ FailUpload(c, at, permanent, clock)
          /\ permanent => error \in {"temporary", "permanent"}
          /\ (error = "permanent" /\ Held(w)) => permanent
    <3>1. Failure(w) /\ {clock, clock + Backoff} = RetryTimes(clock)
      BY <1>13 DEF FailCopy, RetryTimes
    <3> DEFINE final == error = "permanent" \/ worker[w].tries >= MaxAttempts
    <3>2. CASE /\ error \in {"lost", "cancelled"} \/ ~Held(w)
               /\ FailUpload(c, clock, FALSE, clock)
      BY <3>1, <3>2
    <3>3. CASE /\ error \in {"temporary", "permanent"}
               /\ FailUpload(c, IF final THEN 0 ELSE clock + Backoff, final, clock)
      <4>1. CASE final
        <5>1. FailUpload(c, clock, TRUE, clock)
          BY <3>3, <4>1 DEF FailUpload, FailedUpload
        <5>2. QED
          BY <3>1, <3>3, <5>1
      <4>2. CASE ~final
        <5>1. FailUpload(c, clock + Backoff, FALSE, clock)
          BY <3>3, <4>2
        <5>2. QED
          BY <3>1, <4>2, <5>1
      <4>3. QED
        BY <4>1, <4>2
    <3>4. QED
      BY <1>2, <1>3, <3>1, <3>2, <3>3 DEF Failure
  <2> DEFINE u == FailedUpload(uploads[c.file], at, permanent)
  <2>2. [UploadsNext]_allVars
    BY <1>5, <2>1 DEF UploadsNext, UseClaim
  <2>3. uploads[c.file] \in Upload
    BY <1>3, <1>5 DEF StoreBase, AllTypeOK, UploadsTypeOK
  <2>4. Replace(c, u, clock) /\ u.state = IF permanent THEN "failed" ELSE "retrying"
    BY <2>1, <2>3 DEF FailUpload, FailedUpload, Upload
  <2> HIDE DEF u
  <2>5. uploads'[f] = u
    BY <1>3, <1>5, <1>6, <2>4, ReplaceAnswers
  <2>6. error = "permanent" => (Held(w) => Answered(k, f)')
    BY <2>1, <2>4, <2>5 DEF Answered
  <2>7. m \in Pass /\ GoesOn(w, m)
    BY <1>12, <2>6
  <2>8. u.state = "failed" => f \in troubled
    BY <1>1, <1>3, <2>1, <2>4 DEF CopiesInv, PassInv
  <2>9. QED
    BY <1>3, <1>5, <1>6, <1>8, <2>2, <2>4, <2>7, <2>8, SettleStep DEF remote
<1>14. CASE ~HoldsFile(w)
  <2>1. UNCHANGED allVars
    BY <1>14 DEF FailCopy
  <2>2. error = "permanent" => Answered(k, f)'
    BY <1>6, <1>14 DEF Answered
  <2>3. m \in Pass /\ GoesOn(w, m)
    BY <1>12, <2>2
  <2>4. troubled \subseteq troubled'
    BY <1>6
  <2>5. QED
    BY <1>6, <1>8, <2>1, <2>3, <2>4, LocalStep DEF Stepped
<1>15. QED
  BY <1>13, <1>14

-----------------------------------------------------------------------------
(* The steps by which a pass takes a thread, and gives it back. *)

(* A step of the threads in which worker w takes or gives back its lease. *)
LEMMA ThreadPassStep ==
  ASSUME CopiesInv, ThreadStep, UNCHANGED <<uploadVars, remote, rejected, troubled, unrecorded>>,
         spent' \subseteq Keys, LiveStays, leases \subseteq leases',
         NEW w \in Workers, NEW m \in Pass, Moves(w, m), PassInv(w)',
         \/ m.pc = "idle"
         \/ \A l \in leases : ~(l.key = m.lease.key /\ l.token = m.lease.token),
         \A k \in Keys : (threads'[k].state = "up-to-date" /\ k \notin spent') =>
           \/ threads[k].state = "up-to-date" /\ k \notin spent
           \/ \A f \in Files : Answered(k, f)
  PROVE  Stepped
<1>1. [UploadsNext]_allVars
  BY DEF UploadsNext
<1>2. UNCHANGED <<uploads, uploadClaims, drawn, reopened, folder, wire>>
  BY DEF uploadVars, remote
<1>3. \A k \in Keys : AnswersKept(k)
  BY <1>2, SameAnswers
<1>4. Grows
  BY <1>2 DEF Grows
<1>5. \A v \in Workers : KeepsAnswers(v)
  BY <1>3, WorkerFacts, LeaseFacts DEF KeepsAnswers, CopiesInv
<1>6. /\ worker' \in [Workers -> Pass] /\ worker'[w] = m
      /\ \A v \in Workers \ {w} : worker'[v] = worker[v]
  BY MovesFacts DEF CopiesInv
<1>7. PassTypeOK'
  BY <1>2, <1>6 DEF CopiesInv, PassTypeOK
<1>8. FailedForCause'
  BY <1>2, <1>4, FailedStays
<1>9. NoFileForgotten'
  <2>1. ASSUME NEW k \in Keys, \A f \in Files : Answered(k, f)
        PROVE  \A f \in Files : Answered(k, f)'
    BY <1>3, <2>1 DEF AnswersKept
  <2>2. QED
    BY <1>3, <2>1, AnswersStay
<1>10. \/ ~Busy(w)'
       \/ \A l \in leases : ~(l.key = worker'[w].lease.key /\ l.token = worker'[w].lease.token)
  BY <1>6 DEF Busy
<1>11. QED
  BY <1>1, <1>4, <1>5, <1>6, <1>7, <1>8, <1>9, <1>10, OnePassSteps DEF Stepped

LEMMA StartPassStep ==
  ASSUME CopiesInv, NEW w \in Workers, NEW k \in Keys, StartPass(w, k)
  PROVE  Stepped
<1>1. StoreBase /\ clock \in Nows
  BY ClockNow DEF CopiesInv
<1>2. Claim(k, clock) /\ UNCHANGED <<uploadVars, remote, rejected, troubled, unrecorded, spent>>
  BY DEF StartPass, OnlyStore, hist
<1>3. ThreadStep
  BY <1>1, <1>2 DEF ThreadStep, ClaimThread
<1>4. LiveStays /\ leases' = leases \cup {NewLease(k)} /\ \A j \in Keys : StaysDone(j)
  BY <1>1, <1>2, ClaimLive
<1>5. NewLease(k) \in Lease /\ issued[k] \in Nat /\ threads[k].attempts + 1 \in Nat
  <2>1. StoreBase'
    BY <1>1, <1>2, <1>3, BaseStep DEF UploadsNext
  <2>2. QED
    BY <1>1, <1>4, <2>1 DEF StoreBase, AllTypeOK, TypeOK, Thread
<1>6. PICK lease \in Lease, attempts \in Nat : lease = NewLease(k) /\ attempts = threads[k].attempts + 1
  BY <1>5
<1> DEFINE m == [Idle EXCEPT !.pc = "files", !.lease = lease, !.todo = Files,
                             !.attempts = attempts]
<1>7. Moves(w, m)
  BY <1>6 DEF StartPass
<1>8. Idle \in Pass
  BY IdleType
<1>9. m \in Pass /\ m.pc = "files" /\ m.lease = lease /\ m.todo = Files
  BY <1>8 DEF Pass, PassStates
<1> HIDE DEF m
<1>10. worker'[w] = m
  BY <1>7, <1>9, MovesFacts DEF CopiesInv
<1>11. PassInv(w)'
  <2>1. Visited(w)' /\ worker'[w].lease \in leases'
    BY <1>4, <1>6, <1>9, <1>10 DEF Visited
  <2>2. QED
    BY <1>9, <1>10, <2>1 DEF PassInv, Copying
<1>12. \A l \in leases : ~(l.key = m.lease.key /\ l.token = m.lease.token)
  <2>1. m.lease.key = k /\ m.lease.token = issued[k] + 1
    BY <1>6, <1>9 DEF NewLease
  <2>2. SUFFICES ASSUME NEW l \in leases, l.key = k, l.token = issued[k] + 1 PROVE FALSE
    BY <2>1
  <2>3. l.token \in Nat /\ l.token <= issued[k]
    BY <1>1, <2>2, LeaseFacts DEF Lease
  <2>4. QED
    BY <1>5, <2>2, <2>3
<1>13. spent' \subseteq Keys /\ leases \subseteq leases'
  BY <1>2, <1>4 DEF CopiesInv, PassTypeOK
<1>14. \A j \in Keys : (threads'[j].state = "up-to-date" /\ j \notin spent') =>
         threads[j].state = "up-to-date" /\ j \notin spent
  BY <1>2, <1>4 DEF StaysDone
<1>15. QED
  BY <1>2, <1>3, <1>4, <1>7, <1>9, <1>11, <1>12, <1>13, <1>14, ThreadPassStep

(* A worker that is idle next: its thread was given back. *)
LEMMA GivesBack ==
  ASSUME CopiesInv, ThreadStep, UNCHANGED <<uploadVars, remote, rejected, troubled, unrecorded>>,
         spent' \subseteq Keys, LiveStays, leases' = leases,
         NEW w \in Workers, Moves(w, Idle),
         \A k \in Keys : (threads'[k].state = "up-to-date" /\ k \notin spent') =>
           \/ threads[k].state = "up-to-date" /\ k \notin spent
           \/ \A f \in Files : Answered(k, f)
  PROVE  Stepped
<1>1. Idle \in Pass /\ Idle.pc = "idle"
  BY IdleType DEF Idle
<1>2. worker'[w] = Idle
  BY <1>1, MovesFacts DEF CopiesInv
<1>3. PassInv(w)'
  BY <1>1, <1>2, IdlePass
<1>4. QED
  BY <1>1, <1>3, ThreadPassStep

LEMMA InterruptStep ==
  ASSUME CopiesInv, NEW w \in Workers, Interrupt(w)
  PROVE  Stepped
<1>1. worker[w].pc \in Claiming \cup {"files"}
  BY DEF Interrupt
<1>2. PICK l \in leases : l = worker[w].lease
  BY <1>1, WorkerFacts
<1>3. StoreBase /\ clock \in Nows /\ clock \in Nat
  BY ClockNow DEF CopiesInv
<1>4. PICK error \in Errors \ {NoText} : error = "operation cancelled"
  BY DEF Errors, NoText
<1>5. Fail(l, error, clock, FALSE, clock) /\ Moves(w, Idle)
  BY <1>2, <1>4 DEF Interrupt
<1>6. UNCHANGED <<uploadVars, remote, rejected, troubled, unrecorded, spent>>
  BY DEF Interrupt, OnlyStore, hist
<1>7. clock \in RetryTimes(clock) /\ FALSE \in BOOLEAN
  BY DEF RetryTimes
<1>8. ThreadStep
  BY <1>3, <1>5, <1>7 DEF ThreadStep, UseLease
<1>9. LiveStays /\ leases' = leases /\ \A k \in Keys : StaysDone(k)
  BY <1>3, <1>5, FailLive
<1>10. spent' \subseteq Keys
  BY <1>6 DEF CopiesInv, PassTypeOK
<1>11. \A k \in Keys : (threads'[k].state = "up-to-date" /\ k \notin spent') =>
         threads[k].state = "up-to-date" /\ k \notin spent
  BY <1>6, <1>9 DEF StaysDone
<1>12. QED
  BY <1>5, <1>6, <1>8, <1>9, <1>10, <1>11, GivesBack

LEMMA LatestSyncable ==
  ASSUME NEW k \in Keys
  PROVE  Latest(k) \in SyncableTS(k) /\ Latest(k) \in Nat
<1>1. Latest(k) \in SyncableTS(k)
  BY AttachmentsAssumption DEF Latest
<1>2. SyncableTS(k) \subseteq Nat
  <2>1. \A e \in Events : e.messageTS \in Nat
    BY StoreAssumption DEF Event
  <2>2. QED
    BY <2>1 DEF SyncableTS
<1>3. QED
  BY <1>1, <1>2

LEMMA EndPassStep ==
  ASSUME CopiesInv, NEW w \in Workers, EndPass(w)
  PROVE  Stepped
<1>1. worker[w].pc \in Claiming \cup {"files"} /\ worker[w].todo = {}
  BY DEF EndPass
<1>2. PICK l \in leases : l = worker[w].lease
  BY <1>1, WorkerFacts
<1>3. StoreBase /\ clock \in Nows /\ clock \in Nat /\ clock # 0 /\ Backoff \in Nat /\ l.key \in Keys
  BY ClockNow, LeaseFacts, StoreAssumption DEF CopiesInv
<1>4. PICK ts \in SyncableTS(l.key) : ts = Latest(l.key) /\ ts \in Nat
  BY <1>3, LatestSyncable
<1>5. PICK at \in {0, clock + Backoff} : at = IF worker[w].retry THEN clock + Backoff ELSE 0
  OBVIOUS
<1>6. at \in Nat /\ (worker[w].retry => at # 0)
  BY <1>3, <1>5
<1>7. Complete(l, ts, at, clock) /\ Moves(w, Idle)
  BY <1>2, <1>4, <1>5 DEF EndPass
<1>8. UNCHANGED <<uploadVars, remote, rejected, troubled, unrecorded>>
  BY DEF EndPass
<1>9. spent' = IF worker[w].attempts >= MaxAttempts THEN spent \cup {l.key} ELSE spent \ {l.key}
  BY <1>2 DEF EndPass
<1>10. ThreadStep
  BY <1>3, <1>7 DEF ThreadStep, UseLease
<1>11. /\ LiveStays /\ leases' = leases /\ Validate(threads[l.key], l, clock)
       /\ \A k \in Keys \ {l.key} : StaysDone(k)
       /\ at # 0 => threads'[l.key].state # "up-to-date"
  BY <1>3, <1>4, <1>6, <1>7, CompleteLive
<1>12. spent' \subseteq Keys
  BY <1>3, <1>9 DEF CopiesInv, PassTypeOK
<1>13. ASSUME NEW k \in Keys, threads'[k].state = "up-to-date", k \notin spent'
       PROVE  \/ threads[k].state = "up-to-date" /\ k \notin spent
              \/ \A f \in Files : Answered(k, f)
  <2>1. CASE k # l.key
    BY <1>9, <1>11, <1>13, <2>1 DEF StaysDone
  <2>2. CASE k = l.key
    <3>1. ~worker[w].retry /\ ~(worker[w].attempts >= MaxAttempts)
      BY <1>6, <1>9, <1>11, <1>13, <2>2
    <3>2. Held(w) /\ Visited(w)
      BY <1>1, <1>2, <1>11, WorkerFacts DEF Held, CopiesInv, PassInv
    <3>3. \A f \in Files \ worker[w].todo : Answered(worker[w].lease.key, f)
      BY <3>1, <3>2 DEF Visited
    <3>4. QED
      BY <1>1, <1>2, <2>2, <3>3
  <2>3. QED
    BY <2>1, <2>2
<1>14. QED
  BY <1>7, <1>8, <1>10, <1>11, <1>12, <1>13, GivesBack

-----------------------------------------------------------------------------
(* The invariant, and what follows from it. *)

LEMMA InitCopies ==
  ASSUME AttachmentsInit
  PROVE  CopiesInv
<1>1. StoreBase
  <2>1. AllTypeOK /\ UploadInv
    BY UploadsInitType, UploadsInitInv DEF AttachmentsInit
  <2>2. Init
    BY DEF AttachmentsInit, UploadsInit
  <2>3. WorkInv
    BY <2>2, InitWork
  <2>4. clock # 0
    <3>1. clock = Lag + 1
      BY <2>2 DEF Init
    <3>2. Lag \in Nat
      BY StoreAssumption
    <3>3. QED
      BY <3>1, <3>2
  <2>5. QED
    BY <2>1, <2>3, <2>4 DEF StoreBase
<1>2. worker = [w \in Workers |-> Idle] /\ Idle \in Pass /\ Idle.pc = "idle"
  BY IdleType DEF AttachmentsInit, Idle
<1>3. PassTypeOK
  BY <1>2 DEF AttachmentsInit, PassTypeOK
<1>4. \A w \in Workers : PassInv(w) /\ ~Busy(w)
  BY <1>2 DEF PassInv, Busy, Copying
<1>5. OnePassPerLease
  BY <1>4 DEF OnePassPerLease
<1>6. \A f \in Files : uploads[f].state # "failed"
  BY DEF AttachmentsInit, UploadsInit, NoUpload
<1>7. \A k \in Keys : threads[k].state # "up-to-date"
  BY DEF AttachmentsInit, UploadsInit, Init, NoThread
<1>8. QED
  BY <1>1, <1>3, <1>4, <1>5, <1>6, <1>7 DEF CopiesInv, FailedForCause, NoFileForgotten

LEMMA NextCopies ==
  ASSUME CopiesInv, [AttachmentsNext]_passVars
  PROVE  Stepped
<1>1. ASSUME NEW w \in Workers, PassStep(w)
      PROVE  Stepped
  BY <1>1, EndPassStep, InterruptStep, DropPassStep, UseCopyStep, NoWorkStep, StartCopyStep,
     FindFileStep, FetchStep, SendCopyStep, DropCopyStep, StoreCopyStep, FailCopyStep DEF PassStep
<1>2. ASSUME NEW w \in Workers, Heartbeats(w) \/ Error(w) \/ Cancel(w) \/ Crash(w)
      PROVE  Stepped
  BY <1>2, HeartbeatsStep, ErrorStep, CancelStep, CrashStep
<1>3. ASSUME NEW r \in wire, Apply(r) \/ Lose(r)
      PROVE  Stepped
  BY <1>3, ApplyStep, LoseStep
<1>4. CASE UNCHANGED passVars
  BY <1>4, QuietLocalStep DEF passVars, remote, hist, CopiesInv, PassTypeOK
<1>5. QED
  BY <1>1, <1>2, <1>3, <1>4, ReceiveStep, StartPassStep, WaitStep DEF AttachmentsNext

LEMMA CopiesInvariant == AttachmentsSpec => []CopiesInv
<1>1. AttachmentsInit => CopiesInv
  BY InitCopies
<1>2. CopiesInv /\ [AttachmentsNext]_passVars => CopiesInv'
  BY NextCopies DEF Stepped
<1>3. QED
  BY <1>1, <1>2, PTL DEF AttachmentsSpec

(* Every step of the workers is one that Uploads allows its callers, so what  *)
(* is proved of callers who may do anything with their leases and claims      *)
(* holds of the copies that copyFile makes.                                   *)
THEOREM AttachmentsImplementUploads == AttachmentsSpec => UploadsSpec
<1>1. AttachmentsInit => UploadsInit
  BY DEF AttachmentsInit
<1>2. CopiesInv /\ [AttachmentsNext]_passVars => [UploadsNext]_allVars
  BY NextCopies DEF Stepped
<1>3. QED
  BY <1>1, <1>2, CopiesInvariant, PTL DEF AttachmentsSpec, UploadsSpec

(* While workers copy attachments, upload records keep their meaning, a lost  *)
(* claim stays lost, a copy stays the copy, and a sync reopens a file once.   *)
COROLLARY CopiesKeepUploads ==
  AttachmentsSpec => []UploadMeaning /\ UploadFencedForever /\ CopyKept /\ []OneRetryPerSync
BY AttachmentsImplementUploads, UploadAlwaysMeans, LostUploadsStayLost, CopiesNeverChange,
   RetriesAreAsked, PTL

(* A file is failed for good only when a copy of it failed for a reason of    *)
(* its own: losing a lease, a stopped thread, a shutdown or a crash frees it. *)
THEOREM FailuresHaveCause == AttachmentsSpec => []FailedForCause
<1>1. CopiesInv => FailedForCause
  BY DEF CopiesInv
<1>2. QED
  BY <1>1, CopiesInvariant, PTL

(* A thread is up-to-date only when each of its files has an answer: copied,  *)
(* failed, or one of the named ways in which an answer could not be kept.     *)
THEOREM NoFileIsForgotten == AttachmentsSpec => []NoFileForgotten
<1>1. CopiesInv => NoFileForgotten
  BY DEF CopiesInv
<1>2. QED
  BY <1>1, CopiesInvariant, PTL
=============================================================================
