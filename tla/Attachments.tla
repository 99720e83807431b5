----------------------------- MODULE Attachments -----------------------------
(***************************************************************************)
(* The attachments of a synchronization (internal/worker: reconcile's loop *)
(* over files, attachment, copyFile), over the shared uploads of the store *)
(* and HubSpot's folder of copies.  Every thread shows every file.  The    *)
(* note, which module Worker follows, is left out of a pass.               *)
(*                                                                         *)
(* HubSpot names a copy after the Slack file and returns the existing one  *)
(* when the name is taken.  An upload whose worker stopped waiting is      *)
(* still applied, or lost.                                                 *)
(***************************************************************************)
EXTENDS Uploads

CONSTANTS
  Workers,         \* the worker goroutines of all replicas
  MaxAttempts,     \* attempts before a failure is permanent
  MaxFaults        \* bound: errors, crashes and delays of work

(* Of the messages of a thread, however many there are, one is the latest. *)
ASSUME AttachmentsAssumption ==
  /\ Workers # {}
  /\ MaxAttempts \in Nat \ {0} /\ MaxFaults \in Nat
  /\ \A k \in Keys : \E ts \in SyncableTS(k) : \A other \in SyncableTS(k) : other <= ts

VARIABLES
  worker,          \* what each worker is at, with the locals of its pass
  folder,          \* HubSpot's copy of each file, or NoText
  rejected,        \* files the policy rejects: too large, or of another type
  wire,            \* uploads sent and neither applied nor lost
  faults,          \* faults so far
  \* History:
  troubled,        \* files a copy of which failed for a reason of its own
  spent,           \* threads whose last pass was the last of its attempts
  unrecorded       \* thread and file: refused for good, when its lease had ended

remote == <<folder, wire>>
hist == <<troubled, spent, unrecorded>>
passVars == <<allVars, worker, remote, rejected, faults, hist>>

NoLease == [key |-> SomeKey, token |-> 0, generation |-> 0, revision |-> 0, seen |-> {}]
NoClaim == [file |-> CHOOSE f \in Files : TRUE, token |-> 0]
Idle == [pc |-> "idle", lease |-> NoLease, attempts |-> 0, todo |-> {}, retry |-> FALSE,
         claim |-> NoClaim, tries |-> 0, copy |-> NoText, error |-> ""]

Copying == {"finding", "fetching", "sending", "sent"}
Busy(w) == worker[w].pc # "idle"
Free(w) == ~Busy(w) /\ w = CHOOSE v \in Workers : ~Busy(v)
File(w) == worker[w].claim.file
Held(w) == Validate(threads[worker[w].lease.key], worker[w].lease, clock)
HoldsFile(w) == ValidateUpload(uploads[File(w)], worker[w].claim, clock)

AttachmentsInit ==
  /\ UploadsInit
  /\ worker = [w \in Workers |-> Idle]
  /\ folder = [f \in Files |-> NoText]
  /\ rejected \in SUBSET Files
  /\ wire = {}
  /\ faults = 0
  /\ troubled = {}
  /\ spent = {}
  /\ unrecorded = {}

Moves(w, state) == worker' = [worker EXCEPT ![w] = state]
Fault == faults < MaxFaults /\ faults' = faults + 1
Only(w, state) == Moves(w, state) /\ UNCHANGED <<allVars, remote, rejected, faults, hist>>
OnlyStore == UNCHANGED <<remote, rejected, faults, hist>>

-----------------------------------------------------------------------------
(* The pass around the attachments. *)

Receive(e) == Record(e, clock) /\ UNCHANGED <<uploadVars, worker>> /\ OnlyStore

StartPass(w, k) ==
  /\ Free(w)
  /\ Claim(k, clock)
  /\ Moves(w, [Idle EXCEPT !.pc = "files", !.lease = NewLease(k), !.todo = Files,
                           !.attempts = threads[k].attempts + 1])
  /\ UNCHANGED uploadVars /\ OnlyStore

(* The loop goes on after file f; error "" is its success. *)
NextFile(s, f, error) ==
  [s EXCEPT !.pc = "files", !.todo = @ \ {f}, !.error = "", !.claim = NoClaim, !.copy = NoText,
            !.tries = 0,
            !.retry = @ \/ (error = "temporary" /\ s.attempts < MaxAttempts)]

Latest(k) == CHOOSE ts \in SyncableTS(k) : \A other \in SyncableTS(k) : other <= ts

EndPass(w) ==
  LET s == worker[w] IN
  /\ s.pc = "files" /\ s.error = "" /\ s.todo = {}
  /\ Complete(s.lease, Latest(s.lease.key), IF s.retry THEN clock + Backoff ELSE 0, clock)
  /\ spent' = IF s.attempts >= MaxAttempts THEN spent \cup {s.lease.key}
                                           ELSE spent \ {s.lease.key}
  /\ Moves(w, Idle)
  /\ UNCHANGED <<uploadVars, remote, rejected, faults, troubled, unrecorded>>

(* reconcile returned context.Canceled: the thread is tried again at once. *)
Interrupt(w) ==
  /\ worker[w].pc = "files" /\ worker[w].error = "cancelled"
  /\ Fail(worker[w].lease, "operation cancelled", clock, FALSE, clock)
  /\ Moves(w, Idle)
  /\ UNCHANGED uploadVars /\ OnlyStore

(* ErrLeaseLost, from any operation on the thread: nothing is written. *)
DropPass(w) ==
  /\ worker[w].pc = "files" /\ ~Held(w)
  /\ Only(w, Idle)

-----------------------------------------------------------------------------
(* attachment: ClaimUpload and what its answers mean. *)

Considers(w, f) == worker[w].pc = "files" /\ worker[w].error = "" /\ f \in worker[w].todo

UseCopy(w, f) ==
  /\ Considers(w, f) /\ Held(w)
  /\ uploads[f].hubspotID # NoText
  /\ Only(w, NextFile(worker[w], f, ""))

(* ErrNoWork: failed for good, or delayed or leased, which is retried. *)
NoWork(w, f) ==
  /\ Considers(w, f) /\ Held(w)
  /\ uploads[f].hubspotID = NoText
  /\ ~UploadClaimable(threads[worker[w].lease.key], uploads[f], clock)
  /\ Only(w, NextFile(worker[w], f, IF uploads[f].state = "failed" THEN "permanent" ELSE "temporary"))

StartCopy(w, f) ==
  /\ Considers(w, f)
  /\ ClaimUpload(worker[w].lease, f, clock)
  /\ Moves(w, [worker[w] EXCEPT !.pc = "finding", !.tries = uploads'[f].attempts,
                                !.claim = [file |-> f, token |-> uploads'[f].leaseToken]])
  /\ OnlyStore

-----------------------------------------------------------------------------
(* copyFile.  Validate checks the thread; the file's own heartbeat cancels. *)

Goes(w, from, to) ==
  /\ worker[w].pc = from
  /\ Only(w, IF Held(w) THEN [worker[w] EXCEPT !.pc = to]
                        ELSE [worker[w] EXCEPT !.pc = "failing", !.error = "lost"])

(* FindFile: a copy that an earlier attempt left behind is taken over. *)
FindFile(w) ==
  IF Held(w) /\ folder[File(w)] # NoText
    THEN /\ worker[w].pc = "finding"
         /\ Only(w, [worker[w] EXCEPT !.pc = "storing", !.copy = folder[File(w)]])
    ELSE Goes(w, "finding", "fetching")

(* Slack.File, the policy, and Download into a temporary file. *)
Fetch(w) ==
  IF File(w) \in rejected
    THEN /\ worker[w].pc = "fetching"
         /\ Moves(w, [worker[w] EXCEPT !.pc = "failing", !.error = "permanent"])
         /\ troubled' = troubled \cup {File(w)}
         /\ UNCHANGED <<allVars, remote, rejected, faults, spent, unrecorded>>
    ELSE Goes(w, "fetching", "sending")

SendCopy(w) ==
  /\ worker[w].pc = "sending" /\ Held(w)
  /\ wire' = wire \cup {[worker |-> w, claim |-> worker[w].claim]}
  /\ Moves(w, [worker[w] EXCEPT !.pc = "sent"])
  /\ UNCHANGED <<allVars, folder, rejected, faults, hist>>

DropCopy(w) ==
  /\ worker[w].pc = "sending" /\ ~Held(w)
  /\ Only(w, [worker[w] EXCEPT !.pc = "failing", !.error = "lost"])

(* A renewal finds the file's lease lost and cancels the copy. *)
CancelCopy(w) ==
  /\ worker[w].pc \in Copying /\ ~HoldsFile(w)
  /\ Only(w, [worker[w] EXCEPT !.pc = "failing", !.error = "cancelled"])

Heartbeats(w) ==
  /\ worker[w].pc \in Copying
  /\ \/ RenewUpload(worker[w].claim, clock)
     \/ Renew(worker[w].lease, clock) /\ UNCHANGED uploadVars
  /\ UNCHANGED worker /\ OnlyStore

(* CompleteUpload; ErrLeaseLost is returned, and drops the pass. *)
StoreCopy(w) ==
  /\ worker[w].pc = "storing"
  /\ IF HoldsFile(w)
       THEN /\ CompleteUpload(worker[w].claim, worker[w].copy, clock)
            /\ Moves(w, NextFile(worker[w], File(w), ""))
       ELSE UNCHANGED allVars /\ Moves(w, Idle)
  /\ OnlyStore

\* Mutation: an interrupted copy counts as a failed one.
FailureCounted(w) == FailUpload(worker[w].claim,
  IF worker[w].error = "permanent" \/ worker[w].tries >= MaxAttempts THEN 0 ELSE clock + Backoff,
  worker[w].error = "permanent" \/ worker[w].tries >= MaxAttempts, clock)

(* The claim belongs to a shared file: an interruption frees it at once.  The *)
(* loss of the thread interrupts too, once the thread's heartbeat noticed it. *)
Failure(w) ==
  LET s == worker[w]
      permanent == s.error = "permanent" \/ s.tries >= MaxAttempts
  IN  \/ /\ s.error \in {"lost", "cancelled"} \/ ~Held(w)
         /\ FailUpload(s.claim, clock, FALSE, clock)
      \/ /\ s.error \in {"temporary", "permanent"}
         /\ FailUpload(s.claim, IF permanent THEN 0 ELSE clock + Backoff, permanent, clock)

\* Mutation: a temporary failure of a file asks for no other pass.
AfterFailureForgetting(w) ==
  CASE worker[w].error = "lost"      -> Idle
    [] worker[w].error = "cancelled" -> [worker[w] EXCEPT !.pc = "files"]
    [] OTHER -> NextFile(worker[w], File(w), "permanent")

AfterFailure(w) ==
  CASE worker[w].error = "lost"      -> Idle
    [] worker[w].error = "cancelled" -> [worker[w] EXCEPT !.pc = "files"]
    [] OTHER -> NextFile(worker[w], File(w), worker[w].error)

(* ErrLeaseLost of FailUpload is ignored: the pass reports the failure alone. *)
FailCopy(w) ==
  /\ worker[w].pc = "failing"
  /\ IF HoldsFile(w) THEN Failure(w) ELSE UNCHANGED allVars
  /\ unrecorded' = IF worker[w].error = "permanent" /\ ~HoldsFile(w)
                     THEN unrecorded \cup {<<worker[w].lease.key, File(w)>>} ELSE unrecorded
  /\ Moves(w, AfterFailure(w))
  /\ UNCHANGED <<remote, rejected, faults, troubled, spent>>

-----------------------------------------------------------------------------
(* What goes wrong. *)

(* An error of HubSpot or Slack; the request that failed may still be applied. *)
Error(w) ==
  /\ worker[w].pc \in {"finding", "fetching", "sent"}
  /\ Fault
  /\ \E error \in {"temporary", "permanent"} :
       Moves(w, [worker[w] EXCEPT !.pc = "failing", !.error = error])
  /\ troubled' = troubled \cup {File(w)}
  /\ UNCHANGED <<allVars, remote, rejected, spent, unrecorded>>

(* A renewal that the store cannot make, or the shutdown: the file's lease holds. *)
Cancel(w) ==
  /\ worker[w].pc \in Copying
  /\ Fault
  /\ Moves(w, [worker[w] EXCEPT !.pc = "failing", !.error = "cancelled"])
  /\ UNCHANGED <<allVars, remote, rejected, hist>>

Crash(w) ==
  /\ Busy(w)
  /\ Fault
  /\ Moves(w, Idle)
  /\ UNCHANGED <<allVars, remote, rejected, hist>>

Awaited(r) == worker[r.worker].pc = "sent" /\ worker[r.worker].claim = r.claim

(* Bound: HubSpot's fresh file IDs are the members of Copies not in use. *)
Fresh == Copies \ {folder[f] : f \in Files}

Apply(r) ==
  LET f == r.claim.file
      copy == IF folder[f] # NoText THEN folder[f] ELSE CHOOSE c \in Fresh : TRUE IN
  /\ folder[f] # NoText \/ Fresh # {}
  /\ folder' = [folder EXCEPT ![f] = copy]
  /\ wire' = wire \ {r}
  /\ worker' = IF Awaited(r)
                 THEN [worker EXCEPT ![r.worker] = [@ EXCEPT !.pc = "storing", !.copy = copy]]
                 ELSE worker
  /\ UNCHANGED <<allVars, rejected, faults, hist>>

Lose(r) ==
  /\ ~Awaited(r)
  /\ wire' = wire \ {r}
  /\ UNCHANGED <<allVars, worker, folder, rejected, faults, hist>>

(* Time passes while a delay or a lease is all there is to wait for, or as a fault. *)
Wanted(k) == threads[k].active /\ threads[k].completed < threads[k].requested
                               /\ threads[k].state # "failed"
OnlyWaiting ==
  /\ \E k \in Keys : Wanted(k)
  /\ \A k \in Keys : ~Claimable(threads[k], clock)
  /\ \A w \in Workers : ~Busy(w)
  /\ wire = {}

Wait ==
  /\ Tick
  /\ IF OnlyWaiting THEN UNCHANGED faults ELSE Fault
  /\ UNCHANGED <<uploadVars, worker, remote, rejected, hist>>

-----------------------------------------------------------------------------
PassStep(w) ==
  \/ EndPass(w) \/ Interrupt(w) \/ DropPass(w)
  \/ \E f \in Files : UseCopy(w, f) \/ NoWork(w, f) \/ StartCopy(w, f)
  \/ FindFile(w) \/ Fetch(w) \/ SendCopy(w) \/ DropCopy(w) \/ CancelCopy(w)
  \/ StoreCopy(w) \/ FailCopy(w)

AttachmentsNext ==
  \/ \E e \in Events : Receive(e)
  \/ \E w \in Workers, k \in Keys : StartPass(w, k)
  \/ \E w \in Workers : PassStep(w) \/ Heartbeats(w) \/ Error(w) \/ Cancel(w) \/ Crash(w)
  \/ \E r \in wire : Apply(r) \/ Lose(r)
  \/ Wait

(* Every goroutine runs, HubSpot answers, and time passes. *)
Fairness ==
  /\ \A w \in Workers : WF_passVars(PassStep(w))
  /\ WF_passVars(\E w \in Workers, k \in Keys : StartPass(w, k))
  /\ WF_passVars(\E r \in wire : Apply(r))
  /\ WF_passVars(Wait)

AttachmentsSpec == AttachmentsInit /\ [][AttachmentsNext]_passVars /\ Fairness

-----------------------------------------------------------------------------

(* A file fails for good only for a reason of its own.  A thread that is      *)
(* stopped, a worker that loses a lease or a shutdown, even in the last       *)
(* attempt, leaves the file to the other threads that show it.                *)
FailedForCause == \A f \in Files : uploads[f].state = "failed" => f \in troubled

(* A thread is done only with files that are: a file that another thread is   *)
(* still copying, or that waits for a retry, is visited again, unless the     *)
(* thread has used up its own attempts, or was refused the file for good when *)
(* the lease that would have recorded it had ended.  A file that had failed   *)
(* may since have been reopened by the sync of another thread.                *)
NoFileForgotten ==
  \A k \in Keys, f \in Files :
    (threads[k].state = "up-to-date" /\ k \notin spent)
      => \/ uploads[f].state \in {"complete", "failed"}
         \/ <<k, f>> \in unrecorded
         \/ \E j \in Keys \ {k} : reopened[f][j] > 0

(* A copy that HubSpot has, though the attempt that sent it crashed, timed    *)
(* out or lost its lease before CompleteUpload, comes to be known to the      *)
(* store, while some thread that shows the file still has attempts to make.   *)
LeftCopyIsFound ==
  \A f \in Files : folder[f] # NoText ~>
    \/ uploads[f].hubspotID = folder[f] \/ uploads[f].state = "failed"
    \/ \A k \in Keys : ~threads[k].active \/ k \in spent

(* A pass that is dropped because the lease of a file was lost, interrupted   *)
(* or crashed is made again: every wanted synchronization comes to its end.   *)
PassEnds == \A k \in Keys : Wanted(k) ~> ~Wanted(k)
=============================================================================
