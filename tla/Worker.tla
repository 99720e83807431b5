------------------------------- MODULE Worker -------------------------------
(***************************************************************************)
(* The transcript workers (internal/worker): process and reconcile, step   *)
(* by step, over the store, Slack and HubSpot.  The store changes by the   *)
(* actions of Store alone.  HubSpot is its notes and the requests sent to  *)
(* it that it has not applied yet; these outlive the worker that sent      *)
(* them: its call times out, it is cancelled or it crashes, and the        *)
(* request is still applied, or lost, later.                               *)
(*                                                                         *)
(* A transcript is the set of messages it contains.  A message is on Slack *)
(* once its event is recorded; that it is posted a little earlier can only *)
(* make a transcript contain more.  Validate is merged with the remote     *)
(* request it precedes, which takes effect at any later time.              *)
(***************************************************************************)
EXTENDS Store

CONSTANTS
  Workers,         \* the worker goroutines of all replicas
  MaxAttempts,     \* attempts before a failure is permanent
  MaxFaults        \* bound: errors, cancellations, crashes and delays of work

ASSUME WorkerAssumption ==
  /\ Workers # {}
  /\ MaxAttempts \in Nat \ {0} /\ MaxFaults \in Nat

VARIABLES
  worker,          \* what each worker is at, with the locals of process and reconcile
  wire,            \* requests sent to HubSpot, neither applied nor lost
  notes,           \* HubSpot's notes
  faults,          \* faults so far
  \* History:
  overwritten,     \* threads whose note was last written after its lease was lost
  lateCreates      \* creates applied after their lease was lost, per thread

remote == <<wire, notes>>
late == <<overwritten, lateCreates>>
workerVars == <<vars, remote, worker, faults, late>>

NoLease == [key |-> SomeKey, token |-> 0, generation |-> 0, revision |-> 0, seen |-> {}]
Idle == [pc |-> "idle", lease |-> NoLease, attempts |-> 0, note |-> NoText,
         body |-> {}, retry |-> FALSE, permanent |-> FALSE, cancelled |-> FALSE]
Absent == [present |-> FALSE, key |-> SomeKey, body |-> {}]

Working(w) == worker[w].pc # "idle"
Key(w) == worker[w].lease.key
Held(w, now) == Validate(threads[Key(w)], worker[w].lease, now)

(* Messages a transcript shows: not the commands, and not the bot's replies. *)
Eligible(e) == e.kind \in {"link", "message"}
Transcript(k) == {e \in Events : e.id \in events /\ e.key = k /\ Eligible(e)}
LastMessageTS(body) == IF body = {} THEN 0 ELSE CHOOSE ts \in {e.messageTS : e \in body} :
                                                  \A e \in body : e.messageTS <= ts
Marked(k) == {n \in Notes : notes[n].present /\ notes[n].key = k}

WorkInit ==
  /\ Init
  /\ worker = [w \in Workers |-> Idle]
  /\ wire = {}
  /\ notes = [n \in Notes |-> Absent]
  /\ faults = 0
  /\ overwritten = {}
  /\ lateCreates = [k \in Keys |-> 0]

(* Steps of a worker that the store does not see. *)
Moves(w, state) == worker' = [worker EXCEPT ![w] = state]
Goes(w, from, to) == worker[w].pc = from /\ Moves(w, [worker[w] EXCEPT !.pc = to])
Fault == faults < MaxFaults /\ faults' = faults + 1
OnlyWorker == UNCHANGED <<vars, remote, faults, late>>
OnlyStore == UNCHANGED <<remote, faults, late>>

-----------------------------------------------------------------------------
(* Run and process: claim, reconcile, then complete or fail. *)

Deliver(e) ==
  /\ Record(e, clock)
  /\ UNCHANGED worker /\ OnlyStore

Start(w, k) ==
  /\ ~Working(w)
  /\ Claim(k, clock)
  /\ Moves(w, [Idle EXCEPT !.pc = "claimed", !.lease = NewLease(k),
                           !.attempts = threads[k].attempts + 1,
                           !.note = threads[k].noteID])
  /\ OnlyStore

Heartbeat(w) ==
  /\ Working(w)
  /\ Renew(worker[w].lease, clock)
  /\ UNCHANGED worker /\ OnlyStore

(* ErrLeaseLost, from a validation or from the heartbeat: nothing is written. *)
Drop(w) ==
  /\ Working(w) /\ ~Held(w, clock)
  /\ Moves(w, Idle)
  /\ OnlyWorker

CheckLease(w) ==
  /\ Held(w, clock)
  /\ Goes(w, "claimed", "validated")
  /\ OnlyWorker

(* Slack.Thread; attachments may fail for now, which asks for another pass. *)
ReadThread(w) ==
  /\ worker[w].pc = "validated"
  /\ \E retry \in BOOLEAN :
       /\ IF retry THEN worker[w].attempts < MaxAttempts /\ Fault ELSE UNCHANGED faults
       /\ Moves(w, [worker[w] EXCEPT !.pc = "read", !.retry = retry,
                                     !.body = Transcript(Key(w))])
  /\ UNCHANGED <<vars, remote, late>>

\* Mutation: a note is created without looking for one.
FindNothing(w) ==
  /\ Goes(w, "read", "found") /\ worker[w].note = NoText
  /\ OnlyWorker

FindNote(w) ==
  /\ worker[w].pc = "read" /\ worker[w].note = NoText
  /\ \E n \in IF Marked(Key(w)) = {} THEN {NoText} ELSE Marked(Key(w)) :
       Moves(w, [worker[w] EXCEPT !.pc = "found", !.note = n])
  /\ OnlyWorker

Request(w, note) == [worker |-> w, lease |-> worker[w].lease, note |-> note,
                     body |-> worker[w].body]

Send(w, from, to, note) ==
  /\ Held(w, clock)
  /\ Goes(w, from, to)
  /\ wire' = wire \cup {Request(w, note)}
  /\ UNCHANGED <<vars, notes, faults, late>>

CreateNote(w) == worker[w].note = NoText /\ Send(w, "found", "creating", NoText)

\* Mutation: a note that was found is taken to be current.
SaveOnly(w) ==
  /\ worker[w].note # NoText
  /\ Goes(w, IF worker[w].pc = "found" THEN "found" ELSE "created", "updated")
  /\ SaveNote(worker[w].lease, worker[w].note, clock)
  /\ OnlyStore

(* The note was created, or found. *)
Save(w) ==
  /\ worker[w].note # NoText
  /\ Goes(w, IF worker[w].pc = "found" THEN "found" ELSE "created", "saved")
  /\ SaveNote(worker[w].lease, worker[w].note, clock)
  /\ OnlyStore

UpdateNote(w) ==
  /\ worker[w].note # NoText
  /\ Send(w, IF worker[w].pc = "read" THEN "read" ELSE "saved", "updating", worker[w].note)

\* Mutation: the completion is written without validating the lease.
FinishUnfenced(w) ==
  LET l == worker[w].lease
      at == IF worker[w].retry THEN clock + Backoff ELSE 0 IN
  /\ worker[w].pc = "updated"
  /\ Put(l.key, Completed(threads[l.key], l, LastMessageTS(worker[w].body), at))
  /\ outbox' = WithReactions(outbox, l.key)
  /\ Moves(w, Idle)
  /\ UNCHANGED <<events, actions, clock, granted, queued, covered, tried, heard>> /\ OnlyStore

Finish(w) ==
  /\ worker[w].pc = "updated"
  /\ Complete(worker[w].lease, LastMessageTS(worker[w].body),
              IF worker[w].retry THEN clock + Backoff ELSE 0, clock)
  /\ Moves(w, Idle)
  /\ OnlyStore

GiveUp(w) ==
  /\ worker[w].pc = "failing"
  /\ Fail(worker[w].lease, "error",
          IF worker[w].cancelled THEN clock ELSE clock + Backoff,
          worker[w].permanent, clock)
  /\ Moves(w, Idle)
  /\ OnlyStore

-----------------------------------------------------------------------------
(* What goes wrong.  A worker that stops waiting leaves its request behind. *)

(* The remote call a worker waits for, whose error may be permanent. *)
Remote(w) ==
  \/ worker[w].pc \in {"validated", "creating", "updating"}
  \/ worker[w].pc = "read" /\ worker[w].note = NoText

(* An error of Slack or HubSpot, or of the store, which is always retried. *)
Error(w) ==
  /\ worker[w].pc \notin {"idle", "failing"}
  /\ Fault
  /\ \E retryable \in IF Remote(w) THEN BOOLEAN ELSE {TRUE} :
       Moves(w, [worker[w] EXCEPT !.pc = "failing",
                   !.permanent = ~retryable \/ worker[w].attempts >= MaxAttempts])
  /\ UNCHANGED <<vars, remote, late>>

(* A renewal failed for another reason, or the service is shutting down. *)
Cancel(w) ==
  /\ worker[w].pc \notin {"idle", "failing"} /\ Held(w, clock)
  /\ Fault
  /\ Moves(w, [worker[w] EXCEPT !.pc = "failing", !.cancelled = TRUE])
  /\ UNCHANGED <<vars, remote, late>>

Crash(w) ==
  /\ Working(w)
  /\ Fault
  /\ Moves(w, Idle)
  /\ UNCHANGED <<vars, remote, late>>

-----------------------------------------------------------------------------
(* HubSpot applies requests in any order, or never. *)

Awaited(r, pc) == worker[r.worker].pc = pc /\ worker[r.worker].lease = r.lease

Answer(r, pc, next, note) ==
  worker' = IF Awaited(r, pc)
              THEN [worker EXCEPT ![r.worker] = [@ EXCEPT !.pc = next, !.note = note]]
              ELSE worker

(* Bound: HubSpot's fresh note IDs are the members of Notes not yet present. *)
FreshNotes == {n \in Notes : ~notes[n].present}

ApplyCreate(r) ==
  /\ r.note = NoText
  /\ FreshNotes # {}
  /\ LET n == CHOOSE n \in FreshNotes : TRUE IN
       /\ notes' = [notes EXCEPT ![n] = [present |-> TRUE, key |-> r.lease.key, body |-> r.body]]
       /\ Answer(r, "creating", "created", n)
  /\ lateCreates' = IF Owns(r.lease) /\ Awaited(r, "creating") THEN lateCreates
                      ELSE [lateCreates EXCEPT ![r.lease.key] = @ + 1]
  /\ UNCHANGED overwritten

ApplyUpdate(r) ==
  /\ r.note # NoText
  /\ notes' = [notes EXCEPT ![r.note] = [@ EXCEPT !.body = r.body]]
  /\ Answer(r, "updating", "updated", r.note)
  /\ overwritten' = IF Owns(r.lease) THEN overwritten \ {r.lease.key}
                      ELSE overwritten \cup {r.lease.key}
  /\ UNCHANGED lateCreates

Apply(r) ==
  /\ ApplyCreate(r) \/ ApplyUpdate(r)
  /\ wire' = wire \ {r}
  /\ UNCHANGED <<vars, faults>>

(* A request nobody waits for any more may be lost. *)
Lose(r) ==
  /\ ~Awaited(r, "creating") /\ ~Awaited(r, "updating")
  /\ wire' = wire \ {r}
  /\ UNCHANGED <<vars, notes, worker, faults, late>>

(* Time passes while a retry or a lost lease is all there is to wait for, or  *)
(* as a fault.                                                                *)
Pending(k) == threads[k].active /\ threads[k].completed < threads[k].requested
                                /\ threads[k].state # "failed"
OnlyWaiting ==
  /\ \E k \in Keys : Pending(k)
  /\ \A k \in Keys : ~Claimable(threads[k], clock)
  /\ \A w \in Workers : ~Working(w)
  /\ wire = {}

Wait ==
  /\ Tick
  /\ IF OnlyWaiting THEN UNCHANGED faults ELSE Fault
  /\ UNCHANGED <<remote, worker, late>>

-----------------------------------------------------------------------------
WorkerStep(w) ==
  \/ \E k \in Keys : Start(w, k)
  \/ Drop(w) \/ CheckLease(w) \/ ReadThread(w) \/ FindNote(w) \/ CreateNote(w)
  \/ Save(w) \/ UpdateNote(w) \/ Finish(w) \/ GiveUp(w)

WorkNext ==
  \/ \E e \in Events : Deliver(e)
  \/ \E w \in Workers : WorkerStep(w)
  \/ \E w \in Workers : Heartbeat(w)
  \/ \E w \in Workers : Error(w) \/ Cancel(w) \/ Crash(w)
  \/ \E r \in wire : Apply(r) \/ Lose(r)
  \/ Wait

(* Every goroutine runs, HubSpot answers in the end, and time passes. *)
Fairness ==
  /\ \A w \in Workers : WF_workerVars(WorkerStep(w))
  /\ WF_workerVars(\E r \in wire : Apply(r))
  /\ WF_workerVars(Wait)

WorkSpec == WorkInit /\ [][WorkNext]_workerVars
FairWorkSpec == WorkSpec /\ Fairness

-----------------------------------------------------------------------------
(* The messages of a thread whose events the store has accepted to synchronize. *)
Wanted(k) == {e \in Events : e.id \in queued[k] /\ Eligible(e)}
Shown(k) == IF threads[k].noteID = NoText THEN {} ELSE notes[threads[k].noteID].body

(* A thread with nothing left to do shows every queued message in its note,   *)
(* unless a request of a lost lease was the last to write it.                 *)
UpToDateIsShown ==
  \A k \in Keys :
    (threads[k].completed = threads[k].requested /\ k \notin overwritten)
      => Wanted(k) \subseteq Shown(k)

(* The marker search before a create keeps one note per thread: a second one  *)
(* needs a create that HubSpot applied after its worker stopped waiting.      *)
NoteOnlyTwinnedLate ==
  \A k \in Keys : Cardinality(Marked(k)) <= 1 + lateCreates[k]

(* The workers write the store through its operations only, so that whatever  *)
(* is proved of Store's free callers holds of them.                           *)
ImplementsStore == Init /\ [][Next]_vars

(* A queued message comes to be shown and is again whenever a later write     *)
(* dropped it, unless its thread stops or is parked, or a request of a lost   *)
(* lease was the last to write.                                               *)
QueuedIsShown ==
  \A e \in Events : (e \in Wanted(e.key)) ~>
    \/ e \in Shown(e.key) \/ e.key \in overwritten
    \/ ~threads[e.key].active \/ threads[e.key].state = "failed"

(* README: if an in-flight remote request finishes after a lease is           *)
(* invalidated, a later reconciliation repairs its contents.  So while a      *)
(* tracked note lacks a queued message, a reconciliation is still to come.    *)
RepairFollows ==
  \A k \in Keys :
    (k \in overwritten /\ threads[k].active /\ ~(Wanted(k) \subseteq Shown(k)))
      => \/ threads[k].completed < threads[k].requested
         \/ \E w \in Workers : Working(w)
         \/ wire # {}
=============================================================================
