------------------------------ MODULE Reactions ------------------------------
(***************************************************************************)
(* The worker goroutines as the outbox sees them (internal/worker): each   *)
(* delivers a reply, synchronizes a thread, then reconciles the bot's      *)
(* reactions on a thread, over and over.  The loop of reconcileReactions   *)
(* is modelled call by call; a synchronization, whose steps are module     *)
(* Worker's, is its claim and its end.  The store changes by Store alone.  *)
(*                                                                         *)
(* A request to Slack outlives the worker that sent it and stopped waiting *)
(* (a timeout, a cancellation, a crash): it is still applied, or lost.     *)
(***************************************************************************)
EXTENDS Store

CONSTANTS
  Workers,         \* the worker goroutines of all replicas
  MaxAttempts,     \* attempts of a job before its failure is permanent
  MaxFaults        \* bound: errors, cancellations, crashes and delays of work

ASSUME ReactionsAssumption ==
  /\ Workers # {}
  /\ \A k \in Keys : k.threadTS \in Nat \ {0}   \* never empty: a root message's is its own
  /\ MaxAttempts \in Nat \ {0} /\ MaxFaults \in Nat

VARIABLES
  worker,          \* what each worker is at
  marks,           \* the bot's reactions on each thread, as Slack has them
  wire,            \* reaction requests neither applied nor lost
  faults,          \* faults so far
  late             \* history: threads changed by a request nobody waited for, or left so by a crash

slack == <<marks, wire>>
reactionVars == <<vars, worker, slack, faults, late>>

Reacting == {"looking", "listing", "changing", "awaiting"}

NoLease == [key |-> SomeKey, token |-> 0, generation |-> 0, revision |-> 0, seen |-> {}]
Idle == [pc |-> "idle", lease |-> NoLease, id |-> "", key |-> SomeKey, token |-> 0,
         seen |-> <<>>, todo |-> {}, error |-> ""]

Busy(w) == worker[w].pc # "idle"
(* Idle goroutines differ in nothing, so it does not matter which one claims. *)
Free(w) == ~Busy(w) /\ w = CHOOSE v \in Workers : ~Busy(v)
HasJob(w) == worker[w].pc \notin {"idle", "syncing"}
HoldsJob(w) == ValidateNotification(outbox[worker[w].id], worker[w].token, clock)

ReactionsInit ==
  /\ Init
  /\ worker = [w \in Workers |-> Idle]
  /\ marks = [k \in Keys |-> {}]
  /\ wire = {}
  /\ faults = 0
  /\ late = {}

Moves(w, state) == worker' = [worker EXCEPT ![w] = state]
Fault == faults < MaxFaults /\ faults' = faults + 1
Only(w, state) == Moves(w, state) /\ UNCHANGED <<vars, slack, faults, late>>
OnlyStore == UNCHANGED <<slack, faults, late>>

-----------------------------------------------------------------------------
(* Synchronization, from the claim to its end. *)

Receive(e) == Record(e, clock) /\ UNCHANGED worker /\ OnlyStore

StartSync(w, k) ==
  /\ Free(w)
  /\ Claim(k, clock)
  /\ Moves(w, [Idle EXCEPT !.pc = "syncing", !.lease = NewLease(k)])
  /\ OnlyStore

Messages(k) == {k.threadTS} \cup {e.messageTS : e \in {x \in Events : x.id \in events /\ x.key = k}}
Latest(k) == CHOOSE ts \in SyncableTS(k) \cap Messages(k) :
               \A other \in SyncableTS(k) \cap Messages(k) : other <= ts

EndSync(w) ==
  /\ worker[w].pc = "syncing"
  /\ LET l == worker[w].lease IN
       \/ ~Validate(threads[l.key], l, clock) /\ UNCHANGED <<vars, faults>>
       \/ Complete(l, Latest(l.key), 0, clock) /\ UNCHANGED faults
       \/ Fault /\ Fail(l, "operation cancelled", clock, FALSE, clock)
       \/ Fault /\ \E permanent \in BOOLEAN : Fail(l, "error", clock + Backoff, permanent, clock)
  /\ Moves(w, Idle)
  /\ UNCHANGED <<slack, late>>

-----------------------------------------------------------------------------
(* deliver, and the claim of deliverReactions. *)

Working(id, pc) ==
  [Idle EXCEPT !.pc = pc, !.id = id, !.key = outbox[id].key, !.token = outbox[id].attempts + 1]

StartReply(w, id) ==
  /\ Free(w)
  /\ ClaimNotification(id, clock)
  /\ Moves(w, Working(id, "replying"))
  /\ OnlyStore

(* Slack.Post answers; its own deadline ends before the lease does. *)
Post(w) ==
  /\ worker[w].pc = "replying"
  /\ Only(w, [worker[w] EXCEPT !.pc = "ended"])

StartReactions(w, id) ==
  /\ Free(w)
  /\ ClaimReactionNotification(id, clock)
  /\ Moves(w, Working(id, "looking"))
  /\ OnlyStore

-----------------------------------------------------------------------------
(* reconcileReactions. *)

(* Transcript work that arrived after the claim queues its own update. *)
Look(w) ==
  LET thread == threads[worker[w].key] IN
  /\ worker[w].pc = "looking"
  /\ Only(w, IF CoreWork(thread)
               THEN [worker[w] EXCEPT !.pc = "ended"]
               ELSE [worker[w] EXCEPT !.pc = "listing", !.seen = Marks(thread)])

(* The reactions a thread <<active, lastSyncedTS, lastMessageTS, currentError>> *)
(* should have, on messages that exist.                                         *)
Desired(k, seen) ==
  {target \in {[ts |-> seen[2], name |-> "success"]}
       \cup (IF seen[1] THEN {[ts |-> k.threadTS, name |-> "tracking"]} ELSE {})
       \cup (IF seen[4] \in {NoText, "operation cancelled"} THEN {}
               ELSE {[ts |-> seen[3], name |-> "failure"]}) :
   target.ts \in Messages(k)}

Todo(present, desired) ==
  {[add |-> FALSE, target |-> t] : t \in present \ desired}
    \cup {[add |-> TRUE, target |-> t] : t \in desired \ present}

List(w) ==
  LET k == worker[w].key IN
  /\ worker[w].pc = "listing"
  /\ Moves(w, [worker[w] EXCEPT !.pc = "changing",
                                !.todo = Todo(marks[k], Desired(k, worker[w].seen))])
  /\ late' = late \ {k}
  /\ UNCHANGED <<vars, slack, faults>>

(* RemoveReaction for everything undesired, then React. *)
Call(w) ==
  /\ worker[w].pc = "changing"
  /\ \E c \in worker[w].todo :
       /\ c.add => \A other \in worker[w].todo : other.add
       /\ Moves(w, [worker[w] EXCEPT !.pc = "awaiting", !.todo = @ \ {c}])
       /\ wire' = wire \cup {[worker |-> w, id |-> worker[w].id, token |-> worker[w].token,
                              key |-> worker[w].key, change |-> c]}
  /\ UNCHANGED <<vars, marks, faults, late>>

Recheck(w) ==
  /\ worker[w].pc = "changing" /\ worker[w].todo = {}
  /\ Only(w, IF Marks(threads[worker[w].key]) = worker[w].seen
               THEN [worker[w] EXCEPT !.pc = "ended"]
               ELSE [worker[w] EXCEPT !.pc = "looking"])

Heartbeat(w) ==
  /\ worker[w].pc \in Reacting
  /\ RenewNotification(worker[w].id, worker[w].token, clock)
  /\ UNCHANGED worker /\ OnlyStore

(* A renewal finds the lease lost and cancels the reconciliation. *)
Abandon(w) ==
  /\ worker[w].pc \in Reacting /\ ~HoldsJob(w)
  /\ Only(w, [worker[w] EXCEPT !.pc = "ended", !.error = "cancelled"])

-----------------------------------------------------------------------------
(* finishNotification, and what deliverReactions does with its result. *)

Outcome(w) ==
  LET s == worker[w]
      permanent == s.error = "permanent" \/ outbox[s.id].attempts >= MaxAttempts
  IN  CASE s.error = ""          -> CompleteNotification(s.id, s.token, clock)
        [] s.error = "cancelled" -> FailNotification(s.id, s.token, clock, FALSE, clock)
        [] OTHER -> FailNotification(s.id, s.token,
                      IF permanent THEN 0 ELSE clock + Backoff, permanent, clock)

\* Mutation: another check is queued after every job, not only after a lost one.
FinishAgain(w) ==
  /\ worker[w].pc = "ended" /\ HoldsJob(w)
  /\ Outcome(w)
  /\ Moves(w, IF outbox[worker[w].id].reactions
                THEN [worker[w] EXCEPT !.pc = "lost"] ELSE Idle)
  /\ OnlyStore

Finish(w) ==
  /\ worker[w].pc = "ended" /\ HoldsJob(w)
  /\ Outcome(w)
  /\ Moves(w, Idle)
  /\ OnlyStore

\* Mutation: a lost lease is somebody else's business.
FinishLostQuietly(w) ==
  /\ worker[w].pc = "ended" /\ ~HoldsJob(w)
  /\ Only(w, Idle)

FinishLost(w) ==
  /\ worker[w].pc = "ended" /\ ~HoldsJob(w)
  /\ Only(w, IF outbox[worker[w].id].reactions
               THEN [worker[w] EXCEPT !.pc = "lost"] ELSE Idle)

Requeue(w) ==
  /\ worker[w].pc = "lost"
  /\ QueueReactions(worker[w].key)
  /\ Moves(w, Idle)
  /\ OnlyStore

-----------------------------------------------------------------------------
(* What goes wrong. *)

Error(w) ==
  /\ worker[w].pc \in Reacting \cup {"replying"}
  /\ Fault
  /\ \E error \in {"temporary", "cancelled"} \cup
       (IF worker[w].pc \in {"replying", "listing", "awaiting"} THEN {"permanent"} ELSE {}) :
       Moves(w, [worker[w] EXCEPT !.pc = "ended", !.error = error, !.todo = {}])
  /\ UNCHANGED <<vars, slack, late>>

(* The process ends.  One that had lost its lease leaves nobody to check again. *)
Crash(w) ==
  /\ Busy(w)
  /\ Fault
  /\ Moves(w, Idle)
  /\ late' = IF HasJob(w) /\ outbox[worker[w].id].reactions /\ ~HoldsJob(w)
               THEN late \cup {worker[w].key} ELSE late
  /\ UNCHANGED <<vars, slack>>

Awaited(r) ==
  LET s == worker[r.worker] IN s.pc = "awaiting" /\ s.id = r.id /\ s.token = r.token

Apply(r) ==
  /\ wire' = wire \ {r}
  /\ marks' = [marks EXCEPT ![r.key] = IF r.change.add THEN @ \cup {r.change.target}
                                                       ELSE @ \ {r.change.target}]
  /\ worker' = IF Awaited(r) THEN [worker EXCEPT ![r.worker].pc = "changing"] ELSE worker
  /\ late' = IF Awaited(r) \/ marks' = marks THEN late ELSE late \cup {r.key}
  /\ UNCHANGED <<vars, faults>>

Lose(r) ==
  /\ ~Awaited(r)
  /\ wire' = wire \ {r}
  /\ UNCHANGED <<vars, worker, marks, faults, late>>

(* Time passes while a delay or a lease is all there is to wait for, or as a fault. *)
Ready(id) ==
  /\ Deliverable(outbox[id], clock)
  /\ outbox[id].reactions => /\ ~Blocked(outbox, outbox[id].key, clock)
                            /\ ~CoreWork(threads[outbox[id].key])
OnlyWaiting ==
  /\ \/ \E k \in Keys : CoreWork(threads[k]) \/ threads[k].state = "retrying"
     \/ \E id \in JobIds : Open(outbox[id])
  /\ \A k \in Keys : ~Claimable(threads[k], clock)
  /\ \A id \in JobIds : ~Ready(id)
  /\ \A w \in Workers : ~Busy(w)
  /\ wire = {}

Wait ==
  /\ Tick
  /\ IF OnlyWaiting THEN UNCHANGED faults ELSE Fault
  /\ UNCHANGED <<slack, worker, late>>

-----------------------------------------------------------------------------
ReactionStep(w) ==
  \/ EndSync(w) \/ Post(w)
  \/ Look(w) \/ List(w) \/ Call(w) \/ Recheck(w) \/ Abandon(w)
  \/ Finish(w) \/ FinishLost(w) \/ Requeue(w)

(* One round of Run's loop tries each kind of work. *)
Reply == \E w \in Workers, id \in JobIds : StartReply(w, id)
Sync == \E w \in Workers, k \in Keys : StartSync(w, k)
React == \E w \in Workers, id \in JobIds : StartReactions(w, id)

ReactionsNext ==
  \/ \E e \in Events : Receive(e)
  \/ Reply \/ Sync \/ React
  \/ \E w \in Workers : ReactionStep(w) \/ Heartbeat(w) \/ Error(w) \/ Crash(w)
  \/ \E r \in wire : Apply(r) \/ Lose(r)
  \/ Wait

(* Every goroutine runs, each round tries all work, Slack answers, time passes. *)
Fairness ==
  /\ \A w \in Workers : WF_reactionVars(ReactionStep(w))
  /\ WF_reactionVars(Reply) /\ WF_reactionVars(Sync) /\ WF_reactionVars(React)
  /\ WF_reactionVars(\E r \in wire : Apply(r))
  /\ WF_reactionVars(Wait)

ReactionsSpec == ReactionsInit /\ [][ReactionsNext]_reactionVars /\ Fairness

-----------------------------------------------------------------------------

(* No transcript work, no reply, no reaction job and no request is left. *)
Quiet(k) ==
  /\ ~CoreWork(threads[k])
  /\ \A id \in JobIds : outbox[id].key = k => ~Open(outbox[id])
  /\ \A w \in Workers : Busy(w) => worker[w].key # k /\ worker[w].lease.key # k
  /\ \A r \in wire : r.key # k

Parked(k) == \E id \in ReactionIds : outbox[id].permanent /\ outbox[id].key = k

(* When a thread is quiet its reactions are those of its record: whatever     *)
(* interleaving of events, synchronizations, two reaction workers, failures,  *)
(* crashes and expired leases led there.  Excepted are a thread whose update  *)
(* was given up for good, one changed by a request nobody waited for, and one *)
(* whose worker crashed after its lease was lost, so queued no other update.  *)
QuietThreadIsMarked ==
  \A k \in Keys :
    (Quiet(k) /\ ~Parked(k) /\ k \notin late) => marks[k] = Desired(k, Marks(threads[k]))

(* Reactions do not chase each other: once events stop, every thread comes to *)
(* rest, though each reconciliation may find the thread changed and loop, and *)
(* each lost lease and each tracking reply queues another.                    *)
EventuallyQuiet == \A k \in Keys : <>[]Quiet(k)
=============================================================================
