------------------------------ MODULE Service ------------------------------
(***************************************************************************)
(* The process (cmd/bot, worker.Run) that serves Slack and synchronizes:   *)
(* it loads its configuration, opens and checks its storage, verifies its  *)
(* credentials, serves, and stops: readiness goes, workers are told to     *)
(* stop, HTTP drains, work that lingers is cancelled, and when the grace   *)
(* period ends the process ends whatever is left.  It may also crash at    *)
(* any time; it is then started again.                                     *)
(*                                                                         *)
(* What a worker does between claim and release is in Worker, Attachments  *)
(* and Reactions; here it takes any time.                                  *)
(***************************************************************************)
EXTENDS Ingress, Config

CONSTANT Workers   \* goroutines of worker.Run

VARIABLES
  phase,           \* where the process is
  listening,       \* whether the port accepts connections
  worker,          \* where each worker is in its loop
  held,            \* what it has claimed and not released: a lease, a job, or nothing
  late,            \* history: its claims since stop was closed
  lost             \* history: a lease was left to expire

processVars == <<phase, listening, worker, held, late, lost>>
allVars == <<storeVars, ingressVars, configVars, processVars>>

Starting == {"opening", "checking", "slack", "hubspot", "listening"}
Stopping == {"draining", "cancelled"}
Running == {"serving"} \cup Stopping

Stopped == phase \in Stopping
Cancelled == phase = "cancelled"

NoWork == [kind |-> "nothing"]
Off == [w \in Workers |-> "off"]
Idle == [w \in Workers |-> NoWork]

ServiceInit ==
  /\ IngressInit
  /\ \E d \in Documents : Unread(d)
  /\ phase = "loading" /\ listening = FALSE
  /\ worker = Off /\ held = Idle
  /\ late = [w \in Workers |-> 0] /\ lost = FALSE

-----------------------------------------------------------------------------
(* Start. *)

LoadConfig ==
  /\ phase = "loading" /\ loaded = "no" /\ Load
  /\ UNCHANGED <<storeVars, ingressVars, processVars>>

Drivers == {"postgres", "spanner", "sqlite"}

NextStage == [opening |-> "checking", checking |-> "slack", slack |-> "hubspot", hubspot |-> "listening"]

(* The process is gone, and with it what its handlers and workers were at. *)
Ends ==
  /\ phase' = "down" /\ listening' = FALSE /\ ready' = FALSE
  /\ handler' = [h \in Handlers |-> Rest]
  /\ worker' = Off /\ held' = Idle /\ late' = [w \in Workers |-> 0]
  /\ UNCHANGED <<storeVars, slack, known, said, configVars>>

(* It ends in the middle of its work. *)
Dies == Ends /\ lost' = (lost \/ held # Idle)

(* A process that ended, or whose configuration was refused, is started again *)
(* and loads it anew.                                                         *)
Restart ==
  /\ phase = "down" \/ (phase = "loading" /\ loaded = "rejected")
  /\ phase' = "loading"
  /\ values' = document.values /\ loaded' = "no"
  /\ unexpanded' = DOMAIN document.values /\ unresolved' = DOMAIN document.values
  /\ UNCHANGED <<storeVars, ingressVars, document, listening, worker, held, late, lost>>

Start ==
  /\ phase = "loading" /\ loaded = "yes"
  /\ phase' = "opening"
  /\ UNCHANGED <<storeVars, ingressVars, configVars, listening, worker, held, late, lost>>

(* Each step of the start may fail, and the process ends. *)
Proceed ==
  /\ phase \in DOMAIN NextStage
  /\ phase = "opening" => TextOf(values, "driver") \in Drivers
  /\ phase' = NextStage[phase]
  /\ UNCHANGED <<storeVars, ingressVars, configVars, listening, worker, held, late, lost>>
NoSuchDriver ==
  /\ phase = "opening" /\ TextOf(values, "driver") \notin Drivers
  /\ Ends /\ UNCHANGED <<faults, lost>>

Serve ==
  /\ phase = "listening"
  /\ phase' = "serving" /\ listening' = TRUE /\ ready' = TRUE
  /\ worker' = [w \in Workers |-> "polling"]
  /\ UNCHANGED <<storeVars, slack, known, handler, faults, said, configVars, held, late, lost>>

(* Any step of the start that fails, and a crash. *)
Crash == phase \in Starting \cup Running /\ Fault /\ Dies

-----------------------------------------------------------------------------
(* Stop. *)

(* SIGTERM, or the listener fails. *)
Stop ==
  /\ phase = "serving" /\ Fault
  /\ phase' = "draining" /\ ready' = FALSE
  /\ listening' \in BOOLEAN
  /\ UNCHANGED <<storeVars, slack, known, handler, said, configVars, worker, held, late, lost>>

(* server.Shutdown closes the port first. *)
Shutdown ==
  /\ Stopped /\ listening
  /\ listening' = FALSE
  /\ UNCHANGED <<storeVars, ingressVars, configVars, phase, worker, held, late, lost>>

Cancel ==
  /\ phase = "draining"
  /\ phase' = "cancelled"
  /\ UNCHANGED <<storeVars, ingressVars, configVars, listening, worker, held, late, lost>>

\* Mutation: the workers are not waited for.
HTTPStopped == ~listening /\ \A h \in Handlers : handler[h].pc = "rest"
AllStopped ==
  /\ ~listening
  /\ \A h \in Handlers : handler[h].pc = "rest"
  /\ \A w \in Workers : worker[w] = "off"

Drained == Stopped /\ AllStopped /\ Ends /\ UNCHANGED <<faults, lost>>

\* Mutation: the end of the grace period cancels, and goes on waiting.
GraceWaits == Cancelled /\ AllStopped /\ Dies /\ UNCHANGED faults
GraceEnds == Cancelled /\ Dies /\ UNCHANGED faults

-----------------------------------------------------------------------------
(* worker.Run: replies, then a thread, then reactions, and each time stop is *)
(* looked at first.                                                          *)

Checks == [polling |-> "delivering", delivered |-> "claiming", claimed |-> "reacting"]
Takes == [delivering |-> "delivered", claiming |-> "claimed", reacting |-> "polling"]

\* Mutation: stop is looked at only when the worker waits.
GoesOn(w) == worker[w] # "polling" \/ ~Stopped
MayClaim(w) == ~Stopped

SomeJob(ids) == \E id \in ids : Deliverable(outbox[id], clock) /\ outbox[id].attempts < MaxJobClaims
SomeThread == \E k \in Keys : Claimable(threads[k], clock) /\ issued[k] < MaxClaims

(* A poll that finds nothing changes nothing: the worker waits for work. *)
Look(w) ==
  /\ worker[w] \in DOMAIN Checks
  /\ worker[w] = "polling" => Stopped \/ SomeJob(JobIds) \/ SomeThread
  /\ worker' = [worker EXCEPT ![w] = IF MayClaim(w) THEN Checks[@] ELSE "off"]
  /\ UNCHANGED <<storeVars, ingressVars, configVars, phase, listening, held, late, lost>>

Holds(w, what) ==
  /\ held' = [held EXCEPT ![w] = what]
  /\ late' = [late EXCEPT ![w] = IF Stopped THEN @ + 1 ELSE @]

(* A claim under a cancelled context fails. *)
Take(w) ==
  /\ worker[w] \in DOMAIN Takes /\ held[w] = NoWork /\ ~Cancelled
  /\ \/ /\ worker[w] = "delivering"
        /\ \E id \in ReplyIds :
             /\ ClaimNotification(id, clock)
             /\ Holds(w, [kind |-> "job", id |-> id, token |-> outbox[id].attempts + 1])
     \/ /\ worker[w] = "claiming"
        /\ \E k \in Keys : Claim(k, clock) /\ Holds(w, [kind |-> "thread", lease |-> NewLease(k)])
     \/ /\ worker[w] = "reacting"
        /\ \E id \in ReactionIds :
             /\ ClaimReactionNotification(id, clock)
             /\ Holds(w, [kind |-> "job", id |-> id, token |-> outbox[id].attempts + 1])
  /\ UNCHANGED <<ingressVars, configVars, phase, listening, worker, lost>>

(* Nothing to take (a reaction job waits for its thread and its replies), or *)
(* the storage fails.                                                         *)
PassOn(w) ==
  /\ worker[w] \in DOMAIN Takes /\ held[w] = NoWork
  /\ IF /\ ~Cancelled
        /\ \/ worker[w] = "delivering" /\ SomeJob(ReplyIds)
           \/ worker[w] = "claiming" /\ SomeThread
       THEN Fault ELSE UNCHANGED faults
  /\ worker' = [worker EXCEPT ![w] = Takes[@]]
  /\ UNCHANGED <<storeVars, slack, known, ready, handler, said, configVars, phase, listening, held, late, lost>>

(* The work ends, well or cancelled; a lease that is no longer valid is let go. *)
Released(what) ==
  CASE what.kind = "thread" ->
         LET l == what.lease IN
         IF ~Validate(threads[l.key], l, clock) THEN UNCHANGED storeVars
         ELSE \/ Complete(l, threads[l.key].lastMessageTS, 0, clock)
              \/ Cancelled /\ Fail(l, "operation cancelled", clock, FALSE, clock)
    [] what.kind = "job" ->
         \/ CompleteNotification(what.id, what.token, clock)
         \/ Cancelled /\ FailNotification(what.id, what.token, clock, FALSE, clock)

(* The work fails of itself: worker.failure says whether for good. *)
FailedWork(what) ==
  \E permanent \in BOOLEAN :
    CASE what.kind = "thread" -> Fail(what.lease, "error", clock + Backoff, permanent, clock)
      [] what.kind = "job"    -> FailNotification(what.id, what.token, clock + Backoff, permanent, clock)

Release(w) ==
  /\ held[w] # NoWork
  /\ \/ Released(held[w]) /\ UNCHANGED <<faults, lost>>
     \/ Fault /\ FailedWork(held[w]) /\ UNCHANGED lost
     \/ Fault /\ lost' = TRUE /\ UNCHANGED storeVars
  /\ held' = [held EXCEPT ![w] = NoWork]
  /\ worker' = [worker EXCEPT ![w] = Takes[@]]
  /\ UNCHANGED <<slack, known, ready, handler, said, configVars, phase, listening, late>>

-----------------------------------------------------------------------------
Deliver == listening /\ (\E d \in Deliveries, h \in Handlers : Send(d, h)) /\ UNCHANGED <<configVars, processVars>>
Handle == phase \in Running /\ (\E h \in Handlers : HandlerStep(h)) /\ UNCHANGED <<configVars, processVars>>

ServiceNext ==
  \/ LoadConfig \/ Restart \/ Start \/ Proceed \/ NoSuchDriver \/ Serve \/ Crash
  \/ Deliver \/ Handle
  \/ \E w \in Workers : Look(w) \/ Take(w) \/ PassOn(w) \/ Release(w)
  \/ Stop \/ Shutdown \/ Cancel \/ Drained \/ GraceEnds

Started == LoadConfig \/ Restart \/ Start \/ Proceed \/ Serve

(* The process is started again whenever it ends; requests are handled within *)
(* their timeout; timers fire; and Slack delivers until it is answered.       *)
Fairness ==
  WF_allVars(Started) /\ WF_allVars(Cancel \/ GraceEnds) /\ WF_allVars(Handle) /\ WF_allVars(Deliver)

ServiceSpec == ServiceInit /\ [][ServiceNext]_allVars /\ Fairness

-----------------------------------------------------------------------------

(* SlackEvent: what Slack need not deliver again has been recorded, or is the *)
(* second event of a message whose command or reply has, whatever handlers,   *)
(* the store and the process went through before the answer.                  *)
AcknowledgedIsRecorded ==
  \A d \in Deliveries :
    slack[d] = "acked" /\ Concerns(d) => d.id \in events \/ Action(EventOf(d)) \in actions

(* SlackEvent reads the thread, asks HubSpot and only then records: a message *)
(* that arrives as two events, or twice, links its thread once and shows the  *)
(* ticket's summary once, and no thread is linked without it.                 *)
OneSummary ==
  \A k \in Keys :
    LET summaries == {id \in ReplyIds : said[id] = "summary" /\ outbox[id].key = k} IN
    Cardinality(summaries) = IF Exists(threads[k]) THEN 1 ELSE 0

(* worker.Run stops claims as soon as stop closes: a worker that had already  *)
(* looked may claim once more, and never a second time.                       *)
StopsClaiming == \A w \in Workers : late[w] <= 1

(* run: a process that ends with its workers done, before the grace period    *)
(* does, leaves no lease that its successor would have to wait for.           *)
CleanStop ==
  phase = "down" /\ ~lost =>
    /\ \A k \in Keys : threads[k].leaseToken = 0
    /\ \A id \in JobIds : outbox[id].leaseToken = 0

(* run: once told to stop, the process ends, though a worker may hang in a    *)
(* remote call for ever.                                                      *)
ProcessEnds == Stopped ~> phase = "down"

(* Every delivery that concerns the bot is at last acknowledged, so recorded,  *)
(* through lost answers, failures of HubSpot and the store, and restarts,     *)
(* under a configuration that was accepted and holds no chained source, so    *)
(* that no restart refuses it.                                                *)
EveryEventHeard ==
  (loaded = "yes" /\ TextOf(values, "driver") \in Drivers /\ ~HasChain)
    ~> \A d \in Deliveries : Concerns(d) => slack[d] = "acked"
=============================================================================
