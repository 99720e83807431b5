------------------------------ MODULE Records ------------------------------
(***************************************************************************)
(* What the store coordinator asks of a backend (internal/store/backend):  *)
(* a call of Update or View runs its function on the records as one step   *)
(* and answers what the function found.  A call may instead end in an      *)
(* error, before its step or after it: the answer of a commit can be lost. *)
(*                                                                         *)
(* The functions are those of the coordinator whose reads and writes       *)
(* depend on each other: the deduplication of an event, the claim of a     *)
(* job that blocks the others, and a completion that queues another job.   *)
(***************************************************************************)
EXTENDS OutboxRecord

CONSTANT
  Callers          \* goroutines that call the store

NoText == ""       \* no version

VARIABLES
  db,              \* the records by name
  call             \* each caller's operation and its answer, "" while it waits

EventName(id) == <<"events", id>>
JobName(id) == <<"notifications", id>>
Schema == <<"schema", "version">>
Jobs == {JobName(id) : id \in JobIds}

(* The records that differ between two databases, by name. *)
Written(before, after) ==
  {JobName(id) : id \in {j \in JobIds : after.jobs[j] # before.jobs[j]}}
    \cup {EventName(id) : id \in after.events \ before.events}
    \cup {n \in {Schema} : after.version # before.version}

(* A database is all of its records. *)
Holding(jobs, events, version) == [jobs |-> jobs, events |-> events, version |-> version]

(* The records written over the database as it is by now. *)
Merged(d, after, writes) ==
  Holding([id \in JobIds |-> IF JobName(id) \in writes THEN after.jobs[id] ELSE d.jobs[id]],
          d.events \cup {id \in ReplyIds : EventName(id) \in writes},
          IF Schema \in writes THEN after.version ELSE d.version)

Operation ==
  [do: {"record", "complete"}, id: ReplyIds] \cup [do: {"claim", "reactions", "check", "migrate"}, id: {""}]
NoCall == [do |-> "none", id |-> ""]
Answers == {"recorded", "duplicate", "nothing", "completed", "lost", "ready", "incompatible", "error"}

(* What a run of a function did: its answer, what it read and what it wrote. *)
Ran(answer, reads, before, after) ==
  [answer |-> answer, reads |-> reads, writes |-> Written(before, after), db |-> after]

(* Every lease of an instance is live: no time passes. *)
Now == 1

\* Mutation: the event's mark is not looked for.
RecordedAgain(d, id) ==
  Ran("recorded", {EventName(id)}, d,
      Holding([d.jobs EXCEPT ![id] = NewJob(SomeKey, FALSE, TRUE)], d.events \cup {id}, d.version))

(* Record: once per event, with the reply that answers it. *)
Recorded(d, id) ==
  IF id \in d.events
    THEN Ran("duplicate", {EventName(id)}, d, d)
    ELSE Ran("recorded", {EventName(id)}, d,
             Holding([d.jobs EXCEPT ![id] = NewJob(SomeKey, FALSE, TRUE)], d.events \cup {id}, d.version))

(* claimNotification: the first claimable job of a scan. *)
ClaimedJob(d, reactions) ==
  LET ids == {id \in JobIds : /\ d.jobs[id].reactions = reactions /\ Deliverable(d.jobs[id], Now)
                              /\ reactions => ~Blocked(d.jobs, d.jobs[id].key, Now)}
      first == CHOOSE id \in ids : TRUE
  IN  IF ids = {} THEN Ran("nothing", Jobs, d, d)
                  ELSE Ran(first, Jobs, d,
                           Holding([d.jobs EXCEPT ![first] = JobClaimed(@, Now)], d.events, d.version))

(* CompleteNotification of a reply whose lease the caller holds, if it does.  *)
(* The scan that follows its write sees that write only if the backend's      *)
(* transactions read their own writes.                                        *)
CompletedReply(d, id, ownWrites) ==
  IF ~ValidateNotification(d.jobs[id], d.jobs[id].attempts, Now)
    THEN Ran("lost", {JobName(id)}, d, d)
    ELSE LET key == d.jobs[id].key
             done == [d.jobs EXCEPT ![id] = JobCompleted(@)]
             seen == IF ownWrites THEN done ELSE d.jobs
             fresh == WithReactions(seen, key)
         IN  Ran("completed", Jobs, d,
                 Holding([j \in JobIds |-> IF j = id THEN done[j] ELSE fresh[j]], d.events, d.version))

(* Bound: a completion that needs a reaction job must find an ID for it. *)
HasRoom(op, d) == op.do = "complete" => RoomFor(d.jobs, d.jobs[op.id].key)

(* ValidateSchema. *)
Compatible(version) == version = "1"

Checked(d) == Ran(IF Compatible(d.version) THEN "ready" ELSE "incompatible", {Schema}, d, d)

(* Migrate's transaction: the version is written once and never replaced. *)
Migrated(d) ==
  IF d.version # NoText THEN Checked(d)
                        ELSE Ran("ready", {Schema}, d, Holding(d.jobs, d.events, "1"))

Run(op, d, ownWrites) ==
  CASE op.do = "record"    -> Recorded(d, op.id)
    [] op.do = "claim"     -> ClaimedJob(d, FALSE)
    [] op.do = "reactions" -> ClaimedJob(d, TRUE)
    [] op.do = "complete"  -> CompletedReply(d, op.id, ownWrites)
    [] op.do = "check"     -> Checked(d)
    [] op.do = "migrate"   -> Migrated(d)

-----------------------------------------------------------------------------
Waits(c) == call[c].op # NoCall /\ call[c].answer = ""
Returns(c, answer) == call' = [call EXCEPT ![c] = [@ EXCEPT !.answer = answer]]

RecordsInit ==
  /\ \E version \in {NoText, "0", "1"} : db = Holding([id \in JobIds |-> NoJob], {}, version)
  /\ call = [c \in Callers |-> [op |-> NoCall, answer |-> ""]]

Invoke(c, op) ==
  /\ ~Waits(c)
  /\ call' = [call EXCEPT ![c] = [op |-> op, answer |-> ""]]
  /\ UNCHANGED db

Perform(c) ==
  LET run == Run(call[c].op, db, TRUE) IN
  /\ Waits(c)
  /\ db' = run.db
  /\ \E answer \in {run.answer, "error"} : Returns(c, answer)

Refuse(c) == Waits(c) /\ Returns(c, "error") /\ UNCHANGED db

RecordsNext ==
  \E c \in Callers : (\E op \in Operation : Invoke(c, op)) \/ Perform(c) \/ Refuse(c)

RecordsSpec == RecordsInit /\ [][RecordsNext]_<<db, call>>
=============================================================================
