--------------------------- MODULE OutboxRecord ---------------------------
(***************************************************************************)
(* The notification outbox: notificationRecord, and what each operation    *)
(* does to it.  A job is a Slack reply, whose ID is its event's ID, or a   *)
(* reaction job, whose ID is a fresh token.  An absent job is a slot with  *)
(* present = FALSE.  attempts only grows, so the attempt number stands for *)
(* the random token that claim draws.                                      *)
(***************************************************************************)
EXTENDS Integers

CONSTANTS
  Keys,            \* thread keys, records with a channelID and a threadTS
  ReplyIds,        \* the IDs reply jobs can have: one per Slack event
  ReactionIds,     \* bound: the IDs reaction jobs can have
  JobLease         \* the duration a notification claim or renewal asks for

ASSUME OutboxAssumption ==
  /\ Keys # {}
  /\ ReplyIds \cap ReactionIds = {}
  /\ JobLease \in Nat \ {0}

JobIds == ReplyIds \cup ReactionIds
SomeKey == CHOOSE k \in Keys : TRUE

Job == [present: BOOLEAN, key: Keys, reactions: BOOLEAN, updateTracking: BOOLEAN,
        completed: BOOLEAN, permanent: BOOLEAN, attempts: Nat, leaseToken: Nat,
        leaseExpires: Nat, nextAttempt: Nat]

NewJob(key, reactions, updateTracking) ==
  [present |-> TRUE, key |-> key, reactions |-> reactions,
   updateTracking |-> updateTracking, completed |-> FALSE, permanent |-> FALSE,
   attempts |-> 0, leaseToken |-> 0, leaseExpires |-> 0, nextAttempt |-> 0]

NoJob == [NewJob(SomeKey, FALSE, FALSE) EXCEPT !.present = FALSE]

(* A job that may still be delivered. *)
Open(job) == job.present /\ ~job.completed /\ ~job.permanent

ValidateNotification(job, token, now) ==
  /\ ~job.completed
  /\ job.leaseToken # 0
  /\ job.leaseToken = token
  /\ job.leaseExpires > now

\* Mutation: a job leased to another worker does not block.
BlockedByReplies(box, key, now) ==
  \E id \in JobIds : Open(box[id]) /\ box[id].key = key /\ ~box[id].reactions

(* Reaction jobs of a key wait for its replies, and for a job leased or delayed. *)
Blocked(box, key, now) ==
  \E id \in JobIds :
    /\ Open(box[id]) /\ box[id].key = key
    /\ \/ ~box[id].reactions
       \/ box[id].leaseExpires > now
       \/ box[id].nextAttempt > now

Deliverable(job, now) ==
  Open(job) /\ ~(job.nextAttempt > now) /\ ~(job.leaseExpires > now)

JobClaimed(job, now) ==
  [job EXCEPT !.attempts = @ + 1, !.leaseToken = job.attempts + 1,
              !.leaseExpires = now + JobLease]

\* Mutation: a request merges with a job whose worker has already read the thread.
UnfinishedOnly(box, key) ==
  {id \in ReactionIds : Open(box[id]) /\ box[id].reactions /\ box[id].key = key}

(* A request merges with a reaction job that nobody has claimed yet. *)
Unclaimed(box, key) ==
  {id \in ReactionIds : /\ Open(box[id]) /\ box[id].reactions
                        /\ box[id].key = key /\ box[id].leaseToken = 0}
FreeIds(box) == {id \in ReactionIds : ~box[id].present}

(* The bound on reaction jobs: a step that needs one more must wait. *)
RoomFor(box, key) == Unclaimed(box, key) # {} \/ FreeIds(box) # {}

WithReactions(box, key) ==
  IF Unclaimed(box, key) # {}
    THEN box
    ELSE [box EXCEPT ![CHOOSE id \in FreeIds(box) : TRUE] = NewJob(key, TRUE, FALSE)]

JobCompleted(job) ==
  [job EXCEPT !.completed = TRUE, !.leaseExpires = 0, !.leaseToken = 0]

JobFailed(job, nextAttempt, permanent) ==
  [job EXCEPT !.leaseExpires = 0, !.leaseToken = 0,
              !.nextAttempt = nextAttempt, !.permanent = permanent]
=============================================================================
