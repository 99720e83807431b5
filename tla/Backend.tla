------------------------------ MODULE Backend ------------------------------
(***************************************************************************)
(* The three drivers (internal/store/postgres, sqlite, spanner) under      *)
(* concurrent calls.  A transaction runs its function on the records as    *)
(* they are, holds its writes back, and commits them; the databases let it *)
(* commit only when nothing it read was written meanwhile.  PostgreSQL     *)
(* then reports a conflict, which Update retries a bounded number of times *)
(* with a delay, and may report one for no reason; Spanner's library runs  *)
(* the function again; SQLite's single immediate transaction excludes      *)
(* others.  Spanner's transactions do not see their own writes.            *)
(***************************************************************************)
EXTENDS OutboxRecord, FiniteSets

CONSTANTS
  Callers,         \* goroutines that call the store, of any number of processes
  Drivers,         \* the drivers to check
  Connections,     \* size of a PostgreSQL or Spanner pool
  MaxRetries,      \* retries of a PostgreSQL transaction: 15
  MaxCalls,        \* bound: calls in all
  MaxFaults        \* bound: calls that break or expire, and answers lost

ASSUME BackendAssumption ==
  /\ Callers # {} /\ Drivers \subseteq {"postgres", "sqlite", "spanner"}
  /\ Connections \in Nat \ {0} /\ {MaxRetries, MaxCalls, MaxFaults} \subseteq Nat
  /\ JobIds \cap {"", "nothing", "lost", "incompatible"} = {}   \* a claim answers with an ID

VARIABLES
  db,              \* the records
  table,           \* whether the records' table exists
  namespace,       \* the schema it belongs in: "default", or an administrator's
  driver,          \* the driver of this deployment
  caller,          \* each caller's call and its transaction
  fit,             \* callers whose process has passed Check
  calls,           \* calls so far
  faults           \* faults so far

vars == <<db, table, namespace, driver, caller, fit, calls, faults>>
deployment == <<namespace, driver>>

Records == INSTANCE Records WITH
  call <- [c \in Callers |-> [op |-> caller[c].op, answer |-> caller[c].answer]]

NoRun == [answer |-> "", reads |-> {}, writes |-> {}, db |-> <<>>]
NoCaller == [op |-> Records!NoCall, answer |-> "", pc |-> "idle", attempt |-> 0,
             result |-> "", run |-> NoRun, stale |-> {}]

BackendInit ==
  /\ caller = [c \in Callers |-> NoCaller]
  /\ Records!RecordsInit
  /\ table \in BOOLEAN /\ (db.version # "" => table)
  /\ namespace \in {"present", "default", "missing"} /\ (table => namespace = "present")
  /\ driver \in Drivers /\ (driver # "postgres" => namespace = "present")
  /\ fit = {} /\ calls = 0 /\ faults = 0

Moves(c, state) == caller' = [caller EXCEPT ![c] = state]
Fault == faults < MaxFaults /\ faults' = faults + 1

(* The bot works only after its Check; a Migrate may come at any time. *)
Call(c, op) ==
  /\ caller[c].pc = "idle" /\ calls < MaxCalls
  /\ op.do \in {"check", "migrate"} \/ c \in fit
  /\ Moves(c, [NoCaller EXCEPT !.op = op, !.pc = "ready"])
  /\ calls' = calls + 1
  /\ UNCHANGED <<db, table, deployment, fit, faults>>

Answered(s, answer) == [s EXCEPT !.pc = "idle", !.answer = answer, !.run = NoRun, !.stale = {}]
Answer(c, answer) ==
  /\ Moves(c, Answered(caller[c], answer))
  /\ fit' = IF caller[c].op.do = "check" /\ answer = "ready" THEN fit \cup {c} ELSE fit

-----------------------------------------------------------------------------
(* Transactions. *)

PoolSize == IF driver = "sqlite" THEN 1 ELSE Connections
Held == {c \in Callers : caller[c].pc = "committing"}

(* SetMaxOpenConns: a transaction waits for a connection. *)
Connected == Cardinality(Held) < PoolSize

(* Get, Put and Scan: only Spanner buffers writes out of its own reads' sight. *)
OwnWrites == driver # "spanner"

(* Answers that are errors of the function roll its transaction back. *)
Errors == {"nothing", "lost", "incompatible"}

\* Mutation: a second attempt starts from the result of the first.
Kept(c, run) == IF caller[c].result = "" THEN run.answer ELSE caller[c].result
(* Every function resets what it returns before it reads. *)
Result(c, run) == run.answer

(* BeginTx and the function.  View commits nothing, so its answer is this. *)
Attempt(c) ==
  LET s == caller[c]
      run == Records!Run(s.op, db, OwnWrites) IN
  /\ s.pc = "ready" /\ table
  /\ Connected /\ Records!HasRoom(s.op, db)
  /\ IF run.answer \in Errors \/ s.op.do = "check"
       THEN Answer(c, run.answer)
       ELSE /\ Moves(c, [s EXCEPT !.pc = "committing", !.result = Result(c, run), !.run = run, !.stale = {}])
            /\ UNCHANGED fit
  /\ UNCHANGED <<db, table, deployment, calls, faults>>

\* Mutation: the default isolation level, which commits what was read before.
NeverOverwritten(s) == FALSE
Overwritten(s) == s.run.reads \cap s.stale # {}

(* The answer of a commit can be lost on its way. *)
Commit(c) ==
  LET s == caller[c] IN
  /\ s.pc = "committing" /\ ~Overwritten(s)
  /\ db' = Records!Merged(db, s.run.db, s.run.writes)
  /\ \E answer \in {s.result, "error"} :
       /\ IF answer = "error" THEN Fault ELSE UNCHANGED faults
       /\ caller' = [d \in Callers |->
            IF d = c THEN Answered(s, answer)
            ELSE IF d \in Held THEN [caller[d] EXCEPT !.stale = @ \cup s.run.writes] ELSE caller[d]]
  /\ UNCHANGED <<table, deployment, fit, calls>>

\* Mutation: there is no last attempt.
RetriedAlways(s) == TRUE
Retried(s) == driver = "spanner" \/ s.attempt < MaxRetries

Conflict(c) ==
  LET s == caller[c] IN
  /\ s.pc = "committing"
  /\ Overwritten(s) \/ driver = "postgres"
  /\ IF Retried(s)
       THEN /\ Moves(c, [s EXCEPT !.pc = IF driver = "spanner" THEN "ready" ELSE "waiting",
                                  !.attempt = IF @ < MaxRetries THEN @ + 1 ELSE @,
                                  !.run = NoRun, !.stale = {}])
            /\ UNCHANGED fit
       ELSE Answer(c, "error")
  /\ UNCHANGED <<db, table, deployment, calls, faults>>

(* The delay before the next attempt holds no connection. *)
Wake(c) ==
  /\ caller[c].pc = "waiting"
  /\ Moves(c, [caller[c] EXCEPT !.pc = "ready"])
  /\ UNCHANGED <<db, table, deployment, fit, calls, faults>>

(* The context ends, or the connection breaks: the transaction rolls back. *)
Break(c) ==
  /\ caller[c].pc # "idle"
  /\ Fault
  /\ Answer(c, "error")
  /\ UNCHANGED <<db, table, deployment, calls>>

-----------------------------------------------------------------------------
(* Schemas: the table is made outside the transaction that writes the version. *)

Provisioned == namespace # "missing"

CreateTable(c) ==
  /\ caller[c].pc = "ready" /\ caller[c].op.do = "migrate" /\ ~table
  /\ IF Provisioned
       THEN table' = TRUE /\ namespace' = "present" /\ UNCHANGED <<caller, fit>>
       ELSE UNCHANGED <<table, namespace>> /\ Answer(c, "error")
  /\ UNCHANGED <<db, driver, calls, faults>>

NoTable(c) ==
  /\ caller[c].pc = "ready" /\ caller[c].op.do # "migrate" /\ ~table
  /\ Answer(c, "error")
  /\ UNCHANGED <<db, table, deployment, calls, faults>>

-----------------------------------------------------------------------------
CallStep(c) == Attempt(c) \/ Commit(c) \/ Conflict(c) \/ Wake(c) \/ CreateTable(c) \/ NoTable(c)

BackendNext ==
  \E c \in Callers :
    \/ \E op \in Records!Operation : Call(c, op)
    \/ CallStep(c)
    \/ Break(c)

(* Connections are handed out in turn and every database call comes to an end. *)
BackendSpec == BackendInit /\ [][BackendNext]_vars /\ \A c \in Callers : SF_vars(CallStep(c))

-----------------------------------------------------------------------------

(* The refinement: under any driver, with transactions that overlap, conflict *)
(* and run again, a call of Update or View is one step on the records and     *)
(* answers what that step found: nothing of an attempt that did not commit.   *)
ImplementsRecords == Records!RecordsSpec

(* An event whose recording ended in an error, though it was committed, is    *)
(* delivered again: what was recorded then is not done a second time, so the  *)
(* job of its reply is neither put back nor claimed afresh.                   *)
AnsweredOnce ==
  [][\A id \in db.events :
       /\ db'.jobs[id].attempts >= db.jobs[id].attempts
       /\ db.jobs[id].completed => db'.jobs[id].completed]_vars

(* Every call is answered, conflicts or not: claims have no deadline of their own. *)
CallsEnd == \A c \in Callers : caller[c].pc # "idle" ~> caller[c].pc = "idle"
=============================================================================
