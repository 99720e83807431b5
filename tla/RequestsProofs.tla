---------------------------- MODULE RequestsProofs ----------------------------
(***************************************************************************)
(* Proofs about Requests, for any messages, notes, page sizes, responses,  *)
(* settings and faults: the transcript misses no message that stayed, the  *)
(* thread has one note, and the backoff is in bounds.                      *)
(*                                                                         *)
(* The doubling of the delay is a recursive function.  Its bounds are      *)
(* proved by descent: finite sets are well founded by inclusion, so a set  *)
(* of naturals has a least element, and no least attempt is out of bounds. *)
(***************************************************************************)
EXTENDS Requests, FiniteSetTheorems, TLAPS

-----------------------------------------------------------------------------
(* Least and greatest numbers. *)

LEMMA MinimalSet ==
  ASSUME NEW S, NEW U, U \subseteq FiniteSubsetsOf(S), U # {}
  PROVE  \E x \in U : \A y \in U : y \subseteq x => y = x
<1> DEFINE R == StrictSubsetOrdering(S)
           F == FiniteSubsetsOf(S)
<1>1. IsWellFoundedOn(R, F)
  BY FS_StrictSubsetOrderingWellFounded
<1>2. \E x \in U : \A y \in U : ~ (<<y, x>> \in R)
  <2> HIDE DEF R, F
  <2> U \subseteq F
    BY DEF F
  <2> QED BY <1>1, WFMin
<1>3. QED
  BY <1>2 DEF StrictSubsetOrdering, FiniteSubsetsOf

LEMMA Least ==
  ASSUME NEW T \in SUBSET Nat, T # {}
  PROVE  \E m \in T : \A n \in T : m <= n
<1> DEFINE Below(m) == {n \in T : n < m}
           U == {Below(m) : m \in T}
<1>1. U \subseteq FiniteSubsetsOf(Nat) /\ U # {}
  <2>1. ASSUME NEW m \in T PROVE IsFiniteSet(Below(m)) /\ Below(m) \in SUBSET Nat
    <3>1. m \in Nat /\ \A n \in Below(m) : n \in Nat /\ n < m
      OBVIOUS
    <3>2. Below(m) \in SUBSET Nat
      OBVIOUS
    <3>3. \A n \in Below(m) : n <= m
      BY <3>1
    <3>4. QED
      BY <3>1, <3>2, <3>3, FS_BoundedSetOfNaturals
  <2>2. QED
    BY <2>1 DEF FiniteSubsetsOf
<1>2. PICK x \in U : \A y \in U : y \subseteq x => y = x
  <2> HIDE DEF U
  <2> QED BY <1>1, MinimalSet
<1>3. PICK m \in T : x = Below(m)
  BY <1>2
<1>4. ASSUME NEW n \in T, ~(m <= n) PROVE FALSE
  <2>1. m \in Nat /\ n \in Nat /\ n < m /\ \A i \in T : i \in Nat
    BY <1>4
  <2>2. \A k \in T : k < n => k < m
    BY <2>1
  <2>3. Below(n) \subseteq Below(m)
    BY <2>2
  <2>4. n \in Below(m) /\ n \notin Below(n)
    BY <2>1
  <2>5. QED
    BY <1>2, <1>3, <2>3, <2>4
<1>5. QED
  BY <1>4

LEMMA Greatest ==
  ASSUME NEW T \in SUBSET Nat, T # {}, IsFiniteSet(T)
  PROVE  \E m \in T : \A n \in T : n <= m
<1> DEFINE Above(m) == {n \in T : n > m}
           U == {Above(m) : m \in T}
<1>1. U \subseteq FiniteSubsetsOf(T) /\ U # {}
  <2>1. ASSUME NEW m \in T PROVE IsFiniteSet(Above(m)) /\ Above(m) \in SUBSET T
    BY FS_Subset
  <2>2. QED
    BY <2>1 DEF FiniteSubsetsOf
<1>2. PICK x \in U : \A y \in U : y \subseteq x => y = x
  <2> HIDE DEF U
  <2> QED BY <1>1, MinimalSet
<1>3. PICK m \in T : x = Above(m)
  BY <1>2
<1>4. ASSUME NEW n \in T, ~(n <= m) PROVE FALSE
  <2>1. m \in Nat /\ n \in Nat /\ n > m /\ \A i \in T : i \in Nat
    BY <1>4
  <2>2. \A k \in T : k > n => k > m
    BY <2>1
  <2>3. Above(n) \subseteq Above(m)
    BY <2>2
  <2>4. n \in Above(m) /\ n \notin Above(n)
    BY <2>1
  <2>5. QED
    BY <1>2, <1>3, <2>3, <2>4
<1>5. QED
  BY <1>4

-----------------------------------------------------------------------------
(* The delay before the next attempt. *)

NextDelay(max, d) == IF d > max \div 2 THEN max ELSE Wrapped(2 * d)
DelayAt(base, max, b, i) == IF i = 1 THEN base ELSE NextDelay(max, b[i - 1])
IsBackoff(base, max, n, b) == b = [i \in 1..n |-> DelayAt(base, max, b, i)]

LEMMA DoubledUnfolds ==
  ASSUME NEW base, NEW max, NEW n
  PROVE  Doubled(base, max, n) =
           LET b == CHOOSE b : IsBackoff(base, max, n, b) IN IF b[n] < max THEN b[n] ELSE max
BY DEF Doubled, IsBackoff, DelayAt, NextDelay

LEMMA NextDelayBounds ==
  ASSUME NEW max \in 1..MaxInt, NEW d \in 1..max
  PROVE  NextDelay(max, d) \in d..max
BY RequestsAssumption DEF NextDelay, Wrapped

(* There is such a function, for any number of attempts, and it stays in bounds. *)
LEMMA BackoffExists ==
  ASSUME NEW max \in 1..MaxInt, NEW base \in 1..max, NEW n \in Nat
  PROVE  \E b \in [1..n -> base..max] : IsBackoff(base, max, n, b)
<1> DEFINE Has(k) == \E b \in [1..k -> base..max] : IsBackoff(base, max, k, b)
           Without == {k \in Nat : ~Has(k)}
<1>1. SUFFICES ASSUME n \in Without PROVE FALSE
  OBVIOUS
<1>2. PICK m \in Without : \A k \in Without : m <= k
  <2> HIDE DEF Without
  <2> Without \in SUBSET Nat
    BY DEF Without
  <2> QED BY <1>1, Least
<1> HIDE DEF Has
<1>3. m \in Nat /\ ~Has(m)
  BY <1>2
<1>4. m # 0
  <2>1. SUFFICES ASSUME m = 0 PROVE Has(m)
    BY <1>3
  <2>2. PICK b : b = [i \in 1..0 |-> base]
    OBVIOUS
  <2>3. b \in [1..0 -> base..max]
    BY <2>2
  <2>4. b = [i \in 1..0 |-> DelayAt(base, max, b, i)]
    BY <2>2
  <2>5. QED
    BY <2>1, <2>3, <2>4 DEF Has, IsBackoff
<1>5. m - 1 \in Nat /\ Has(m - 1)
  BY <1>2, <1>3, <1>4
<1>6. PICK b \in [1..(m - 1) -> base..max] : IsBackoff(base, max, m - 1, b)
  BY <1>5 DEF Has
<1>7. PICK last : last = DelayAt(base, max, b, m)
  OBVIOUS
<1>8. last \in base..max
  <2>1. CASE m = 1
    BY <1>7, <2>1 DEF DelayAt
  <2>2. CASE m # 1
    <3>1. b[m - 1] \in base..max
      BY <1>3, <1>4, <1>6, <2>2
    <3>2. b[m - 1] \in 1..max /\ b[m - 1] >= base
      BY <3>1
    <3>3. NextDelay(max, b[m - 1]) \in b[m - 1]..max
      BY <3>2, NextDelayBounds
    <3>4. QED
      BY <1>7, <2>2, <3>2, <3>3 DEF DelayAt
  <2>3. QED
    BY <2>1, <2>2
<1>9. PICK c : c = [i \in 1..m |-> IF i = m THEN last ELSE b[i]]
  OBVIOUS
<1>10. c \in [1..m -> base..max]
  BY <1>3, <1>6, <1>8, <1>9
<1>11. ASSUME NEW i \in 1..m PROVE c[i] = DelayAt(base, max, c, i)
  <2>1. i # 1 => i - 1 \in 1..(m - 1)
    BY <1>3
  <2>2. DelayAt(base, max, c, i) = DelayAt(base, max, b, i)
    <3>1. CASE i = 1
      BY <3>1 DEF DelayAt
    <3>2. CASE i # 1
      <4>1. i - 1 \in 1..m /\ i - 1 # m
        BY <1>3, <2>1, <3>2
      <4>2. c[i - 1] = b[i - 1]
        BY <1>9, <4>1
      <4>3. QED
        BY <3>2, <4>2 DEF DelayAt
    <3>3. QED
      BY <3>1, <3>2
  <2>3. CASE i = m
    BY <1>7, <1>9, <2>2, <2>3
  <2>4. CASE i # m
    <3>1. i \in 1..(m - 1)
      BY <1>3, <2>4
    <3>2. b[i] = DelayAt(base, max, b, i)
      BY <1>6, <3>1 DEF IsBackoff
    <3>3. QED
      BY <1>9, <2>2, <2>4, <3>2
  <2>5. QED
    BY <2>3, <2>4
<1>12. c = [i \in 1..m |-> DelayAt(base, max, c, i)]
  BY <1>10, <1>11
<1>13. QED
  BY <1>3, <1>10, <1>12 DEF Has, IsBackoff

(* Whatever function the definition chooses, it is in bounds. *)
LEMMA BackoffBounded ==
  ASSUME NEW max \in 1..MaxInt, NEW base \in 1..max, NEW n \in Nat,
         NEW b, IsBackoff(base, max, n, b), NEW i \in 1..n
  PROVE  b[i] \in base..max
<1> DEFINE Out == {k \in 1..n : b[k] \notin base..max}
<1>1. SUFFICES ASSUME i \in Out PROVE FALSE
  OBVIOUS
<1>2. PICK k \in Out : \A j \in Out : k <= j
  <2>1. Out \in SUBSET Nat
    OBVIOUS
  <2> HIDE DEF Out
  <2>2. QED
    BY <1>1, <2>1, Least
<1>3. k \in 1..n /\ b[k] \notin base..max /\ b[k] = DelayAt(base, max, b, k)
  BY <1>2 DEF IsBackoff
<1>4. k # 1
  BY <1>3 DEF DelayAt
<1>5. k - 1 \in 1..n /\ b[k - 1] \in base..max
  <2>1. k - 1 \in 1..n /\ ~(k <= k - 1)
    BY <1>3, <1>4
  <2>2. QED
    BY <1>2, <2>1
<1>6. b[k - 1] \in 1..max /\ b[k - 1] >= base
  BY <1>5
<1>7. NextDelay(max, b[k - 1]) \in b[k - 1]..max
  BY <1>6, NextDelayBounds
<1>8. QED
  BY <1>3, <1>4, <1>6, <1>7 DEF DelayAt

LEMMA DoubledBounds ==
  ASSUME NEW max \in 1..MaxInt, NEW base \in 1..max, NEW n \in Nat \ {0}
  PROVE  Doubled(base, max, n) \in base..max
<1>1. PICK b : b = CHOOSE f : IsBackoff(base, max, n, f)
  OBVIOUS
<1>2. IsBackoff(base, max, n, b)
  BY <1>1, BackoffExists
<1>3. b[n] \in base..max
  <2>1. n \in 1..n /\ n \in Nat
    OBVIOUS
  <2>2. QED
    BY <1>2, <2>1, BackoffBounded
<1>4. Doubled(base, max, n) = IF b[n] < max THEN b[n] ELSE max
  BY <1>1, DoubledUnfolds
<1>5. QED
  BY <1>3, <1>4

(* retryAt: half the delay and a random part of the other half, and no less than *)
(* what Slack or HubSpot asked for.                                              *)
LEMMA DelaysBounds ==
  ASSUME NEW max \in 1..MaxInt, NEW base \in 1..max, NEW n \in Nat \ {0}, NEW asked \in Nat,
         NEW d \in Delays(base, max, n, asked)
  PROVE  d \in Nat /\ d >= asked /\ d <= Larger(max, asked) /\ (base > 1 => d > 0)
<1>1. PICK D : D = Doubled(base, max, n)
  OBVIOUS
<1>2. D \in base..max
  BY <1>1, DoubledBounds
<1>3. PICK half : half = D \div 2
  OBVIOUS
<1>4. half \in Nat /\ 2 * half <= D /\ (base > 1 => half >= 1)
  BY <1>2, <1>3
<1>5. PICK random \in 0..(IF half > 1 THEN half - 1 ELSE 0) :
        d = IF half + random > asked THEN half + random ELSE asked
  BY <1>1, <1>3 DEF Delays
<1>6. half + random \in Nat /\ half + random <= max /\ (base > 1 => half + random > 0)
  BY <1>2, <1>4
<1>7. QED
  BY <1>5, <1>6 DEF Larger

-----------------------------------------------------------------------------
(* The inductive invariant. *)

Points == {"idle", "pages", "messages", "notes", "looking", "creating", "saving", "updating", "completing"}
PassLease == [generation: Nat, revision: Nat, token: Nat]
PassState ==
  [pc: Points, lease: PassLease, attempts: Nat, cursor: Nat,
   seen: SUBSET Nat, tries: Nat, got: SUBSET Messages,
   todo: SUBSET (Messages \cup Notes \cup OtherNotes),
   named: SUBSET {Author[m] : m \in Messages}, own: Notes \cup {NoText}]

RequestsTypeOK ==
  /\ setting \in Settings
  /\ thread \in Thread
  /\ message \in [Messages -> {"none", "there", "gone"}] /\ IsFiniteSet(There)
  /\ arriving \subseteq Messages
  /\ notes \subseteq Notes \cup OtherNotes /\ IsFiniteSet(notes)
  /\ read \in PassState
  /\ read.pc # "idle" => read.attempts # 0
  /\ read.pc = "messages" => read.todo \subseteq Messages
  /\ stayed \subseteq There

(* What was read of the thread: all that stayed, up to the cursor. *)
PagesInv ==
  /\ read.pc = "pages" => \A m \in stayed : m <= read.cursor => m \in read.got
  /\ ThreadIsWhole

(* The thread's note, if there is one, is ahead of the lookup. *)
Own == notes \cap Notes
Ahead(n) ==
  /\ read.pc = "notes" => Rank[n] > read.cursor
  /\ read.pc = "looking" => n \in read.todo \/ (read.cursor # 0 /\ Rank[n] > read.cursor)
  /\ read.pc # "creating"

NoteInv ==
  /\ \A n, o \in Own : n = o
  /\ thread.noteID # NoText => thread.noteID \in Own
  /\ read.pc \in {"saving", "updating"} => read.own \in Own
  /\ \A n \in Own : Ahead(n)

RequestsInv == RequestsTypeOK /\ PagesInv /\ NoteInv

(* BackoffInBounds, of one step. *)
Backoff ==
  thread.state = "running" /\ thread'.state = "retrying" =>
    LET delay == thread'.nextAttempt - Now IN
    /\ delay >= cause'.retryAfter
    /\ delay <= Larger(setting.max, cause'.retryAfter)
    /\ setting.base > 1 => delay > 0

Keeps == RequestsInv' /\ Backoff

-----------------------------------------------------------------------------
(* Errors and what they do. *)

LEMMA ErrorAsks ==
  ASSUME NEW r \in Response
  PROVE  SlackCall(r).retryAfter \in Nat /\ HubSpotRequest(r).retryAfter \in Nat
<1>1. r.retryAfter \in Nat
  BY DEF Response
<1>2. \A code, temporary : \A asked \in Nat : RemoteError(code, temporary, asked).retryAfter \in Nat
  BY DEF RemoteError
<1>3. Fine.retryAfter \in Nat /\ Transport.retryAfter \in Nat
  BY <1>2 DEF Fine, Transport
<1>4. SlackCall(r).retryAfter \in Nat
  <2>1. ResponseError(r).retryAfter \in Nat
    BY <1>1 DEF ResponseError, RemoteError
  <2>2. EnvelopeError(r).retryAfter \in Nat
    BY <1>1 DEF EnvelopeError, RemoteError
  <2>3. CASE r.body \in {"ok", "cut", "garbled"}
    BY <1>2, <1>3, <2>1, <2>3 DEF SlackCall
  <2>4. CASE r.body \notin {"ok", "cut", "garbled"}
    BY <1>3, <2>1, <2>2, <2>4 DEF SlackCall
  <2>5. QED
    BY <2>3, <2>4
<1>5. HubSpotRequest(r).retryAfter \in Nat
  BY <1>1, <1>3 DEF HubSpotRequest, RemoteError
<1>6. QED
  BY <1>4, <1>5

(* What every failure leaves, the remote side apart. *)
LEMMA FailsKeeps ==
  ASSUME RequestsInv, read.pc # "idle", NEW e, e.retryAfter \in Nat, Fails(e)
  PROVE  /\ thread' \in Thread /\ thread'.noteID = thread.noteID
         /\ read' = Idle /\ stayed' = {} /\ setting' = setting
         /\ Backoff
<1>1. PICK delay \in Delays(setting.base, setting.max, read.attempts, e.retryAfter) :
        thread' = Failed(thread, read.lease, "error", Now + delay,
                         Permanent(e, read.attempts, setting.attempts))
  BY DEF Fails
<1>2. setting \in Settings /\ thread \in Thread /\ read \in PassState /\ read.attempts \in Nat \ {0}
  BY DEF RequestsInv, RequestsTypeOK, PassState
<1>3. setting.base \in 1..setting.max /\ setting.max \in 1..MaxInt
  BY <1>2, RequestsAssumption DEF Setting
<1>4. /\ delay \in Nat /\ delay >= e.retryAfter /\ delay <= Larger(setting.max, e.retryAfter)
      /\ setting.base > 1 => delay > 0
  BY <1>1, <1>2, <1>3, DelaysBounds
<1>5. PICK permanent \in BOOLEAN : permanent = Permanent(e, read.attempts, setting.attempts)
  BY DEF Permanent
<1>6. read.lease \in PassLease /\ Now + delay \in Nat
  BY <1>2, <1>4 DEF PassState, Now
<1>7. thread' = Failed(thread, read.lease, "error", Now + delay, permanent)
  BY <1>1, <1>5
<1>8. thread' \in Thread /\ thread'.noteID = thread.noteID
  BY <1>2, <1>6, <1>7 DEF Failed, ClearLease, Thread, PassLease, States, Errors
<1>9. thread'.state = "retrying" => thread'.nextAttempt = Now + delay
  BY <1>2, <1>6, <1>7 DEF Failed, ClearLease, Thread, PassLease, States, Errors
<1>10. cause' = e /\ read' = Idle /\ stayed' = {} /\ setting' = setting
  BY DEF Fails
<1>11. Backoff
  <2>1. SUFFICES ASSUME thread'.state = "retrying"
                 PROVE  LET d == thread'.nextAttempt - Now IN
                        /\ d >= cause'.retryAfter
                        /\ d <= Larger(setting.max, cause'.retryAfter)
                        /\ setting.base > 1 => d > 0
    BY DEF Backoff
  <2>2. thread'.nextAttempt - Now = delay
    BY <1>4, <1>9, <2>1 DEF Now
  <2>3. QED
    BY <1>4, <1>10, <2>2
<1>12. QED
  BY <1>8, <1>10, <1>11

LEMMA IdleState == Idle \in PassState /\ Idle.pc = "idle"
  BY DEF Idle, PassState, Points, PassLease, NoLease

(* A failure that changed nothing remote. *)
LEMMA FailedStep ==
  ASSUME RequestsInv, read.pc # "idle", NEW e, e.retryAfter \in Nat, Fails(e), UNCHANGED remote
  PROVE  Keeps
<1>1. /\ thread' \in Thread /\ thread'.noteID = thread.noteID
      /\ read' = Idle /\ stayed' = {} /\ setting' = setting /\ Backoff
  BY FailsKeeps
<1>2. RequestsTypeOK'
  BY <1>1, IdleState DEF RequestsInv, RequestsTypeOK, remote, There
<1>3. PagesInv'
  BY <1>1, IdleState DEF PagesInv, ThreadIsWhole
<1>4. NoteInv'
  BY <1>1, IdleState DEF RequestsInv, NoteInv, Own, Ahead, remote
<1>5. QED
  BY <1>1, <1>2, <1>3, <1>4 DEF Keeps, RequestsInv

(* A step of the pass that reads only. *)
LEMMA ReadStep ==
  ASSUME RequestsInv, NEW state \in PassState, Reads(state),
         state.pc # "idle" => state.attempts # 0,
         state.pc = "messages" => state.todo \subseteq Messages,
         PagesInv', NoteInv'
  PROVE  Keeps
<1>1. read' = state /\ UNCHANGED <<setting, trouble, thread, remote, history>>
  BY DEF Reads
<1>2. RequestsTypeOK'
  BY <1>1 DEF RequestsInv, RequestsTypeOK, remote, history, There
<1>3. Backoff
  BY <1>1 DEF Backoff
<1>4. QED
  BY <1>2, <1>3 DEF Keeps, RequestsInv

-----------------------------------------------------------------------------
(* Users, other notes, events and time. *)

LEMMA PostKeeps ==
  ASSUME RequestsInv, NEW m \in Messages, Post(m)
  PROVE  Keeps
<1>1. /\ message' = [message EXCEPT ![m] = "there"]
      /\ arriving' = arriving \cup {m}
      /\ UNCHANGED <<setting, trouble, thread, notes, shows, read, faults, history>>
  BY DEF Post
<1>2. message \in [Messages -> {"none", "there", "gone"}] /\ IsFiniteSet(There)
  BY DEF RequestsInv, RequestsTypeOK
<1>3. There' = There \cup {m}
  BY <1>1, <1>2 DEF There
<1>4. IsFiniteSet(There)'
  BY <1>2, <1>3, FS_AddElement
<1>5. RequestsTypeOK'
  BY <1>1, <1>2, <1>3, <1>4 DEF RequestsInv, RequestsTypeOK, history
<1>6. PagesInv' /\ NoteInv' /\ Backoff
  BY <1>1 DEF RequestsInv, PagesInv, ThreadIsWhole, NoteInv, Own, Ahead, history, Backoff
<1>7. QED
  BY <1>5, <1>6 DEF Keeps, RequestsInv

LEMMA DeleteKeeps ==
  ASSUME RequestsInv, NEW m \in Messages, Delete(m)
  PROVE  Keeps
<1>1. /\ message' = [message EXCEPT ![m] = "gone"]
      /\ arriving' = arriving \cup {m} /\ stayed' = stayed \ {m}
      /\ UNCHANGED <<setting, trouble, thread, notes, shows, read, faults, cause>>
  BY DEF Delete
<1>2. message \in [Messages -> {"none", "there", "gone"}] /\ IsFiniteSet(There)
  BY DEF RequestsInv, RequestsTypeOK
<1>3. There' = There \ {m}
  BY <1>1, <1>2 DEF There
<1>4. IsFiniteSet(There)'
  BY <1>2, <1>3, FS_RemoveElement
<1>5. RequestsTypeOK'
  BY <1>1, <1>2, <1>3, <1>4 DEF RequestsInv, RequestsTypeOK
<1>6. PagesInv' /\ NoteInv' /\ Backoff
  BY <1>1 DEF RequestsInv, PagesInv, ThreadIsWhole, NoteInv, Own, Ahead, Backoff
<1>7. QED
  BY <1>5, <1>6 DEF Keeps, RequestsInv

LEMMA NoteGoesKeeps ==
  ASSUME RequestsInv, NEW n \in OtherNotes, NoteGoes(n)
  PROVE  Keeps
<1>1. /\ notes' = notes \ {n}
      /\ UNCHANGED <<setting, trouble, thread, message, arriving, shows, read, history>>
  BY DEF NoteGoes
<1>2. IsFiniteSet(notes')
  BY <1>1, FS_RemoveElement DEF RequestsInv, RequestsTypeOK
<1>3. Own' = Own
  BY <1>1, RequestsAssumption DEF Own
<1>4. RequestsTypeOK'
  BY <1>1, <1>2 DEF RequestsInv, RequestsTypeOK, There, history
<1>5. NoteInv' /\ PagesInv' /\ Backoff
  BY <1>1, <1>3 DEF RequestsInv, PagesInv, ThreadIsWhole, NoteInv, Ahead, history, Backoff
<1>6. QED
  BY <1>4, <1>5 DEF Keeps, RequestsInv

(* A step that changes the thread's record alone, and not its note. *)
LEMMA RecordStep ==
  ASSUME RequestsInv, thread' \in Thread, thread'.noteID = thread.noteID, arriving' \subseteq Messages,
         UNCHANGED <<setting, message, notes, shows, read, history>>, Backoff
  PROVE  Keeps
<1>1. RequestsTypeOK'
  BY DEF RequestsInv, RequestsTypeOK, There, history
<1>2. NoteInv' /\ PagesInv'
  BY DEF RequestsInv, PagesInv, ThreadIsWhole, NoteInv, Own, Ahead, history
<1>3. QED
  BY <1>1, <1>2 DEF Keeps, RequestsInv

LEMMA ArriveKeeps ==
  ASSUME RequestsInv, NEW m \in Messages, Arrive(m)
  PROVE  Keeps
<1>1. /\ arriving' = arriving \ {m} /\ thread' = Messaged(thread, [messageTS |-> m], Now)
      /\ UNCHANGED <<setting, message, notes, shows, read, history>>
  BY DEF Arrive
<1>2. thread \in Thread /\ m \in Nat
  BY RequestsAssumption DEF RequestsInv, RequestsTypeOK
<1> DEFINE wanted == [thread EXCEPT !.currentError = NoText, !.requested = @ + 1,
                                    !.attempts = 0, !.nextAttempt = 0]
<1>3. PICK q : q = Queued(thread, Now)
  OBVIOUS
<1>4. wanted \in Thread /\ wanted.noteID = thread.noteID /\ wanted.state = thread.state
  <2>1. thread.requested + 1 \in Nat
    BY <1>2 DEF Thread
  <2>2. QED
    BY <1>2, <2>1 DEF Thread, Errors
<1>5. q = IF After(thread.leaseExpires, Now) THEN wanted
          ELSE [ClearLease(wanted) EXCEPT !.state = "pending"]
  BY <1>3 DEF Queued
<1> HIDE DEF wanted
<1>6. q \in Thread /\ q.noteID = thread.noteID /\ q.state \in {thread.state, "pending"}
  BY <1>4, <1>5 DEF ClearLease, Thread, States
<1>7. thread' = [q EXCEPT !.lastMessageTS = IF Newer(m, @) THEN m ELSE @]
  BY <1>1, <1>3 DEF Messaged
<1>8. thread' \in Thread /\ thread'.noteID = thread.noteID /\ thread'.state = q.state
  BY <1>2, <1>6, <1>7 DEF Thread
<1>9. Backoff
  BY <1>6, <1>8 DEF Backoff
<1>10. arriving' \subseteq Messages
  BY <1>1 DEF RequestsInv, RequestsTypeOK
<1>11. QED
  BY <1>1, <1>8, <1>9, <1>10, RecordStep

LEMMA WaitKeeps ==
  ASSUME RequestsInv, Wait
  PROVE  Keeps
<1>1. /\ thread' = [thread EXCEPT !.nextAttempt = Now]
      /\ UNCHANGED <<setting, arriving, message, notes, shows, read, history>>
  BY DEF Wait, remote
<1>2. thread \in Thread /\ arriving \subseteq Messages
  BY DEF RequestsInv, RequestsTypeOK
<1>3. thread' \in Thread /\ thread'.noteID = thread.noteID /\ thread'.state = thread.state
  BY <1>1, <1>2 DEF Thread, Now
<1>4. Backoff
  BY <1>3 DEF Backoff
<1>5. QED
  BY <1>1, <1>2, <1>3, <1>4, RecordStep

LEMMA BeginKeeps ==
  ASSUME RequestsInv, Begin
  PROVE  Keeps
<1>1. /\ thread' = Claimed(thread, 1, Now)
      /\ read' = [Idle EXCEPT !.pc = "pages", !.attempts = thread.attempts + 1, !.lease =
                   [generation |-> thread.requested, revision |-> thread.revision, token |-> 1]]
      /\ stayed' = There
      /\ UNCHANGED <<setting, message, arriving, notes, shows>>
  BY DEF Begin, remote
<1>2. thread \in Thread /\ thread.attempts + 1 \in Nat /\ thread.attempts + 1 # 0
      /\ Now + LeaseDuration \in Nat
  BY RecordAssumption DEF RequestsInv, RequestsTypeOK, Thread, Now
<1>3. thread' \in Thread /\ thread'.noteID = thread.noteID /\ thread'.state = "running"
  BY <1>1, <1>2 DEF Claimed, Thread, States
<1>4. read' \in PassState /\ read'.pc = "pages" /\ read'.attempts # 0 /\ read'.cursor = 0
  <2>1. [generation |-> thread.requested, revision |-> thread.revision, token |-> 1] \in PassLease
    BY <1>2 DEF PassLease, Thread
  <2>2. QED
    BY <1>1, <1>2, <2>1, IdleState DEF PassState, Points, Idle
<1>5. RequestsTypeOK'
  BY <1>1, <1>3, <1>4 DEF RequestsInv, RequestsTypeOK, There
<1>6. PagesInv'
  <2>1. \A m \in stayed' : m \in Nat \ {0}
    BY <1>1, RequestsAssumption DEF There
  <2>2. QED
    BY <1>4, <2>1 DEF PagesInv, ThreadIsWhole
<1>7. NoteInv'
  BY <1>1, <1>3, <1>4 DEF RequestsInv, NoteInv, Own, Ahead
<1>8. Backoff
  BY <1>3 DEF Backoff
<1>9. QED
  BY <1>5, <1>6, <1>7, <1>8 DEF Keeps, RequestsInv

LEMMA CompleteKeeps ==
  ASSUME RequestsInv, Complete
  PROVE  Keeps
<1>1. /\ thread' = Completed(thread, read.lease, Root, 0)
      /\ read' = Idle /\ stayed' = {}
      /\ UNCHANGED <<setting, message, arriving, notes, shows>>
  BY DEF Complete, remote
<1>2. thread \in Thread /\ read.lease \in PassLease
  BY DEF RequestsInv, RequestsTypeOK, PassState
<1> DEFINE done == [ClearLease(thread) EXCEPT
                      !.completed = Larger(@, read.lease.generation),
                      !.currentError = NoText, !.lastSyncedTS = Root, !.nextAttempt = 0]
<1>3. ClearLease(thread) \in Thread /\ ClearLease(thread).noteID = thread.noteID
  BY <1>2 DEF ClearLease, Thread
<1>4. Larger(ClearLease(thread).completed, read.lease.generation) \in Nat
  BY <1>2, <1>3 DEF Larger, Thread, PassLease
<1>5. done \in Thread /\ done.noteID = thread.noteID
  BY <1>3, <1>4 DEF Thread, Errors, Root
<1>6. thread' = [done EXCEPT !.attempts = 0,
                   !.state = IF done.requested > done.completed THEN "pending" ELSE "up-to-date"]
  BY <1>1 DEF Completed
<1> HIDE DEF done
<1>7. thread' \in Thread /\ thread'.noteID = thread.noteID /\ thread'.state # "retrying"
  BY <1>5, <1>6 DEF Thread, States
<1>8. RequestsTypeOK'
  BY <1>1, <1>7, IdleState DEF RequestsInv, RequestsTypeOK, There
<1>9. PagesInv' /\ NoteInv' /\ Backoff
  BY <1>1, <1>7, IdleState DEF RequestsInv, PagesInv, ThreadIsWhole, NoteInv, Own, Ahead, Backoff
<1>10. QED
  BY <1>8, <1>9 DEF Keeps, RequestsInv

-----------------------------------------------------------------------------
(* Slack.Thread. *)

(* Up to the next cursor, or to the end, a page leaves nothing out. *)
LEMMA PageIsWhole ==
  ASSUME RequestsInv, NEW cursor \in Nat
  PROVE  /\ Page(cursor) \subseteq Messages
         /\ NextCursor(cursor) \in Nat
         /\ NextCursor(cursor) = 0 => \A m \in There : m > cursor => m \in Page(cursor)
         /\ NextCursor(cursor) # 0 =>
              \A m \in There : (m > cursor /\ m <= NextCursor(cursor)) => m \in Page(cursor)
<1> DEFINE rest == {m \in There \ {Root} : m > cursor}
           Before(m) == {x \in rest : x < m}
<1>1. IsFiniteSet(There) /\ There \subseteq Messages /\ Messages \subseteq Nat \ {0} /\ Root \in Messages
      /\ Root = 1 /\ SlackPage \in Nat
  BY RequestsAssumption DEF RequestsInv, RequestsTypeOK, There, Root
<1>2. IsFiniteSet(rest) /\ rest \subseteq There
  BY <1>1, FS_Subset
<1>3. Page(cursor) = {Root} \cup {m \in rest : Cardinality(Before(m)) < SlackPage}
  BY DEF Page
<1>4. Page(cursor) \subseteq Messages
  BY <1>1, <1>3
<1>5. IsFiniteSet(Page(cursor)) /\ Root \in Page(cursor) /\ Page(cursor) \in SUBSET Nat
  <2>1. PICK S : S = {m \in rest : Cardinality(Before(m)) < SlackPage}
    OBVIOUS
  <2>2. IsFiniteSet(S)
    BY <1>2, <2>1, FS_Subset
  <2>3. Page(cursor) = S \cup {Root}
    BY <1>3, <2>1
  <2>4. IsFiniteSet(Page(cursor))
    BY <2>2, <2>3, FS_AddElement
  <2>5. QED
    BY <1>1, <1>4, <2>3, <2>4
<1>6. PICK last \in Page(cursor) : \A other \in Page(cursor) : other <= last
  BY <1>5, Greatest
<1>7. ASSUME NEW m \in rest, m <= last PROVE m \in Page(cursor)
  <2>1. m \in Nat /\ last \in Nat
    BY <1>1, <1>2, <1>5, <1>6, <1>7
  <2>2. CASE last = Root
    <3>1. m \in Messages /\ m # Root
      BY <1>1
    <3>2. QED
      BY <1>1, <1>7, <2>1, <2>2, <3>1
  <2>3. CASE last # Root
    <3>1. last \in rest /\ Cardinality(Before(last)) < SlackPage
      BY <1>3, <1>6, <2>3
    <3>2. IsFiniteSet(Before(last)) /\ Before(m) \subseteq Before(last)
      <4>1. \A x \in rest : x \in Nat
        BY <1>1, <1>2
      <4>2. \A x \in rest : x < m => x < last
        BY <1>7, <2>1, <4>1
      <4>3. QED
        BY <1>2, <4>2, FS_Subset
    <3>3. Cardinality(Before(m)) <= Cardinality(Before(last)) /\ IsFiniteSet(Before(m))
      BY <3>2, FS_Subset
    <3>4. Cardinality(Before(m)) < SlackPage
      BY <1>1, <3>1, <3>2, <3>3, FS_CardinalityType
    <3>5. QED
      BY <1>3, <3>4
  <2>4. QED
    BY <2>2, <2>3
<1> HIDE DEF rest, Before
<1>8. CASE trouble = "cursors"
  <2>1. NextCursor(cursor) = 1
    BY <1>8 DEF NextCursor, Root
  <2>2. \A m \in There : m <= 1 => m \in Page(cursor)
    BY <1>1, <1>5
  <2>3. QED
    BY <1>4, <2>1, <2>2
<1>9. CASE trouble # "cursors" /\ \A m \in There : m > cursor => m \in Page(cursor)
  <2>1. NextCursor(cursor) = 0
    BY <1>9 DEF NextCursor
  <2>2. QED
    BY <1>4, <1>9, <2>1
<1>10. CASE trouble # "cursors" /\ ~\A m \in There : m > cursor => m \in Page(cursor)
  <2>1. NextCursor(cursor) = CHOOSE m \in Page(cursor) : \A other \in Page(cursor) : other <= m
    BY <1>10 DEF NextCursor
  <2>2. /\ NextCursor(cursor) \in Page(cursor)
        /\ \A other \in Page(cursor) : other <= NextCursor(cursor)
    BY <1>6, <2>1
  <2>3. NextCursor(cursor) = last
    <3>1. last \in Nat /\ NextCursor(cursor) \in Nat
      BY <1>5, <1>6, <2>2
    <3>2. QED
      BY <1>6, <2>2, <3>1
  <2>4. last \in Nat /\ last # 0
    BY <1>1, <1>4, <1>6
  <2>5. ASSUME NEW m \in There, m > cursor, m <= last PROVE m \in Page(cursor)
    <3>1. CASE m = Root
      BY <1>5, <3>1
    <3>2. CASE m # Root
      <4>1. m \in rest
        BY <2>5, <3>2 DEF rest
      <4>2. QED
        BY <1>7, <2>5, <4>1
    <3>3. QED
      BY <3>1, <3>2
  <2>6. QED
    BY <1>4, <2>3, <2>4, <2>5
<1>11. QED
  BY <1>8, <1>9, <1>10

LEMMA GetPageKeeps ==
  ASSUME RequestsInv, GetPage
  PROVE  Keeps
<1>1. PICK next, got : next = NextCursor(read.cursor) /\ got = read.got \cup Page(read.cursor)
  OBVIOUS
<1>2. read \in PassState /\ read.pc = "pages" /\ read.attempts # 0 /\ read.cursor \in Nat
      /\ read.got \subseteq Messages /\ stayed \subseteq There /\ There \subseteq Messages
      /\ Messages \subseteq Nat
  BY RequestsAssumption DEF GetPage, At, RequestsInv, RequestsTypeOK, PassState, There
<1>3. /\ Page(read.cursor) \subseteq Messages
      /\ next \in Nat
      /\ next = 0 => \A m \in There : m > read.cursor => m \in Page(read.cursor)
      /\ next # 0 => \A m \in There : (m > read.cursor /\ m <= next) => m \in Page(read.cursor)
  BY <1>1, <1>2, PageIsWhole
<1>4. \A m \in stayed : m <= read.cursor => m \in read.got
  BY <1>2 DEF RequestsInv, PagesInv
<1>5. got \subseteq Messages
  BY <1>1, <1>2, <1>3
<1>6. ASSUME next = 0, Reads([read EXCEPT !.pc = "messages", !.got = got, !.todo = got])
      PROVE  Keeps
  <2>1. PICK state : state = [read EXCEPT !.pc = "messages", !.got = got, !.todo = got]
    OBVIOUS
  <2>2. state \in PassState /\ state.pc = "messages" /\ state.attempts # 0 /\ state.got = got
        /\ state.todo = got
    BY <1>2, <1>5, <2>1 DEF PassState, Points
  <2>3. stayed \subseteq got
    <3>1. ASSUME NEW m \in stayed PROVE m \in got
      <4>1. m \in There /\ (m <= read.cursor \/ m > read.cursor)
        BY <1>2
      <4>2. CASE m <= read.cursor
        BY <1>1, <1>4, <4>2
      <4>3. CASE m > read.cursor
        <5>1. m \in Page(read.cursor)
          BY <1>3, <1>6, <4>1, <4>3
        <5>2. QED
          BY <1>1, <5>1
      <4>4. QED
        BY <4>1, <4>2, <4>3
    <3>2. QED
      BY <3>1
  <2>4. read' = state /\ stayed' = stayed /\ notes' = notes /\ thread' = thread
    BY <1>6, <2>1 DEF Reads, remote, history
  <2>5. PagesInv' /\ NoteInv'
    BY <2>2, <2>3, <2>4 DEF RequestsInv, PagesInv, ThreadIsWhole, NoteInv, Own, Ahead
  <2>6. QED
    BY <1>5, <1>6, <2>1, <2>2, <2>5, ReadStep
<1>7. ASSUME next # 0, Fails(RemoteError("repeated_cursor", TRUE, 0)), UNCHANGED remote
      PROVE  Keeps
  BY <1>2, <1>7, FailedStep DEF RemoteError
<1>8. ASSUME next # 0,
             Reads([read EXCEPT !.got = got, !.cursor = next, !.seen = @ \cup {next}, !.tries = 0])
      PROVE  Keeps
  <2>1. PICK state : state = [read EXCEPT !.got = got, !.cursor = next, !.seen = @ \cup {next}, !.tries = 0]
    OBVIOUS
  <2>2. state \in PassState /\ state.pc = "pages" /\ state.attempts # 0
        /\ state.got = got /\ state.cursor = next
    BY <1>2, <1>3, <1>5, <2>1 DEF PassState, Points
  <2>3. \A m \in stayed : m <= next => m \in got
    <3>1. ASSUME NEW m \in stayed, m <= next PROVE m \in got
      <4>1. m \in Nat /\ (m <= read.cursor \/ m > read.cursor)
        BY <1>2
      <4>2. QED
        BY <1>1, <1>2, <1>3, <1>4, <1>8, <3>1, <4>1
    <3>2. QED
      BY <3>1
  <2>4. read' = state /\ stayed' = stayed /\ notes' = notes /\ thread' = thread
    BY <1>8, <2>1 DEF Reads, remote, history
  <2>5. PagesInv' /\ NoteInv'
    BY <2>2, <2>3, <2>4 DEF RequestsInv, PagesInv, ThreadIsWhole, NoteInv, Own, Ahead
  <2>6. QED
    BY <1>8, <2>1, <2>2, <2>5, ReadStep
<1>9. QED
  BY <1>1, <1>6, <1>7, <1>8 DEF GetPage, LastPage

(* A page that is refused: asked for again, or the end of the pass. *)
LEMMA PageErrorKeeps ==
  ASSUME RequestsInv, At("pages"), NEW e, e.retryAfter \in Nat, PageError(e)
  PROVE  Keeps
<1>1. read \in PassState /\ read.pc = "pages" /\ read.attempts # 0 /\ read.tries \in Nat
  BY DEF At, RequestsInv, RequestsTypeOK, PassState
<1>2. CASE RetriedPage(e)
  <2>1. PICK tries \in Nat : tries = IF read.tries < MaxRetries THEN read.tries + 1 ELSE read.tries
    BY <1>1
  <2>2. PICK state : state = [read EXCEPT !.tries = tries]
    OBVIOUS
  <2>3. state \in PassState /\ state.pc = "pages" /\ state.attempts # 0
        /\ state.got = read.got /\ state.cursor = read.cursor
    BY <1>1, <2>2 DEF PassState
  <2>4. Reads(state)
    BY <1>2, <2>1, <2>2 DEF PageError
  <2>5. read' = state /\ stayed' = stayed /\ notes' = notes /\ thread' = thread
    BY <2>4 DEF Reads, remote, history
  <2>6. PagesInv' /\ NoteInv'
    BY <1>1, <2>3, <2>5 DEF RequestsInv, PagesInv, ThreadIsWhole, NoteInv, Own, Ahead
  <2>7. QED
    BY <2>3, <2>4, <2>6, ReadStep
<1>3. CASE ~RetriedPage(e)
  BY <1>1, <1>3, FailedStep DEF PageError
<1>4. QED
  BY <1>2, <1>3

LEMMA NoPageKeeps ==
  ASSUME RequestsInv, NoPage
  PROVE  Keeps
<1>1. ASSUME NEW r \in Responses, PageError(SlackCall(r)) PROVE Keeps
  <2>1. SlackCall(r).retryAfter \in Nat
    BY ErrorAsks, RequestsAssumption
  <2>2. QED
    BY <1>1, <2>1, PageErrorKeeps DEF NoPage
<1>2. ASSUME PageError(SlackCall([status |-> 429, body |-> "ok", retryAfter |-> 0])) PROVE Keeps
  <2>1. [status |-> 429, body |-> "ok", retryAfter |-> 0] \in Response
    BY DEF Response, Bodies
  <2>2. SlackCall([status |-> 429, body |-> "ok", retryAfter |-> 0]).retryAfter \in Nat
    BY <2>1, ErrorAsks
  <2>3. QED
    BY <1>2, <2>2, PageErrorKeeps DEF NoPage
<1>3. QED
  BY <1>1, <1>2 DEF NoPage

LEMMA BrokenPageKeeps ==
  ASSUME RequestsInv, BrokenPage
  PROVE  Keeps
<1>1. PICK code : Refused(RemoteError(code, TRUE, 0))
  BY DEF BrokenPage
<1>2. RemoteError(code, TRUE, 0).retryAfter \in Nat /\ read.pc # "idle"
  BY DEF RemoteError, BrokenPage, At
<1>3. QED
  BY <1>1, <1>2, FailedStep DEF Refused

(* Names and permalinks change nothing the invariant is about. *)
LEMMA MessagesStep ==
  ASSUME RequestsInv, At("messages"), NEW state \in PassState, Reads(state),
         state.pc = "messages", state.got = read.got, state.attempts = read.attempts,
         state.todo \subseteq read.todo
  PROVE  Keeps
<1>1. read' = state /\ stayed' = stayed /\ notes' = notes /\ thread' = thread
  BY DEF Reads, remote, history
<1>2. PagesInv' /\ NoteInv'
  BY <1>1 DEF RequestsInv, PagesInv, ThreadIsWhole, NoteInv, Own, Ahead, At
<1>3. state.attempts # 0 /\ state.todo \subseteq Messages
  BY DEF RequestsInv, RequestsTypeOK, At
<1>4. QED
  BY <1>2, <1>3, ReadStep

LEMMA GetNameKeeps ==
  ASSUME RequestsInv, GetName
  PROVE  Keeps
<1>1. read \in PassState /\ read.pc = "messages" /\ read.todo \subseteq Messages /\ read.todo # {}
  BY DEF GetName, At, Unnamed, RequestsInv, RequestsTypeOK
<1>2. First \in Messages
  <2>1. read.todo \in SUBSET Nat
    BY <1>1, RequestsAssumption
  <2>2. \E m \in read.todo : \A other \in read.todo : m <= other
    BY <1>1, <2>1, Least
  <2>3. QED
    BY <1>1, <2>2 DEF First
<1>3. ASSUME Reads([read EXCEPT !.named = @ \cup {Author[First]}]) PROVE Keeps
  <2>1. PICK state : state = [read EXCEPT !.named = @ \cup {Author[First]}]
    OBVIOUS
  <2>2. /\ state \in PassState /\ state.pc = "messages" /\ state.got = read.got
        /\ state.attempts = read.attempts /\ state.todo = read.todo
    BY <1>1, <1>2, <2>1 DEF PassState
  <2>3. QED
    BY <1>1, <1>3, <2>1, <2>2, MessagesStep DEF At
<1>4. ASSUME NEW r \in Responses, Fails(SlackCall(r)), UNCHANGED remote PROVE Keeps
  <2>1. SlackCall(r).retryAfter \in Nat
    BY ErrorAsks, RequestsAssumption
  <2>2. QED
    BY <1>1, <1>4, <2>1, FailedStep
<1>5. QED
  BY <1>3, <1>4 DEF GetName

LEMMA GetPermalinkKeeps ==
  ASSUME RequestsInv, GetPermalink
  PROVE  Keeps
<1>1. read \in PassState /\ read.pc = "messages"
  BY DEF GetPermalink, At, RequestsInv, RequestsTypeOK
<1>2. ASSUME Reads([read EXCEPT !.todo = @ \ {First}]) PROVE Keeps
  <2>1. PICK state : state = [read EXCEPT !.todo = @ \ {First}]
    OBVIOUS
  <2>2. /\ state \in PassState /\ state.pc = "messages" /\ state.got = read.got
        /\ state.attempts = read.attempts /\ state.todo \subseteq read.todo
    BY <1>1, <2>1 DEF PassState
  <2>3. QED
    BY <1>1, <1>2, <2>1, <2>2, MessagesStep DEF At
<1>3. ASSUME Fails(SlackCall([status |-> 200, body |-> "message_not_found", retryAfter |-> 0])),
             UNCHANGED remote
      PROVE  Keeps
  <2>1. [status |-> 200, body |-> "message_not_found", retryAfter |-> 0] \in Response
    BY DEF Response, Bodies
  <2>2. SlackCall([status |-> 200, body |-> "message_not_found", retryAfter |-> 0]).retryAfter \in Nat
    BY <2>1, ErrorAsks
  <2>3. QED
    BY <1>1, <1>3, <2>2, FailedStep
<1>4. QED
  BY <1>2, <1>3 DEF GetPermalink

LEMMA NoAnswerKeeps ==
  ASSUME RequestsInv, NoPermalink \/ NoNotes
  PROVE  Keeps
<1>1. read.pc # "idle"
  BY DEF NoPermalink, NoNotes, At
<1>2. PICK r \in Responses : Refused(SlackCall(r)) \/ Refused(HubSpotRequest(r))
  BY DEF NoPermalink, NoNotes
<1>3. SlackCall(r).retryAfter \in Nat /\ HubSpotRequest(r).retryAfter \in Nat
  BY ErrorAsks, RequestsAssumption
<1>4. QED
  BY <1>1, <1>2, <1>3, FailedStep DEF Refused

LEMMA HaveThreadKeeps ==
  ASSUME RequestsInv, HaveThread
  PROVE  Keeps
<1>1. /\ read \in PassState /\ read.pc = "messages" /\ read.attempts # 0 /\ thread \in Thread
      /\ stayed \subseteq read.got
  BY DEF HaveThread, At, RequestsInv, RequestsTypeOK, PagesInv, ThreadIsWhole
<1>2. PICK pc \in {"notes", "updating"} :
        /\ pc = IF thread.noteID = NoText THEN "notes" ELSE "updating"
        /\ Reads([read EXCEPT !.pc = pc, !.own = thread.noteID, !.cursor = 0, !.seen = {}])
  BY DEF HaveThread
<1>3. PICK state : state = [read EXCEPT !.pc = pc, !.own = thread.noteID, !.cursor = 0, !.seen = {}]
  OBVIOUS
<1>4. /\ state \in PassState /\ state.pc = pc /\ state.attempts # 0 /\ state.got = read.got
      /\ state.own = thread.noteID /\ state.cursor = 0
  BY <1>1, <1>2, <1>3 DEF PassState, Points, Thread
<1>5. read' = state /\ stayed' = stayed /\ notes' = notes /\ thread' = thread
  BY <1>2, <1>3 DEF Reads, remote, history
<1>6. \A n \in Own : Rank[n] > 0
  BY RequestsAssumption DEF Own
<1>7. PagesInv'
  BY <1>1, <1>2, <1>4, <1>5 DEF PagesInv, ThreadIsWhole
<1>8. NoteInv'
  BY <1>2, <1>4, <1>5, <1>6 DEF RequestsInv, NoteInv, Own, Ahead
<1>9. QED
  BY <1>2, <1>3, <1>4, <1>7, <1>8, ReadStep

-----------------------------------------------------------------------------
(* FindNote. *)

(* A note after the cursor is on the page, or after the next cursor. *)
LEMMA NoteIsAhead ==
  ASSUME RequestsInv, NEW cursor \in Nat
  PROVE  /\ Listed(cursor) \subseteq notes
         /\ AfterPage(cursor) \in Nat
         /\ \A n \in notes : Rank[n] > cursor =>
              \/ n \in Listed(cursor)
              \/ AfterPage(cursor) # 0 /\ Rank[n] > AfterPage(cursor)
<1> DEFINE list == Listable(cursor)
           Before(n) == {x \in list : Rank[x] < Rank[n]}
<1>1. IsFiniteSet(notes) /\ (\A n \in notes : Rank[n] \in Nat \ {0}) /\ NotePage \in Nat \ {0}
  BY RequestsAssumption DEF RequestsInv, RequestsTypeOK
<1>2. list = {n \in notes : Rank[n] > cursor}
  BY DEF Listable
<1>3. IsFiniteSet(list) /\ list \subseteq notes
  BY <1>1, <1>2, FS_Subset
<1>4. Listed(cursor) = {n \in list : Cardinality(Before(n)) < NotePage}
  BY DEF Listed
<1> HIDE DEF list
<1>5. ASSUME NEW n \in list, \A x \in list : Rank[n] <= Rank[x] PROVE n \in Listed(cursor)
  <2>1. Before(n) = {}
    BY <1>1, <1>3, <1>5
  <2>2. Cardinality(Before(n)) = 0
    BY <2>1, FS_EmptySet
  <2>3. QED
    BY <1>1, <1>4, <2>2
<1>6. ASSUME NEW n \in list, NEW l \in Listed(cursor), Rank[n] <= Rank[l] PROVE n \in Listed(cursor)
  <2>1. Before(n) \subseteq Before(l) /\ IsFiniteSet(Before(l))
    <3>1. \A x \in list : Rank[x] \in Nat
      BY <1>1, <1>3
    <3>2. l \in list
      BY <1>4
    <3>3. \A x \in list : Rank[x] < Rank[n] => Rank[x] < Rank[l]
      BY <1>6, <3>1, <3>2
    <3>4. QED
      BY <1>3, <3>3, FS_Subset
  <2>2. Cardinality(Before(n)) <= Cardinality(Before(l)) /\ IsFiniteSet(Before(n))
    BY <2>1, FS_Subset
  <2>3. Cardinality(Before(l)) < NotePage
    BY <1>4
  <2>4. Cardinality(Before(n)) < NotePage
    BY <1>1, <2>1, <2>2, <2>3, FS_CardinalityType
  <2>5. QED
    BY <1>4, <2>4
<1>7. Listed(cursor) \subseteq list /\ IsFiniteSet(Listed(cursor))
  BY <1>3, <1>4, FS_Subset
<1> HIDE DEF Before
<1>8. \A n \in notes : Rank[n] > cursor => n \in list
  BY <1>2
<1>9. CASE trouble = "notes"
  <2>1. AfterPage(cursor) = 1
    BY <1>9 DEF AfterPage
  <2>2. ASSUME NEW n \in list, ~(Rank[n] > 1) PROVE n \in Listed(cursor)
    <3>1. \A x \in list : Rank[n] <= Rank[x]
      BY <1>1, <1>3, <2>2
    <3>2. QED
      BY <1>5, <3>1
  <2>3. QED
    BY <1>3, <1>7, <1>8, <2>1, <2>2
<1>10. CASE trouble # "notes" /\ list \subseteq Listed(cursor)
  <2>1. AfterPage(cursor) = 0
    BY <1>10 DEF AfterPage, list
  <2>2. QED
    BY <1>3, <1>7, <1>8, <1>10, <2>1
<1>11. CASE trouble # "notes" /\ ~(list \subseteq Listed(cursor))
  <2> DEFINE ranks == {Rank[n] : n \in Listed(cursor)}
             all == {Rank[n] : n \in list}
  <2>1. AfterPage(cursor) = CHOOSE rank \in ranks : \A n \in Listed(cursor) : Rank[n] <= rank
    BY <1>11 DEF AfterPage, list
  <2>2. IsFiniteSet(ranks)
    <3>1. PICK f : f = [n \in Listed(cursor) |-> Rank[n]]
      OBVIOUS
    <3>2. f \in Surjection(Listed(cursor), ranks)
      BY <3>1 DEF Surjection
    <3>3. QED
      BY <1>7, <3>2, FS_Surjection
  <2>3. ranks \in SUBSET Nat /\ all \in SUBSET Nat /\ all # {}
    BY <1>1, <1>3, <1>7, <1>11
  <2>4. ranks # {}
    <3>1. \E r \in all : \A x \in all : r <= x
      BY <2>3, Least
    <3>2. PICK n \in list : \A x \in list : Rank[n] <= Rank[x]
      BY <3>1
    <3>3. QED
      BY <1>5, <3>2
  <2>5. \E rank \in ranks : \A r \in ranks : r <= rank
    <3> HIDE DEF ranks
    <3> QED
      BY <2>2, <2>3, <2>4, Greatest
  <2>6. PICK l \in Listed(cursor) : AfterPage(cursor) = Rank[l]
    BY <2>1, <2>5
  <2>7. ASSUME NEW n \in list, n \notin Listed(cursor) PROVE Rank[n] > Rank[l]
    <3>1. Rank[n] \in Nat /\ Rank[l] \in Nat
      BY <1>1, <1>3, <1>7
    <3>2. QED
      BY <1>6, <2>7, <3>1
  <2>8. Rank[l] \in Nat \ {0}
    BY <1>1, <1>3, <1>7
  <2>9. QED
    BY <1>3, <1>7, <1>8, <2>6, <2>7, <2>8
<1>12. QED
  BY <1>9, <1>10, <1>11

LEMMA ListNotesKeeps ==
  ASSUME RequestsInv, ListNotes
  PROVE  Keeps
<1>1. /\ read \in PassState /\ read.pc = "notes" /\ read.attempts # 0 /\ read.cursor \in Nat
      /\ notes \subseteq Notes \cup OtherNotes
  BY DEF ListNotes, At, RequestsInv, RequestsTypeOK, PassState
<1>2. PICK next, page : next = AfterPage(read.cursor) /\ page = Listed(read.cursor)
  OBVIOUS
<1>3. /\ page \subseteq notes /\ next \in Nat
      /\ \A n \in notes : Rank[n] > read.cursor => n \in page \/ (next # 0 /\ Rank[n] > next)
  BY <1>1, <1>2, NoteIsAhead
<1>4. PICK state : state = [read EXCEPT !.pc = "looking", !.todo = page, !.cursor = next]
  OBVIOUS
<1>5. page \in SUBSET (Messages \cup Notes \cup OtherNotes)
  BY <1>1, <1>3
<1>6. /\ state \in PassState /\ state.pc = "looking" /\ state.attempts # 0 /\ state.got = read.got
      /\ state.todo = page /\ state.cursor = next
  BY <1>1, <1>3, <1>4, <1>5 DEF PassState, Points
<1>7. Reads(state)
  BY <1>2, <1>4 DEF ListNotes
<1>8. read' = state /\ stayed' = stayed /\ notes' = notes /\ thread' = thread
  BY <1>7 DEF Reads, remote, history
<1>9. PagesInv'
  BY <1>1, <1>6, <1>8 DEF RequestsInv, PagesInv, ThreadIsWhole
<1>10. ASSUME NEW n \in Own PROVE n \in page \/ (next # 0 /\ Rank[n] > next)
  BY <1>1, <1>3 DEF RequestsInv, NoteInv, Ahead, Own
<1>11. NoteInv'
  BY <1>6, <1>8, <1>10 DEF RequestsInv, NoteInv, Own, Ahead
<1>12. QED
  BY <1>6, <1>7, <1>9, <1>11, ReadStep

LEMMA LookAtNoteKeeps ==
  ASSUME RequestsInv, LookAtNote
  PROVE  Keeps
<1>1. read \in PassState /\ read.pc = "looking" /\ read.attempts # 0
  BY DEF LookAtNote, At, RequestsInv, RequestsTypeOK
<1>2. ASSUME Fails(HubSpotRequest([status |-> 404, body |-> "ok", retryAfter |-> 0])), UNCHANGED remote
      PROVE  Keeps
  <2>1. [status |-> 404, body |-> "ok", retryAfter |-> 0] \in Response
    BY DEF Response, Bodies
  <2>2. HubSpotRequest([status |-> 404, body |-> "ok", retryAfter |-> 0]).retryAfter \in Nat
    BY <2>1, ErrorAsks
  <2>3. QED
    BY <1>1, <1>2, <2>2, FailedStep
<1>3. ASSUME FirstNote \in notes \cap Notes, Reads([read EXCEPT !.pc = "saving", !.own = FirstNote])
      PROVE  Keeps
  <2>1. PICK state : state = [read EXCEPT !.pc = "saving", !.own = FirstNote]
    OBVIOUS
  <2>2. /\ state \in PassState /\ state.pc = "saving" /\ state.attempts # 0 /\ state.got = read.got
        /\ state.own \in Own
    BY <1>1, <1>3, <2>1 DEF PassState, Points, Own
  <2>3. read' = state /\ stayed' = stayed /\ notes' = notes /\ thread' = thread
    BY <1>3, <2>1 DEF Reads, remote, history
  <2>4. PagesInv' /\ NoteInv'
    BY <1>1, <2>2, <2>3 DEF RequestsInv, PagesInv, ThreadIsWhole, NoteInv, Own, Ahead
  <2>5. QED
    BY <1>3, <2>1, <2>2, <2>4, ReadStep
<1>4. ASSUME FirstNote \notin notes \cap Notes, Reads([read EXCEPT !.todo = @ \ {FirstNote}])
      PROVE  Keeps
  <2>1. PICK state : state = [read EXCEPT !.todo = @ \ {FirstNote}]
    OBVIOUS
  <2>2. /\ state \in PassState /\ state.pc = "looking" /\ state.attempts # 0 /\ state.got = read.got
        /\ state.todo = read.todo \ {FirstNote} /\ state.cursor = read.cursor
    BY <1>1, <2>1 DEF PassState
  <2>3. read' = state /\ stayed' = stayed /\ notes' = notes /\ thread' = thread
    BY <1>4, <2>1 DEF Reads, remote, history
  <2>4. PagesInv' /\ NoteInv'
    BY <1>1, <1>4, <2>2, <2>3 DEF RequestsInv, PagesInv, ThreadIsWhole, NoteInv, Own, Ahead
  <2>5. QED
    BY <1>4, <2>1, <2>2, <2>4, ReadStep
<1>5. QED
  BY <1>2, <1>3, <1>4 DEF LookAtNote

LEMMA EndOfPageKeeps ==
  ASSUME RequestsInv, EndOfPage
  PROVE  Keeps
<1>1. /\ read \in PassState /\ read.pc = "looking" /\ read.attempts # 0 /\ read.todo = {}
      /\ read.cursor \in Nat
  BY DEF EndOfPage, At, RequestsInv, RequestsTypeOK, PassState
<1>2. ASSUME read.cursor = 0, Reads([read EXCEPT !.pc = "creating"]) PROVE Keeps
  <2>1. PICK state : state = [read EXCEPT !.pc = "creating"]
    OBVIOUS
  <2>2. state \in PassState /\ state.pc = "creating" /\ state.attempts # 0 /\ state.got = read.got
    BY <1>1, <2>1 DEF PassState, Points
  <2>3. read' = state /\ stayed' = stayed /\ notes' = notes /\ thread' = thread
    BY <1>2, <2>1 DEF Reads, remote, history
  <2>4. Own = {}
    BY <1>1, <1>2 DEF RequestsInv, NoteInv, Ahead
  <2>5. PagesInv' /\ NoteInv'
    BY <1>1, <2>2, <2>3, <2>4 DEF RequestsInv, PagesInv, ThreadIsWhole, NoteInv, Own, Ahead
  <2>6. QED
    BY <1>2, <2>1, <2>2, <2>5, ReadStep
<1>3. ASSUME Fails(RemoteError("repeated_cursor", TRUE, 0)), UNCHANGED remote PROVE Keeps
  <2>1. RemoteError("repeated_cursor", TRUE, 0).retryAfter \in Nat
    BY DEF RemoteError
  <2>2. QED
    BY <1>1, <1>3, <2>1, FailedStep
<1>4. ASSUME read.cursor # 0, Reads([read EXCEPT !.pc = "notes", !.seen = @ \cup {read.cursor}])
      PROVE  Keeps
  <2>1. PICK state : state = [read EXCEPT !.pc = "notes", !.seen = @ \cup {read.cursor}]
    OBVIOUS
  <2>2. /\ state \in PassState /\ state.pc = "notes" /\ state.attempts # 0 /\ state.got = read.got
        /\ state.cursor = read.cursor
    BY <1>1, <2>1 DEF PassState, Points
  <2>3. read' = state /\ stayed' = stayed /\ notes' = notes /\ thread' = thread
    BY <1>4, <2>1 DEF Reads, remote, history
  <2>4. PagesInv' /\ NoteInv'
    BY <1>1, <2>2, <2>3 DEF RequestsInv, PagesInv, ThreadIsWhole, NoteInv, Own, Ahead
  <2>5. QED
    BY <1>4, <2>1, <2>2, <2>4, ReadStep
<1>5. QED
  BY <1>2, <1>3, <1>4 DEF EndOfPage

-----------------------------------------------------------------------------
(* CreateNote, SaveNote, UpdateNote. *)

(* What HubSpot writes is the thread's one note, or makes it so. *)
LEMMA WrittenIsOwn ==
  ASSUME RequestsInv, NEW n \in Notes, Creates(n) \/ Updates(n), Written(n)
  PROVE  /\ notes' \subseteq Notes \cup OtherNotes /\ IsFiniteSet(notes')
         /\ Own' = {n} \/ (Own' = Own /\ n \in Own)
         /\ (\A i, j \in Own' : i = j) /\ n \in Own' /\ Own \subseteq Own'
         /\ UNCHANGED <<message, arriving>>
<1>1. notes' = notes \cup {n} /\ UNCHANGED <<message, arriving>>
  BY DEF Written
<1>2. notes' \subseteq Notes \cup OtherNotes /\ IsFiniteSet(notes')
  BY <1>1, FS_AddElement DEF RequestsInv, RequestsTypeOK
<1>3. Own' = Own \cup {n}
  BY <1>1 DEF Own
<1>4. CASE Creates(n)
  <2>1. Own = {}
    BY <1>4 DEF Creates, At, RequestsInv, NoteInv, Ahead
  <2>2. QED
    BY <1>1, <1>2, <1>3, <2>1
<1>5. CASE Updates(n)
  <2>1. n \in Own /\ \A i, j \in Own : i = j
    BY <1>5 DEF Updates, At, RequestsInv, NoteInv
  <2>2. QED
    BY <1>1, <1>2, <1>3, <2>1
<1>6. QED
  BY <1>4, <1>5

LEMMA CreateNoteKeeps ==
  ASSUME RequestsInv, NEW n \in Notes, CreateNote(n)
  PROVE  Keeps
<1>1. /\ read \in PassState /\ read.pc = "creating" /\ read.attempts # 0
      /\ read' = [read EXCEPT !.pc = "saving", !.own = n]
      /\ UNCHANGED <<setting, trouble, thread, faults, history>>
  BY DEF CreateNote, Creates, At, RequestsInv, RequestsTypeOK
<1>2. /\ notes' \subseteq Notes \cup OtherNotes /\ IsFiniteSet(notes')
      /\ (\A i, j \in Own' : i = j) /\ n \in Own' /\ Own \subseteq Own'
      /\ UNCHANGED <<message, arriving>>
  BY WrittenIsOwn DEF CreateNote
<1>3. /\ read' \in PassState /\ read'.pc = "saving" /\ read'.attempts # 0 /\ read'.got = read.got
      /\ read'.own = n
  BY <1>1 DEF PassState, Points
<1>4. RequestsTypeOK'
  BY <1>1, <1>2, <1>3 DEF RequestsInv, RequestsTypeOK, There, history
<1>5. PagesInv' /\ Backoff
  BY <1>1, <1>3 DEF RequestsInv, PagesInv, ThreadIsWhole, history, Backoff
<1>6. NoteInv'
  BY <1>1, <1>2, <1>3 DEF RequestsInv, NoteInv, Ahead
<1>7. QED
  BY <1>4, <1>5, <1>6 DEF Keeps, RequestsInv

LEMMA SaveNoteKeeps ==
  ASSUME RequestsInv, SaveNote
  PROVE  Keeps
<1>1. /\ read \in PassState /\ read.pc = "saving" /\ read.attempts # 0 /\ thread \in Thread
      /\ read.own \in Own
      /\ thread' = [thread EXCEPT !.noteID = read.own]
      /\ read' = [read EXCEPT !.pc = "updating"]
      /\ UNCHANGED <<setting, trouble, remote, faults, history>>
  BY DEF SaveNote, NoteSaved, At, RequestsInv, RequestsTypeOK, NoteInv
<1>2. thread' \in Thread /\ thread'.noteID = read.own /\ thread'.state = thread.state
  BY <1>1 DEF Thread, Own
<1>3. /\ read' \in PassState /\ read'.pc = "updating" /\ read'.attempts # 0 /\ read'.got = read.got
      /\ read'.own = read.own
  BY <1>1 DEF PassState, Points
<1>4. RequestsTypeOK'
  BY <1>1, <1>2, <1>3 DEF RequestsInv, RequestsTypeOK, There, history, remote
<1>5. PagesInv' /\ Backoff
  BY <1>1, <1>2, <1>3 DEF RequestsInv, PagesInv, ThreadIsWhole, history, Backoff
<1>6. NoteInv'
  BY <1>1, <1>2, <1>3 DEF RequestsInv, NoteInv, Ahead, Own, remote
<1>7. QED
  BY <1>4, <1>5, <1>6 DEF Keeps, RequestsInv

LEMMA UpdateNoteKeeps ==
  ASSUME RequestsInv, NEW n \in Notes, UpdateNote(n)
  PROVE  Keeps
<1>1. /\ read \in PassState /\ read.pc = "updating" /\ read.attempts # 0
      /\ read' = [read EXCEPT !.pc = "completing"]
      /\ UNCHANGED <<setting, trouble, thread, faults, history>>
  BY DEF UpdateNote, Updates, At, RequestsInv, RequestsTypeOK
<1>2. /\ notes' \subseteq Notes \cup OtherNotes /\ IsFiniteSet(notes')
      /\ (\A i, j \in Own' : i = j) /\ Own \subseteq Own'
      /\ UNCHANGED <<message, arriving>>
  BY WrittenIsOwn DEF UpdateNote
<1>3. /\ read' \in PassState /\ read'.pc = "completing" /\ read'.attempts # 0 /\ read'.got = read.got
  BY <1>1 DEF PassState, Points
<1>4. RequestsTypeOK'
  BY <1>1, <1>2, <1>3 DEF RequestsInv, RequestsTypeOK, There, history
<1>5. PagesInv' /\ Backoff
  BY <1>1, <1>3 DEF RequestsInv, PagesInv, ThreadIsWhole, history, Backoff
<1>6. NoteInv'
  BY <1>1, <1>2, <1>3 DEF RequestsInv, NoteInv, Ahead
<1>7. QED
  BY <1>4, <1>5, <1>6 DEF Keeps, RequestsInv

(* A write that failed may have been applied: the note is there and not known. *)
LEMMA FailedWriteKeeps ==
  ASSUME RequestsInv, NEW n \in Notes, FailedWrite(n)
  PROVE  Keeps
<1>1. read.pc # "idle" /\ (Creates(n) \/ Updates(n))
  BY DEF FailedWrite, Creates, Updates, At
<1>2. PICK r \in Responses : Fails(HubSpotRequest(r)) /\ (UNCHANGED remote \/ Written(n))
  BY DEF FailedWrite
<1>3. HubSpotRequest(r).retryAfter \in Nat
  BY ErrorAsks, RequestsAssumption
<1>4. CASE UNCHANGED remote
  BY <1>1, <1>2, <1>3, <1>4, FailedStep
<1>5. CASE Written(n)
  <2>1. /\ thread' \in Thread /\ thread'.noteID = thread.noteID
        /\ read' = Idle /\ stayed' = {} /\ setting' = setting /\ Backoff
    BY <1>1, <1>2, <1>3, FailsKeeps
  <2>2. /\ notes' \subseteq Notes \cup OtherNotes /\ IsFiniteSet(notes')
        /\ (\A i, j \in Own' : i = j) /\ Own \subseteq Own'
        /\ UNCHANGED <<message, arriving>>
    BY <1>1, <1>5, WrittenIsOwn
  <2>3. RequestsTypeOK'
    BY <2>1, <2>2, IdleState DEF RequestsInv, RequestsTypeOK, There
  <2>4. PagesInv'
    BY <2>1, IdleState DEF PagesInv, ThreadIsWhole
  <2>5. NoteInv'
    BY <2>1, <2>2, IdleState DEF RequestsInv, NoteInv, Ahead
  <2>6. QED
    BY <2>1, <2>3, <2>4, <2>5 DEF Keeps, RequestsInv
<1>6. QED
  BY <1>2, <1>4, <1>5

-----------------------------------------------------------------------------
(* The invariant, and what it says. *)

LEMMA InitRequests == RequestsInit => RequestsInv
<1> SUFFICES ASSUME RequestsInit PROVE RequestsInv
  OBVIOUS
<1>1. PICK ticket \in Tickets : thread = Linked([ticketID |-> ticket, messageTS |-> Root])
  BY DEF RequestsInit
<1>2. thread \in Thread /\ thread.noteID = NoText
  BY <1>1 DEF Linked, NoThread, Thread, States, Errors, Root
<1>3. message = [m \in Messages |-> IF m = Root THEN "there" ELSE "none"]
  BY DEF RequestsInit
<1>4. There = {Root}
  BY <1>3, RequestsAssumption DEF There
<1>5. IsFiniteSet(There)
  BY <1>4, FS_Singleton
<1>6. message \in [Messages -> {"none", "there", "gone"}]
  BY <1>3
<1>7. RequestsTypeOK
  BY <1>2, <1>5, <1>6, IdleState, RequestsAssumption DEF RequestsInit, RequestsTypeOK
<1>8. PagesInv
  BY IdleState DEF RequestsInit, PagesInv, ThreadIsWhole
<1>9. Own = {}
  BY RequestsAssumption DEF RequestsInit, Own
<1>10. NoteInv
  BY <1>2, <1>9, IdleState DEF RequestsInit, NoteInv
<1>11. QED
  BY <1>7, <1>8, <1>10 DEF RequestsInv

LEMMA NextRequests ==
  ASSUME RequestsInv, [RequestsNext]_vars
  PROVE  Keeps
<1>1. CASE PassStep
  <2>1. ASSUME NEW n \in Notes, NoteStep(n) PROVE Keeps
    BY <2>1, CreateNoteKeeps, UpdateNoteKeeps DEF NoteStep
  <2>2. QED
    BY <1>1, <2>1, BeginKeeps, GetPageKeeps, NoPageKeeps, GetNameKeeps, GetPermalinkKeeps,
       HaveThreadKeeps, ListNotesKeeps, LookAtNoteKeeps, EndOfPageKeeps, SaveNoteKeeps,
       CompleteKeeps DEF PassStep
<1>2. CASE Events
  BY <1>2, PostKeeps, DeleteKeeps, ArriveKeeps DEF Events
<1>3. CASE Failures
  BY <1>3, BrokenPageKeeps, NoAnswerKeeps, FailedWriteKeeps, NoteGoesKeeps DEF Failures
<1>4. CASE Wait
  BY <1>4, WaitKeeps
<1>5. CASE UNCHANGED vars
  <2>1. Backoff
    BY <1>5 DEF vars, Backoff
  <2>2. thread' \in Thread /\ arriving' \subseteq Messages
    BY <1>5 DEF vars, remote, RequestsInv, RequestsTypeOK
  <2>3. QED
    BY <1>5, <2>1, <2>2, RecordStep DEF vars, remote, history
<1>6. QED
  BY <1>1, <1>2, <1>3, <1>4, <1>5 DEF RequestsNext

LEMMA RequestsInvariant == RequestsSpec => []RequestsInv
<1>1. RequestsInv /\ [RequestsNext]_vars => RequestsInv'
  BY NextRequests DEF Keeps
<1>2. QED
  BY <1>1, InitRequests, PTL DEF RequestsSpec

(* slack.Client.Thread: whatever is posted and deleted between its pages, and  *)
(* whatever the size of a page, no message that stayed is missing from what it *)
(* returns; a page that skipped one would show in the note as a lost message.  *)
THEOREM ThreadIsAlwaysWhole == RequestsSpec => []ThreadIsWhole
<1>1. RequestsInv => ThreadIsWhole
  BY DEF RequestsInv, PagesInv
<1>2. QED
  BY <1>1, RequestsInvariant, PTL

(* FindNote and CreateNote: a create whose answer was lost is found by the     *)
(* next attempt, on whatever page it is and whatever other notes go meanwhile, *)
(* so that a thread never has two notes while one worker holds its lease.      *)
THEOREM ThereIsOneNote == RequestsSpec => []OneNote
<1>1. RequestsInv => OneNote
  <2>1. SUFFICES ASSUME RequestsInv PROVE Cardinality(Own) <= 1
    BY DEF OneNote, Own
  <2>2. CASE Own = {}
    BY <2>2, FS_EmptySet
  <2>3. CASE Own # {}
    <3>1. PICK n : n \in Own
      BY <2>3
    <3>2. Own = {n}
      BY <2>1, <3>1 DEF RequestsInv, NoteInv
    <3>3. Cardinality(Own) = 1
      BY <3>2, FS_Singleton
    <3>4. QED
      BY <3>3
  <2>4. QED
    BY <2>2, <2>3
<1>2. QED
  BY <1>1, RequestsInvariant, PTL

(* worker.retryAt: for any number of attempts, any base and maximum Load       *)
(* accepts and any width of time.Duration, the delay of a failed pass is what  *)
(* was asked for or between half a doubling and the maximum; it never wraps.   *)
THEOREM BackoffStaysInBounds == RequestsSpec => BackoffInBounds
<1>1. RequestsInv /\ [RequestsNext]_vars =>
        [thread.state = "running" /\ thread'.state = "retrying" =>
           LET delay == thread'.nextAttempt - Now IN
           /\ delay >= cause'.retryAfter
           /\ delay <= Larger(setting.max, cause'.retryAfter)
           /\ setting.base > 1 => delay > 0]_vars
  BY NextRequests DEF Keeps, Backoff
<1>2. QED
  BY <1>1, RequestsInvariant, PTL DEF RequestsSpec, BackoffInBounds
===============================================================================
