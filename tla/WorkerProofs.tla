---------------------------- MODULE WorkerProofs ----------------------------
(***************************************************************************)
(* The transcript workers, proved for every number of workers, notes and   *)
(* faults: their steps are steps of Store's free callers, a thread with    *)
(* nothing left to do shows every queued message in its note, and a second *)
(* note of a thread needs a create applied after its lease was lost.       *)
(*                                                                         *)
(* The inductive invariant adds to the store's, per lease, per worker, per *)
(* request on the wire and per thread: a body read under a lease that is   *)
(* still owned holds every event that is covered or was queued at its      *)
(* claim; a note in hand is one of the thread; and while a worker owns its *)
(* lease and has found no note, every marked note is a late create.        *)
(***************************************************************************)
EXTENDS Worker, StoreProofs, FiniteSetTheorems

(* What Claim hands out and Complete collects: leases differ by their token, *)
(* and only events queued for a thread are seen or covered.                  *)
SeenInv ==
  /\ \A l, m \in leases : (l.key = m.key /\ l.token = m.token) => l = m
  /\ \A l \in leases : l.seen \subseteq queued[l.key]
  /\ \A k \in Keys : covered[k] \subseteq queued[k]
  /\ \A k \in Keys, e \in Events : e.id \in queued[k] => e.key = k

StoreInv == TypeOK /\ WorkInv /\ EventInv /\ Commands /\ SeenInv /\ NewestInv /\ clock # 0

Before == {"claimed", "validated"}
Holding == {"read", "found", "creating", "created", "saved", "updating", "updated"}
Points == {"idle", "failing"} \cup Before \cup Holding

WorkerState ==
  [pc: Points, lease: Lease \cup {NoLease}, attempts: Nat, note: Notes \cup {NoText},
   body: SUBSET Events, retry: BOOLEAN, permanent: BOOLEAN, cancelled: BOOLEAN]
RequestState ==
  [worker: Workers, lease: Lease, note: Notes \cup {NoText}, body: SUBSET Events]
NoteState == [present: BOOLEAN, key: Keys, body: SUBSET Events]

WorkTypeOK ==
  /\ worker \in [Workers -> WorkerState]
  /\ wire \subseteq RequestState
  /\ notes \in [Notes -> NoteState]
  /\ lateCreates \in [Keys -> Nat]

(* The body holds every message that is covered or that the lease has seen.  *)
Whole(l, body) ==
  \A e \in Events : (e.id \in covered[l.key] \cup l.seen /\ Eligible(e)) => e \in body

(* The note is one of the thread k. *)
NoteOf(n, k) == n # NoText => notes[n].present /\ notes[n].key = k

ReadUnder(l, body) ==
  /\ l \in leases
  /\ body \subseteq Transcript(l.key)

(* A worker that found no note of its thread, and has not got its own yet.   *)
Searched(w) == worker[w].pc = "creating" \/ (worker[w].pc = "found" /\ worker[w].note = NoText)

WorkerInv(w) == Working(w) =>
  /\ ReadUnder(worker[w].lease, worker[w].body)
  /\ NoteOf(worker[w].note, Key(w))
  /\ worker[w].pc \in Before \cup {"read"} => worker[w].note \in {NoText, threads[Key(w)].noteID}
  /\ worker[w].pc \in {"saved", "updating", "updated"}
       => worker[w].note # NoText /\ threads[Key(w)].noteID = worker[w].note
  /\ (worker[w].pc \in Holding /\ Owns(worker[w].lease))
       => Whole(worker[w].lease, worker[w].body)
  /\ (worker[w].pc = "updated" /\ Owns(worker[w].lease) /\ Key(w) \notin overwritten)
       => Whole(worker[w].lease, Shown(Key(w)))
  /\ (Searched(w) /\ Owns(worker[w].lease))
       => Cardinality(Marked(Key(w))) <= lateCreates[Key(w)]

RequestInv(r) ==
  /\ ReadUnder(r.lease, r.body)
  /\ NoteOf(r.note, r.lease.key)
  /\ r.note # NoText => threads[r.lease.key].noteID = r.note
  /\ Owns(r.lease) => Whole(r.lease, r.body)

CoveredShown(k) ==
  \A e \in Events : (e.id \in covered[k] /\ Eligible(e)) => e \in Shown(k)

NoteInv(k) ==
  /\ NoteOf(threads[k].noteID, k)
  /\ k \notin overwritten => CoveredShown(k)
  /\ IsFiniteSet(Marked(k))
  /\ Cardinality(Marked(k)) <= 1 + lateCreates[k]

OneWorkerPerLease ==
  \A v, w \in Workers :
    (Working(v) /\ Working(w) /\ worker[v].lease = worker[w].lease) => v = w

TranscriptInv ==
  /\ StoreInv /\ WorkTypeOK
  /\ \A w \in Workers : WorkerInv(w)
  /\ \A r \in wire : RequestInv(r)
  /\ \A k \in Keys : NoteInv(k)
  /\ OneWorkerPerLease

-----------------------------------------------------------------------------
(* What a step of the store keeps for its callers. *)

StoreKeeps ==
  /\ events \subseteq events' /\ leases \subseteq leases'
  /\ \A l \in leases : Owns(l)' => Owns(l) /\ covered'[l.key] = covered[l.key]
  /\ \A k \in Keys : threads[k].noteID # NoText => threads'[k].noteID = threads[k].noteID

(* Two leases that own their thread are one. *)
LEMMA OwnerIsOne ==
  ASSUME SeenInv, NEW l \in leases, NEW m \in leases, l.key = m.key, Owns(l), Owns(m)
  PROVE  l = m
BY DEF SeenInv, Owns

(* A lease that is given up by completion owns its thread no more; no other  *)
(* lease of the thread did.                                                  *)
LEMMA CompleteKeeps ==
  ASSUME TypeOK, WorkInv, SeenInv, NEW l \in leases, NEW now \in Nat, NEW ts \in Nat,
         NEW at \in Nat, Complete(l, ts, at, now)
  PROVE  /\ SeenInv'
         /\ \A m \in leases : Owns(m)' => covered'[m.key] = covered[m.key]
<1>1. l \in Lease /\ l.key \in Keys /\ threads[l.key] \in Thread
  BY DEF TypeOK, Lease
<1>2. threads'[l.key] = Completed(threads[l.key], l, ts, at)
  BY <1>1, PutThread DEF Complete
<1>3. Completed(threads[l.key], l, ts, at).leaseToken = 0
  BY <1>1 DEF Completed, ClearLease, Thread
<1>4. /\ covered'[l.key] = covered[l.key] \cup l.seen
      /\ \A k \in Keys \ {l.key} : covered'[k] = covered[k]
      /\ UNCHANGED <<leases, queued>>
  BY <1>1 DEF Complete, TypeOK, granted
<1>5. SeenInv'
  BY <1>1, <1>4 DEF SeenInv, TypeOK
<1>6. ASSUME NEW m \in leases, Owns(m)' PROVE covered'[m.key] = covered[m.key]
  <2>1. m.key \in Keys
    BY DEF TypeOK, Lease
  <2>2. m.key # l.key
    BY <1>2, <1>3, <1>6 DEF Owns
  <2>3. QED
    BY <1>4, <2>1, <2>2
<1>7. QED
  BY <1>5, <1>6

LEMMA ClaimKeeps ==
  ASSUME TypeOK, WorkInv, SeenInv, NEW k \in Keys, NEW now \in Nat, Claim(k, now)
  PROVE  /\ SeenInv'
         /\ NewLease(k) \notin leases
         /\ NewLease(k) \in leases'
         /\ leases \subseteq leases' /\ UNCHANGED <<covered, events>>
<1>1. issued[k] \in Nat
  BY DEF TypeOK
<1>2. \A l \in leases : l.key \in Keys /\ l.token \in Nat /\ l.token <= issued[l.key]
  BY DEF TypeOK, Lease, WorkInv, LeaseInv
<1>3. NewLease(k).key = k /\ NewLease(k).token = issued[k] + 1 /\ NewLease(k).seen = queued[k]
  BY DEF NewLease
<1>4. \A l \in leases : ~(l.key = NewLease(k).key /\ l.token = NewLease(k).token)
  BY <1>1, <1>2, <1>3
<1>5. leases' = leases \cup {NewLease(k)} /\ UNCHANGED <<queued, covered, events>>
  BY DEF Claim
<1>6. SeenInv'
  BY <1>3, <1>4, <1>5 DEF SeenInv
<1>7. QED
  BY <1>4, <1>5, <1>6

LEMMA RecordKeeps ==
  ASSUME TypeOK, SeenInv, NEW e \in Events, NEW now \in Nat, Record(e, now)
  PROVE  SeenInv' /\ UNCHANGED <<leases, covered>>
<1>1. e.key \in Keys
  BY StoreAssumption DEF Event
<1>2. /\ queued' \in [Keys -> SUBSET ReplyIds]
      /\ \A k \in Keys : queued[k] \subseteq queued'[k]
      /\ \A k \in Keys \ {e.key} : queued'[k] = queued[k]
      /\ queued'[e.key] \subseteq queued[e.key] \cup {e.id}
      /\ UNCHANGED <<leases, covered>>
  BY <1>1, StoreAssumption DEF Record, TypeOK, granted, Event
<1>3. \A l \in leases : l.key \in Keys
  BY DEF TypeOK, Lease
<1>4. ASSUME NEW k \in Keys, NEW d \in Events, d.id \in queued'[k] PROVE d.key = k
  <2>1. CASE d.id \in queued[k]
    BY <2>1 DEF SeenInv
  <2>2. CASE d.id \notin queued[k]
    <3>1. k = e.key /\ d.id = e.id
      BY <1>2, <1>4, <2>2
    <3>2. QED
      BY <3>1, StoreAssumption
  <2>3. QED
    BY <2>1, <2>2
<1>5. QED
  BY <1>2, <1>3, <1>4 DEF SeenInv

LEMMA SeenStep ==
  ASSUME TypeOK, WorkInv, SeenInv, [Next]_vars
  PROVE  /\ SeenInv' /\ leases \subseteq leases'
         /\ \A l \in leases : Owns(l)' => covered'[l.key] = covered[l.key]
<1>1. ASSUME UNCHANGED <<leases, queued, covered>>
      PROVE  /\ SeenInv' /\ leases \subseteq leases'
             /\ \A l \in leases : Owns(l)' => covered'[l.key] = covered[l.key]
  BY <1>1 DEF SeenInv
<1>2. CASE \E e \in Events, now \in Nat : Record(e, now)
  BY <1>2, RecordKeeps
<1>3. CASE \E k \in Keys, now \in Nat : Claim(k, now)
  BY <1>3, ClaimKeeps
<1>4. CASE \E l \in leases, now \in Nat : Renew(l, now)
  BY <1>1, <1>4 DEF Renew, granted
<1>5. CASE \E l \in leases, now \in Nat, note \in Notes : SaveNote(l, note, now)
  BY <1>1, <1>5 DEF SaveNote, granted
<1>6. CASE \E l \in leases, now \in Nat, ts \in Nat, at \in Nat : Complete(l, ts, at, now)
  BY <1>6, CompleteKeeps DEF Complete, granted
<1>7. CASE \E l \in leases, now \in Nat, error \in Errors, at \in Nat, permanent \in BOOLEAN :
             Fail(l, error, at, permanent, now)
  BY <1>1, <1>7 DEF Fail, granted
<1>8. CASE UNCHANGED <<threads, leases, issued, queued, covered, tried, heard>>
  BY <1>1, <1>8
<1>9. QED
  BY <1>2, <1>3, <1>4, <1>5, <1>6, <1>7, <1>8, StepCases

LEMMA StoreStep ==
  ASSUME StoreInv, [Next]_vars
  PROVE  StoreInv' /\ StoreKeeps
<1>1. TypeOK' /\ WorkInv' /\ EventInv' /\ Commands' /\ Fenced /\ MappingKept
  BY NextType, NextWork, NextEvents DEF StoreInv
<1>2. SeenInv' /\ leases \subseteq leases'
      /\ \A l \in leases : Owns(l)' => covered'[l.key] = covered[l.key]
  BY SeenStep DEF StoreInv
<1>3. events \subseteq events' /\ NewestInv'
  <2>1. CASE \E e \in Events : ~Recorded(e) /\ events' = events \cup {e.id}
    BY <2>1, NewestStep DEF StoreInv
  <2>2. CASE events' = events
    BY <2>2 DEF StoreInv, NewestInv, Recorded
  <2>3. QED
    BY <2>1, <2>2, EventsStep DEF StoreInv
<1>4. clock' # 0
  BY ClockStep DEF StoreInv
<1>5. QED
  BY <1>1, <1>2, <1>3, <1>4 DEF StoreInv, StoreKeeps, Fenced, MappingKept

LEMMA StoreInit == Init => StoreInv
<1>1. SUFFICES ASSUME Init PROVE StoreInv
  OBVIOUS
<1>2. TypeOK /\ WorkInv /\ EventInv /\ Commands
  BY <1>1, InitType, InitWork, InitEvents
<1>3. SeenInv
  BY <1>1 DEF Init, SeenInv
<1>4. NewestInv
  BY <1>1 DEF Init, NewestInv, Recorded
<1>5. clock # 0
  <2>1. Lag \in Nat
    BY StoreAssumption
  <2>2. QED
    BY <1>1, <2>1 DEF Init
<1>6. QED
  BY <1>2, <1>3, <1>4, <1>5 DEF StoreInv

-----------------------------------------------------------------------------
(* What a step that writes no note and no history of notes leaves as it was. *)

LEMMA TranscriptGrows ==
  ASSUME StoreKeeps, NEW l, NEW body, ReadUnder(l, body)
  PROVE  ReadUnder(l, body)'
BY DEF StoreKeeps, ReadUnder, Transcript

LEMMA WholeStays ==
  ASSUME StoreKeeps, NEW l \in leases, NEW body, Owns(l)', Owns(l) => Whole(l, body)
  PROVE  Whole(l, body)'
BY DEF StoreKeeps, Whole

LEMMA RequestStays ==
  ASSUME StoreInv, StoreKeeps, UNCHANGED notes, NEW r, RequestInv(r)
  PROVE  RequestInv(r)'
<1>1. r.lease \in leases /\ r.lease.key \in Keys
  BY DEF RequestInv, ReadUnder, StoreInv, TypeOK, Lease
<1>2. ReadUnder(r.lease, r.body)'
  BY TranscriptGrows DEF RequestInv
<1>3. NoteOf(r.note, r.lease.key)'
  BY DEF RequestInv, NoteOf
<1>4. r.note # NoText => threads'[r.lease.key].noteID = r.note
  BY <1>1 DEF RequestInv, StoreKeeps
<1>5. Owns(r.lease)' => Whole(r.lease, r.body)'
  BY <1>1, WholeStays DEF RequestInv
<1>6. QED
  BY <1>2, <1>3, <1>4, <1>5 DEF RequestInv

(* A thread's note, and what it shows of the covered events. *)
LEMMA NoteStays ==
  ASSUME StoreKeeps, UNCHANGED <<notes, late>>, NEW k \in Keys, NoteInv(k),
         NoteOf(threads'[k].noteID, k),
         covered'[k] = covered[k] \/ (k \notin overwritten => CoveredShown(k)')
  PROVE  NoteInv(k)'
<1>1. Marked(k)' = Marked(k) /\ NoteOf(threads[k].noteID, k)'
  BY DEF Marked, NoteOf
<1>2. UNCHANGED <<notes, overwritten, lateCreates>>
  BY DEF late
<1>3. (k \notin overwritten /\ covered'[k] = covered[k]) => CoveredShown(k)'
  <2>1. SUFFICES ASSUME k \notin overwritten, covered'[k] = covered[k],
                        NEW e \in Events, e.id \in covered[k], Eligible(e)
                 PROVE  e \in Shown(k)'
    BY DEF CoveredShown
  <2>2. e \in Shown(k)
    BY <2>1 DEF NoteInv, CoveredShown
  <2>3. threads[k].noteID # NoText
    BY <2>2 DEF Shown
  <2>4. QED
    BY <2>2, <2>3 DEF Shown, StoreKeeps
<1>4. QED
  BY <1>1, <1>2, <1>3 DEF NoteInv

(* A worker that keeps its lease, body and note, wherever it goes next. *)
LEMMA WorkerMoves ==
  ASSUME StoreInv, StoreKeeps, UNCHANGED <<notes, late>>, NEW w \in Workers, WorkerInv(w),
         Working(w),
         worker'[w].lease = worker[w].lease, worker'[w].body = worker[w].body,
         worker'[w].note = worker[w].note,
         worker'[w].pc \in Before \cup {"read"} => worker[w].pc \in Before \cup {"read"},
         worker'[w].pc \in {"saved", "updating", "updated"}
           => worker[w].note # NoText /\ threads'[Key(w)].noteID = worker[w].note,
         worker'[w].pc \in Holding => worker[w].pc \in Holding,
         worker'[w].pc = "updated" => worker[w].pc = "updated",
         Searched(w)' => Searched(w)
  PROVE  WorkerInv(w)'
<1>1. PICK l \in leases : l = worker[w].lease
  BY DEF WorkerInv, ReadUnder
<1>2. PICK body : body = worker[w].body
  OBVIOUS
<1>3. PICK n : n = worker[w].note
  OBVIOUS
<1>k. l.key \in Keys /\ Key(w) = l.key /\ Key(w)' = l.key
  BY <1>1 DEF StoreInv, TypeOK, Lease, Key
<1>l. worker'[w].lease = l /\ worker'[w].body = body /\ worker'[w].note = n
  BY <1>1, <1>2, <1>3
<1>4. ReadUnder(l, body)'
  BY <1>1, <1>2, TranscriptGrows DEF WorkerInv
<1>5. NoteOf(n, l.key)'
  BY <1>3, <1>k DEF WorkerInv, NoteOf
<1>6. worker'[w].pc \in Before \cup {"read"} => n \in {NoText, threads'[l.key].noteID}
  BY <1>3, <1>k DEF WorkerInv, StoreKeeps
<1>7. worker'[w].pc \in {"saved", "updating", "updated"}
        => n # NoText /\ threads'[l.key].noteID = n
  BY <1>3, <1>k
<1>8. (worker'[w].pc \in Holding /\ Owns(l)') => Whole(l, body)'
  BY <1>1, <1>2, WholeStays DEF WorkerInv
<1>9. (worker'[w].pc = "updated" /\ Owns(l)' /\ l.key \notin overwritten')
        => Whole(l, Shown(l.key))'
  <2>1. SUFFICES ASSUME worker'[w].pc = "updated", Owns(l)', l.key \notin overwritten'
                 PROVE  Whole(l, Shown(l.key))'
    OBVIOUS
  <2>2. Owns(l) /\ covered'[l.key] = covered[l.key] /\ l.key \notin overwritten
    BY <2>1 DEF StoreKeeps, late
  <2>3. Whole(l, Shown(l.key)) /\ threads[l.key].noteID # NoText
    BY <1>1, <1>k, <2>1, <2>2 DEF WorkerInv
  <2>4. Shown(l.key)' = Shown(l.key)
    BY <1>k, <2>3 DEF Shown, StoreKeeps
  <2>5. QED
    BY <2>2, <2>3, <2>4 DEF Whole
<1>10. (Searched(w)' /\ Owns(l)') => Cardinality(Marked(l.key))' <= lateCreates'[l.key]
  <2>1. Marked(l.key)' = Marked(l.key) /\ lateCreates' = lateCreates
    BY DEF Marked, late
  <2>2. QED
    BY <1>1, <1>k, <2>1 DEF WorkerInv, StoreKeeps
<1>11. QED
  BY <1>k, <1>l, <1>4, <1>5, <1>6, <1>7, <1>8, <1>9, <1>10 DEF WorkerInv

(* A worker that does not step. *)
LEMMA WorkerStays ==
  ASSUME StoreInv, StoreKeeps, UNCHANGED <<notes, late>>, NEW w \in Workers, WorkerInv(w),
         worker'[w] = worker[w]
  PROVE  WorkerInv(w)'
<1>1. CASE ~Working(w)
  BY <1>1 DEF WorkerInv, Working
<1>2. CASE Working(w)
  <2>2. worker[w].lease \in leases /\ Key(w) \in Keys
    BY <1>2 DEF WorkerInv, ReadUnder, StoreInv, TypeOK, Lease, Key
  <2>3. worker[w].pc \in {"saved", "updating", "updated"}
           => worker[w].note # NoText /\ threads'[Key(w)].noteID = worker[w].note
    BY <1>2, <2>2 DEF WorkerInv, StoreKeeps
  <2>4. Searched(w)' => Searched(w)
    BY DEF Searched
  <2>5. QED
    BY <1>2, <2>3, <2>4, WorkerMoves
<1>3. QED
  BY <1>1, <1>2

-----------------------------------------------------------------------------
(* Steps of one worker. *)

(* The clock is one of the instants a free caller may have read. *)
LEMMA ClockIsNow ==
  ASSUME StoreInv
  PROVE  clock \in Nows /\ clock \in Nat
<1>1. clock \in Nat /\ clock # 0 /\ Lag \in Nat
  BY StoreAssumption DEF StoreInv, TypeOK
<1>2. QED
  BY <1>1 DEF Nows

(* A worker's move, with what it sends and what it does to the store. *)
LEMMA OneWorkerSteps ==
  ASSUME TranscriptInv, [Next]_vars, UNCHANGED <<notes, late>>,
         NEW w \in Workers, NEW m \in WorkerState, Moves(w, m), WorkerInv(w)',
         \/ m.pc = "idle"
         \/ Working(w) /\ m.lease = worker[w].lease
         \/ m.lease \notin leases,
         wire' \subseteq RequestState, \A r \in wire' : r \in wire \/ RequestInv(r)',
         \A k \in Keys : /\ NoteOf(threads'[k].noteID, k)
                         /\ covered'[k] = covered[k] \/ (k \notin overwritten => CoveredShown(k)')
  PROVE  TranscriptInv'
<1>1. StoreInv' /\ StoreKeeps /\ StoreInv /\ WorkTypeOK
  BY StoreStep DEF TranscriptInv
<1>2. worker'[w] = m /\ (\A v \in Workers \ {w} : worker'[v] = worker[v])
      /\ worker' \in [Workers -> WorkerState]
  BY <1>1 DEF WorkTypeOK, Moves
<1>3. WorkTypeOK'
  BY <1>1, <1>2 DEF WorkTypeOK, late
<1>4. \A v \in Workers : WorkerInv(v)'
  BY <1>1, <1>2, WorkerStays DEF TranscriptInv
<1>5. \A r \in wire' : RequestInv(r)'
  BY <1>1, RequestStays DEF TranscriptInv
<1>6. \A k \in Keys : NoteInv(k)'
  BY <1>1, NoteStays DEF TranscriptInv
<1>7. OneWorkerPerLease'
  <2>1. SUFFICES ASSUME NEW u \in Workers, NEW v \in Workers, Working(u)', Working(v)',
                        worker'[u].lease = worker'[v].lease, u # v
                 PROVE  FALSE
    BY DEF OneWorkerPerLease
  <2>2. \A x \in Workers : Working(x) => worker[x].lease \in leases
    BY DEF TranscriptInv, WorkerInv, ReadUnder
  <2>3. u # w /\ v # w => Working(u) /\ Working(v) /\ worker[u].lease = worker[v].lease
    BY <1>2, <2>1 DEF Working
  <2>4. ASSUME NEW x \in Workers, x # w, Working(x)', worker'[x].lease = m.lease, m.pc # "idle"
        PROVE  FALSE
    <3>1. Working(x) /\ worker[x].lease = m.lease /\ m.lease \in leases
      BY <1>2, <2>2, <2>4 DEF Working
    <3>2. Working(w) /\ m.lease = worker[w].lease
      BY <2>4, <3>1
    <3>3. QED
      BY <2>4, <3>1, <3>2 DEF TranscriptInv, OneWorkerPerLease
  <2>5. QED
    BY <1>2, <2>1, <2>3, <2>4 DEF TranscriptInv, OneWorkerPerLease, Working
<1>8. QED
  BY <1>1, <1>3, <1>4, <1>5, <1>6, <1>7 DEF TranscriptInv

(* A move that the store does not see. *)
LEMMA OneWorkerMoves ==
  ASSUME TranscriptInv, UNCHANGED <<vars, notes, late>>,
         NEW w \in Workers, NEW m \in WorkerState, Moves(w, m), WorkerInv(w)',
         m.pc = "idle" \/ (Working(w) /\ m.lease = worker[w].lease),
         wire' \subseteq RequestState, \A r \in wire' : r \in wire \/ RequestInv(r)'
  PROVE  TranscriptInv'
<1>1. \A k \in Keys : NoteOf(threads'[k].noteID, k) /\ covered'[k] = covered[k]
  BY DEF TranscriptInv, NoteInv, vars, durable, history
<1>2. QED
  BY <1>1, OneWorkerSteps

(* What every step of a worker may use. *)
LEMMA WorkerFacts ==
  ASSUME TranscriptInv, NEW w \in Workers
  PROVE  /\ StoreInv /\ WorkTypeOK /\ WorkerInv(w)
         /\ worker[w] \in WorkerState
         /\ Working(w) => /\ worker[w].lease \in leases /\ worker[w].lease \in Lease
                          /\ Key(w) \in Keys /\ Key(w) = worker[w].lease.key
         /\ wire \subseteq RequestState
         /\ UNCHANGED vars => StoreKeeps
BY StoreStep DEF TranscriptInv, WorkTypeOK, WorkerInv, ReadUnder, StoreInv, TypeOK, Lease, Key

LEMMA IdleType == Idle \in WorkerState /\ Idle.pc = "idle" /\ Idle.body = {}
BY DEF Idle, WorkerState, Points

(* A worker that becomes idle, in a step the store does not see. *)
LEMMA StopsWork ==
  ASSUME TranscriptInv, NEW w \in Workers, Moves(w, Idle),
         UNCHANGED <<vars, remote, late>>
  PROVE  TranscriptInv'
<1>1. worker'[w] = Idle
  BY WorkerFacts DEF Moves, WorkTypeOK
<1>2. WorkerInv(w)'
  BY <1>1, IdleType DEF WorkerInv, Working
<1>3. QED
  BY <1>2, IdleType, WorkerFacts, OneWorkerMoves DEF remote

LEMMA DropWork ==
  ASSUME TranscriptInv, NEW w \in Workers, Drop(w) \/ Crash(w)
  PROVE  TranscriptInv'
BY StopsWork DEF Drop, Crash, OnlyWorker

LEMMA FailingWork ==
  ASSUME TranscriptInv, NEW w \in Workers, Error(w) \/ Cancel(w)
  PROVE  TranscriptInv'
<1>1. /\ worker[w].pc # "idle" /\ Working(w)
      /\ UNCHANGED <<vars, remote, late>>
  BY DEF Error, Cancel, Working
<1>2. PICK m : /\ Moves(w, m) /\ m \in WorkerState /\ m.pc = "failing"
               /\ m.lease = worker[w].lease /\ m.body = worker[w].body
               /\ m.note = worker[w].note
  <2>1. worker[w] \in WorkerState
    BY WorkerFacts
  <2>2. CASE Cancel(w)
    <3> DEFINE m == [worker[w] EXCEPT !.pc = "failing", !.cancelled = TRUE]
    <3>1. m \in WorkerState /\ m.pc = "failing" /\ m.lease = worker[w].lease
          /\ m.body = worker[w].body /\ m.note = worker[w].note
      BY <2>1 DEF WorkerState, Points
    <3>2. QED
      BY <2>2, <3>1 DEF Cancel
  <2>3. CASE Error(w)
    <3>1. PICK permanent \in BOOLEAN :
             Moves(w, [worker[w] EXCEPT !.pc = "failing", !.permanent = permanent])
      BY <2>3 DEF Error
    <3> DEFINE m == [worker[w] EXCEPT !.pc = "failing", !.permanent = permanent]
    <3>2. m \in WorkerState /\ m.pc = "failing" /\ m.lease = worker[w].lease
          /\ m.body = worker[w].body /\ m.note = worker[w].note
      BY <2>1 DEF WorkerState, Points
    <3>3. QED
      BY <3>1, <3>2
  <2>4. QED
    BY <2>2, <2>3
<1>3. worker'[w] = m
  BY <1>2, WorkerFacts DEF Moves, WorkTypeOK
<1>4. WorkerInv(w)'
  BY <1>1, <1>2, <1>3, WorkerFacts, WorkerMoves DEF Before, Holding, Searched, remote
<1>5. QED
  BY <1>1, <1>2, <1>4, WorkerFacts, OneWorkerMoves DEF remote

(* A move that only names the next point. *)
LEMMA GoesTo ==
  ASSUME TranscriptInv, NEW w \in Workers, NEW from \in Points, NEW to \in Points,
         Goes(w, from, to)
  PROVE  LET m == [worker[w] EXCEPT !.pc = to] IN
         /\ Moves(w, m) /\ m \in WorkerState /\ worker'[w] = m
         /\ m.pc = to /\ m.lease = worker[w].lease
         /\ m.body = worker[w].body /\ m.note = worker[w].note
         /\ worker[w].pc = from
<1>1. worker[w] \in WorkerState
  BY WorkerFacts
<1>2. QED
  BY <1>1, WorkerFacts DEF Goes, Moves, WorkTypeOK, WorkerState

LEMMA CheckLeaseWork ==
  ASSUME TranscriptInv, NEW w \in Workers, CheckLease(w)
  PROVE  TranscriptInv'
<1> DEFINE m == [worker[w] EXCEPT !.pc = "validated"]
<1>1. /\ Moves(w, m) /\ m \in WorkerState /\ worker'[w] = m
      /\ m.pc = "validated" /\ m.lease = worker[w].lease
      /\ m.body = worker[w].body /\ m.note = worker[w].note
      /\ worker[w].pc = "claimed" /\ Working(w)
  BY GoesTo DEF CheckLease, Points, Before, Working
<1> HIDE DEF m
<1>2. UNCHANGED <<vars, remote, late>>
  BY DEF CheckLease, OnlyWorker
<1>3. WorkerInv(w)'
  BY <1>1, <1>2, WorkerFacts, WorkerMoves DEF Before, Holding, Searched, remote
<1>4. QED
  BY <1>1, <1>2, <1>3, WorkerFacts, OneWorkerMoves DEF remote

(* Every queued event is recorded, and of its thread: a transcript read under *)
(* a lease holds all that is covered or that the lease has seen.              *)
LEMMA TranscriptIsWhole ==
  ASSUME StoreInv, NEW l \in leases
  PROVE  Whole(l, Transcript(l.key))
<1>1. SUFFICES ASSUME NEW e \in Events, e.id \in covered[l.key] \cup l.seen, Eligible(e)
               PROVE  e \in Transcript(l.key)
  BY DEF Whole
<1>2. l.key \in Keys
  BY DEF StoreInv, TypeOK, Lease
<1>3. e.id \in queued[l.key]
  BY <1>1, <1>2 DEF StoreInv, SeenInv
<1>4. e.key = l.key /\ e.id \in events
  BY <1>2, <1>3 DEF StoreInv, SeenInv, EventInv
<1>5. QED
  BY <1>1, <1>4 DEF Transcript

LEMMA ReadThreadWork ==
  ASSUME TranscriptInv, NEW w \in Workers, ReadThread(w)
  PROVE  TranscriptInv'
<1>1. PICK retry \in BOOLEAN :
         Moves(w, [worker[w] EXCEPT !.pc = "read", !.retry = retry, !.body = Transcript(Key(w))])
  BY DEF ReadThread
<1> DEFINE m == [worker[w] EXCEPT !.pc = "read", !.retry = retry, !.body = Transcript(Key(w))]
<1>2. UNCHANGED <<vars, remote, late>> /\ worker[w].pc = "validated" /\ Working(w)
  BY DEF ReadThread, Working
<1>3. PICK l \in leases : l = worker[w].lease
  BY <1>2, WorkerFacts
<1>k. Key(w) = l.key /\ l.key \in Keys
  BY <1>2, <1>3, WorkerFacts
<1>4. m \in WorkerState /\ m.pc = "read" /\ m.lease = l /\ m.note = worker[w].note
      /\ m.body = Transcript(l.key)
  <2>1. worker[w] \in WorkerState
    BY WorkerFacts
  <2>2. Transcript(l.key) \subseteq Events
    BY DEF Transcript
  <2>3. QED
    BY <1>3, <1>k, <2>1, <2>2 DEF WorkerState, Points, Holding
<1> HIDE DEF m
<1>b. PICK body : body = Transcript(l.key)
  OBVIOUS
<1>5. worker'[w] = m
  BY <1>1, WorkerFacts DEF Moves, WorkTypeOK, m
<1>6. /\ UNCHANGED <<threads, events, leases, covered, notes, overwritten, lateCreates>>
      /\ Transcript(l.key)' = Transcript(l.key)
  BY <1>2 DEF vars, durable, granted, history, remote, late, Transcript
<1>7. Key(w)' = l.key
  BY <1>4, <1>5 DEF Key
<1>8. ReadUnder(l, body)'
  BY <1>6, <1>b DEF ReadUnder
<1>9. NoteOf(worker[w].note, l.key)' /\ worker[w].note \in {NoText, threads[l.key].noteID}
  <2>1. NoteOf(worker[w].note, l.key) /\ worker[w].note \in {NoText, threads[l.key].noteID}
    BY <1>2, <1>k, WorkerFacts DEF WorkerInv, Before
  <2>2. worker'[w].note = worker[w].note
    BY <1>4, <1>5
  <2>3. QED
    BY <1>6, <2>1, <2>2 DEF NoteOf
<1>10. Whole(l, body)'
  <2>1. Whole(l, body)
    BY <1>b, TranscriptIsWhole, WorkerFacts
  <2>2. QED
    BY <1>6, <2>1 DEF Whole
<1>11. WorkerInv(w)'
  <2>1. worker'[w].note = worker[w].note
    BY <1>4, <1>5
  <2>2. ~Searched(w)'
    BY <1>4, <1>5 DEF Searched
  <2>3. NoteOf(worker[w].note, Key(w))'
    BY <1>7, <1>9
  <2>4. ReadUnder(worker[w].lease, worker[w].body)'
    BY <1>4, <1>5, <1>8, <1>b
  <2>5. Whole(worker[w].lease, worker[w].body)'
    BY <1>4, <1>5, <1>10, <1>b
  <2>6. worker'[w].note \in {NoText, threads'[Key(w)'].noteID}
    BY <1>6, <1>7, <1>9, <2>1
  <2>7. QED
    BY <1>4, <1>5, <2>2, <2>3, <2>4, <2>5, <2>6 DEF WorkerInv, Before
<1>12. QED
  BY <1>1, <1>2, <1>3, <1>4, <1>11, WorkerFacts, OneWorkerMoves DEF remote, m

LEMMA FindNoteWork ==
  ASSUME TranscriptInv, NEW w \in Workers, FindNote(w)
  PROVE  TranscriptInv'
<1>1. PICK n \in IF Marked(Key(w)) = {} THEN {NoText} ELSE Marked(Key(w)) :
         Moves(w, [worker[w] EXCEPT !.pc = "found", !.note = n])
  BY DEF FindNote
<1> DEFINE m == [worker[w] EXCEPT !.pc = "found", !.note = n]
<1>2. UNCHANGED <<vars, remote, late>> /\ worker[w].pc = "read" /\ Working(w)
  BY DEF FindNote, OnlyWorker, Working
<1>3. PICK l \in leases : l = worker[w].lease
  BY <1>2, WorkerFacts
<1>b. PICK body : body = worker[w].body
  OBVIOUS
<1>k. Key(w) = l.key /\ l.key \in Keys
  BY <1>2, <1>3, WorkerFacts
<1>n. n \in Notes \cup {NoText} /\ NoteOf(n, l.key) /\ (n = NoText => Marked(l.key) = {})
  BY <1>1, <1>k, RecordAssumption DEF Marked, NoteOf
<1>4. m \in WorkerState /\ m.pc = "found" /\ m.lease = l /\ m.note = n /\ m.body = body
  <2>1. worker[w] \in WorkerState
    BY WorkerFacts
  <2>2. QED
    BY <1>3, <1>b, <1>n, <2>1 DEF WorkerState, Points, Holding
<1> HIDE DEF m
<1>5. worker'[w] = m
  BY <1>1, WorkerFacts DEF Moves, WorkTypeOK, m
<1>6. UNCHANGED <<threads, events, leases, covered, notes, overwritten, lateCreates>>
  BY <1>2 DEF vars, durable, granted, history, remote, late
<1>7. Key(w)' = l.key
  BY <1>4, <1>5 DEF Key
<1>8. ReadUnder(l, body)' /\ (Owns(l)' => Whole(l, body)')
  <2>1. ReadUnder(l, body) /\ (Owns(l) => Whole(l, body))
    BY <1>2, <1>3, <1>b, WorkerFacts DEF WorkerInv, Holding
  <2>2. QED
    BY <1>2, <2>1, WorkerFacts, TranscriptGrows, WholeStays
<1>9. NoteOf(n, l.key)'
  BY <1>6, <1>n DEF NoteOf
<1>10. Searched(w)' => Cardinality(Marked(l.key))' <= lateCreates'[l.key]
  <2>1. SUFFICES ASSUME Searched(w)' PROVE Cardinality(Marked(l.key))' <= lateCreates'[l.key]
    OBVIOUS
  <2>2. n = NoText
    BY <1>4, <1>5, <2>1 DEF Searched
  <2>3. Marked(l.key)' = {}
    BY <1>6, <1>n, <2>2 DEF Marked
  <2>4. lateCreates'[l.key] \in Nat
    BY <1>6, <1>k, WorkerFacts DEF WorkTypeOK
  <2>5. QED
    BY <2>3, <2>4, FS_EmptySet
<1>11. WorkerInv(w)'
  BY <1>4, <1>5, <1>7, <1>8, <1>9, <1>10 DEF WorkerInv, Before
<1>12. QED
  BY <1>1, <1>2, <1>3, <1>4, <1>11, WorkerFacts, OneWorkerMoves DEF remote, m

(* A request sent under a lease that is held. *)
LEMMA SendWork ==
  ASSUME TranscriptInv, NEW w \in Workers, NEW from \in {"found", "read", "saved"},
         NEW to \in {"creating", "updating"},
         NEW n \in {NoText, worker[w].note}, Send(w, from, to, n),
         to = "creating" => from = "found" /\ worker[w].note = NoText,
         to = "updating" => from # "found" /\ worker[w].note # NoText,
         n # NoText => threads[Key(w)].noteID = n,
         to = "updating" => threads[Key(w)].noteID = worker[w].note
  PROVE  TranscriptInv'
<1> DEFINE m == [worker[w] EXCEPT !.pc = to]
<1>1. /\ Moves(w, m) /\ m \in WorkerState /\ worker'[w] = m
      /\ m.pc = to /\ m.lease = worker[w].lease
      /\ m.body = worker[w].body /\ m.note = worker[w].note
      /\ worker[w].pc = from /\ Working(w)
  BY GoesTo DEF Send, Points, Holding, Working
<1> HIDE DEF m
<1>2. UNCHANGED <<vars, notes, late>> /\ wire' = wire \cup {Request(w, n)}
  BY DEF Send
<1>3. worker'[w].pc \in {"saved", "updating", "updated"}
        => worker[w].note # NoText /\ threads'[Key(w)].noteID = worker[w].note
  BY <1>1, <1>2 DEF vars, durable
<1>4. WorkerInv(w)'
  BY <1>1, <1>2, <1>3, WorkerFacts, WorkerMoves DEF Before, Holding, Searched
<1>5. Request(w, n) \in RequestState /\ RequestInv(Request(w, n))
  <2> DEFINE r == Request(w, n)
  <2>1. worker[w] \in WorkerState /\ worker[w].lease \in Lease
    BY <1>1, WorkerFacts
  <2>2. r.worker = w /\ r.lease = worker[w].lease /\ r.note = n /\ r.body = worker[w].body
        /\ r \in RequestState
    BY <2>1 DEF Request, RequestState, WorkerState
  <2> HIDE DEF r
  <2>3. RequestInv(r)
    BY <1>1, <2>2, WorkerFacts DEF WorkerInv, RequestInv, NoteOf, Holding, Key
  <2>4. QED
    BY <2>2, <2>3 DEF r
<1>6. wire' \subseteq RequestState /\ \A r \in wire' : r \in wire \/ RequestInv(r)'
  <2>1. PICK q : q = Request(w, n)
    OBVIOUS
  <2>2. RequestInv(q)'
    BY <1>2, <1>5, <2>1, WorkerFacts, RequestStays
  <2>3. QED
    BY <1>2, <1>5, <2>1, <2>2, WorkerFacts
<1>7. QED
  BY <1>1, <1>2, <1>4, <1>6, WorkerFacts, OneWorkerMoves

LEMMA CreateNoteWork ==
  ASSUME TranscriptInv, NEW w \in Workers, CreateNote(w)
  PROVE  TranscriptInv'
BY SendWork DEF CreateNote

LEMMA UpdateNoteWork ==
  ASSUME TranscriptInv, NEW w \in Workers, UpdateNote(w)
  PROVE  TranscriptInv'
<1>1. PICK from \in {"read", "saved"} : Send(w, from, "updating", worker[w].note)
  BY DEF UpdateNote
<1>2. worker[w].pc = from /\ Working(w) /\ worker[w].note # NoText
  BY <1>1 DEF Send, Goes, Working, UpdateNote
<1>3. threads[Key(w)].noteID = worker[w].note
  BY <1>2, WorkerFacts DEF WorkerInv, Before
<1>4. QED
  BY <1>1, <1>2, <1>3, SendWork

-----------------------------------------------------------------------------
(* Steps of the store: each is one of a free caller, and none but SaveNote   *)
(* changes the note of a thread.                                             *)

LEMMA EffectNote ==
  ASSUME StoreInv, NEW e \in Events, NEW now \in Nat
  PROVE  Effect(e, now).noteID = threads[e.key].noteID
<1> DEFINE t == threads[e.key]
           s == [t EXCEPT !.lastCommandTS = e.messageTS]
<1>1. t \in Thread /\ Sound(t) /\ e.messageTS \in Nat
  BY StoreAssumption DEF StoreInv, TypeOK, WorkInv, KeyInv, Event
<1>q. \A r \in Thread : Queued(r, now).noteID = r.noteID
  BY QueuedLive, QueuedFree
<1>2. NewThread(e) => Linked(e).noteID = t.noteID
  BY <1>1 DEF NewThread, Linked, Sound, NoThread
<1>3. Messaged(t, e, now).noteID = t.noteID
  <2>1. Queued(t, now) \in Thread
    BY <1>1, QueuedType
  <2>2. QED
    BY <1>1, <1>q, <2>1 DEF Messaged, Thread
<1>4. Applies(e) => Commanded(t, e, now).noteID = t.noteID
  <2>1. s \in Thread /\ s.noteID = t.noteID
    BY <1>1 DEF Thread
  <2> HIDE DEF s
  <2>2. Synced(s, e, now).noteID = s.noteID
    <3>1. Queued(s, now) \in Thread
      BY <2>1, QueuedType
    <3>2. QED
      BY <1>q, <2>1, <3>1 DEF Synced, Thread
  <2>3. Untracked(s).noteID = s.noteID /\ Resumed(s).noteID = s.noteID
    BY <2>1 DEF Untracked, Resumed, ClearLease, Thread
  <2>4. QED
    BY <2>1, <2>2, <2>3 DEF Commanded, Applies, TrackingCommands, s
<1>5. QED
  BY <1>2, <1>3, <1>4 DEF Effect

LEMMA RecordNotes ==
  ASSUME StoreInv, NEW e \in Events, NEW now \in Nat, Record(e, now)
  PROVE  \A k \in Keys : threads'[k].noteID = threads[k].noteID
<1>1. e.key \in Keys
  BY StoreAssumption DEF Event
<1>2. Effect(e, now).noteID = threads[e.key].noteID
  BY EffectNote
<1>3. /\ threads'[e.key] = Effect(e, now)
      /\ \A k \in Keys \ {e.key} : threads'[k] = threads[k]
  BY <1>1, PutThread DEF Record, StoreInv
<1>4. QED
  BY <1>2, <1>3

LEMMA CompletedNote ==
  ASSUME NEW t \in Thread, NEW l \in Lease, NEW ts \in Nat, NEW at \in Nat
  PROVE  Completed(t, l, ts, at).noteID = t.noteID
BY DEF Completed, ClearLease, Thread

LEMMA FailedNote ==
  ASSUME NEW t \in Thread, NEW l \in Lease, NEW at \in Nat, NEW permanent \in BOOLEAN
  PROVE  Failed(t, l, "error", at, permanent).noteID = t.noteID
BY DEF Failed, ClearLease, Thread

LEMMA PutNotes ==
  ASSUME StoreInv, NEW k \in Keys, NEW r, Put(k, r), r.noteID = threads[k].noteID
  PROVE  \A j \in Keys : threads'[j].noteID = threads[j].noteID
BY PutThread DEF StoreInv

(* A step of the store that no worker takes. *)
LEMMA StoreOnly ==
  ASSUME TranscriptInv, [Next]_vars, UNCHANGED <<worker, remote, late, covered>>,
         \A k \in Keys : threads'[k].noteID = threads[k].noteID
  PROVE  TranscriptInv'
<1>1. PICK w \in Workers : TRUE
  BY WorkerAssumption
<1>2. StoreKeeps
  BY StoreStep, WorkerFacts DEF TranscriptInv
<1>3. Moves(w, worker[w]) /\ worker'[w] = worker[w]
  BY WorkerFacts DEF Moves, WorkTypeOK
<1>4. WorkerInv(w)'
  BY <1>2, <1>3, WorkerStays, WorkerFacts DEF remote
<1>5. \A k \in Keys : NoteOf(threads'[k].noteID, k) /\ covered'[k] = covered[k]
  BY DEF TranscriptInv, NoteInv
<1>6. worker[w].pc = "idle" \/ Working(w)
  BY DEF Working
<1>7. QED
  BY <1>3, <1>4, <1>5, <1>6, OneWorkerSteps, WorkerFacts DEF remote

LEMMA DeliverWork ==
  ASSUME TranscriptInv, NEW e \in Events, Deliver(e)
  PROVE  [Next]_vars /\ TranscriptInv'
<1>1. StoreInv /\ clock \in Nows /\ clock \in Nat
  BY ClockIsNow DEF TranscriptInv
<1>2. Record(e, clock) /\ UNCHANGED <<worker, remote, late>>
  BY DEF Deliver, OnlyStore
<1>3. [Next]_vars
  BY <1>1, <1>2 DEF Next, RecordEvent
<1>4. UNCHANGED covered
  BY <1>2 DEF Record
<1>5. QED
  BY <1>1, <1>2, <1>3, <1>4, RecordNotes, StoreOnly

LEMMA WaitWork ==
  ASSUME TranscriptInv, Wait
  PROVE  [Next]_vars /\ TranscriptInv'
<1>1. Tick /\ UNCHANGED <<worker, remote, late, threads, covered>>
  BY DEF Wait, Tick, durable, history
<1>2. [Next]_vars
  BY <1>1 DEF Next
<1>3. QED
  BY <1>1, <1>2, StoreOnly

LEMMA HeartbeatWork ==
  ASSUME TranscriptInv, NEW w \in Workers, Heartbeat(w)
  PROVE  [Next]_vars /\ TranscriptInv'
<1>1. StoreInv /\ clock \in Nows /\ clock \in Nat
  BY ClockIsNow DEF TranscriptInv
<1>2. PICK l \in leases : l = worker[w].lease
  BY WorkerFacts DEF Heartbeat
<1>3. Renew(l, clock) /\ UNCHANGED <<worker, remote, late, covered>>
  BY <1>2 DEF Heartbeat, Renew, OnlyStore
<1>4. [Next]_vars
  BY <1>1, <1>3 DEF Next, UseLease
<1>5. l \in Lease /\ l.key \in Keys /\ threads[l.key] \in Thread
  BY <1>1 DEF StoreInv, TypeOK, Lease
<1>6. Renewed(threads[l.key], clock).noteID = threads[l.key].noteID
  BY <1>1, <1>5 DEF Renewed, Thread
<1>7. \A k \in Keys : threads'[k].noteID = threads[k].noteID
  BY <1>1, <1>3, <1>5, <1>6, PutNotes DEF Renew
<1>8. QED
  BY <1>3, <1>4, <1>7, StoreOnly

(* A worker takes a thread with the note the thread has. *)
LEMMA StartWork ==
  ASSUME TranscriptInv, NEW w \in Workers, NEW k \in Keys, Start(w, k)
  PROVE  [Next]_vars /\ TranscriptInv'
<1>1. StoreInv /\ clock \in Nows /\ clock \in Nat
  BY ClockIsNow DEF TranscriptInv
<1>2. Claim(k, clock) /\ UNCHANGED <<remote, late>> /\ ~Working(w)
  BY DEF Start, OnlyStore
<1>3. [Next]_vars
  BY <1>1, <1>2 DEF Next, ClaimThread
<1>4. StoreKeeps
  BY <1>1, <1>3, StoreStep
<1>5. /\ NewLease(k) \notin leases /\ NewLease(k) \in leases' /\ UNCHANGED covered
  BY <1>1, <1>2, ClaimKeeps DEF StoreInv
<1>6. threads[k] \in Thread /\ issued[k] + 1 \in Nat
  BY <1>1 DEF StoreInv, TypeOK
<1>7. Claimed(threads[k], issued[k] + 1, clock).noteID = threads[k].noteID
  BY <1>1, <1>6 DEF Claimed, Thread
<1>8. \A j \in Keys : threads'[j].noteID = threads[j].noteID
  BY <1>1, <1>2, <1>7, PutNotes DEF Claim
<1>9. PICK l : l = NewLease(k)
  OBVIOUS
<1>10. l \in Lease /\ l.key = k
  <2>1. TypeOK'
    BY <1>1, <1>3, StoreStep DEF StoreInv
  <2>2. QED
    BY <1>5, <1>9, <2>1 DEF TypeOK, NewLease
<1>a. threads[k].attempts + 1 \in Nat /\ threads[k].noteID \in Notes \cup {NoText}
  BY <1>6 DEF Thread
<1> DEFINE m == [Idle EXCEPT !.pc = "claimed", !.lease = l,
                             !.attempts = threads[k].attempts + 1, !.note = threads[k].noteID]
<1>11. m \in WorkerState /\ m.pc = "claimed" /\ m.lease = l /\ m.body = {}
       /\ m.note = threads[k].noteID
  BY <1>10, <1>a, IdleType DEF WorkerState, Points, Before
<1>12. Moves(w, m)
  BY <1>9 DEF Start
<1> HIDE DEF m
<1>13. worker'[w] = m /\ Key(w)' = k
  BY <1>10, <1>11, <1>12, WorkerFacts DEF Moves, WorkTypeOK, Key
<1>14. PICK n : n = threads[k].noteID
  OBVIOUS
<1>15. ReadUnder(l, {})' /\ NoteOf(n, k)'
  <2>1. NoteOf(n, k)
    BY <1>14 DEF TranscriptInv, NoteInv
  <2>2. QED
    BY <1>2, <1>5, <1>9, <2>1 DEF ReadUnder, NoteOf, remote
<1>16. WorkerInv(w)'
  BY <1>8, <1>11, <1>13, <1>14, <1>15 DEF WorkerInv, Before, Holding, Searched
<1>17. \A j \in Keys : NoteOf(threads'[j].noteID, j) /\ covered'[j] = covered[j]
  BY <1>5, <1>8 DEF TranscriptInv, NoteInv
<1>18. QED
  BY <1>2, <1>3, <1>5, <1>9, <1>11, <1>12, <1>16, <1>17, OneWorkerSteps, WorkerFacts DEF remote

(* A worker gives its thread the note it created or found. *)
LEMMA SaveWork ==
  ASSUME TranscriptInv, NEW w \in Workers, Save(w)
  PROVE  [Next]_vars /\ TranscriptInv'
<1>1. StoreInv /\ clock \in Nows /\ clock \in Nat
  BY ClockIsNow DEF TranscriptInv
<1>2. PICK from \in {"found", "created"} : Goes(w, from, "saved")
  BY DEF Save
<1> DEFINE m == [worker[w] EXCEPT !.pc = "saved"]
<1>3. /\ Moves(w, m) /\ m \in WorkerState /\ worker'[w] = m
      /\ m.pc = "saved" /\ m.lease = worker[w].lease
      /\ m.body = worker[w].body /\ m.note = worker[w].note
      /\ worker[w].pc = from /\ Working(w)
  BY <1>2, GoesTo DEF Points, Holding, Working
<1> HIDE DEF m
<1>4. PICK l \in leases : l = worker[w].lease
  BY <1>3, WorkerFacts
<1>5. PICK n \in Notes : n = worker[w].note
  BY WorkerFacts DEF Save, WorkerState
<1>6. SaveNote(l, n, clock) /\ UNCHANGED <<remote, late, covered>>
  BY <1>4, <1>5 DEF Save, SaveNote, OnlyStore
<1>7. [Next]_vars
  BY <1>1, <1>6 DEF Next, UseLease
<1>8. StoreKeeps
  BY <1>1, <1>7, StoreStep
<1>9. l \in Lease /\ l.key \in Keys /\ threads[l.key] \in Thread /\ Key(w) = l.key
  BY <1>1, <1>4 DEF StoreInv, TypeOK, Lease, Key
<1>10. /\ threads'[l.key].noteID = n
       /\ \A k \in Keys \ {l.key} : threads'[k] = threads[k]
  <2>1. NoteSaved(threads[l.key], n).noteID = n
    BY <1>9 DEF NoteSaved, Thread
  <2>2. QED
    BY <1>1, <1>6, <1>9, <2>1, PutThread DEF SaveNote, StoreInv
<1>11. NoteOf(n, l.key)
  BY <1>3, <1>5, <1>9, WorkerFacts DEF WorkerInv
<1>12. worker[w].note # NoText
  BY <1>5, RecordAssumption
<1>13. WorkerInv(w)'
  BY <1>3, <1>5, <1>6, <1>8, <1>9, <1>10, <1>12, WorkerFacts, WorkerMoves
     DEF Before, Holding, Searched, remote
<1>14. \A k \in Keys : NoteOf(threads'[k].noteID, k) /\ covered'[k] = covered[k]
  <2>1. ASSUME NEW k \in Keys PROVE NoteOf(threads'[k].noteID, k)
    <3>1. CASE k = l.key
      BY <1>10, <1>11, <3>1
    <3>2. CASE k # l.key
      BY <1>10, <3>2 DEF TranscriptInv, NoteInv
    <3>3. QED
      BY <3>1, <3>2
  <2>2. QED
    BY <1>6, <2>1
<1>15. QED
  BY <1>3, <1>6, <1>7, <1>13, <1>14, OneWorkerSteps, WorkerFacts DEF remote

(* The last message of a body is a message of its thread: its newest one exists. *)
LEMMA LastMessageIsSyncable ==
  ASSUME StoreInv, NEW l, NEW body, ReadUnder(l, body)
  PROVE  LastMessageTS(body) \in SyncableTS(l.key)
<1>1. CASE body = {}
  BY <1>1 DEF LastMessageTS, SyncableTS
<1>2. CASE body # {}
  <2>1. body \in SUBSET {e \in Events : Recorded(e)}
    BY DEF ReadUnder, Transcript, Recorded
  <2>2. PICK e \in body : \A d \in body : d.messageTS <= e.messageTS
    BY <1>2, <2>1 DEF StoreInv, NewestInv, HasNewest
  <2>3. LastMessageTS(body) \in {d.messageTS : d \in body}
    BY <1>2, <2>2 DEF LastMessageTS
  <2>4. PICK d \in body : LastMessageTS(body) = d.messageTS
    BY <2>3
  <2>5. d \in Events /\ d.key = l.key /\ d.kind \in {"link", "message"}
    BY <2>4 DEF ReadUnder, Transcript, Eligible
  <2>6. QED
    BY <2>4, <2>5 DEF SyncableTS
<1>3. QED
  BY <1>1, <1>2

(* What a completion covers is shown: the body under the lease was written last, *)
(* unless a request of a lost lease was.                                         *)
LEMMA FinishWork ==
  ASSUME TranscriptInv, NEW w \in Workers, Finish(w)
  PROVE  [Next]_vars /\ TranscriptInv'
<1>1. StoreInv /\ clock \in Nows /\ clock \in Nat /\ Backoff \in Nat
  BY ClockIsNow, StoreAssumption DEF TranscriptInv
<1>2. worker[w].pc = "updated" /\ Working(w) /\ Moves(w, Idle) /\ UNCHANGED <<remote, late>>
  BY DEF Finish, OnlyStore, Working
<1>3. PICK l \in leases : l = worker[w].lease
  BY <1>2, WorkerFacts
<1>4. l \in Lease /\ l.key \in Keys /\ threads[l.key] \in Thread /\ Key(w) = l.key
  BY <1>1, <1>3 DEF StoreInv, TypeOK, Lease, Key
<1>5. PICK ts \in SyncableTS(l.key), at \in {0, clock + Backoff} : Complete(l, ts, at, clock)
  <2>1. ReadUnder(l, worker[w].body)
    BY <1>2, <1>3, WorkerFacts DEF WorkerInv
  <2>2. LastMessageTS(worker[w].body) \in SyncableTS(l.key)
    BY <1>1, <2>1, LastMessageIsSyncable
  <2>3. QED
    BY <1>3, <2>2 DEF Finish
<1>6. [Next]_vars
  BY <1>1, <1>5 DEF Next, UseLease
<1>7. ts \in Nat /\ at \in Nat
  <2>1. \A e \in Events : e.messageTS \in Nat
    BY StoreAssumption DEF Event
  <2>2. QED
    BY <1>1, <2>1 DEF SyncableTS
<1>8. \A k \in Keys : threads'[k].noteID = threads[k].noteID
  <2>1. Completed(threads[l.key], l, ts, at).noteID = threads[l.key].noteID
    BY <1>4, <1>7, CompletedNote
  <2>2. QED
    BY <1>1, <1>4, <1>5, <2>1, PutNotes DEF Complete
<1>9. /\ covered'[l.key] = covered[l.key] \cup l.seen
      /\ \A k \in Keys \ {l.key} : covered'[k] = covered[k]
  BY <1>1, <1>4, <1>5 DEF Complete, StoreInv, TypeOK
<1>10. Owns(l)
  BY <1>5 DEF Complete, Validate, Owns
<1>11. Shown(l.key)' = Shown(l.key)
  BY <1>2, <1>4, <1>8 DEF Shown, remote
<1>12. l.key \notin overwritten => CoveredShown(l.key)'
  <2>1. SUFFICES ASSUME l.key \notin overwritten PROVE CoveredShown(l.key)'
    OBVIOUS
  <2>2. Whole(l, Shown(l.key))
    BY <1>2, <1>3, <1>4, <1>10, <2>1, WorkerFacts DEF WorkerInv
  <2>3. QED
    BY <1>9, <1>11, <2>2 DEF CoveredShown, Whole
<1>13. \A k \in Keys : /\ NoteOf(threads'[k].noteID, k)
                       /\ covered'[k] = covered[k] \/ (k \notin overwritten => CoveredShown(k)')
  BY <1>8, <1>9, <1>12 DEF TranscriptInv, NoteInv
<1>14. worker'[w] = Idle
  BY <1>2, WorkerFacts DEF Moves, WorkTypeOK
<1>15. WorkerInv(w)'
  BY <1>14, IdleType DEF WorkerInv, Working
<1>16. QED
  BY <1>2, <1>6, <1>13, <1>15, IdleType, OneWorkerSteps, WorkerFacts DEF remote

LEMMA GiveUpWork ==
  ASSUME TranscriptInv, NEW w \in Workers, GiveUp(w)
  PROVE  [Next]_vars /\ TranscriptInv'
<1>1. StoreInv /\ clock \in Nows /\ clock \in Nat /\ Backoff \in Nat
  BY ClockIsNow, StoreAssumption DEF TranscriptInv
<1>2. worker[w].pc = "failing" /\ Working(w) /\ Moves(w, Idle) /\ UNCHANGED <<remote, late>>
  BY DEF GiveUp, OnlyStore, Working
<1>3. PICK l \in leases : l = worker[w].lease
  BY <1>2, WorkerFacts
<1>4. l \in Lease /\ l.key \in Keys /\ threads[l.key] \in Thread
  BY <1>1, <1>3 DEF StoreInv, TypeOK, Lease
<1>5. PICK at \in RetryTimes(clock), permanent \in BOOLEAN : Fail(l, "error", at, permanent, clock)
  <2>1. worker[w].permanent \in BOOLEAN
    BY WorkerFacts DEF WorkerState
  <2>2. QED
    BY <1>3, <2>1 DEF GiveUp, RetryTimes
<1>6. [Next]_vars
  <2>1. "error" \in Errors \ {NoText}
    BY DEF Errors, NoText
  <2>2. QED
    BY <1>1, <1>5, <2>1 DEF Next, UseLease
<1>7. at \in Nat
  BY <1>1, <1>5 DEF RetryTimes
<1>8. \A k \in Keys : threads'[k].noteID = threads[k].noteID
  <2>1. Failed(threads[l.key], l, "error", at, permanent).noteID = threads[l.key].noteID
    BY <1>4, <1>7, FailedNote
  <2>2. QED
    BY <1>1, <1>4, <1>5, <2>1, PutNotes DEF Fail
<1>9. \A k \in Keys : NoteOf(threads'[k].noteID, k) /\ covered'[k] = covered[k]
  BY <1>5, <1>8 DEF Fail, TranscriptInv, NoteInv
<1>10. worker'[w] = Idle
  BY <1>2, WorkerFacts DEF Moves, WorkTypeOK
<1>11. WorkerInv(w)'
  BY <1>10, IdleType DEF WorkerInv, Working
<1>12. QED
  BY <1>2, <1>6, <1>9, <1>11, IdleType, OneWorkerSteps, WorkerFacts DEF remote

-----------------------------------------------------------------------------
(* HubSpot applies a request, or loses it. *)

(* Nothing that depends on the store alone changes. *)
LEMMA StoreStill ==
  ASSUME UNCHANGED vars
  PROVE  /\ UNCHANGED <<threads, events, leases, covered>>
         /\ \A l : Owns(l)' <=> Owns(l)
         /\ \A l, body : Whole(l, body)' <=> Whole(l, body)
         /\ \A l, body : ReadUnder(l, body)' <=> ReadUnder(l, body)
<1>1. UNCHANGED <<threads, events, leases, covered>>
  BY DEF vars, durable, granted, history
<1>2. QED
  BY <1>1 DEF Owns, Whole, ReadUnder, Transcript

(* The answer reaches the worker that waits for it, and no other. *)
LEMMA AnswerReaches ==
  ASSUME WorkTypeOK, NEW r \in wire, NEW pc \in Holding, NEW next \in Holding,
         NEW n \in Notes \cup {NoText}, Answer(r, pc, next, n)
  PROVE  /\ worker' \in [Workers -> WorkerState] /\ r.worker \in Workers
         /\ \A v \in Workers :
              /\ worker'[v].lease = worker[v].lease /\ worker'[v].body = worker[v].body
              /\ \/ worker'[v] = worker[v] /\ ~(v = r.worker /\ Awaited(r, pc))
                 \/ /\ v = r.worker /\ Awaited(r, pc)
                    /\ worker'[v].pc = next /\ worker'[v].note = n
<1>1. r.worker \in Workers
  BY DEF WorkTypeOK, RequestState
<1>2. \A v \in Workers : worker[v] \in WorkerState
  BY DEF WorkTypeOK
<1>3. CASE ~Awaited(r, pc)
  BY <1>1, <1>3 DEF Answer, WorkTypeOK
<1>4. CASE Awaited(r, pc)
  <2> DEFINE m == [worker[r.worker] EXCEPT !.pc = next, !.note = n]
  <2>1. m \in WorkerState /\ m.pc = next /\ m.note = n
        /\ m.lease = worker[r.worker].lease /\ m.body = worker[r.worker].body
    BY <1>1, <1>2 DEF WorkerState, Points
  <2>2. worker' = [worker EXCEPT ![r.worker] = m]
    BY <1>4 DEF Answer
  <2> HIDE DEF m
  <2>3. worker' \in [Workers -> WorkerState] /\ worker'[r.worker] = m
        /\ \A v \in Workers \ {r.worker} : worker'[v] = worker[v]
    BY <1>1, <2>1, <2>2 DEF WorkTypeOK
  <2>4. QED
    BY <1>1, <1>4, <2>1, <2>3
<1>5. QED
  BY <1>3, <1>4

(* Of two workers on one lease, whatever moves them along. *)
LEMMA LeasesStayOne ==
  ASSUME OneWorkerPerLease,
         \A v \in Workers : worker'[v].lease = worker[v].lease /\ (Working(v)' => Working(v))
  PROVE  OneWorkerPerLease'
BY DEF OneWorkerPerLease

LEMMA UpdateWork ==
  ASSUME TranscriptInv, NEW r \in wire, ApplyUpdate(r), wire' = wire \ {r}, UNCHANGED vars
  PROVE  TranscriptInv'
<1>1. PICK l \in leases : l = r.lease
  BY DEF TranscriptInv, RequestInv, ReadUnder
<1>2. PICK n \in Notes : n = r.note
  BY DEF TranscriptInv, WorkTypeOK, RequestState, ApplyUpdate
<1>3. PICK body \in SUBSET Events : body = r.body
  BY DEF TranscriptInv, WorkTypeOK, RequestState
<1>4. /\ StoreInv /\ WorkTypeOK /\ n # NoText /\ l.key \in Keys
      /\ NoteOf(n, l.key) /\ threads[l.key].noteID = n
      /\ Owns(l) => Whole(l, body)
  BY <1>1, <1>2, <1>3 DEF TranscriptInv, RequestInv, ApplyUpdate, StoreInv, TypeOK, Lease
<1>5. StoreInv' /\ StoreKeeps
  BY <1>4, StoreStep
<1>6. /\ notes' \in [Notes -> NoteState]
      /\ notes'[n].body = body
      /\ \A x \in Notes : notes'[x].present = notes[x].present /\ notes'[x].key = notes[x].key
      /\ \A x \in Notes \ {n} : notes'[x] = notes[x]
  BY <1>2, <1>3, <1>4 DEF ApplyUpdate, WorkTypeOK, NoteState
<1>7. /\ \A k \in Keys : Marked(k)' = Marked(k)
      /\ \A x \in Notes \cup {NoText}, k \in Keys : NoteOf(x, k)' <=> NoteOf(x, k)
  BY <1>6 DEF Marked, NoteOf
<1>8. /\ Shown(l.key)' = body
      /\ \A k \in Keys \ {l.key} : Shown(k)' = Shown(k)
  <2>1. Shown(l.key)' = body
    BY <1>4, <1>6, StoreStill DEF Shown
  <2>2. ASSUME NEW k \in Keys \ {l.key} PROVE Shown(k)' = Shown(k)
    <3>1. threads[k].noteID \in Notes \cup {NoText} /\ threads[k].noteID # n
      BY <1>4 DEF StoreInv, TypeOK, Thread, TranscriptInv, NoteInv, NoteOf
    <3>2. QED
      BY <1>6, <3>1, StoreStill DEF Shown
  <2>3. QED
    BY <2>1, <2>2
<1>9. /\ lateCreates' = lateCreates
      /\ overwritten' = IF Owns(l) THEN overwritten \ {l.key} ELSE overwritten \cup {l.key}
      /\ Answer(r, "updating", "updated", n)
  BY <1>1, <1>2 DEF ApplyUpdate
<1>10. /\ worker' \in [Workers -> WorkerState] /\ r.worker \in Workers
       /\ \A v \in Workers :
            /\ worker'[v].lease = worker[v].lease /\ worker'[v].body = worker[v].body
            /\ \/ worker'[v] = worker[v] /\ ~(v = r.worker /\ Awaited(r, "updating"))
               \/ /\ v = r.worker /\ Awaited(r, "updating")
                  /\ worker'[v].pc = "updated" /\ worker'[v].note = n
  BY <1>4, <1>9, AnswerReaches DEF Holding
<1>11. WorkTypeOK'
  BY <1>4, <1>6, <1>9, <1>10 DEF WorkTypeOK
<1>12. ASSUME NEW v \in Workers PROVE WorkerInv(v)'
  <2>1. SUFFICES ASSUME Working(v)' PROVE WorkerInv(v)'
    BY DEF WorkerInv
  <2>2. Working(v) /\ WorkerInv(v) /\ worker[v].note \in Notes \cup {NoText}
    BY <1>4, <1>10, <2>1 DEF TranscriptInv, Working, Awaited, WorkTypeOK, WorkerState
  <2>3. PICK m \in leases : m = worker[v].lease
    BY <2>2 DEF WorkerInv, ReadUnder
  <2>4. PICK b : b = worker[v].body
    OBVIOUS
  <2>5. m.key \in Keys /\ Key(v) = m.key /\ Key(v)' = m.key
        /\ worker'[v].lease = m /\ worker'[v].body = b
    BY <1>4, <1>10, <2>3, <2>4 DEF StoreInv, TypeOK, Lease, Key
  <2>6. worker'[v].note = worker[v].note
        /\ (worker'[v].pc = worker[v].pc \/ (worker[v].pc = "updating" /\ worker'[v].pc = "updated"))
    <3>1. CASE worker'[v] = worker[v]
      BY <3>1
    <3>2. CASE v = r.worker /\ Awaited(r, "updating")
      <4>1. worker[v].pc = "updating" /\ m = l
        BY <1>1, <2>3, <3>2 DEF Awaited
      <4>2. worker[v].note = n
        BY <1>4, <2>2, <2>5, <4>1 DEF WorkerInv
      <4>3. QED
        BY <1>10, <3>2, <4>1, <4>2
    <3>3. QED
      BY <1>10, <3>1, <3>2
  <2>7. ReadUnder(m, b)'
    BY <2>2, <2>3, <2>4, StoreStill DEF WorkerInv
  <2>8. PICK x \in Notes \cup {NoText} : x = worker[v].note
    BY <2>2
  <2>9. NoteOf(x, m.key)'
    BY <1>7, <2>2, <2>5, <2>8 DEF WorkerInv
  <2>10. (worker'[v].pc = "updated" /\ Owns(m)' /\ m.key \notin overwritten')
            => Whole(m, Shown(m.key))'
    <3>1. SUFFICES ASSUME worker'[v].pc = "updated", Owns(m), m.key \notin overwritten'
                   PROVE  Whole(m, Shown(m.key))'
      BY StoreStill
    <3>2. CASE m.key = l.key
      <4>1. Owns(l) /\ l = m
        BY <1>4, <1>9, <3>1, <3>2, OwnerIsOne DEF StoreInv
      <4>2. Whole(m, body)'
        BY <1>4, <4>1, StoreStill
      <4>3. QED
        BY <1>8, <3>2, <4>2 DEF Whole
    <3>3. CASE m.key # l.key
      <4>1. worker[v].pc = "updated"
        <5>1. ~(v = r.worker /\ Awaited(r, "updating"))
          BY <1>1, <2>3, <3>3 DEF Awaited
        <5>2. QED
          BY <1>10, <3>1, <5>1
      <4>2. m.key \notin overwritten
        BY <1>9, <3>1, <3>3
      <4>3. Whole(m, Shown(m.key))
        BY <2>2, <2>3, <2>5, <3>1, <4>1, <4>2 DEF WorkerInv
      <4>4. QED
        BY <1>8, <2>5, <3>3, <4>3, StoreStill DEF Whole
    <3>4. QED
      BY <3>2, <3>3
  <2>11. (worker'[v].pc \in Holding /\ Owns(m)') => Whole(m, b)'
    BY <2>2, <2>3, <2>4, <2>6, StoreStill DEF WorkerInv, Holding
  <2>12. (Searched(v)' /\ Owns(m)') => Cardinality(Marked(m.key))' <= lateCreates'[m.key]
    BY <1>7, <1>9, <2>2, <2>3, <2>5, <2>6, StoreStill DEF WorkerInv, Searched
  <2>13. /\ worker'[v].pc \in Before \cup {"read"} => x \in {NoText, threads'[m.key].noteID}
         /\ worker'[v].pc \in {"saved", "updating", "updated"}
              => x # NoText /\ threads'[m.key].noteID = x
    BY <2>2, <2>5, <2>6, <2>8, StoreStill DEF WorkerInv, Before
  <2>14. QED
    BY <2>5, <2>6, <2>7, <2>8, <2>9, <2>10, <2>11, <2>12, <2>13 DEF WorkerInv
<1>13. \A q \in wire' : RequestInv(q)'
  <2>1. SUFFICES ASSUME NEW q \in wire PROVE RequestInv(q)'
    OBVIOUS
  <2>2. RequestInv(q) /\ q.note \in Notes \cup {NoText} /\ q.lease.key \in Keys
    BY <1>4 DEF TranscriptInv, WorkTypeOK, RequestState, Lease
  <2>3. QED
    BY <1>7, <2>2, StoreStill DEF RequestInv
<1>14. ASSUME NEW k \in Keys PROVE NoteInv(k)'
  <2>1. NoteInv(k) /\ threads[k].noteID \in Notes \cup {NoText}
    BY <1>4 DEF TranscriptInv, StoreInv, TypeOK, Thread
  <2>2. k \notin overwritten' => CoveredShown(k)'
    <3>1. SUFFICES ASSUME k \notin overwritten' PROVE CoveredShown(k)'
      OBVIOUS
    <3>2. CASE k = l.key
      <4>1. Whole(l, body)
        BY <1>4, <1>9, <3>1, <3>2
      <4>2. QED
        BY <1>8, <3>2, <4>1, StoreStill DEF Whole, CoveredShown
    <3>3. CASE k # l.key
      <4>1. CoveredShown(k)
        BY <1>9, <2>1, <3>1, <3>3 DEF NoteInv
      <4>2. QED
        BY <1>8, <3>3, <4>1, StoreStill DEF CoveredShown
    <3>4. QED
      BY <3>2, <3>3
  <2>3. NoteOf(threads[k].noteID, k)'
    BY <1>7, <2>1, StoreStill DEF NoteInv, NoteOf
  <2>4. QED
    BY <1>7, <1>9, <2>1, <2>2, <2>3 DEF NoteInv
<1>15. OneWorkerPerLease'
  BY <1>10, LeasesStayOne DEF TranscriptInv, Working, Awaited
<1>16. QED
  BY <1>5, <1>11, <1>12, <1>13, <1>14, <1>15 DEF TranscriptInv

(* A create adds one note to its thread: a late one is counted, and the one a *)
(* worker still waits for finds no other but late ones.                       *)
LEMMA CreateWork ==
  ASSUME TranscriptInv, NEW r \in wire, ApplyCreate(r), wire' = wire \ {r}, UNCHANGED vars
  PROVE  TranscriptInv'
<1>1. PICK l \in leases : l = r.lease
  BY DEF TranscriptInv, RequestInv, ReadUnder
<1>2. PICK n \in FreshNotes :
         /\ notes' = [notes EXCEPT ![n] = [present |-> TRUE, key |-> r.lease.key, body |-> r.body]]
         /\ Answer(r, "creating", "created", n)
  BY DEF ApplyCreate
<1>3. PICK body \in SUBSET Events : body = r.body
  BY DEF TranscriptInv, WorkTypeOK, RequestState
<1>4. /\ StoreInv /\ WorkTypeOK /\ l.key \in Keys
      /\ n \in Notes /\ n # NoText /\ ~notes[n].present
  BY <1>1, <1>2, RecordAssumption DEF TranscriptInv, StoreInv, TypeOK, Lease, FreshNotes
<1>5. StoreInv' /\ StoreKeeps
  BY <1>4, StoreStep
<1>6. /\ notes' \in [Notes -> NoteState]
      /\ notes'[n].present /\ notes'[n].key = l.key
      /\ \A x \in Notes \ {n} : notes'[x] = notes[x]
  BY <1>1, <1>2, <1>3, <1>4 DEF WorkTypeOK, NoteState
<1>7. /\ Marked(l.key)' = Marked(l.key) \cup {n} /\ n \notin Marked(l.key)
      /\ \A k \in Keys \ {l.key} : Marked(k)' = Marked(k)
      /\ \A x \in Notes \cup {NoText}, k \in Keys : NoteOf(x, k) => NoteOf(x, k)'
  BY <1>4, <1>6 DEF Marked, NoteOf
<1>8. \A k \in Keys : Shown(k)' = Shown(k)
  <2>1. SUFFICES ASSUME NEW k \in Keys PROVE Shown(k)' = Shown(k)
    OBVIOUS
  <2>2. threads[k].noteID \in Notes \cup {NoText} /\ threads[k].noteID # n
    BY <1>4 DEF StoreInv, TypeOK, Thread, TranscriptInv, NoteInv, NoteOf
  <2>3. QED
    BY <1>6, <2>2, StoreStill DEF Shown
<1>9. /\ overwritten' = overwritten
      /\ lateCreates \in [Keys -> Nat]
      /\ lateCreates' = IF Owns(l) /\ Awaited(r, "creating") THEN lateCreates
                          ELSE [lateCreates EXCEPT ![l.key] = @ + 1]
  BY <1>1, <1>4 DEF ApplyCreate, WorkTypeOK
<1>10. /\ worker' \in [Workers -> WorkerState] /\ r.worker \in Workers
       /\ \A v \in Workers :
            /\ worker'[v].lease = worker[v].lease /\ worker'[v].body = worker[v].body
            /\ \/ worker'[v] = worker[v] /\ ~(v = r.worker /\ Awaited(r, "creating"))
               \/ /\ v = r.worker /\ Awaited(r, "creating")
                  /\ worker'[v].pc = "created" /\ worker'[v].note = n
  BY <1>2, <1>4, AnswerReaches DEF Holding
<1>11. /\ lateCreates' \in [Keys -> Nat]
       /\ \A k \in Keys \ {l.key} : lateCreates'[k] = lateCreates[k]
       /\ \/ Owns(l) /\ Awaited(r, "creating") /\ lateCreates'[l.key] = lateCreates[l.key]
          \/ lateCreates'[l.key] = lateCreates[l.key] + 1
  BY <1>4, <1>9
<1>12. /\ IsFiniteSet(Marked(l.key)') /\ Cardinality(Marked(l.key)) \in Nat
       /\ Cardinality(Marked(l.key)') = Cardinality(Marked(l.key)) + 1
  <2>1. IsFiniteSet(Marked(l.key))
    BY <1>4 DEF TranscriptInv, NoteInv
  <2>2. QED
    BY <1>7, <2>1, FS_AddElement, FS_CardinalityType
<1>13. WorkTypeOK'
  BY <1>4, <1>6, <1>10, <1>11 DEF WorkTypeOK
<1>14. ASSUME NEW v \in Workers PROVE WorkerInv(v)'
  <2>1. SUFFICES ASSUME Working(v)' PROVE WorkerInv(v)'
    BY DEF WorkerInv
  <2>2. Working(v) /\ WorkerInv(v) /\ worker[v].note \in Notes \cup {NoText}
    BY <1>4, <1>10, <2>1 DEF TranscriptInv, Working, Awaited, WorkTypeOK, WorkerState
  <2>3. PICK m \in leases : m = worker[v].lease
    BY <2>2 DEF WorkerInv, ReadUnder
  <2>4. PICK b : b = worker[v].body
    OBVIOUS
  <2>5. m.key \in Keys /\ Key(v) = m.key /\ Key(v)' = m.key
        /\ worker'[v].lease = m /\ worker'[v].body = b
    BY <1>4, <1>10, <2>3, <2>4 DEF StoreInv, TypeOK, Lease, Key
  <2>6. ReadUnder(m, b)'
    BY <2>2, <2>3, <2>4, StoreStill DEF WorkerInv
  <2>7. CASE v = r.worker /\ Awaited(r, "creating")
    <3>1. m = l /\ worker[v].pc = "creating" /\ worker'[v].pc = "created" /\ worker'[v].note = n
      BY <1>1, <1>10, <2>3, <2>7 DEF Awaited
    <3>2. NoteOf(n, l.key)'
      BY <1>6 DEF NoteOf
    <3>3. Owns(m)' => Whole(m, b)'
      BY <2>2, <2>3, <2>4, <3>1, StoreStill DEF WorkerInv, Holding
    <3>4. QED
      BY <2>5, <2>6, <3>1, <3>2, <3>3 DEF WorkerInv, Searched, Before
  <2>8. CASE worker'[v] = worker[v] /\ ~(v = r.worker /\ Awaited(r, "creating"))
    <3>1. PICK x \in Notes \cup {NoText} : x = worker[v].note
      BY <2>2
    <3>2. NoteOf(x, m.key)'
      BY <1>7, <2>2, <2>5, <3>1 DEF WorkerInv
    <3>3. (worker[v].pc \in Holding /\ Owns(m)') => Whole(m, b)'
      BY <2>2, <2>3, <2>4, StoreStill DEF WorkerInv
    <3>4. (worker[v].pc = "updated" /\ Owns(m)' /\ m.key \notin overwritten')
             => Whole(m, Shown(m.key))'
      <4>1. (worker[v].pc = "updated" /\ Owns(m) /\ m.key \notin overwritten)
               => Whole(m, Shown(m.key))
        BY <2>2, <2>3, <2>5 DEF WorkerInv
      <4>2. QED
        BY <1>8, <1>9, <2>5, <4>1, StoreStill DEF Whole
    <3>5. (Searched(v)' /\ Owns(m)') => Cardinality(Marked(m.key)') <= lateCreates'[m.key]
      <4>1. SUFFICES ASSUME Searched(v), Owns(m)
                     PROVE  Cardinality(Marked(m.key)') <= lateCreates'[m.key]
        BY <2>8, StoreStill DEF Searched
      <4>2. Cardinality(Marked(m.key)) <= lateCreates[m.key]
        BY <2>2, <2>3, <2>5, <4>1 DEF WorkerInv
      <4>3. CASE m.key # l.key
        BY <1>7, <1>11, <2>5, <4>2, <4>3
      <4>4. CASE m.key = l.key
        <5>1. lateCreates'[l.key] = lateCreates[l.key] + 1
          <6>1. SUFFICES ASSUME Owns(l), Awaited(r, "creating") PROVE FALSE
            BY <1>11
          <6>2. l = m
            BY <1>4, <4>1, <4>4, <6>1, OwnerIsOne DEF StoreInv
          <6>3. worker[r.worker].lease = worker[v].lease /\ Working(r.worker)
            BY <1>1, <2>3, <6>1, <6>2 DEF Awaited, Working
          <6>4. v = r.worker
            BY <1>10, <2>2, <6>3 DEF TranscriptInv, OneWorkerPerLease
          <6>5. QED
            BY <2>8, <6>1, <6>4
        <5>2. QED
          BY <1>4, <1>9, <1>12, <4>2, <4>4, <5>1
      <4>5. QED
        BY <4>3, <4>4
    <3>6. /\ worker[v].pc \in Before \cup {"read"} => x \in {NoText, threads'[m.key].noteID}
          /\ worker[v].pc \in {"saved", "updating", "updated"}
               => x # NoText /\ threads'[m.key].noteID = x
      BY <2>2, <2>5, <3>1, StoreStill DEF WorkerInv
    <3>7. QED
      BY <2>5, <2>6, <2>8, <3>1, <3>2, <3>3, <3>4, <3>5, <3>6 DEF WorkerInv
  <2>9. QED
    BY <1>10, <2>7, <2>8
<1>15. \A q \in wire' : RequestInv(q)'
  <2>1. SUFFICES ASSUME NEW q \in wire PROVE RequestInv(q)'
    OBVIOUS
  <2>2. RequestInv(q) /\ q.note \in Notes \cup {NoText} /\ q.lease.key \in Keys
    BY <1>4 DEF TranscriptInv, WorkTypeOK, RequestState, Lease
  <2>3. QED
    BY <1>7, <2>2, StoreStill DEF RequestInv
<1>16. ASSUME NEW k \in Keys PROVE NoteInv(k)'
  <2>1. NoteInv(k) /\ threads[k].noteID \in Notes \cup {NoText}
    BY <1>4 DEF TranscriptInv, StoreInv, TypeOK, Thread
  <2>2. k \notin overwritten' => CoveredShown(k)'
    BY <1>8, <1>9, <2>1, StoreStill DEF NoteInv, CoveredShown
  <2>3. NoteOf(threads[k].noteID, k)'
    <3>1. PICK x \in Notes \cup {NoText} : x = threads[k].noteID
      BY <2>1
    <3>2. NoteOf(x, k)'
      BY <1>7, <2>1, <3>1 DEF NoteInv
    <3>3. QED
      BY <3>1, <3>2, StoreStill
  <2>4. IsFiniteSet(Marked(k)') /\ Cardinality(Marked(k)') <= 1 + lateCreates'[k]
    <3>1. CASE k # l.key
      BY <1>7, <1>11, <2>1, <3>1 DEF NoteInv
    <3>2. CASE k = l.key
      <4>1. CASE lateCreates'[l.key] = lateCreates[l.key] + 1
        BY <1>4, <1>9, <1>12, <2>1, <3>2, <4>1 DEF NoteInv
      <4>2. CASE Owns(l) /\ Awaited(r, "creating") /\ lateCreates'[l.key] = lateCreates[l.key]
        <5>1. WorkerInv(r.worker) /\ Working(r.worker) /\ Searched(r.worker)
              /\ worker[r.worker].lease = l /\ Key(r.worker) = l.key
          BY <1>1, <1>10, <4>2 DEF TranscriptInv, Awaited, Working, Searched, Key
        <5>2. Cardinality(Marked(l.key)) <= lateCreates[l.key]
          BY <4>2, <5>1 DEF WorkerInv
        <5>3. QED
          BY <1>4, <1>9, <1>12, <3>2, <4>2, <5>2
      <4>3. QED
        BY <1>11, <4>1, <4>2
    <3>3. QED
      BY <3>1, <3>2
  <2>5. QED
    BY <2>2, <2>3, <2>4 DEF NoteInv
<1>17. OneWorkerPerLease'
  BY <1>10, LeasesStayOne DEF TranscriptInv, Working, Awaited
<1>18. QED
  BY <1>5, <1>13, <1>14, <1>15, <1>16, <1>17 DEF TranscriptInv

LEMMA LoseWork ==
  ASSUME TranscriptInv, NEW r \in wire, Lose(r)
  PROVE  UNCHANGED vars /\ TranscriptInv'
<1>1. PICK w \in Workers : TRUE
  BY WorkerAssumption
<1>2. UNCHANGED <<vars, worker, notes, late>> /\ wire' = wire \ {r}
  BY DEF Lose
<1>3. Moves(w, worker[w]) /\ worker'[w] = worker[w]
  BY <1>2, WorkerFacts DEF Moves, WorkTypeOK
<1>4. WorkerInv(w)'
  BY <1>2, <1>3, WorkerStays, WorkerFacts
<1>5. worker[w].pc = "idle" \/ Working(w)
  BY DEF Working
<1>6. QED
  BY <1>2, <1>3, <1>4, <1>5, OneWorkerMoves, WorkerFacts

-----------------------------------------------------------------------------
(* The invariant holds of every behavior of the workers, and every step of   *)
(* theirs is one of the store's, or none.                                    *)

LEMMA InitTranscripts == WorkInit => TranscriptInv
<1>1. SUFFICES ASSUME WorkInit PROVE TranscriptInv
  OBVIOUS
<1>2. StoreInv
  BY <1>1, StoreInit DEF WorkInit
<1>3. WorkTypeOK
  <2>1. Absent \in NoteState
    BY OutboxAssumption DEF Absent, NoteState, SomeKey
  <2>2. QED
    BY <1>1, <2>1, IdleType DEF WorkInit, WorkTypeOK
<1>4. \A w \in Workers : WorkerInv(w) /\ ~Working(w)
  BY <1>1, IdleType DEF WorkInit, WorkerInv, Working
<1>5. ASSUME NEW k \in Keys PROVE NoteInv(k)
  <2>1. threads[k].noteID = NoText /\ covered[k] = {} /\ lateCreates[k] = 0
    BY <1>1 DEF WorkInit, Init, NoThread
  <2>2. Marked(k) = {}
    BY <1>1 DEF WorkInit, Marked, Absent
  <2>3. QED
    BY <2>1, <2>2, FS_EmptySet DEF NoteInv, NoteOf, CoveredShown
<1>6. wire = {} /\ OneWorkerPerLease
  BY <1>1, <1>4 DEF WorkInit, OneWorkerPerLease
<1>7. QED
  BY <1>2, <1>3, <1>4, <1>5, <1>6 DEF TranscriptInv

LEMMA NextTranscripts ==
  ASSUME TranscriptInv, [WorkNext]_workerVars
  PROVE  [Next]_vars /\ TranscriptInv'
<1>1. ASSUME NEW e \in Events, Deliver(e) PROVE [Next]_vars /\ TranscriptInv'
  BY <1>1, DeliverWork
<1>2. ASSUME NEW w \in Workers, WorkerStep(w) PROVE [Next]_vars /\ TranscriptInv'
  <2>1. CASE \E k \in Keys : Start(w, k)
    BY <2>1, StartWork
  <2>2. CASE Drop(w)
    BY <2>2, DropWork DEF Drop, OnlyWorker
  <2>3. CASE CheckLease(w)
    BY <2>3, CheckLeaseWork DEF CheckLease, OnlyWorker
  <2>4. CASE ReadThread(w)
    BY <2>4, ReadThreadWork DEF ReadThread
  <2>5. CASE FindNote(w)
    BY <2>5, FindNoteWork DEF FindNote, OnlyWorker
  <2>6. CASE CreateNote(w)
    BY <2>6, CreateNoteWork DEF CreateNote, Send
  <2>7. CASE Save(w)
    BY <2>7, SaveWork
  <2>8. CASE UpdateNote(w)
    BY <2>8, UpdateNoteWork DEF UpdateNote, Send
  <2>9. CASE Finish(w)
    BY <2>9, FinishWork
  <2>10. CASE GiveUp(w)
    BY <2>10, GiveUpWork
  <2>11. QED
    BY <1>2, <2>1, <2>2, <2>3, <2>4, <2>5, <2>6, <2>7, <2>8, <2>9, <2>10 DEF WorkerStep
<1>3. ASSUME NEW w \in Workers, Heartbeat(w) PROVE [Next]_vars /\ TranscriptInv'
  BY <1>3, HeartbeatWork
<1>4. ASSUME NEW w \in Workers, Error(w) \/ Cancel(w) \/ Crash(w)
      PROVE  [Next]_vars /\ TranscriptInv'
  <2>1. UNCHANGED vars
    BY <1>4 DEF Error, Cancel, Crash
  <2>2. QED
    BY <1>4, <2>1, FailingWork, DropWork
<1>5. ASSUME NEW r \in wire, Apply(r) PROVE [Next]_vars /\ TranscriptInv'
  BY <1>5, CreateWork, UpdateWork DEF Apply
<1>6. ASSUME NEW r \in wire, Lose(r) PROVE [Next]_vars /\ TranscriptInv'
  BY <1>6, LoseWork
<1>7. ASSUME Wait PROVE [Next]_vars /\ TranscriptInv'
  BY <1>7, WaitWork
<1>8. ASSUME UNCHANGED workerVars PROVE [Next]_vars /\ TranscriptInv'
  <2>1. UNCHANGED <<vars, worker, remote, late>>
    BY <1>8 DEF workerVars
  <2>2. \A k \in Keys : threads'[k].noteID = threads[k].noteID
    BY <2>1, StoreStill
  <2>3. QED
    BY <2>1, <2>2, StoreOnly, StoreStill
<1>9. QED
  BY <1>1, <1>2, <1>3, <1>4, <1>5, <1>6, <1>7, <1>8 DEF WorkNext

LEMMA TranscriptInvariant == WorkSpec => []TranscriptInv
<1>1. TranscriptInv /\ [WorkNext]_workerVars => TranscriptInv'
  BY NextTranscripts
<1>2. QED
  BY <1>1, InitTranscripts, PTL DEF WorkSpec

(* Every step of a worker, of HubSpot and of time is a step of Store's free    *)
(* callers or leaves the store alone: worker.Run, process and reconcile reach  *)
(* the store by its operations only, with leases Claim returned to them, the   *)
(* time of the call, a note ID of HubSpot and the timestamp of a message of    *)
(* the thread.  Whatever is proved of Store holds of the workers.              *)
THEOREM WorkersImplementStore == WorkSpec => ImplementsStore
<1>1. WorkInit => Init
  BY DEF WorkInit
<1>2. TranscriptInv /\ [WorkNext]_workerVars => [Next]_vars
  BY NextTranscripts
<1>3. QED
  BY <1>1, <1>2, TranscriptInvariant, PTL DEF WorkSpec, ImplementsStore

(* The store's guarantees, of the workers: no queued event is taken for        *)
(* synchronized, a permanent failure parks only what was tried, the newest     *)
(* command decides, a message is answered once, and a lost lease stays lost.   *)
COROLLARY WorkersKeepStore ==
  WorkSpec => /\ [](NoQueuedEventLost /\ FailureCoversAllQueued /\ StateMeaning)
              /\ [](NewestCommandDecides /\ OneReplyPerMessage)
              /\ FencedForever /\ MappingsKept
<1>1. WorkSpec => Spec
  BY WorkersImplementStore DEF ImplementsStore, Spec
<1>2. QED
  BY <1>1, NothingQueuedIsLost, FailureParksOnlyTried, StateAlwaysMeans,
     NewestCommandAlwaysDecides, MessagesAreAnsweredOnce, LostLeasesStayLost,
     MappingsNeverChange, PTL

(* A thread whose last queued generation is completed shows, in the HubSpot    *)
(* note its record names, every link and message the store accepted to         *)
(* synchronize, however many workers, timeouts, lost leases and late answers   *)
(* there were, unless the note was last written under a lease already lost.    *)
THEOREM UpToDateIsAlwaysShown == WorkSpec => []UpToDateIsShown
<1>1. TranscriptInv => UpToDateIsShown
  <2>1. SUFFICES ASSUME TranscriptInv, NEW k \in Keys,
                        threads[k].completed = threads[k].requested, k \notin overwritten,
                        NEW e \in Events, e.id \in queued[k], Eligible(e)
                 PROVE  e \in Shown(k)
    BY DEF UpToDateIsShown, Wanted
  <2>2. e.id \in covered[k]
    BY <2>1 DEF TranscriptInv, StoreInv, WorkInv, KeyInv
  <2>3. QED
    BY <2>1, <2>2 DEF TranscriptInv, NoteInv, CoveredShown
<1>2. QED
  BY <1>1, TranscriptInvariant, PTL

(* A thread has one note, and one more for each create that HubSpot applied    *)
(* after its worker had stopped waiting or had lost its lease: the marker      *)
(* search of reconcile finds every other.                                      *)
THEOREM TwinsAreLateCreates == WorkSpec => []NoteOnlyTwinnedLate
<1>1. TranscriptInv => NoteOnlyTwinnedLate
  BY DEF TranscriptInv, NoteInv, NoteOnlyTwinnedLate
<1>2. QED
  BY <1>1, TranscriptInvariant, PTL
=============================================================================
