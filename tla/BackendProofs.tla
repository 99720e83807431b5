---------------------------- MODULE BackendProofs ----------------------------
(***************************************************************************)
(* Proofs about the drivers (module Backend): their transactions implement *)
(* Records, in which a call of Update or View is one step.                 *)
(*                                                                         *)
(* The step is the commit, and what it commits was computed from an older  *)
(* database.  So the argument has two halves.  Repeated, about the         *)
(* functions: one that is run on a database that agrees with another on    *)
(* what it read answers and writes the same there.  Current, about the     *)
(* transactions: a database there once was, which the run of an open       *)
(* transaction was made on, agrees with the database there is now on       *)
(* everything but what was written meanwhile.                              *)
(***************************************************************************)
EXTENDS Backend, TLAPS

Versions == {"", "0", "1"}
Database == [jobs: [JobIds -> Job], events: SUBSET ReplyIds, version: Versions]

(* A reply job is no reaction job, and comes with its event. *)
Sound(d) ==
  \A id \in ReplyIds : ~d.jobs[id].reactions /\ (id \notin d.events => ~d.jobs[id].present)

(* Two databases hold the same records under these names. *)
Agree(d, e, names) ==
  /\ \A id \in JobIds : Records!JobName(id) \in names => d.jobs[id] = e.jobs[id]
  /\ \A id \in ReplyIds : Records!EventName(id) \in names => (id \in d.events <=> id \in e.events)
  /\ Records!Schema \in names => d.version = e.version

(* Two databases differ in the records of these names only. *)
DifferIn(d, e, names) ==
  /\ \A id \in JobIds : Records!JobName(id) \notin names => d.jobs[id] = e.jobs[id]
  /\ \A id \in ReplyIds : Records!EventName(id) \notin names => (id \in d.events <=> id \in e.events)
  /\ Records!Schema \notin names => d.version = e.version

-----------------------------------------------------------------------------
(* Names, and what a commit writes over a database. *)

LEMMA NamesApart ==
  /\ \A i, j : Records!JobName(i) = Records!JobName(j) <=> i = j
  /\ \A i, j : Records!EventName(i) = Records!EventName(j) <=> i = j
  /\ \A i, j : Records!JobName(i) # Records!EventName(j)
  /\ \A i : Records!JobName(i) # Records!Schema /\ Records!EventName(i) # Records!Schema
BY DEF Records!JobName, Records!EventName, Records!Schema

LEMMA SameJobIds == Records!JobIds = JobIds
BY DEF Records!JobIds, JobIds

LEMMA HoldingIs ==
  ASSUME NEW jobs \in [JobIds -> Job], NEW evs \in SUBSET ReplyIds, NEW ver \in Versions,
         NEW d, d = Records!Holding(jobs, evs, ver)
  PROVE  d \in Database /\ d.jobs = jobs /\ d.events = evs /\ d.version = ver
BY DEF Database, Records!Holding

LEMMA IsHolding ==
  ASSUME NEW d \in Database
  PROVE  /\ d = Records!Holding(d.jobs, d.events, d.version)
         /\ d.jobs \in [JobIds -> Job] /\ d.events \in SUBSET ReplyIds /\ d.version \in Versions
BY DEF Database, Records!Holding

LEMMA WrittenIs ==
  ASSUME NEW d \in Database, NEW a \in Database
  PROVE  /\ \A id \in JobIds : Records!JobName(id) \in Records!Written(d, a) <=> a.jobs[id] # d.jobs[id]
         /\ \A id \in ReplyIds :
              Records!EventName(id) \in Records!Written(d, a) <=> id \in a.events /\ id \notin d.events
         /\ Records!Schema \in Records!Written(d, a) <=> a.version # d.version
<1> DEFINE jobs == {Records!JobName(id) : id \in {j \in JobIds : a.jobs[j] # d.jobs[j]}}
           evs == {Records!EventName(id) : id \in a.events \ d.events}
           sch == {n \in {Records!Schema} : a.version # d.version}
<1>1. Records!Written(d, a) = jobs \cup evs \cup sch
  BY SameJobIds DEF Records!Written
<1>2. \A id : Records!JobName(id) \in jobs \cup evs \cup sch <=> id \in JobIds /\ a.jobs[id] # d.jobs[id]
  BY NamesApart
<1>3. \A id : Records!EventName(id) \in jobs \cup evs \cup sch <=> id \in a.events /\ id \notin d.events
  BY NamesApart
<1>4. Records!Schema \in jobs \cup evs \cup sch <=> a.version # d.version
  BY NamesApart
<1> HIDE DEF jobs, evs, sch
<1>5. QED
  BY <1>1, <1>2, <1>3, <1>4

LEMMA MergedIs ==
  ASSUME NEW e \in Database, NEW a \in Database, NEW w
  PROVE  /\ Records!Merged(e, a, w) \in Database
         /\ \A id \in JobIds : Records!Merged(e, a, w).jobs[id] =
                                 IF Records!JobName(id) \in w THEN a.jobs[id] ELSE e.jobs[id]
         /\ \A id \in ReplyIds : id \in Records!Merged(e, a, w).events
                                   <=> id \in e.events \/ Records!EventName(id) \in w
         /\ Records!Merged(e, a, w).version = IF Records!Schema \in w THEN a.version ELSE e.version
<1> DEFINE m == Records!Merged(e, a, w)
           jobs == [id \in JobIds |-> IF Records!JobName(id) \in w THEN a.jobs[id] ELSE e.jobs[id]]
           evs == e.events \cup {id \in ReplyIds : Records!EventName(id) \in w}
           ver == IF Records!Schema \in w THEN a.version ELSE e.version
<1>1. jobs \in [JobIds -> Job] /\ evs \in SUBSET ReplyIds /\ ver \in Versions
  BY DEF Database
<1>2. m = Records!Holding(jobs, evs, ver)
  BY SameJobIds DEF Records!Merged
<1>3. \A id \in JobIds : jobs[id] = IF Records!JobName(id) \in w THEN a.jobs[id] ELSE e.jobs[id]
  OBVIOUS
<1>4. \A id \in ReplyIds : id \in evs <=> id \in e.events \/ Records!EventName(id) \in w
  OBVIOUS
<1>v. ver = IF Records!Schema \in w THEN a.version ELSE e.version
  OBVIOUS
<1> HIDE DEF jobs, evs, ver, m
<1>5. m.jobs = jobs /\ m.events = evs /\ m.version = ver /\ m \in Database
  BY <1>1, <1>2, HoldingIs
<1>6. QED
  BY <1>3, <1>4, <1>5, <1>v DEF m

LEMMA SameDatabase ==
  ASSUME NEW d \in Database, NEW e \in Database, \A id \in JobIds : d.jobs[id] = e.jobs[id],
         d.events = e.events, d.version = e.version
  PROVE  d = e
<1> DEFINE f == d.jobs
           g == e.jobs
<1>1. f \in [JobIds -> Job] /\ g \in [JobIds -> Job]
  BY IsHolding
<1>2. \A id \in JobIds : f[id] = g[id]
  OBVIOUS
<1>3. /\ d = Records!Holding(f, d.events, d.version)
      /\ e = Records!Holding(g, e.events, e.version)
  BY IsHolding
<1> HIDE DEF f, g
<1>4. f = g
  BY <1>1, <1>2
<1>5. QED
  BY <1>3, <1>4

(* A run committed over the database it was made on, or one that differs only *)
(* elsewhere, leaves what the run left.                                       *)
LEMMA MergedOver ==
  ASSUME NEW d \in Database, NEW e \in Database, NEW a \in Database, NEW r \in Database,
         \A id \in JobIds : r.jobs[id] = IF a.jobs[id] # d.jobs[id] THEN a.jobs[id] ELSE e.jobs[id],
         r.events = e.events \cup (a.events \ d.events),
         r.version = IF a.version # d.version THEN a.version ELSE e.version
  PROVE  r = Records!Merged(e, a, Records!Written(d, a))
<1> DEFINE w == Records!Written(d, a)
           m == Records!Merged(e, a, w)
<1>1. /\ \A id \in JobIds : Records!JobName(id) \in w <=> a.jobs[id] # d.jobs[id]
      /\ \A id \in ReplyIds : Records!EventName(id) \in w <=> id \in a.events /\ id \notin d.events
      /\ Records!Schema \in w <=> a.version # d.version
  BY WrittenIs
<1> HIDE DEF w
<1>2. /\ m \in Database
      /\ \A id \in JobIds : m.jobs[id] = IF Records!JobName(id) \in w THEN a.jobs[id] ELSE e.jobs[id]
      /\ \A id \in ReplyIds : id \in m.events <=> id \in e.events \/ Records!EventName(id) \in w
      /\ m.version = IF Records!Schema \in w THEN a.version ELSE e.version
  BY MergedIs
<1> HIDE DEF m
<1>3. \A id \in JobIds : m.jobs[id] = r.jobs[id]
  BY <1>1, <1>2
<1>4. m.version = r.version
  BY <1>1, <1>2
<1>5. m.events = r.events
  <2>1. m.events \subseteq ReplyIds /\ r.events \subseteq ReplyIds
    BY <1>2 DEF Database
  <2>2. \A id \in ReplyIds : id \in m.events <=> id \in r.events
    BY <1>1, <1>2
  <2>3. QED
    BY <2>1, <2>2
<1>6. m = r
  BY <1>2, <1>3, <1>4, <1>5, SameDatabase
<1>7. QED
  BY <1>6 DEF m, w

-----------------------------------------------------------------------------
(* The jobs that the functions write. *)

LEMMA NewJobIs ==
  ASSUME NEW k \in Keys, NEW r \in BOOLEAN, NEW u \in BOOLEAN, NEW j, j = Records!NewJob(k, r, u)
  PROVE  j \in Job /\ j.present /\ j.reactions = r
BY DEF Records!NewJob, Job

LEMMA ClaimedIs ==
  ASSUME NEW i \in Job, NEW j, j = Records!JobClaimed(i, Records!Now)
  PROVE  /\ j \in Job /\ j.attempts = i.attempts + 1
         /\ j.present = i.present /\ j.reactions = i.reactions /\ j.completed = i.completed
<1>1. i.attempts + 1 \in Nat /\ Records!Now + JobLease \in Nat
  BY OutboxAssumption DEF Job, Records!Now
<1>2. QED
  BY <1>1 DEF Records!JobClaimed, Job

LEMMA CompletedIs ==
  ASSUME NEW i \in Job, NEW j, j = Records!JobCompleted(i)
  PROVE  /\ j \in Job /\ j.attempts = i.attempts
         /\ j.present = i.present /\ j.reactions = i.reactions /\ j.completed
BY DEF Records!JobCompleted, Job

(* A reaction request adds a job, for which it takes no reply's ID. *)
LEMMA RequestIs ==
  ASSUME NEW box \in [JobIds -> Job], NEW k \in Keys, NEW w, w = Records!WithReactions(box, k)
  PROVE  /\ w \in [JobIds -> Job]
         /\ Records!RoomFor(box, k) => \A j \in ReplyIds : w[j] = box[j]
<1> DEFINE id == CHOOSE i \in Records!FreeIds(box) : TRUE
           n == Records!NewJob(k, TRUE, FALSE)
<1>1. w = box \/ (Records!Unclaimed(box, k) = {} /\ w = [box EXCEPT ![id] = n])
  BY DEF Records!WithReactions
<1>2. n \in Job
  BY NewJobIs
<1> HIDE DEF n
<1>3. [box EXCEPT ![id] = n] \in [JobIds -> Job]
  BY <1>2
<1>4. ASSUME Records!FreeIds(box) # {} PROVE id \in ReactionIds
  BY <1>4 DEF Records!FreeIds
<1>5. ASSUME Records!FreeIds(box) # {}, NEW j \in ReplyIds PROVE [box EXCEPT ![id] = n][j] = box[j]
  <2>1. id # j /\ j \in JobIds
    BY <1>4, <1>5, OutboxAssumption DEF JobIds
  <2> HIDE DEF id
  <2>2. QED
    BY <2>1
<1> HIDE DEF id
<1>6. QED
  BY <1>1, <1>3, <1>5 DEF Records!RoomFor

(* Whether it does depends on the reaction jobs only. *)
LEMMA RequestsAlike ==
  ASSUME NEW box \in [JobIds -> Job], NEW other \in [JobIds -> Job], NEW k \in Keys,
         \A i \in ReactionIds : box[i] = other[i]
  PROVE  /\ \A j \in JobIds : box[j] = other[j] =>
              Records!WithReactions(box, k)[j] = Records!WithReactions(other, k)[j]
         /\ Records!RoomFor(box, k) <=> Records!RoomFor(other, k)
<1>1. Records!Unclaimed(box, k) = Records!Unclaimed(other, k)
  BY DEF Records!Unclaimed
<1>2. Records!FreeIds(box) = Records!FreeIds(other)
  BY DEF Records!FreeIds
<1> DEFINE id == CHOOSE i \in Records!FreeIds(box) : TRUE
           n == Records!NewJob(k, TRUE, FALSE)
<1>3. n \in Job
  BY NewJobIs
<1>4. id = CHOOSE i \in Records!FreeIds(other) : TRUE
  BY <1>2
<1>5. \/ /\ Records!WithReactions(box, k) = box
         /\ Records!WithReactions(other, k) = other
      \/ /\ Records!WithReactions(box, k) = [box EXCEPT ![id] = n]
         /\ Records!WithReactions(other, k) = [other EXCEPT ![id] = n]
  BY <1>1, <1>4 DEF Records!WithReactions
<1> HIDE DEF id, n
<1>6. \A j \in JobIds : box[j] = other[j] =>
        [box EXCEPT ![id] = n][j] = [other EXCEPT ![id] = n][j]
  OBVIOUS
<1>7. QED
  BY <1>1, <1>2, <1>5, <1>6 DEF Records!RoomFor

-----------------------------------------------------------------------------
(* The functions, one by one. *)

(* What a run leaves of the records: the types, the replies, and what was done. *)
Keeps(d, a) ==
  /\ a \in Database /\ Sound(a)
  /\ \A id \in d.events : /\ a.jobs[id].attempts >= d.jobs[id].attempts
                          /\ d.jobs[id].completed => a.jobs[id].completed

(* The run of a function on d has on e the effect of running it there. *)
Repeats(run, again, e) ==
  again.answer = run.answer /\ again.db = Records!Merged(e, run.db, run.writes)

LEMMA RanIs ==
  \A answer, reads, d, a :
    /\ Records!Ran(answer, reads, d, a).answer = answer
    /\ Records!Ran(answer, reads, d, a).reads = reads
    /\ Records!Ran(answer, reads, d, a).db = a
    /\ Records!Ran(answer, reads, d, a).writes = Records!Written(d, a)
BY DEF Records!Ran

LEMMA RunIs ==
  ASSUME NEW answer, NEW reads, NEW d, NEW a, NEW run, run = Records!Ran(answer, reads, d, a)
  PROVE  run.answer = answer /\ run.reads = reads /\ run.db = a /\ run.writes = Records!Written(d, a)
BY RanIs

LEMMA RunAlike ==
  ASSUME NEW answer, NEW reads, NEW d, NEW a, NEW e, NEW b,
         b = Records!Merged(e, a, Records!Written(d, a)),
         NEW run, run = Records!Ran(answer, reads, d, a),
         NEW again, again = Records!Ran(answer, reads, e, b)
  PROVE  Repeats(run, again, e)
BY RunIs DEF Repeats

LEMMA KeepsItself ==
  ASSUME NEW d \in Database, Sound(d)
  PROVE  Keeps(d, d)
<1>1. ASSUME NEW id \in d.events PROVE d.jobs[id] \in Job
  BY <1>1 DEF Database, JobIds
<1>2. ASSUME NEW j \in Job PROVE j.attempts >= j.attempts
  BY DEF Job
<1>3. QED
  BY <1>1, <1>2 DEF Keeps

LEMMA RepeatsNothing ==
  ASSUME NEW d \in Database, NEW e \in Database
  PROVE  e = Records!Merged(e, d, Records!Written(d, d))
<1>1. e.events = e.events \cup (d.events \ d.events)
  OBVIOUS
<1>2. QED
  BY <1>1, MergedOver

(* A function of the jobs alone. *)
LEMMA RepeatsJobs ==
  ASSUME NEW d \in Database, NEW e \in Database, d.jobs = e.jobs,
         NEW box \in [JobIds -> Job],
         NEW a, a = Records!Holding(box, d.events, d.version),
         NEW r, r = Records!Holding(box, e.events, e.version)
  PROVE  a \in Database /\ r \in Database /\ r = Records!Merged(e, a, Records!Written(d, a))
<1>1. /\ a \in Database /\ a.jobs = box /\ a.events = d.events /\ a.version = d.version
      /\ r \in Database /\ r.jobs = box /\ r.events = e.events /\ r.version = e.version
  BY IsHolding, HoldingIs
<1>2. r.events = e.events \cup (a.events \ d.events)
  BY <1>1
<1>3. \A id \in JobIds : r.jobs[id] = IF a.jobs[id] # d.jobs[id] THEN a.jobs[id] ELSE e.jobs[id]
  BY <1>1
<1>4. r.version = IF a.version # d.version THEN a.version ELSE e.version
  BY <1>1
<1>5. a \in Database /\ r \in Database
  BY <1>1
<1>6. r = Records!Merged(e, a, Records!Written(d, a))
  BY ONLY <1>2, <1>3, <1>4, <1>5, d \in Database, e \in Database, MergedOver
<1>7. QED
  BY <1>5, <1>6

(* Record. *)
Reply == Records!NewJob(Records!SomeKey, FALSE, TRUE)

LEMMA ReplyIs == Reply \in Job /\ Reply.present /\ ~Reply.reactions
<1>1. Records!SomeKey \in Keys
  BY OutboxAssumption DEF Records!SomeKey
<1>2. QED
  BY <1>1, NewJobIs DEF Reply

LEMMA RecordedOld ==
  ASSUME NEW d \in Database, NEW id \in ReplyIds, id \in d.events
  PROVE  Records!Recorded(d, id) = Records!Ran("duplicate", {Records!EventName(id)}, d, d)
BY DEF Records!Recorded

LEMMA RecordedNew ==
  ASSUME NEW d \in Database, NEW id \in ReplyIds, id \notin d.events
  PROVE  \E a \in Database :
           /\ Records!Recorded(d, id) = Records!Ran("recorded", {Records!EventName(id)}, d, a)
           /\ a.jobs[id] = Reply /\ \A j \in JobIds : j # id => a.jobs[j] = d.jobs[j]
           /\ a.events = d.events \cup {id} /\ a.version = d.version
<1> DEFINE box == [d.jobs EXCEPT ![id] = Reply]
           a == Records!Holding(box, d.events \cup {id}, d.version)
<1>1. d.jobs \in [JobIds -> Job] /\ id \in JobIds /\ d.events \cup {id} \in SUBSET ReplyIds /\ d.version \in Versions
  BY IsHolding DEF JobIds
<1>2. Records!Recorded(d, id) = Records!Ran("recorded", {Records!EventName(id)}, d, a)
  BY DEF Records!Recorded, Reply
<1>3. box \in [JobIds -> Job] /\ box[id] = Reply /\ \A j \in JobIds : j # id => box[j] = d.jobs[j]
  BY <1>1, ReplyIs
<1> HIDE DEF box
<1>4. a \in Database /\ a.jobs = box /\ a.events = d.events \cup {id} /\ a.version = d.version
  BY <1>1, <1>3, HoldingIs
<1> HIDE DEF a
<1>5. QED
  BY <1>2, <1>3, <1>4

LEMMA RecordedKeeps ==
  ASSUME NEW d \in Database, Sound(d), NEW id \in ReplyIds
  PROVE  Keeps(d, Records!Recorded(d, id).db)
<1>1. CASE id \in d.events
  <2>1. Records!Recorded(d, id) = Records!Ran("duplicate", {Records!EventName(id)}, d, d)
    BY <1>1, RecordedOld
  <2>2. Records!Recorded(d, id).db = d
    BY <2>1, RanIs
  <2>3. QED
    BY <2>2, KeepsItself
<1>2. CASE id \notin d.events
  <2>1. PICK a \in Database :
          /\ Records!Recorded(d, id) = Records!Ran("recorded", {Records!EventName(id)}, d, a)
          /\ a.jobs[id] = Reply /\ \A j \in JobIds : j # id => a.jobs[j] = d.jobs[j]
          /\ a.events = d.events \cup {id} /\ a.version = d.version
    BY <1>2, RecordedNew
  <2>2. Records!Recorded(d, id).db = a
    BY <2>1, RanIs
  <2>3. ASSUME NEW i \in ReplyIds PROVE ~a.jobs[i].reactions /\ (i \notin a.events => ~a.jobs[i].present)
    <3>1. CASE i = id
      BY <2>1, <3>1, ReplyIs
    <3>2. CASE i # id
      <4>1. a.jobs[i] = d.jobs[i] /\ (i \notin a.events => i \notin d.events)
        BY <2>1, <3>2 DEF JobIds
      <4>2. QED
        BY <4>1 DEF Sound
    <3>3. QED
      BY <3>1, <3>2
  <2>4. \A i \in d.events : a.jobs[i] = d.jobs[i]
    BY <1>2, <2>1 DEF Database, JobIds
  <2>5. QED
    BY <2>2, <2>3, <2>4, KeepsItself DEF Keeps, Sound
<1>3. QED
  BY <1>1, <1>2

LEMMA RecordedRepeats ==
  ASSUME NEW d \in Database, NEW e \in Database, Sound(d), NEW id \in ReplyIds,
         Agree(d, e, {Records!EventName(id)})
  PROVE  Repeats(Records!Recorded(d, id), Records!Recorded(e, id), e)
<1>1. id \in d.events <=> id \in e.events
  BY DEF Agree
<1>2. CASE id \in d.events
  <2>1. /\ Records!Recorded(d, id) = Records!Ran("duplicate", {Records!EventName(id)}, d, d)
        /\ Records!Recorded(e, id) = Records!Ran("duplicate", {Records!EventName(id)}, e, e)
    BY <1>1, <1>2, RecordedOld
  <2>2. QED
    BY <2>1, RanIs, RepeatsNothing DEF Repeats
<1>3. CASE id \notin d.events
  <2>1. PICK a \in Database :
          /\ Records!Recorded(d, id) = Records!Ran("recorded", {Records!EventName(id)}, d, a)
          /\ a.jobs[id] = Reply /\ \A j \in JobIds : j # id => a.jobs[j] = d.jobs[j]
          /\ a.events = d.events \cup {id} /\ a.version = d.version
    BY <1>3, RecordedNew
  <2>2. PICK r \in Database :
          /\ Records!Recorded(e, id) = Records!Ran("recorded", {Records!EventName(id)}, e, r)
          /\ r.jobs[id] = Reply /\ \A j \in JobIds : j # id => r.jobs[j] = e.jobs[j]
          /\ r.events = e.events \cup {id} /\ r.version = e.version
    BY <1>1, <1>3, RecordedNew
  <2>3. Reply # d.jobs[id]
    BY <1>3, ReplyIs DEF Sound
  <2>4. \A j \in JobIds : r.jobs[j] = IF a.jobs[j] # d.jobs[j] THEN a.jobs[j] ELSE e.jobs[j]
    BY <2>1, <2>2, <2>3
  <2>5. r.events = e.events \cup (a.events \ d.events)
    BY <1>3, <2>1, <2>2
  <2>6. r = Records!Merged(e, a, Records!Written(d, a))
    BY <2>1, <2>2, <2>4, <2>5, MergedOver
  <2>7. QED
    BY <2>1, <2>2, <2>6, RanIs DEF Repeats
<1>4. QED
  BY <1>2, <1>3


-----------------------------------------------------------------------------
(* A claim. *)
Claimable(box, reactions) ==
  {id \in JobIds : /\ box[id].reactions = reactions /\ Records!Deliverable(box[id], Records!Now)
                   /\ reactions => ~Records!Blocked(box, box[id].key, Records!Now)}
First(box, reactions) == CHOOSE id \in Claimable(box, reactions) : TRUE
Taken(box, id) == [box EXCEPT ![id] = Records!JobClaimed(box[id], Records!Now)]

LEMMA ClaimIs ==
  ASSUME NEW d, NEW r
  PROVE  Records!ClaimedJob(d, r) =
           IF Claimable(d.jobs, r) = {}
             THEN Records!Ran("nothing", Records!Jobs, d, d)
             ELSE Records!Ran(First(d.jobs, r), Records!Jobs, d,
                    Records!Holding(Taken(d.jobs, First(d.jobs, r)), d.events, d.version))
BY SameJobIds DEF Records!ClaimedJob, Claimable, First, Taken

LEMMA FirstIs ==
  ASSUME NEW box, NEW r, Claimable(box, r) # {}
  PROVE  First(box, r) \in JobIds
BY DEF First, Claimable

LEMMA TakenIs ==
  ASSUME NEW box \in [JobIds -> Job], NEW id \in JobIds
  PROVE  /\ Taken(box, id) \in [JobIds -> Job]
         /\ \A j \in JobIds : /\ Taken(box, id)[j].attempts >= box[j].attempts
                              /\ Taken(box, id)[j].completed = box[j].completed
                              /\ Taken(box, id)[j].reactions = box[j].reactions
                              /\ Taken(box, id)[j].present = box[j].present
<1> DEFINE claimed == Records!JobClaimed(box[id], Records!Now)
<1>1. /\ claimed \in Job /\ claimed.attempts = box[id].attempts + 1
      /\ claimed.present = box[id].present /\ claimed.reactions = box[id].reactions
      /\ claimed.completed = box[id].completed
  BY ClaimedIs
<1>2. Taken(box, id) = [box EXCEPT ![id] = claimed]
  BY DEF Taken
<1> HIDE DEF claimed
<1>3. \A j \in JobIds : box[j] \in Job /\ box[j].attempts \in Nat
  BY DEF Job
<1>4. Taken(box, id) \in [JobIds -> Job] /\ Taken(box, id)[id] = claimed
  BY <1>1, <1>2
<1>5. \A j \in JobIds : j # id => Taken(box, id)[j] = box[j]
  BY <1>2
<1>6. QED
  BY <1>1, <1>3, <1>4, <1>5

LEMMA AgreeOnJobs ==
  ASSUME NEW d \in Database, NEW e \in Database, Agree(d, e, Records!Jobs)
  PROVE  d.jobs = e.jobs
<1>1. \A id \in JobIds : d.jobs[id] = e.jobs[id]
  BY SameJobIds DEF Agree, Records!Jobs
<1>2. d.jobs \in [JobIds -> Job] /\ e.jobs \in [JobIds -> Job]
  BY IsHolding
<1>3. QED
  BY <1>1, <1>2

LEMMA ClaimKeeps ==
  ASSUME NEW d \in Database, Sound(d), NEW r \in BOOLEAN
  PROVE  Keeps(d, Records!ClaimedJob(d, r).db)
<1>1. CASE Claimable(d.jobs, r) = {}
  <2>1. Records!ClaimedJob(d, r) = Records!Ran("nothing", Records!Jobs, d, d)
    BY <1>1, ClaimIs
  <2>2. Records!ClaimedJob(d, r).db = d
    BY <2>1, RunIs
  <2>3. QED
    BY <2>2, KeepsItself
<1>2. CASE Claimable(d.jobs, r) # {}
  <2> DEFINE id == First(d.jobs, r)
             box == Taken(d.jobs, id)
             a == Records!Holding(box, d.events, d.version)
  <2>1. Records!ClaimedJob(d, r) = Records!Ran(id, Records!Jobs, d, a)
    BY <1>2, ClaimIs
  <2>2. Records!ClaimedJob(d, r).db = a
    BY <2>1, RunIs
  <2>3. id \in JobIds
    BY <1>2, FirstIs
  <2>4. d.jobs \in [JobIds -> Job] /\ d.events \in SUBSET ReplyIds /\ d.version \in Versions
    BY IsHolding
  <2> HIDE DEF id
  <2>5. /\ box \in [JobIds -> Job]
        /\ \A j \in JobIds : /\ box[j].attempts >= d.jobs[j].attempts
                             /\ box[j].completed = d.jobs[j].completed
                             /\ box[j].reactions = d.jobs[j].reactions
                             /\ box[j].present = d.jobs[j].present
    BY <2>3, <2>4, TakenIs
  <2> HIDE DEF box
  <2>6. a \in Database /\ a.jobs = box /\ a.events = d.events
    BY <2>4, <2>5, HoldingIs
  <2> HIDE DEF a
  <2>7. Keeps(d, a)
    BY <2>4, <2>5, <2>6 DEF Keeps, Sound, JobIds
  <2>8. QED
    BY <2>2, <2>7
<1>3. QED
  BY <1>1, <1>2

LEMMA ClaimRepeats ==
  ASSUME NEW d \in Database, NEW e \in Database, NEW r, Agree(d, e, Records!Jobs)
  PROVE  Repeats(Records!ClaimedJob(d, r), Records!ClaimedJob(e, r), e)
<1>1. d.jobs = e.jobs
  BY AgreeOnJobs
<1>2. CASE Claimable(d.jobs, r) = {}
  <2>1. /\ Records!ClaimedJob(d, r) = Records!Ran("nothing", Records!Jobs, d, d)
        /\ Records!ClaimedJob(e, r) = Records!Ran("nothing", Records!Jobs, e, e)
    BY <1>1, <1>2, ClaimIs
  <2>2. QED
    BY <2>1, RunAlike, RepeatsNothing
<1>3. CASE Claimable(d.jobs, r) # {}
  <2> DEFINE id == First(d.jobs, r)
             box == Taken(d.jobs, id)
             a == Records!Holding(box, d.events, d.version)
             b == Records!Holding(box, e.events, e.version)
  <2>1. Records!ClaimedJob(d, r) = Records!Ran(id, Records!Jobs, d, a)
    BY <1>3, ClaimIs
  <2>2. Records!ClaimedJob(e, r) = Records!Ran(id, Records!Jobs, e, b)
    BY <1>1, <1>3, ClaimIs
  <2>3. id \in JobIds
    BY <1>3, FirstIs
  <2>4. d.jobs \in [JobIds -> Job]
    BY IsHolding
  <2> HIDE DEF id
  <2>5. box \in [JobIds -> Job]
    BY <2>3, <2>4, TakenIs
  <2> HIDE DEF box
  <2>6. b = Records!Merged(e, a, Records!Written(d, a))
    BY <1>1, <2>5, RepeatsJobs
  <2> HIDE DEF a, b
  <2>7. QED
    BY <2>1, <2>2, <2>6, RunAlike
<1>4. QED
  BY <1>2, <1>3

-----------------------------------------------------------------------------
(* A completion.  Whether the scan sees the completion written before it does *)
(* not matter: it looks for reaction jobs, and the job completed is a reply.  *)
Done(box, id) == [box EXCEPT ![id] = Records!JobCompleted(box[id])]
Finished(box, id, own) ==
  [j \in JobIds |-> IF j = id THEN Done(box, id)[j]
                    ELSE Records!WithReactions(IF own THEN Done(box, id) ELSE box, box[id].key)[j]]
Holds(d, id) == Records!ValidateNotification(d.jobs[id], d.jobs[id].attempts, Records!Now)

LEMMA CompletionIs ==
  ASSUME NEW d, NEW id, NEW own
  PROVE  Records!CompletedReply(d, id, own) =
           IF ~Holds(d, id)
             THEN Records!Ran("lost", {Records!JobName(id)}, d, d)
             ELSE Records!Ran("completed", Records!Jobs, d,
                    Records!Holding(Finished(d.jobs, id, own), d.events, d.version))
BY SameJobIds DEF Records!CompletedReply, Holds, Finished, Done

LEMMA DoneIs ==
  ASSUME NEW box \in [JobIds -> Job], NEW id \in ReplyIds
  PROVE  /\ Done(box, id) \in [JobIds -> Job]
         /\ Done(box, id)[id] = Records!JobCompleted(box[id])
         /\ \A j \in JobIds : j # id => Done(box, id)[j] = box[j]
<1>1. id \in JobIds
  BY DEF JobIds
<1>2. Records!JobCompleted(box[id]) \in Job
  BY <1>1, CompletedIs
<1>3. QED
  BY <1>1, <1>2 DEF Done

LEMMA FinishedAlike ==
  ASSUME NEW box \in [JobIds -> Job], NEW id \in ReplyIds, NEW own, NEW full
  PROVE  Finished(box, id, own) = Finished(box, id, full)
<1> DEFINE done == Done(box, id)
           k == box[id].key
<1>1. /\ done \in [JobIds -> Job] /\ \A j \in JobIds : j # id => done[j] = box[j]
      /\ k \in Keys
  BY DoneIs DEF JobIds, Job
<1>2. \A i \in ReactionIds : box[i] = done[i]
  BY <1>1, OutboxAssumption DEF JobIds
<1>3. \A i \in ReplyIds \cup ReactionIds : i \in JobIds
  BY DEF JobIds
<1> HIDE DEF done, k
<1>4. \A j \in JobIds : box[j] = done[j] =>
        Records!WithReactions(box, k)[j] = Records!WithReactions(done, k)[j]
  BY <1>1, <1>2, RequestsAlike
<1>5. ASSUME NEW sees, NEW j \in JobIds, j # id
      PROVE  Records!WithReactions(IF sees THEN done ELSE box, k)[j] = Records!WithReactions(done, k)[j]
  <2>1. Records!WithReactions(box, k)[j] = Records!WithReactions(done, k)[j]
    BY <1>1, <1>4, <1>5
  <2>2. CASE sees
    BY <2>2
  <2>3. CASE ~sees
    BY <2>1, <2>3
  <2>4. QED
    BY <2>2, <2>3
<1>6. QED
  BY <1>5 DEF Finished, done, k

LEMMA FinishedIs ==
  ASSUME NEW box \in [JobIds -> Job], NEW id \in ReplyIds, NEW own
  PROVE  /\ Finished(box, id, own) \in [JobIds -> Job]
         /\ Records!RoomFor(box, box[id].key) =>
              \A j \in ReplyIds : /\ Finished(box, id, own)[j].attempts = box[j].attempts
                                  /\ box[j].completed => Finished(box, id, own)[j].completed
                                  /\ Finished(box, id, own)[j].reactions = box[j].reactions
                                  /\ Finished(box, id, own)[j].present = box[j].present
<1> DEFINE done == Done(box, id)
           k == box[id].key
           asked == Records!WithReactions(box, k)
<1>1. /\ done \in [JobIds -> Job] /\ done[id] = Records!JobCompleted(box[id])
      /\ id \in JobIds /\ box[id] \in Job /\ k \in Keys
  BY DoneIs DEF JobIds, Job
<1>2. /\ asked \in [JobIds -> Job]
      /\ Records!RoomFor(box, k) => \A j \in ReplyIds : asked[j] = box[j]
  BY <1>1, RequestIs
<1>3. Finished(box, id, FALSE) = [j \in JobIds |-> IF j = id THEN done[j] ELSE asked[j]]
  BY DEF Finished
<1>4. Finished(box, id, own) = Finished(box, id, FALSE)
  BY FinishedAlike
<1>5. /\ done[id].attempts = box[id].attempts /\ done[id].present = box[id].present
      /\ done[id].reactions = box[id].reactions /\ done[id].completed
  BY <1>1, CompletedIs
<1> HIDE DEF done, asked
<1>6. Finished(box, id, own) \in [JobIds -> Job]
  BY <1>1, <1>2, <1>3, <1>4
<1>7. ASSUME Records!RoomFor(box, k), NEW j \in ReplyIds
      PROVE  Finished(box, id, own)[j] = IF j = id THEN done[id] ELSE box[j]
  BY <1>2, <1>3, <1>4, <1>7 DEF JobIds
<1>8. QED
  BY <1>5, <1>6, <1>7

LEMMA CompletionKeeps ==
  ASSUME NEW d \in Database, Sound(d), NEW id \in ReplyIds, NEW own,
         Records!RoomFor(d.jobs, d.jobs[id].key)
  PROVE  Keeps(d, Records!CompletedReply(d, id, own).db)
<1>1. CASE ~Holds(d, id)
  <2>1. Records!CompletedReply(d, id, own) = Records!Ran("lost", {Records!JobName(id)}, d, d)
    BY <1>1, CompletionIs
  <2>2. Records!CompletedReply(d, id, own).db = d
    BY <2>1, RunIs
  <2>3. QED
    BY <2>2, KeepsItself
<1>2. CASE Holds(d, id)
  <2> DEFINE box == Finished(d.jobs, id, own)
             a == Records!Holding(box, d.events, d.version)
  <2>1. Records!CompletedReply(d, id, own) = Records!Ran("completed", Records!Jobs, d, a)
    BY <1>2, CompletionIs
  <2>2. Records!CompletedReply(d, id, own).db = a
    BY <2>1, RunIs
  <2>3. d.jobs \in [JobIds -> Job] /\ d.events \in SUBSET ReplyIds /\ d.version \in Versions
    BY IsHolding
  <2>4. /\ box \in [JobIds -> Job]
        /\ \A j \in ReplyIds : /\ box[j].attempts = d.jobs[j].attempts
                               /\ d.jobs[j].completed => box[j].completed
                               /\ box[j].reactions = d.jobs[j].reactions
                               /\ box[j].present = d.jobs[j].present
    BY <2>3, FinishedIs
  <2> HIDE DEF box
  <2>5. a \in Database /\ a.jobs = box /\ a.events = d.events
    BY <2>3, <2>4, HoldingIs
  <2> HIDE DEF a
  <2>6. \A j \in ReplyIds : d.jobs[j].attempts \in Nat
    BY <2>3 DEF JobIds, Job
  <2>7. Keeps(d, a)
    BY <2>3, <2>4, <2>5, <2>6 DEF Keeps, Sound
  <2>8. QED
    BY <2>2, <2>7
<1>3. QED
  BY <1>1, <1>2

LEMMA CompletionRepeats ==
  ASSUME NEW d \in Database, NEW e \in Database, NEW id \in ReplyIds, NEW own, NEW full,
         NEW run, run = Records!CompletedReply(d, id, own),
         NEW again, again = Records!CompletedReply(e, id, full),
         Agree(d, e, run.reads)
  PROVE  /\ Repeats(run, again, e)
         /\ \/ again.db = e
            \/ d.jobs = e.jobs
<1>1. CASE ~Holds(d, id)
  <2>1. run = Records!Ran("lost", {Records!JobName(id)}, d, d)
    BY <1>1, CompletionIs
  <2>c. run.reads = {Records!JobName(id)}
    BY <2>1, RunIs
  <2>2. Agree(d, e, {Records!JobName(id)})
    BY <2>c
  <2>3. d.jobs[id] = e.jobs[id]
    BY <2>2 DEF Agree, JobIds
  <2>4. ~Holds(e, id)
    BY <1>1, <2>3 DEF Holds
  <2>5. again = Records!Ran("lost", {Records!JobName(id)}, e, e)
    BY <2>4, CompletionIs
  <2>6. again.db = e
    BY ONLY <2>5, RunIs
  <2>7. e = Records!Merged(e, d, Records!Written(d, d))
    BY RepeatsNothing
  <2>8. Repeats(run, again, e)
    BY <2>1, <2>5, <2>7, RunAlike
  <2>9. QED
    BY <2>6, <2>8
<1>2. CASE Holds(d, id)
  <2> DEFINE box == Finished(d.jobs, id, full)
             a == Records!Holding(box, d.events, d.version)
             b == Records!Holding(box, e.events, e.version)
  <2>1. d.jobs \in [JobIds -> Job]
    BY IsHolding
  <2>2. Finished(d.jobs, id, own) = box
    BY <2>1, FinishedAlike
  <2>3. run = Records!Ran("completed", Records!Jobs, d, a)
    BY <1>2, <2>2, CompletionIs
  <2> HIDE DEF a, b
  <2>c. run.reads = Records!Jobs
    BY <2>3, RunIs
  <2>4. Agree(d, e, Records!Jobs)
    BY <2>c
  <2>5. d.jobs = e.jobs
    BY <2>4, AgreeOnJobs
  <2>6. Holds(e, id)
    BY <1>2, <2>5 DEF Holds
  <2>7. again = Records!Ran("completed", Records!Jobs, e, b)
    BY <2>5, <2>6, CompletionIs DEF b
  <2>8. box \in [JobIds -> Job]
    BY <2>1, FinishedIs
  <2> HIDE DEF box
  <2>9. b = Records!Merged(e, a, Records!Written(d, a))
    BY <2>5, <2>8, RepeatsJobs DEF a, b
  <2>10. QED
    BY <2>3, <2>5, <2>7, <2>9, RunAlike
<1>3. QED
  BY <1>1, <1>2

-----------------------------------------------------------------------------
(* The schema's version. *)

LEMMA CheckedIs ==
  ASSUME NEW d
  PROVE  Records!Checked(d) =
           Records!Ran(IF d.version = "1" THEN "ready" ELSE "incompatible", {Records!Schema}, d, d)
BY DEF Records!Checked, Records!Compatible

LEMMA MigratedIs ==
  ASSUME NEW d
  PROVE  Records!Migrated(d) =
           IF d.version # "" THEN Records!Checked(d)
           ELSE Records!Ran("ready", {Records!Schema}, d, Records!Holding(d.jobs, d.events, "1"))
BY DEF Records!Migrated, Records!NoText

LEMMA CheckedKeeps ==
  ASSUME NEW d \in Database
  PROVE  Records!Checked(d).db = d
BY CheckedIs, RunIs

LEMMA CheckedRepeats ==
  ASSUME NEW d \in Database, NEW e \in Database, Agree(d, e, {Records!Schema})
  PROVE  Repeats(Records!Checked(d), Records!Checked(e), e)
<1> DEFINE answer == IF d.version = "1" THEN "ready" ELSE "incompatible"
<1>1. d.version = e.version
  BY DEF Agree
<1>2. Records!Checked(d) = Records!Ran(answer, {Records!Schema}, d, d)
  BY CheckedIs
<1>3. Records!Checked(e) = Records!Ran(answer, {Records!Schema}, e, e)
  BY <1>1, CheckedIs
<1>4. e = Records!Merged(e, d, Records!Written(d, d))
  BY RepeatsNothing
<1> HIDE DEF answer
<1>5. QED
  BY <1>2, <1>3, <1>4, RunAlike

LEMMA MigratedKeeps ==
  ASSUME NEW d \in Database, Sound(d)
  PROVE  Keeps(d, Records!Migrated(d).db)
<1>1. CASE d.version # ""
  <2>1. Records!Migrated(d).db = d
    BY <1>1, MigratedIs, CheckedKeeps
  <2>2. QED
    BY <2>1, KeepsItself
<1>2. CASE d.version = ""
  <2> DEFINE a == Records!Holding(d.jobs, d.events, "1")
  <2>1. Records!Migrated(d) = Records!Ran("ready", {Records!Schema}, d, a)
    BY <1>2, MigratedIs
  <2>2. d.jobs \in [JobIds -> Job] /\ d.events \in SUBSET ReplyIds /\ "1" \in Versions
    BY IsHolding DEF Versions
  <2>3. a \in Database /\ a.jobs = d.jobs /\ a.events = d.events
    BY <2>2, HoldingIs
  <2> HIDE DEF a
  <2>4. Records!Migrated(d).db = a
    BY <2>1, RunIs
  <2>5. Keeps(d, d)
    BY KeepsItself
  <2>6. Keeps(d, a)
    BY <2>3, <2>5 DEF Keeps, Sound
  <2>7. QED
    BY <2>4, <2>6
<1>3. QED
  BY <1>1, <1>2

LEMMA MigratedRepeats ==
  ASSUME NEW d \in Database, NEW e \in Database, Agree(d, e, {Records!Schema})
  PROVE  Repeats(Records!Migrated(d), Records!Migrated(e), e)
<1>1. d.version = e.version
  BY DEF Agree
<1>2. CASE d.version # ""
  <2>1. Records!Migrated(d) = Records!Checked(d) /\ Records!Migrated(e) = Records!Checked(e)
    BY <1>1, <1>2, MigratedIs
  <2>2. QED
    BY <2>1, CheckedRepeats
<1>3. CASE d.version = ""
  <2> DEFINE a == Records!Holding(d.jobs, d.events, "1")
             b == Records!Holding(e.jobs, e.events, "1")
  <2>1. /\ Records!Migrated(d) = Records!Ran("ready", {Records!Schema}, d, a)
        /\ Records!Migrated(e) = Records!Ran("ready", {Records!Schema}, e, b)
    BY <1>1, <1>3, MigratedIs
  <2>2. /\ d.jobs \in [JobIds -> Job] /\ d.events \in SUBSET ReplyIds /\ "1" \in Versions
        /\ e.jobs \in [JobIds -> Job] /\ e.events \in SUBSET ReplyIds
    BY IsHolding DEF Versions
  <2>3. /\ a \in Database /\ a.jobs = d.jobs /\ a.events = d.events /\ a.version = "1"
        /\ b \in Database /\ b.jobs = e.jobs /\ b.events = e.events /\ b.version = "1"
    BY <2>2, HoldingIs
  <2> HIDE DEF a, b
  <2>4. b.events = e.events \cup (a.events \ d.events)
    BY <2>3
  <2>5. \A id \in JobIds : b.jobs[id] = IF a.jobs[id] # d.jobs[id] THEN a.jobs[id] ELSE e.jobs[id]
    BY <2>3
  <2>6. b.version = IF a.version # d.version THEN a.version ELSE e.version
    BY <1>3, <2>3
  <2>7. a \in Database /\ b \in Database
    BY <2>3
  <2>8. b = Records!Merged(e, a, Records!Written(d, a))
    BY ONLY <2>4, <2>5, <2>6, <2>7, d \in Database, e \in Database, MergedOver
  <2>9. QED
    BY <2>1, <2>8, RunAlike
<1>4. QED
  BY <1>2, <1>3

-----------------------------------------------------------------------------
(* Any function. *)

LEMMA RunCases ==
  ASSUME NEW op \in Records!Operation, NEW d, NEW own
  PROVE  \/ op.do = "record" /\ op.id \in ReplyIds /\ Records!Run(op, d, own) = Records!Recorded(d, op.id)
         \/ op.do = "claim" /\ Records!Run(op, d, own) = Records!ClaimedJob(d, FALSE)
         \/ op.do = "reactions" /\ Records!Run(op, d, own) = Records!ClaimedJob(d, TRUE)
         \/ /\ op.do = "complete" /\ op.id \in ReplyIds
            /\ Records!Run(op, d, own) = Records!CompletedReply(d, op.id, own)
         \/ op.do = "check" /\ Records!Run(op, d, own) = Records!Checked(d)
         \/ op.do = "migrate" /\ Records!Run(op, d, own) = Records!Migrated(d)
<1>1. \/ op.do \in {"record", "complete"} /\ op.id \in ReplyIds
      \/ op.do \in {"claim", "reactions", "check", "migrate"}
  BY DEF Records!Operation
<1>2. QED
  BY <1>1 DEF Records!Run

(* A run answers something; what is an error wrote nothing. *)
Says(run, d) ==
  /\ run.writes = Records!Written(d, run.db)
  /\ run.answer # "" /\ (run.answer \in Errors => run.db = d)

LEMMA RecordedSays ==
  ASSUME NEW d \in Database, NEW id \in ReplyIds, NEW run, run = Records!Recorded(d, id)
  PROVE  Says(run, d) /\ run.reads = {Records!EventName(id)}
<1> DEFINE names == {Records!EventName(id)}
<1>1. ASSUME NEW a, NEW answer, answer \in {"recorded", "duplicate"}, run = Records!Ran(answer, names, d, a)
      PROVE  Says(run, d) /\ run.reads = names
  <2> HIDE DEF names
  <2>1. run.answer = answer /\ run.reads = names /\ run.db = a /\ run.writes = Records!Written(d, a)
    BY <1>1, RunIs
  <2>2. answer # "" /\ answer \notin Errors
    BY <1>1 DEF Errors
  <2>3. QED
    BY <2>1, <2>2 DEF Says
<1>2. CASE id \in d.events
  <2>1. run = Records!Ran("duplicate", names, d, d)
    BY <1>2, RecordedOld
  <2> HIDE DEF names
  <2>2. Says(run, d) /\ run.reads = names
    BY <1>1, <2>1
  <2>3. QED
    BY <2>2 DEF names
<1>3. CASE id \notin d.events
  <2>1. PICK a \in Database :
          /\ Records!Recorded(d, id) = Records!Ran("recorded", {Records!EventName(id)}, d, a)
          /\ a.jobs[id] = Reply /\ \A j \in JobIds : j # id => a.jobs[j] = d.jobs[j]
          /\ a.events = d.events \cup {id} /\ a.version = d.version
    BY <1>3, RecordedNew
  <2>2. run = Records!Ran("recorded", names, d, a)
    BY <2>1
  <2> HIDE DEF names
  <2>3. Says(run, d) /\ run.reads = names
    BY <1>1, <2>2
  <2>4. QED
    BY <2>3 DEF names
<1>4. QED
  BY <1>2, <1>3

LEMMA ClaimSays ==
  ASSUME NEW d \in Database, NEW r, NEW run, run = Records!ClaimedJob(d, r)
  PROVE  Says(run, d) /\ run.reads = Records!Jobs
<1>1. CASE Claimable(d.jobs, r) = {}
  <2>1. run = Records!Ran("nothing", Records!Jobs, d, d)
    BY <1>1, ClaimIs
  <2>2. /\ run.answer = "nothing" /\ run.reads = Records!Jobs /\ run.db = d
        /\ run.writes = Records!Written(d, d)
    BY <2>1, RunIs
  <2>3. QED
    BY <2>2 DEF Says
<1>2. CASE Claimable(d.jobs, r) # {}
  <2> DEFINE id == First(d.jobs, r)
             a == Records!Holding(Taken(d.jobs, id), d.events, d.version)
  <2>1. run = Records!Ran(id, Records!Jobs, d, a)
    BY <1>2, ClaimIs
  <2>2. id \in JobIds
    BY <1>2, FirstIs
  <2> HIDE DEF id, a
  <2>3. id # "" /\ id \notin Errors
    BY <2>2, BackendAssumption DEF Errors
  <2>4. run.answer = id /\ run.reads = Records!Jobs /\ run.db = a /\ run.writes = Records!Written(d, a)
    BY <2>1, RunIs
  <2>5. QED
    BY <2>3, <2>4 DEF Says
<1>3. QED
  BY <1>1, <1>2

LEMMA CompletionSays ==
  ASSUME NEW d \in Database, NEW id, NEW own, NEW run, run = Records!CompletedReply(d, id, own)
  PROVE  Says(run, d)
<1>1. CASE ~Holds(d, id)
  <2>1. run = Records!Ran("lost", {Records!JobName(id)}, d, d)
    BY <1>1, CompletionIs
  <2>2. run.answer = "lost" /\ run.db = d /\ run.writes = Records!Written(d, d)
    BY ONLY <2>1, RunIs
  <2>3. QED
    BY ONLY <2>2 DEF Says
<1>2. CASE Holds(d, id)
  <2> DEFINE a == Records!Holding(Finished(d.jobs, id, own), d.events, d.version)
  <2>1. run = Records!Ran("completed", Records!Jobs, d, a)
    BY <1>2, CompletionIs
  <2> HIDE DEF a
  <2>2. run.answer = "completed" /\ run.db = a /\ run.writes = Records!Written(d, a)
    BY ONLY <2>1, RunIs
  <2>3. QED
    BY ONLY <2>2 DEF Says, Errors
<1>3. QED
  BY <1>1, <1>2

LEMMA CheckedSays ==
  ASSUME NEW d \in Database, NEW run, run = Records!Checked(d)
  PROVE  Says(run, d) /\ run.reads = {Records!Schema} /\ run.db = d
<1> DEFINE answer == IF d.version = "1" THEN "ready" ELSE "incompatible"
<1>1. run = Records!Ran(answer, {Records!Schema}, d, d)
  BY CheckedIs
<1>2. answer # ""
  OBVIOUS
<1> HIDE DEF answer
<1>3. run.answer = answer /\ run.reads = {Records!Schema} /\ run.db = d /\ run.writes = Records!Written(d, d)
  BY <1>1, RunIs
<1>4. QED
  BY <1>2, <1>3 DEF Says

LEMMA MigratedSays ==
  ASSUME NEW d \in Database, NEW run, run = Records!Migrated(d)
  PROVE  Says(run, d) /\ run.reads = {Records!Schema}
<1>1. CASE d.version # ""
  <2>1. run = Records!Checked(d)
    BY <1>1, MigratedIs
  <2>2. QED
    BY <2>1, CheckedSays
<1>2. CASE d.version = ""
  <2> DEFINE a == Records!Holding(d.jobs, d.events, "1")
  <2>1. run = Records!Ran("ready", {Records!Schema}, d, a)
    BY <1>2, MigratedIs
  <2> HIDE DEF a
  <2>2. /\ run.answer = "ready" /\ run.reads = {Records!Schema} /\ run.db = a
        /\ run.writes = Records!Written(d, a)
    BY <2>1, RunIs
  <2>3. QED
    BY <2>2 DEF Says, Errors
<1>3. QED
  BY <1>1, <1>2

LEMMA RunSays ==
  ASSUME NEW d \in Database, NEW op \in Records!Operation, NEW own,
         NEW run, run = Records!Run(op, d, own)
  PROVE  Says(run, d) /\ (op.do = "check" => run.db = d)
<1>1. CASE op.do = "record" /\ op.id \in ReplyIds /\ run = Records!Recorded(d, op.id)
  BY <1>1, RecordedSays
<1>2. CASE op.do = "claim" /\ run = Records!ClaimedJob(d, FALSE)
  BY <1>2, ClaimSays
<1>3. CASE op.do = "reactions" /\ run = Records!ClaimedJob(d, TRUE)
  BY <1>3, ClaimSays
<1>4. CASE op.do = "complete" /\ op.id \in ReplyIds /\ run = Records!CompletedReply(d, op.id, own)
  BY <1>4, CompletionSays
<1>5. CASE op.do = "check" /\ run = Records!Checked(d)
  BY <1>5, CheckedSays
<1>6. CASE op.do = "migrate" /\ run = Records!Migrated(d)
  BY <1>6, MigratedSays
<1>7. QED
  BY <1>1, <1>2, <1>3, <1>4, <1>5, <1>6, RunCases

LEMMA RunKeeps ==
  ASSUME NEW d \in Database, Sound(d), NEW op \in Records!Operation, NEW own,
         Records!HasRoom(op, d), NEW run, run = Records!Run(op, d, own)
  PROVE  Keeps(d, run.db)
<1>1. CASE op.do = "record" /\ op.id \in ReplyIds /\ run = Records!Recorded(d, op.id)
  BY <1>1, RecordedKeeps
<1>2. CASE op.do = "claim" /\ run = Records!ClaimedJob(d, FALSE)
  BY <1>2, ClaimKeeps
<1>3. CASE op.do = "reactions" /\ run = Records!ClaimedJob(d, TRUE)
  BY <1>3, ClaimKeeps
<1>4. CASE op.do = "complete" /\ op.id \in ReplyIds /\ run = Records!CompletedReply(d, op.id, own)
  <2>1. Records!RoomFor(d.jobs, d.jobs[op.id].key)
    BY <1>4 DEF Records!HasRoom
  <2>2. QED
    BY <1>4, <2>1, CompletionKeeps
<1>5. CASE op.do = "check" /\ run = Records!Checked(d)
  BY <1>5, CheckedKeeps, KeepsItself
<1>6. CASE op.do = "migrate" /\ run = Records!Migrated(d)
  BY <1>6, MigratedKeeps
<1>7. QED
  BY <1>1, <1>2, <1>3, <1>4, <1>5, <1>6, RunCases

(* The first half of the argument: a function that is run again on a database  *)
(* with the records it read does what it did, and finds as much room.          *)
LEMMA Repeated ==
  ASSUME NEW d \in Database, NEW e \in Database, Sound(d),
         NEW op \in Records!Operation, NEW own, NEW full,
         NEW run, run = Records!Run(op, d, own), NEW again, again = Records!Run(op, e, full),
         Agree(d, e, run.reads)
  PROVE  /\ Repeats(run, again, e)
         /\ again.db = e \/ (Records!HasRoom(op, d) => Records!HasRoom(op, e))
<1>1. CASE op.do = "record" /\ op.id \in ReplyIds
  <2> DEFINE id == op.id
  <2>1. id \in ReplyIds /\ run = Records!Recorded(d, id) /\ again = Records!Recorded(e, id)
    BY <1>1, RunCases
  <2> HIDE DEF id
  <2>r. run.reads = {Records!EventName(id)}
    BY <2>1, RecordedSays
  <2>2. Agree(d, e, {Records!EventName(id)})
    BY <2>r
  <2>3. Repeats(run, again, e)
    BY <2>1, <2>2, RecordedRepeats
  <2>4. QED
    BY <1>1, <2>3 DEF Records!HasRoom
<1>2. ASSUME NEW r \in BOOLEAN, op.do \in {"claim", "reactions"},
             run = Records!ClaimedJob(d, r), again = Records!ClaimedJob(e, r)
      PROVE  /\ Repeats(run, again, e)
             /\ Records!HasRoom(op, e)
  <2>1. Agree(d, e, Records!Jobs)
    BY <1>2, ClaimSays
  <2>2. QED
    BY <1>2, <2>1, ClaimRepeats DEF Records!HasRoom
<1>3. CASE op.do = "claim"
  <2>1. run = Records!ClaimedJob(d, FALSE) /\ again = Records!ClaimedJob(e, FALSE)
    BY <1>3, RunCases
  <2>2. QED
    BY <1>2, <1>3, <2>1
<1>4. CASE op.do = "reactions"
  <2>1. run = Records!ClaimedJob(d, TRUE) /\ again = Records!ClaimedJob(e, TRUE)
    BY <1>4, RunCases
  <2>2. QED
    BY <1>2, <1>4, <2>1
<1>5. CASE op.do = "complete" /\ op.id \in ReplyIds
  <2> DEFINE id == op.id
  <2>1. /\ id \in ReplyIds /\ run = Records!CompletedReply(d, id, own)
        /\ again = Records!CompletedReply(e, id, full)
    BY <1>5, RunCases
  <2> HIDE DEF id
  <2>2. Repeats(run, again, e) /\ (again.db = e \/ d.jobs = e.jobs)
    BY <2>1, CompletionRepeats
  <2>3. QED
    BY <2>2 DEF Records!HasRoom
<1>6. CASE op.do = "check"
  <2>1. run = Records!Checked(d) /\ again = Records!Checked(e)
    BY <1>6, RunCases
  <2>2. Agree(d, e, {Records!Schema})
    BY <2>1, CheckedSays
  <2>3. QED
    BY <1>6, <2>1, <2>2, CheckedRepeats DEF Records!HasRoom
<1>7. CASE op.do = "migrate"
  <2>1. run = Records!Migrated(d) /\ again = Records!Migrated(e)
    BY <1>7, RunCases
  <2>2. Agree(d, e, {Records!Schema})
    BY <2>1, MigratedSays
  <2>3. QED
    BY <1>7, <2>1, <2>2, MigratedRepeats DEF Records!HasRoom
<1>8. QED
  BY <1>1, <1>3, <1>4, <1>5, <1>6, <1>7, RunCases

-----------------------------------------------------------------------------
(* Callers. *)

Shape(s) ==
  s = [op |-> s.op, answer |-> s.answer, pc |-> s.pc, attempt |-> s.attempt,
       result |-> s.result, run |-> s.run, stale |-> s.stale]

LEMMA CalledIs ==
  ASSUME NEW op, NEW t, t = [NoCaller EXCEPT !.op = op, !.pc = "ready"]
  PROVE  Shape(t) /\ t.op = op /\ t.answer = "" /\ t.pc = "ready"
<1>1. t = [op |-> op, answer |-> "", pc |-> "ready", attempt |-> 0,
           result |-> "", run |-> NoRun, stale |-> {}]
  BY DEF NoCaller
<1>2. QED
  BY ONLY <1>1 DEF Shape

LEMMA AnsweredIs ==
  ASSUME NEW s, Shape(s), NEW answer, NEW t, t = Answered(s, answer)
  PROVE  Shape(t) /\ t.op = s.op /\ t.answer = answer /\ t.pc = "idle"
<1> DEFINE o == s.op  a == s.answer  p == s.pc  n == s.attempt  r == s.result  u == s.run  e == s.stale
<1>1. s = [op |-> o, answer |-> a, pc |-> p, attempt |-> n, result |-> r, run |-> u, stale |-> e]
  BY DEF Shape
<1> HIDE DEF o, a, p, n, r, u, e
<1>2. t = [op |-> o, answer |-> answer, pc |-> "idle", attempt |-> n,
           result |-> r, run |-> NoRun, stale |-> {}]
  BY <1>1 DEF Answered
<1>3. QED
  BY <1>2 DEF Shape, o, a, p, n, r, u, e

Ending(s, result, run) ==
  [s EXCEPT !.pc = "committing", !.result = result, !.run = run, !.stale = {}]

LEMMA CommittingIs ==
  ASSUME NEW s, Shape(s), NEW result, NEW run, NEW t, t = Ending(s, result, run)
  PROVE  /\ Shape(t) /\ t.op = s.op /\ t.answer = s.answer /\ t.pc = "committing"
         /\ t.result = result /\ t.run = run /\ t.stale = {}
<1> DEFINE o == s.op  a == s.answer  p == s.pc  n == s.attempt  r == s.result  u == s.run  e == s.stale
<1>1. s = [op |-> o, answer |-> a, pc |-> p, attempt |-> n, result |-> r, run |-> u, stale |-> e]
  BY DEF Shape
<1> HIDE DEF o, a, p, n, r, u, e
<1>2. t = [op |-> o, answer |-> a, pc |-> "committing", attempt |-> n,
           result |-> result, run |-> run, stale |-> {}]
  BY <1>1 DEF Ending
<1>3. QED
  BY <1>2 DEF Shape, o, a, p, n, r, u, e

Retrying(s, pc, attempt) == [s EXCEPT !.pc = pc, !.attempt = attempt, !.run = NoRun, !.stale = {}]

LEMMA RetryIs ==
  ASSUME NEW s, Shape(s), NEW pc, NEW attempt, NEW t, t = Retrying(s, pc, attempt)
  PROVE  Shape(t) /\ t.op = s.op /\ t.answer = s.answer /\ t.pc = pc
<1> DEFINE o == s.op  a == s.answer  p == s.pc  n == s.attempt  r == s.result  u == s.run  e == s.stale
<1>1. s = [op |-> o, answer |-> a, pc |-> p, attempt |-> n, result |-> r, run |-> u, stale |-> e]
  BY DEF Shape
<1> HIDE DEF o, a, p, n, r, u, e
<1>2. t = [op |-> o, answer |-> a, pc |-> pc, attempt |-> attempt,
           result |-> r, run |-> NoRun, stale |-> {}]
  BY <1>1 DEF Retrying
<1>3. QED
  BY <1>2 DEF Shape, o, a, p, n, r, u, e

LEMMA WokenIs ==
  ASSUME NEW s, Shape(s), NEW t, t = [s EXCEPT !.pc = "ready"]
  PROVE  Shape(t) /\ t.op = s.op /\ t.answer = s.answer /\ t.pc = "ready"
<1> DEFINE o == s.op  a == s.answer  p == s.pc  n == s.attempt  r == s.result  u == s.run  e == s.stale
<1>1. s = [op |-> o, answer |-> a, pc |-> p, attempt |-> n, result |-> r, run |-> u, stale |-> e]
  BY DEF Shape
<1> HIDE DEF o, a, p, n, r, u, e
<1>2. t = [op |-> o, answer |-> a, pc |-> "ready", attempt |-> n, result |-> r, run |-> u, stale |-> e]
  BY <1>1
<1>3. QED
  BY <1>2 DEF Shape, o, a, p, n, r, u, e

LEMMA StaleIs ==
  ASSUME NEW s, Shape(s), NEW names, NEW t, t = [s EXCEPT !.stale = @ \cup names]
  PROVE  /\ Shape(t) /\ t.op = s.op /\ t.answer = s.answer /\ t.pc = s.pc
         /\ t.result = s.result /\ t.run = s.run /\ t.stale = s.stale \cup names
<1> DEFINE o == s.op  a == s.answer  p == s.pc  n == s.attempt  r == s.result  u == s.run  e == s.stale
<1>1. s = [op |-> o, answer |-> a, pc |-> p, attempt |-> n, result |-> r, run |-> u, stale |-> e]
  BY DEF Shape
<1> HIDE DEF o, a, p, n, r, u, e
<1>2. t = [op |-> o, answer |-> a, pc |-> p, attempt |-> n, result |-> r, run |-> u,
           stale |-> e \cup names]
  BY <1>1
<1>3. QED
  BY <1>2 DEF Shape, o, a, p, n, r, u, e

-----------------------------------------------------------------------------
(* The second half: what the run of an open transaction was made on differs   *)
(* from the database only in what was written since.                          *)
Current(s) ==
  \E own : \E d \in Database :
    /\ Sound(d) /\ Records!HasRoom(s.op, d) /\ s.run = Records!Run(s.op, d, own)
    /\ DifferIn(d, db, s.stale)

CallerInv(s) ==
  /\ Shape(s)
  /\ s.pc = "idle" => s.op = Records!NoCall \/ s.answer # ""
  /\ s.pc # "idle" => s.op \in Records!Operation /\ s.answer = ""
  /\ s.pc = "committing" => Current(s) /\ s.result = s.run.answer /\ s.run.answer \notin Errors

BackendInv ==
  /\ db \in Database /\ Sound(db)
  /\ caller = [c \in Callers |-> caller[c]]
  /\ \A c \in Callers : CallerInv(caller[c])

(* The calls that the refinement shows. *)
Call0(c) == [op |-> caller[c].op, answer |-> caller[c].answer]
Calls == [c \in Callers |-> Call0(c)]

LEMMA NoCallIs == Records!NoCall \notin Records!Operation
BY DEF Records!NoCall, Records!Operation

(* A step of one caller, with the others where they are. *)
LEMMA MoveIs ==
  ASSUME BackendInv, NEW c \in Callers, NEW s, Moves(c, s)
  PROVE  /\ caller' = [x \in Callers |-> caller'[x]]
         /\ caller'[c] = s /\ \A x \in Callers : x # c => caller'[x] = caller[x]
BY DEF BackendInv, Moves

LEMMA CallsOf ==
  ASSUME BackendInv, NEW c \in Callers, NEW answer,
         caller'[c].op = caller[c].op, caller'[c].answer = answer,
         \A x \in Callers : x # c => caller'[x].op = caller[x].op /\ caller'[x].answer = caller[x].answer
  PROVE  Calls' = [Calls EXCEPT ![c] = [@ EXCEPT !.answer = answer]]
<1> DEFINE new == [x \in Callers |-> [op |-> caller'[x].op, answer |-> caller'[x].answer]]
           ret == [Calls EXCEPT ![c] = [@ EXCEPT !.answer = answer]]
<1>1. Calls' = new
  BY DEF Calls, Call0
<1>2. Calls[c] = [op |-> caller[c].op, answer |-> caller[c].answer]
  BY DEF Calls, Call0
<1>3. [Calls[c] EXCEPT !.answer = answer] = [op |-> caller[c].op, answer |-> answer]
  BY <1>2
<1>4. ret = [x \in Callers |-> IF x = c THEN [op |-> caller[c].op, answer |-> answer] ELSE Calls[x]]
  BY <1>3 DEF Calls
<1>5. \A x \in Callers : Calls[x] = [op |-> caller[x].op, answer |-> caller[x].answer]
  BY DEF Calls, Call0
<1>6. \A x \in Callers :
        [op |-> caller'[x].op, answer |-> caller'[x].answer] =
          IF x = c THEN [op |-> caller[c].op, answer |-> answer] ELSE Calls[x]
  BY <1>5
<1>7. new = ret
  BY <1>4, <1>6
<1>8. QED
  BY <1>1, <1>7

LEMMA CallsSame ==
  ASSUME BackendInv,
         \A x \in Callers : caller'[x].op = caller[x].op /\ caller'[x].answer = caller[x].answer
  PROVE  Calls' = Calls
BY DEF Calls, Call0

LEMMA ReturnsIs ==
  ASSUME NEW c \in Callers, NEW answer
  PROVE  Records!Returns(c, answer) <=> Calls' = [Calls EXCEPT ![c] = [@ EXCEPT !.answer = answer]]
BY DEF Records!Returns, Calls, Call0

LEMMA WaitsIs ==
  ASSUME BackendInv, NEW c \in Callers
  PROVE  /\ caller[c].pc # "idle" => Records!Waits(c)
         /\ caller[c].pc = "idle" => ~Records!Waits(c)
<1>1. CallerInv(caller[c])
  BY DEF BackendInv
<1>2. Records!Waits(c) <=> caller[c].op # Records!NoCall /\ caller[c].answer = ""
  BY DEF Records!Waits
<1>3. QED
  BY <1>1, <1>2, NoCallIs DEF CallerInv

-----------------------------------------------------------------------------
(* Every step keeps the invariant and is a step of Records, or none; and every *)
(* step leaves the database, or keeps what Keeps says.                         *)
Refined == Records!RecordsNext \/ (db' = db /\ Calls' = Calls)
Preserved == db' = db \/ Keeps(db, db')

LEMMA PerformIs ==
  ASSUME NEW c \in Callers, Records!Waits(c),
         NEW again, again = Records!Run(caller[c].op, db, TRUE), db' = again.db,
         NEW answer, answer \in {again.answer, "error"}, Records!Returns(c, answer)
  PROVE  Refined
<1> DEFINE op == [x \in Callers |-> [op |-> caller[x].op, answer |-> caller[x].answer]][c].op
           run == Records!Run(op, db, TRUE)
<1>0. op = caller[c].op
  OBVIOUS
<1>1. run = again
  BY <1>0
<1>2. Records!Perform(c)
  <2>1. Records!Perform(c) <=>
          /\ Records!Waits(c) /\ db' = run.db
          /\ \E a \in {run.answer, "error"} : Records!Returns(c, a)
    BY DEF Records!Perform
  <2> HIDE DEF run
  <2>2. QED
    BY <1>1, <2>1
<1>3. QED
  BY <1>2 DEF Refined, Records!RecordsNext

LEMMA RefuseIs ==
  ASSUME NEW c \in Callers, Records!Waits(c), Records!Returns(c, "error"), db' = db
  PROVE  Refined
<1>1. Records!Refuse(c)
  BY DEF Records!Refuse
<1>2. QED
  BY <1>1 DEF Refined, Records!RecordsNext

LEMMA MoveKeepsInv ==
  ASSUME BackendInv, NEW c \in Callers, NEW s, Moves(c, s), db' = db, CallerInv(s)
  PROVE  BackendInv'
<1>1. /\ caller' = [x \in Callers |-> caller'[x]]
      /\ caller'[c] = s /\ \A x \in Callers : x # c => caller'[x] = caller[x]
  BY MoveIs
<1>2. ASSUME NEW x \in Callers PROVE CallerInv(caller[x])'
  <2>1. CallerInv(caller'[x])
    BY <1>1 DEF BackendInv
  <2>2. QED
    BY <2>1 DEF CallerInv, Current, Shape
<1>3. (db \in Database /\ Sound(db))'
  BY DEF BackendInv, Sound
<1>4. QED
  BY <1>1, <1>2, <1>3 DEF BackendInv

(* A call answers something. *)
Said(answer) == answer # ""

LEMMA AnswerStep ==
  ASSUME BackendInv, NEW c \in Callers, caller[c].pc # "idle", NEW answer, Said(answer),
         Answer(c, answer), db' = db
  PROVE  BackendInv' /\ Records!Waits(c) /\ Records!Returns(c, answer)
<1> DEFINE s == caller[c]
           t == Answered(s, answer)
<1>1. CallerInv(s) /\ Moves(c, t)
  BY DEF BackendInv, Answer
<1>t. t = Answered(s, answer) /\ Shape(s)
  BY <1>1 DEF CallerInv
<1> HIDE DEF s, t
<1>2. Shape(t) /\ t.op = s.op /\ t.answer = answer /\ t.pc = "idle"
  BY <1>t, AnsweredIs
<1>3. CallerInv(t)
  BY <1>2 DEF CallerInv, Said
<1>4. BackendInv'
  BY <1>1, <1>3, MoveKeepsInv
<1>5. caller'[c] = t /\ \A x \in Callers : x # c => caller'[x] = caller[x]
  BY <1>1, MoveIs
<1>6. Calls' = [Calls EXCEPT ![c] = [@ EXCEPT !.answer = answer]]
  BY <1>2, <1>5, CallsOf DEF s
<1>7. QED
  BY <1>4, <1>6, ReturnsIs, WaitsIs

LEMMA ErrorStep ==
  ASSUME BackendInv, NEW c \in Callers, caller[c].pc # "idle", Answer(c, "error"), db' = db
  PROVE  BackendInv' /\ Refined /\ Preserved
<1>1. Said("error")
  BY DEF Said
<1>2. BackendInv' /\ Records!Waits(c) /\ Records!Returns(c, "error")
  BY <1>1, AnswerStep
<1>3. QED
  BY <1>2, RefuseIs DEF Preserved

(* A caller that goes on with its call shows nothing. *)
LEMMA WorkStep ==
  ASSUME BackendInv, NEW c \in Callers, NEW t, Moves(c, t), db' = db, CallerInv(t),
         t.op = caller[c].op, t.answer = caller[c].answer
  PROVE  BackendInv' /\ Refined /\ Preserved
<1>1. caller'[c] = t /\ \A x \in Callers : x # c => caller'[x] = caller[x]
  BY MoveIs
<1>2. \A x \in Callers : caller'[x].op = caller[x].op /\ caller'[x].answer = caller[x].answer
  BY <1>1
<1>3. Calls' = Calls
  BY <1>2, CallsSame
<1>4. QED
  BY <1>3, MoveKeepsInv DEF Refined, Preserved

LEMMA CallStepIs ==
  ASSUME BackendInv, NEW c \in Callers, NEW op \in Records!Operation, Call(c, op)
  PROVE  BackendInv' /\ Refined /\ Preserved
<1> DEFINE t == [NoCaller EXCEPT !.op = op, !.pc = "ready"]
<1>1. caller[c].pc = "idle" /\ Moves(c, t) /\ db' = db
  BY DEF Call
<1>2. Shape(t) /\ t.op = op /\ t.answer = "" /\ t.pc = "ready"
  BY CalledIs
<1> HIDE DEF t
<1>3. CallerInv(t)
  BY <1>2 DEF CallerInv
<1>4. BackendInv'
  BY <1>1, <1>3, MoveKeepsInv
<1>5. caller'[c] = t /\ \A x \in Callers : x # c => caller'[x] = caller[x]
  BY <1>1, MoveIs
<1>6. ~Records!Waits(c)
  BY <1>1, WaitsIs
<1>7. Calls' = [Calls EXCEPT ![c] = [op |-> op, answer |-> ""]]
  <2>1. \A x \in Callers : [op |-> caller'[x].op, answer |-> caller'[x].answer] =
          IF x = c THEN [op |-> op, answer |-> ""] ELSE [op |-> caller[x].op, answer |-> caller[x].answer]
    BY <1>2, <1>5
  <2>2. QED
    BY <2>1 DEF Calls, Call0
<1>8. Records!Invoke(c, op)
  BY <1>1, <1>6, <1>7 DEF Records!Invoke, Calls, Call0
<1>9. QED
  BY <1>1, <1>4, <1>8 DEF Refined, Preserved, Records!RecordsNext

LEMMA AgreesWithItself ==
  ASSUME NEW d \in Database, NEW names
  PROVE  Agree(d, d, names) /\ DifferIn(d, d, names)
BY DEF Agree, DifferIn

LEMMA AttemptStep ==
  ASSUME BackendInv, NEW c \in Callers, Attempt(c)
  PROVE  BackendInv' /\ Refined /\ Preserved
<1> DEFINE s == caller[c]
           run == Records!Run(s.op, db, OwnWrites)
           again == Records!Run(s.op, db, TRUE)
           t == [s EXCEPT !.pc = "committing", !.result = run.answer, !.run = run, !.stale = {}]
<1>1. /\ s.pc = "ready" /\ Records!HasRoom(s.op, db) /\ db' = db
      /\ \/ (run.answer \in Errors \/ s.op.do = "check") /\ Answer(c, run.answer)
         \/ ~(run.answer \in Errors \/ s.op.do = "check") /\ Moves(c, t)
  BY DEF Attempt, Result
<1>2. /\ CallerInv(s) /\ db \in Database /\ Sound(db)
  BY DEF BackendInv
<1>3. Shape(s) /\ s.op \in Records!Operation /\ s.answer = ""
  BY <1>1, <1>2 DEF CallerInv
<1>op. PICK op \in Records!Operation : op = s.op
  BY <1>3
<1>r. run = Records!Run(op, db, OwnWrites) /\ again = Records!Run(op, db, TRUE)
  BY <1>op
<1>s. s = caller[c]
  OBVIOUS
<1>t. t = Ending(s, run.answer, run)
  BY DEF Ending
<1> HIDE DEF run, again, t, s
<1>4. Says(run, db) /\ (op.do = "check" => run.db = db)
  BY <1>2, <1>r, RunSays
<1>5. CASE (run.answer \in Errors \/ s.op.do = "check") /\ Answer(c, run.answer)
  <2>1. run.db = db /\ run.writes = Records!Written(db, db) /\ Said(run.answer)
    BY <1>4, <1>5, <1>op DEF Says, Said
  <2>2. Repeats(run, again, db)
    BY <1>2, <1>r, AgreesWithItself, Repeated
  <2>3. again.answer = run.answer /\ again.db = Records!Merged(db, db, Records!Written(db, db))
    BY <2>1, <2>2 DEF Repeats
  <2>4. again.db = db
    BY <1>2, <2>3, RepeatsNothing
  <2>5. again = Records!Run(caller[c].op, db, TRUE)
    BY <1>r, <1>op, <1>s
  <2>p. PICK answer : answer = run.answer
    OBVIOUS
  <2>6. answer \in {again.answer, "error"}
    BY <2>3, <2>p
  <2>7. Answer(c, answer) /\ Said(answer)
    BY <1>5, <2>1, <2>p
  <2>8. caller[c].pc # "idle" /\ db' = db
    BY <1>1, <1>s
  <2>9. BackendInv' /\ Records!Waits(c) /\ Records!Returns(c, answer)
    BY <2>7, <2>8, AnswerStep
  <2>10. db' = again.db
    BY <2>4, <2>8
  <2>11. Refined
    BY <2>5, <2>6, <2>9, <2>10, PerformIs
  <2>12. QED
    BY <2>8, <2>9, <2>11 DEF Preserved
<1>6. CASE ~(run.answer \in Errors \/ s.op.do = "check") /\ Moves(c, t)
  <2>s. Shape(s)
    BY <1>3
  <2>1. /\ Shape(t) /\ t.op = s.op /\ t.answer = s.answer /\ t.pc = "committing"
        /\ t.result = run.answer /\ t.run = run /\ t.stale = {}
    BY <1>t, <2>s, CommittingIs
  <2>2. DifferIn(db, db, t.stale)
    BY <1>2, AgreesWithItself
  <2>3. t.run = Records!Run(t.op, db, OwnWrites) /\ Records!HasRoom(t.op, db)
    BY <1>1, <1>r, <1>op, <2>1
  <2>4. Current(t)
    BY <1>2, <2>2, <2>3 DEF Current
  <2>5. CallerInv(t)
    BY <1>3, <1>6, <2>1, <2>4 DEF CallerInv
  <2>6. t.op = caller[c].op /\ t.answer = caller[c].answer
    BY <1>s, <2>1
  <2>7. QED
    BY <1>1, <1>6, <2>5, <2>6, WorkStep
<1>7. QED
  BY <1>1, <1>5, <1>6

LEMMA ConflictStep ==
  ASSUME BackendInv, NEW c \in Callers, Conflict(c)
  PROVE  BackendInv' /\ Refined /\ Preserved
<1> DEFINE s == caller[c]
           pc == IF driver = "spanner" THEN "ready" ELSE "waiting"
           attempt == IF s.attempt < MaxRetries THEN s.attempt + 1 ELSE s.attempt
           t == [s EXCEPT !.pc = pc, !.attempt = attempt, !.run = NoRun, !.stale = {}]
<1>1. s.pc = "committing" /\ db' = db
  BY DEF Conflict
<1>2. Moves(c, t) \/ Answer(c, "error")
  BY DEF Conflict
<1>3. Shape(s) /\ s.op \in Records!Operation /\ s.answer = ""
  BY <1>1 DEF BackendInv, CallerInv
<1>4. CASE Moves(c, t)
  <2>1. t = Retrying(s, pc, attempt)
    BY DEF Retrying
  <2>2. pc # "idle" /\ pc # "committing"
    OBVIOUS
  <2> HIDE DEF pc, attempt, t
  <2>s. Shape(s)
    BY <1>3
  <2>3. Shape(t) /\ t.op = s.op /\ t.answer = s.answer /\ t.pc = pc
    BY <2>1, <2>s, RetryIs
  <2>4. CallerInv(t)
    BY <1>3, <2>2, <2>3 DEF CallerInv
  <2>5. QED
    BY <1>1, <1>4, <2>3, <2>4, WorkStep
<1>5. CASE Answer(c, "error")
  BY <1>1, <1>5, ErrorStep
<1>6. QED
  BY <1>2, <1>4, <1>5

LEMMA WakeStep ==
  ASSUME BackendInv, NEW c \in Callers, Wake(c)
  PROVE  BackendInv' /\ Refined /\ Preserved
<1> DEFINE s == caller[c]
           t == [s EXCEPT !.pc = "ready"]
<1>1. s.pc = "waiting" /\ Moves(c, t) /\ db' = db
  BY DEF Wake
<1>2. Shape(s) /\ s.op \in Records!Operation /\ s.answer = ""
  BY <1>1 DEF BackendInv, CallerInv
<1>3. Shape(t) /\ t.op = s.op /\ t.answer = s.answer /\ t.pc = "ready"
  BY <1>2, WokenIs
<1> HIDE DEF t
<1>4. CallerInv(t)
  BY <1>2, <1>3 DEF CallerInv
<1>5. QED
  BY <1>1, <1>3, <1>4, WorkStep

LEMMA BreakStep ==
  ASSUME BackendInv, NEW c \in Callers, Break(c)
  PROVE  BackendInv' /\ Refined /\ Preserved
BY ErrorStep DEF Break

LEMMA SameCaller ==
  ASSUME BackendInv, caller' = caller, db' = db
  PROVE  BackendInv' /\ Refined /\ Preserved
<1>1. Calls' = Calls
  BY DEF Calls, Call0
<1>2. BackendInv'
  BY DEF BackendInv, CallerInv, Current, Shape, Sound
<1>3. QED
  BY <1>1, <1>2 DEF Refined, Preserved

LEMMA TableStep ==
  ASSUME BackendInv, NEW c \in Callers, CreateTable(c) \/ NoTable(c)
  PROVE  BackendInv' /\ Refined /\ Preserved
<1>1. caller[c].pc # "idle" /\ db' = db /\ (caller' = caller \/ Answer(c, "error"))
  BY DEF CreateTable, NoTable
<1>2. QED
  BY <1>1, ErrorStep, SameCaller

LEMMA DifferAfter ==
  ASSUME NEW d \in Database, NEW e \in Database, NEW a \in Database, NEW w, NEW names,
         DifferIn(d, e, names)
  PROVE  DifferIn(d, Records!Merged(e, a, w), names \cup w)
<1> DEFINE n == Records!Merged(e, a, w)
<1>1. /\ n \in Database
      /\ \A id \in JobIds : n.jobs[id] = IF Records!JobName(id) \in w THEN a.jobs[id] ELSE e.jobs[id]
      /\ \A id \in ReplyIds : id \in n.events <=> id \in e.events \/ Records!EventName(id) \in w
      /\ n.version = IF Records!Schema \in w THEN a.version ELSE e.version
  BY MergedIs
<1> HIDE DEF n
<1>2. DifferIn(d, n, names \cup w)
  BY <1>1 DEF DifferIn
<1>3. QED
  BY <1>2 DEF n

(* A run that nobody overwrote is the run there is on the database by now. *)
LEMMA CommitsCurrent ==
  ASSUME db \in Database, Sound(db), NEW s, s.op \in Records!Operation, Current(s), ~Overwritten(s),
         NEW again, again = Records!Run(s.op, db, TRUE)
  PROVE  /\ again.db = Records!Merged(db, s.run.db, s.run.writes)
         /\ again.answer = s.run.answer /\ Said(s.run.answer)
         /\ s.run.db \in Database /\ again.db \in Database
         /\ again.db = db \/ Keeps(db, again.db)
<1>1. PICK own : \E d \in Database :
        /\ Sound(d) /\ Records!HasRoom(s.op, d) /\ s.run = Records!Run(s.op, d, own)
        /\ DifferIn(d, db, s.stale)
  BY DEF Current
<1>2. PICK d \in Database :
        /\ Sound(d) /\ Records!HasRoom(s.op, d) /\ s.run = Records!Run(s.op, d, own)
        /\ DifferIn(d, db, s.stale)
  BY <1>1
<1>3. PICK op \in Records!Operation : op = s.op
  OBVIOUS
<1>4. PICK run : run = s.run
  OBVIOUS
<1>5. run = Records!Run(op, d, own) /\ again = Records!Run(op, db, TRUE) /\ Records!HasRoom(op, d)
  BY <1>2, <1>3, <1>4
<1>6. Agree(d, db, run.reads)
  <2>1. \A n \in run.reads : n \notin s.stale
    BY <1>4 DEF Overwritten
  <2>2. DifferIn(d, db, s.stale)
    BY <1>2
  <2>3. QED
    BY <2>1, <2>2 DEF Agree, DifferIn
<1>7. Sound(d)
  BY <1>2
<1>8. /\ Repeats(run, again, db)
      /\ again.db = db \/ (Records!HasRoom(op, d) => Records!HasRoom(op, db))
  BY <1>5, <1>6, <1>7, Repeated
<1>9. Keeps(d, run.db)
  BY <1>5, <1>7, RunKeeps
<1>10. Says(run, d)
  BY <1>5, RunSays
<1>11. ASSUME Records!HasRoom(op, db) PROVE Keeps(db, again.db)
  BY <1>5, <1>11, RunKeeps
<1>12. again.db = db \/ Keeps(db, again.db)
  BY <1>5, <1>8, <1>11
<1>13. again.db \in Database /\ run.db \in Database
  BY <1>9, <1>12 DEF Keeps
<1>14. Said(run.answer)
  BY <1>10 DEF Says, Said
<1>15. again.answer = run.answer /\ again.db = Records!Merged(db, run.db, run.writes)
  BY <1>8 DEF Repeats
<1>16. QED
  BY <1>4, <1>12, <1>13, <1>14, <1>15

LEMMA CommitStep ==
  ASSUME BackendInv, NEW c \in Callers, Commit(c)
  PROVE  BackendInv' /\ Refined /\ Preserved
<1>1. PICK s : s = caller[c]
  OBVIOUS
<1>2. PICK again : again = Records!Run(s.op, db, TRUE)
  OBVIOUS
<1>3. /\ s.pc = "committing" /\ ~Overwritten(s)
      /\ db' = Records!Merged(db, s.run.db, s.run.writes)
  BY <1>1 DEF Commit
<1>4. PICK answer \in {s.result, "error"} :
        caller' = [d \in Callers |->
          IF d = c THEN Answered(s, answer)
          ELSE IF d \in Held THEN [caller[d] EXCEPT !.stale = @ \cup s.run.writes] ELSE caller[d]]
  BY <1>1 DEF Commit
<1>5. CallerInv(s) /\ db \in Database /\ Sound(db)
  BY <1>1 DEF BackendInv
<1>6. Shape(s) /\ s.op \in Records!Operation /\ Current(s) /\ s.result = s.run.answer
  BY <1>3, <1>5 DEF CallerInv
<1>7. /\ again.db = Records!Merged(db, s.run.db, s.run.writes)
      /\ again.answer = s.run.answer /\ Said(s.run.answer)
      /\ s.run.db \in Database /\ again.db \in Database
      /\ again.db = db \/ Keeps(db, again.db)
  BY <1>2, <1>3, <1>5, <1>6, CommitsCurrent
<1>8. db' = again.db /\ Preserved
  BY <1>3, <1>7 DEF Preserved
<1>9. PICK w : w = s.run.writes
  OBVIOUS
<1>10. /\ caller' = [x \in Callers |-> caller'[x]]
       /\ caller'[c] = Answered(s, answer)
       /\ \A x \in Callers : x # c => caller'[x] =
            IF x \in Held THEN [caller[x] EXCEPT !.stale = @ \cup w] ELSE caller[x]
  BY <1>4, <1>9
<1>11. answer = again.answer \/ answer = "error"
  BY <1>4, <1>6, <1>7
<1>12. Said(answer)
  BY <1>7, <1>11 DEF Said
<1>13. /\ Shape(caller'[c]) /\ caller'[c].op = s.op /\ caller'[c].answer = answer
       /\ caller'[c].pc = "idle"
  BY <1>6, <1>10, AnsweredIs
<1>14. ASSUME NEW x \in Callers, x # c
       PROVE  /\ caller'[x].op = caller[x].op /\ caller'[x].answer = caller[x].answer
              /\ CallerInv(caller[x])'
  <2>1. CallerInv(caller[x])
    BY DEF BackendInv
  <2>2. Shape(caller[x])
    BY <2>1 DEF CallerInv
  <2>3. CASE x \in Held
    <3>1. PICK t : t = [caller[x] EXCEPT !.stale = @ \cup w]
      OBVIOUS
    <3>2. PICK u : u = caller[x]
      OBVIOUS
    <3>3. /\ Shape(t) /\ t.op = u.op /\ t.answer = u.answer /\ t.pc = u.pc
          /\ t.result = u.result /\ t.run = u.run /\ t.stale = u.stale \cup w
      BY <2>2, <3>1, <3>2, StaleIs
    <3>4. caller'[x] = t
      BY <1>10, <1>14, <2>3, <3>1
    <3>5. Current(u) /\ CallerInv(u) /\ u.pc = "committing"
      BY <2>1, <2>3, <3>2 DEF CallerInv, Held
    <3>6. PICK own : \E d \in Database :
            /\ Sound(d) /\ Records!HasRoom(u.op, d) /\ u.run = Records!Run(u.op, d, own)
            /\ DifferIn(d, db, u.stale)
      BY <3>5 DEF Current
    <3>7. PICK d \in Database :
            /\ Sound(d) /\ Records!HasRoom(u.op, d) /\ u.run = Records!Run(u.op, d, own)
            /\ DifferIn(d, db, u.stale)
      BY <3>6
    <3>8. DifferIn(d, db', u.stale \cup w)
      BY <1>3, <1>5, <1>7, <1>9, <3>7, DifferAfter
    <3>9. /\ Sound(d) /\ Records!HasRoom(t.op, d) /\ t.run = Records!Run(t.op, d, own)
          /\ DifferIn(d, db', t.stale)
      BY <3>3, <3>7, <3>8
    <3>10. Current(caller[x])'
      BY <3>4, <3>9 DEF Current
    <3>11. CallerInv(caller[x])'
      BY <3>3, <3>4, <3>5, <3>10 DEF CallerInv, Shape
    <3>12. QED
      BY <3>2, <3>3, <3>4, <3>11
  <2>4. CASE x \notin Held
    <3>1. caller'[x] = caller[x]
      BY <1>10, <1>14, <2>4
    <3>2. caller[x].pc # "committing"
      BY <2>4 DEF Held
    <3>3. CallerInv(caller[x])'
      BY <2>1, <3>1, <3>2 DEF CallerInv, Shape
    <3>4. QED
      BY <3>1, <3>3
  <2>5. QED
    BY <2>3, <2>4
<1>15. CallerInv(caller[c])'
  BY <1>12, <1>13 DEF CallerInv, Shape, Said
<1>16. (db \in Database /\ Sound(db))'
  <2>1. db' \in Database
    BY <1>7, <1>8
  <2>2. Sound(db')
    BY <1>5, <1>7, <1>8 DEF Keeps
  <2>3. QED
    BY <2>1, <2>2 DEF Sound
<1>17. BackendInv'
  BY <1>10, <1>14, <1>15, <1>16 DEF BackendInv
<1>18. caller'[c].op = caller[c].op /\ caller'[c].answer = answer
  BY <1>1, <1>13
<1>19. \A x \in Callers : x # c => caller'[x].op = caller[x].op /\ caller'[x].answer = caller[x].answer
  BY <1>14
<1>20. Calls' = [Calls EXCEPT ![c] = [@ EXCEPT !.answer = answer]]
  BY <1>18, <1>19, CallsOf
<1>21. Records!Returns(c, answer)
  BY <1>20, ReturnsIs
<1>22. Records!Waits(c)
  <2>1. caller[c].pc # "idle"
    BY <1>1, <1>3
  <2>2. QED
    BY <2>1, WaitsIs
<1>23. answer \in {again.answer, "error"} /\ again = Records!Run(caller[c].op, db, TRUE)
  BY <1>1, <1>2, <1>11
<1>24. Refined
  BY <1>8, <1>21, <1>22, <1>23, PerformIs
<1>25. QED
  BY <1>8, <1>17, <1>24

-----------------------------------------------------------------------------
LEMMA InitIs == BackendInit => BackendInv /\ Records!RecordsInit
<1> SUFFICES ASSUME BackendInit PROVE BackendInv /\ Records!RecordsInit
  OBVIOUS
<1>1. caller = [c \in Callers |-> NoCaller] /\ Records!RecordsInit
  BY DEF BackendInit
<1>2. PICK ver \in Versions : db = Records!Holding([id \in JobIds |-> Records!NoJob], {}, ver)
  BY <1>1, SameJobIds DEF Records!RecordsInit, Records!NoText, Versions
<1>3. Records!NoJob \in Job /\ ~Records!NoJob.present /\ ~Records!NoJob.reactions
  <2>1. Records!SomeKey \in Keys
    BY OutboxAssumption DEF Records!SomeKey
  <2>2. QED
    BY <2>1 DEF Records!NoJob, Records!NewJob, Job
<1>4. PICK jobs : jobs = [id \in JobIds |-> Records!NoJob]
  OBVIOUS
<1>5. jobs \in [JobIds -> Job] /\ {} \in SUBSET ReplyIds
  BY <1>3, <1>4
<1>6. db = Records!Holding(jobs, {}, ver)
  BY <1>2, <1>4
<1>7. db \in Database /\ db.jobs = jobs
  BY <1>5, <1>6, HoldingIs
<1>8. Sound(db)
  BY <1>3, <1>4, <1>7 DEF Sound, JobIds
<1>9. ASSUME NEW c \in Callers PROVE CallerInv(caller[c])
  <2>1. caller[c] = NoCaller
    BY <1>1
  <2>2. NoCaller = [op |-> Records!NoCall, answer |-> "", pc |-> "idle", attempt |-> 0,
                    result |-> "", run |-> NoRun, stale |-> {}]
    BY DEF NoCaller
  <2>3. Shape(NoCaller) /\ NoCaller.op = Records!NoCall /\ NoCaller.pc = "idle"
    BY ONLY <2>2 DEF Shape
  <2>4. QED
    BY <2>1, <2>3 DEF CallerInv
<1>10. QED
  BY <1>1, <1>7, <1>8, <1>9 DEF BackendInv

LEMMA StepIs ==
  ASSUME BackendInv, [BackendNext]_vars
  PROVE  BackendInv' /\ Refined /\ Preserved
<1>1. CASE UNCHANGED vars
  BY <1>1, SameCaller DEF vars
<1>2. ASSUME NEW c \in Callers, NEW op \in Records!Operation, Call(c, op)
      PROVE  BackendInv' /\ Refined /\ Preserved
  BY <1>2, CallStepIs
<1>3. ASSUME NEW c \in Callers, CallStep(c)
      PROVE  BackendInv' /\ Refined /\ Preserved
  BY <1>3, AttemptStep, CommitStep, ConflictStep, WakeStep, TableStep DEF CallStep
<1>4. ASSUME NEW c \in Callers, Break(c)
      PROVE  BackendInv' /\ Refined /\ Preserved
  BY <1>4, BreakStep
<1>5. QED
  BY <1>1, <1>2, <1>3, <1>4 DEF BackendNext

LEMMA BackendSafe == BackendSpec => []BackendInv
<1>1. BackendInit => BackendInv
  BY InitIs
<1>2. BackendInv /\ [BackendNext]_vars => BackendInv'
  BY StepIs
<1>3. QED
  BY <1>1, <1>2, PTL DEF BackendSpec

(* Whatever the driver and however the transactions of Update overlap,      *)
(* conflict and are retried (internal/store/postgres, sqlite and spanner),  *)
(* a call is one step on the records and answers what that step found, or   *)
(* ends in an error: the coordinator may be written as if calls took turns. *)
THEOREM BackendImplementsRecords == BackendSpec => ImplementsRecords
<1>1. BackendInit => Records!RecordsInit
  BY InitIs
<1>2. BackendInv /\ [BackendNext]_vars =>
        [Records!RecordsNext]_<<db, [c \in Callers |-> [op |-> caller[c].op, answer |-> caller[c].answer]]>>
  BY StepIs DEF Refined, Calls, Call0
<1>3. QED
  BY <1>1, <1>2, BackendSafe, PTL DEF BackendSpec, ImplementsRecords, Records!RecordsSpec

(* An event that is recorded stays answered by the one job it has (Record,  *)
(* internal/store/coordinator.go): no commit, of any driver and after any   *)
(* lost answer, sets its attempts back or its completion aside.             *)
THEOREM EventsAnsweredOnce == BackendSpec => AnsweredOnce
<1> DEFINE Step == \A id \in db.events :
                     /\ db'.jobs[id].attempts >= db.jobs[id].attempts
                     /\ db.jobs[id].completed => db'.jobs[id].completed
<1>1. BackendInv /\ [BackendNext]_vars => [Step]_vars
  <2> SUFFICES ASSUME BackendInv, [BackendNext]_vars PROVE Step
    OBVIOUS
  <2>1. CASE db' = db
    <3>1. Keeps(db, db)
      BY KeepsItself DEF BackendInv
    <3>2. QED
      BY <2>1, <3>1 DEF Keeps
  <2>2. CASE Keeps(db, db')
    BY <2>2 DEF Keeps
  <2>3. QED
    BY <2>1, <2>2, StepIs DEF Preserved
<1>2. QED
  BY <1>1, BackendSafe, PTL DEF BackendSpec, AnsweredOnce
=============================================================================
