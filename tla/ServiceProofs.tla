---------------------------- MODULE ServiceProofs ----------------------------
(***************************************************************************)
(* Proofs about Service, for any deliveries, documents, handlers, workers  *)
(* and faults: what stopping promises, what loading means, and what an     *)
(* acknowledgement says.  Each property has the inductive invariant it     *)
(* needs: StopInv, ConfigInv, CleanInv, AckInv and SummaryInv.             *)
(*                                                                         *)
(* The events that handlers record are not typed: what is assumed of them  *)
(* is in IngressAssumption, that Slack gives an event an ID of its own.    *)
(***************************************************************************)
EXTENDS Service, FiniteSetTheorems, TLAPS
-----------------------------------------------------------------------------
Places == {"off", "polling", "delivering", "delivered", "claiming", "claimed", "reacting"}

(* Stopping.  A worker that claims after stop closed is at its last claim:  *)
(* it holds what it claimed, or is about to look at stop.                   *)

StopInv ==
  /\ late \in [Workers -> Nat] /\ worker \in [Workers -> Places]
  /\ DOMAIN held = Workers
  /\ \A w \in Workers :
       /\ held[w] # NoWork => worker[w] \in DOMAIN Takes
       /\ phase \notin Running => worker[w] = "off" /\ held[w] = NoWork
       /\ ~Stopped => late[w] = 0
       /\ late[w] # 0 => late[w] = 1 /\ (held[w] # NoWork \/ worker[w] \notin DOMAIN Takes)

LEMMA LoopFacts ==
  /\ DOMAIN Takes = {"delivering", "claiming", "reacting"}
  /\ DOMAIN Checks = {"polling", "delivered", "claimed"}
  /\ \A at \in DOMAIN Takes : Takes[at] \in Places /\ Takes[at] \notin DOMAIN Takes
  /\ \A at \in DOMAIN Checks : Checks[at] \in Places
  /\ "off" \notin DOMAIN Takes /\ "polling" \notin DOMAIN Takes
  /\ "off" \notin DOMAIN Checks
<1>1. DOMAIN Takes = {"delivering", "claiming", "reacting"}
  BY DEF Takes
<1>2. DOMAIN Checks = {"polling", "delivered", "claimed"}
  BY DEF Checks
<1>3. /\ Takes["delivering"] = "delivered" /\ Takes["claiming"] = "claimed"
      /\ Takes["reacting"] = "polling"
  BY DEF Takes
<1>4. /\ Checks["polling"] = "delivering" /\ Checks["delivered"] = "claiming"
      /\ Checks["claimed"] = "reacting"
  BY DEF Checks
<1>5. QED
  BY <1>1, <1>2, <1>3, <1>4 DEF Places

LEMMA HeldKinds ==
  /\ \A id, token : [kind |-> "job", id |-> id, token |-> token] # NoWork
  /\ \A lease : [kind |-> "thread", lease |-> lease] # NoWork
<1>1. \A id, token : [kind |-> "job", id |-> id, token |-> token].kind # NoWork.kind
  BY DEF NoWork
<1>2. \A lease : [kind |-> "thread", lease |-> lease].kind # NoWork.kind
  BY DEF NoWork
<1>3. QED
  BY <1>1, <1>2

(* A process that ends, or is not serving, has neither workers nor work. *)
LEMMA NobodyStops ==
  ASSUME late' = [w \in Workers |-> 0], worker' = Off, held' = Idle
  PROVE  StopInv'
<1>1. late' \in [Workers -> Nat] /\ worker' \in [Workers -> Places] /\ DOMAIN held' = Workers
  BY DEF Off, Idle, Places
<1>2. ASSUME NEW w \in Workers PROVE late'[w] = 0 /\ worker'[w] = "off" /\ held'[w] = NoWork
  BY DEF Off, Idle
<1>3. QED
  BY <1>1, <1>2 DEF StopInv

LEMMA StopLook ==
  ASSUME StopInv, NEW w \in Workers, Look(w)
  PROVE  StopInv'
<1>1. /\ worker[w] \in DOMAIN Checks /\ UNCHANGED <<phase, held, late>>
      /\ worker' = [worker EXCEPT ![w] = IF ~Stopped THEN Checks[worker[w]] ELSE "off"]
  BY DEF Look, MayClaim
<1>2. worker' \in [Workers -> Places]
  <2>1. PICK at \in Places : at = IF ~Stopped THEN Checks[worker[w]] ELSE "off"
    BY <1>1, LoopFacts DEF Places
  <2>2. QED
    BY <1>1, <2>1 DEF StopInv
<1>3. Stopped' = Stopped /\ phase \in Running
  BY <1>1, LoopFacts DEF Stopped, StopInv
<1>4. held[w] = NoWork
  BY <1>1, LoopFacts DEF StopInv
<1>5. ~Stopped \/ worker'[w] \notin DOMAIN Takes
  BY <1>1, LoopFacts DEF StopInv
<1>6. \A v \in Workers \ {w} : worker'[v] = worker[v]
  BY <1>1 DEF StopInv
<1>7. QED
  BY <1>1, <1>2, <1>3, <1>4, <1>5, <1>6 DEF StopInv

LEMMA StopTake ==
  ASSUME StopInv, NEW w \in Workers, Take(w)
  PROVE  StopInv'
<1>1. worker[w] \in DOMAIN Takes /\ held[w] = NoWork /\ UNCHANGED <<phase, worker>>
  BY DEF Take
<1>2. PICK what : Holds(w, what) /\ what # NoWork
  <2>1. ASSUME NEW id, Holds(w, [kind |-> "job", id |-> id, token |-> outbox[id].attempts + 1])
        PROVE  \E what : Holds(w, what) /\ what # NoWork
    BY <2>1, HeldKinds
  <2>2. ASSUME NEW k, Holds(w, [kind |-> "thread", lease |-> NewLease(k)])
        PROVE  \E what : Holds(w, what) /\ what # NoWork
    BY <2>2, HeldKinds
  <2>3. QED
    BY <2>1, <2>2 DEF Take
<1>3. /\ held' = [held EXCEPT ![w] = what]
      /\ late' = [late EXCEPT ![w] = IF Stopped THEN late[w] + 1 ELSE late[w]]
  BY <1>2 DEF Holds
<1>4. late[w] = 0 /\ Stopped' = Stopped /\ phase \in Running
  BY <1>1, LoopFacts DEF StopInv, Stopped
<1>5. /\ DOMAIN held' = Workers /\ held'[w] = what
      /\ \A v \in Workers \ {w} : held'[v] = held[v] /\ late'[v] = late[v]
      /\ late' \in [Workers -> Nat] /\ late'[w] = IF Stopped THEN 1 ELSE 0
  BY <1>3, <1>4 DEF StopInv
<1>6. QED
  BY <1>1, <1>2, <1>4, <1>5 DEF StopInv

(* The worker goes on to look at stop, with nothing held. *)
LEMMA StopMoves ==
  ASSUME StopInv, NEW w \in Workers, worker[w] \in DOMAIN Takes,
         worker' = [worker EXCEPT ![w] = Takes[worker[w]]],
         DOMAIN held' = Workers, held'[w] = NoWork,
         \A v \in Workers \ {w} : held'[v] = held[v], UNCHANGED <<phase, late>>
  PROVE  StopInv'
<1>0. phase \in Running
  BY LoopFacts DEF StopInv
<1>1. /\ worker' \in [Workers -> Places] /\ worker'[w] \notin DOMAIN Takes
      /\ \A v \in Workers \ {w} : worker'[v] = worker[v]
      /\ Stopped' = Stopped
  BY LoopFacts DEF StopInv, Stopped
<1>2. QED
  BY <1>0, <1>1 DEF StopInv

LEMMA StopQuiet ==
  ASSUME StopInv, UNCHANGED <<worker, held, late>>, Stopped => Stopped',
         phase \in Running => phase' \in Running
  PROVE  StopInv'
BY DEF StopInv

LEMMA NextStops ==
  ASSUME StopInv, [ServiceNext]_allVars
  PROVE  StopInv'
<1>1. ASSUME Ends PROVE StopInv'
  BY <1>1, NobodyStops DEF Ends
<1>2. ASSUME NEW w \in Workers, Look(w) \/ Take(w) \/ PassOn(w) \/ Release(w)
      PROVE  StopInv'
  <2>1. CASE PassOn(w)
    <3>1. held[w] = NoWork /\ held' = held
      BY <2>1 DEF PassOn
    <3>2. QED
      BY <2>1, <3>1, StopMoves DEF PassOn, StopInv
  <2>2. CASE Release(w)
    <3>1. worker[w] \in DOMAIN Takes
      BY <2>2 DEF Release, StopInv
    <3>2. QED
      BY <2>2, <3>1, StopMoves DEF Release, StopInv
  <2>3. QED
    BY <1>2, <2>1, <2>2, StopLook, StopTake
<1>3. CASE Serve
  <2>1. worker' = [w \in Workers |-> "polling"] /\ phase' = "serving" /\ UNCHANGED <<held, late>>
    BY <1>3 DEF Serve
  <2>2. ~Stopped
    BY <1>3 DEF Serve, Stopped, Stopping
  <2>3. \A w \in Workers : late[w] = 0
    BY <2>2 DEF StopInv
  <2>4. phase \notin Running
    BY <1>3 DEF Serve, Running, Stopping
  <2>5. "polling" \in Places /\ phase' \in Running
    BY <2>1 DEF Places, Running
  <2>6. QED
    BY <2>1, <2>3, <2>4, <2>5, LoopFacts DEF StopInv
<1>4. CASE LoadConfig \/ Deliver \/ Handle \/ Shutdown \/ UNCHANGED allVars
  BY <1>4, StopQuiet DEF LoadConfig, Deliver, Handle, Shutdown, allVars, processVars, Stopped
<1>5. CASE Restart \/ Start \/ Proceed
  <2>1. ~Stopped /\ phase \notin Running /\ UNCHANGED <<worker, held, late>>
    BY <1>5 DEF Restart, Start, Proceed, NextStage, Stopped, Stopping, Running
  <2>2. QED
    BY <2>1, StopQuiet
<1>6. CASE Stop \/ Cancel
  <2>1. Stopped' /\ phase' \in Running /\ UNCHANGED <<worker, held, late>>
    BY <1>6 DEF Stop, Cancel, Stopped, Stopping, Running
  <2>2. QED
    BY <2>1, StopQuiet
<1>7. QED
  BY <1>1, <1>2, <1>3, <1>4, <1>5, <1>6
     DEF ServiceNext, NoSuchDriver, Crash, Dies, Drained, GraceEnds

LEMMA InitStops ==
  ASSUME ServiceInit
  PROVE  StopInv
<1>1. /\ late \in [Workers -> Nat] /\ worker \in [Workers -> Places] /\ DOMAIN held = Workers
      /\ \A w \in Workers : late[w] = 0 /\ worker[w] = "off" /\ held[w] = NoWork
  BY DEF ServiceInit, Off, Idle, Places
<1>2. QED
  BY <1>1 DEF StopInv

(* worker.Run: stop is looked at before each claim, so once it has closed a   *)
(* worker claims at most once more, however many workers there are and        *)
(* whatever the store, the handlers and the loading of the process do.        *)
THEOREM ClaimsStop == ServiceSpec => []StopsClaiming
<1>1. ServiceInit => StopInv
  BY InitStops
<1>2. StopInv /\ [ServiceNext]_allVars => StopInv'
  BY NextStops
<1>3. StopInv => StopsClaiming
  BY DEF StopInv, StopsClaiming
<1>4. QED
  BY <1>1, <1>2, <1>3, PTL DEF ServiceSpec

-----------------------------------------------------------------------------
(* Loading.  However far the loop has come, every key that is written leads  *)
(* where one key of the section does, and every key of the section where one *)
(* that is written does; a field has several keys in one if it has several   *)
(* in the other; and without chained sources, a key that names a source has  *)
(* yet to be looked at.  The facts are about a document, a section and the   *)
(* keys to come, so that they serve before and after a step alike.           *)
Origin(d, g) == Expanded(d.values[g]).text
Traced(d, g, k, text) ==
  /\ g.field = k.field
  /\ Leads(g, Origin(d, g)) <=> Leads(k, text)
  /\ Leads(k, text) => Followed(g, Origin(d, g)) = Followed(k, text)
Several(keys, name) == \E j, k \in keys : j.field = name /\ k.field = name /\ j # k
Chainless(d) == \A k \in DOMAIN d.values : ~Chained(k)
GoodKey(k) == k \in Key /\ (Chained(k) => Sourced(k))

Expanding(d, v, ux) ==
  /\ \A k \in DOMAIN v : GoodKey(k)
  /\ ux \subseteq DOMAIN d.values
  /\ ux # {} => DOMAIN v = DOMAIN d.values
  /\ \A k \in ux : v[k] = d.values[k]
  /\ \A k \in DOMAIN d.values \ ux : Expands(d.values[k])
  /\ \A k \in DOMAIN v \ ux : v[k].reference = ""
Tracing(d, v) ==
  /\ \A g \in DOMAIN d.values : \E k \in DOMAIN v : Traced(d, g, k, Expanded(v[k]).text)
  /\ \A k \in DOMAIN v : \E g \in DOMAIN d.values : Traced(d, g, k, Expanded(v[k]).text)
  /\ \A name \in Fields : Several(DOMAIN d.values, name) <=> Several(DOMAIN v, name)
Resolving(d, v, ur) ==
  Chainless(d) => \A k \in DOMAIN v : ~Chained(k) /\ (Sourced(k) => k \in ur)

Loading == Expanding(document, values, unexpanded) /\ Tracing(document, values) /\ Resolving(document, values, unresolved)

ConfigInv ==
  /\ document \in Documents
  /\ loaded \in {"no", "yes", "rejected"}
  /\ loaded = "no" => Loading
  /\ LoadsWhatIsWritten

-----------------------------------------------------------------------------
(* Keys. *)

LEMMA NameFacts ==
  \A name, source : /\ NamedBy(name, source).field = name /\ NamedBy(name, source).source = source
                    /\ NamedBy(name, source).chained = ""
BY DEF NamedBy

LEMMA FieldFacts ==
  \A name : Field(name).field = name /\ Field(name).source = "" /\ Field(name).chained = ""
BY NameFacts DEF Field

LEMMA NamedFacts ==
  ASSUME NEW b, NEW name, NEW source, b = NamedBy(name, source)
  PROVE  b.field = name /\ b.source = source /\ b.chained = ""
BY DEF NamedBy

LEMMA PlainKey ==
  ASSUME NEW k, GoodKey(k), ~Sourced(k)
  PROVE  k = Field(k.field)
<1>1. k = [field |-> k.field, source |-> k.source, chained |-> k.chained]
  BY DEF GoodKey, Key
<1>2. k.source = "" /\ k.chained = ""
  BY DEF GoodKey, Chained, Sourced
<1>3. QED
  BY <1>1, <1>2 DEF Field, NamedBy

LEMMA BaseKey ==
  ASSUME NEW k, GoodKey(k), Sourced(k)
  PROVE  /\ GoodKey(Base(k)) /\ Base(k).field = k.field /\ Base(k) # k /\ ~Chained(Base(k))
         /\ ~Chained(k) => ~Sourced(Base(k))
<1>1. k.field \in Fields /\ k.source \in Suffixes /\ k.chained \in Suffixes /\ k.source # ""
  BY DEF GoodKey, Key, Sourced
<1>2. \A source \in Suffixes : NamedBy(k.field, source) \in Key
  BY <1>1 DEF NamedBy, Key, Suffixes
<1>3. CASE Chained(k)
  <2>1. Base(k) = NamedBy(k.field, k.source)
    BY <1>3 DEF Base
  <2>2. Base(k).field = k.field /\ Base(k).source = k.source /\ Base(k).chained = ""
    BY <2>1, NamedFacts, Zenon
  <2>3. ~Chained(Base(k)) /\ Sourced(Base(k))
    BY <2>2 DEF Chained, Sourced
  <2>4. Base(k) # k
    BY <1>3, <2>3, Zenon
  <2>5. Base(k) \in Key
    BY <1>1, <1>2, <2>1
  <2>6. QED
    BY <1>3, <2>2, <2>3, <2>4, <2>5 DEF GoodKey
<1>4. CASE ~Chained(k)
  <2>1. Base(k) = NamedBy(k.field, "")
    BY <1>4 DEF Base, Field
  <2>2. Base(k).source = "" /\ Base(k).chained = "" /\ Base(k).field = k.field
    BY <2>1, NamedFacts, Zenon
  <2>3. Base(k) # k
    <3>1. PICK b : b = Base(k)
      OBVIOUS
    <3>2. b.source = ""
      BY <2>2, <3>1
    <3>3. b # k
      BY <1>1, <3>2
    <3>4. QED
      BY <3>1, <3>3
  <2>4. Base(k) \in Key
    BY <1>2, <2>1 DEF Suffixes
  <2>5. QED
    BY <2>2, <2>3, <2>4 DEF GoodKey, Chained, Sourced
<1>5. QED
  BY <1>3, <1>4

LEMMA SiblingKey ==
  ASSUME NEW k, GoodKey(k), Sourced(k)
  PROVE  Sibling(k).field = k.field /\ Sibling(k) # k
<1>1. \A suffix : Other(suffix) # suffix
  BY DEF Other
<1>2. CASE Chained(k)
  <2>1. Sibling(k) = [field |-> k.field, source |-> k.source, chained |-> Other(k.chained)]
    BY <1>2 DEF Sibling, NamedBy
  <2>2. Sibling(k).chained = Other(k.chained) /\ Sibling(k).field = k.field
    BY <2>1
  <2>3. QED
    BY <1>1, <2>2
<1>3. CASE ~Chained(k)
  <2>1. Sibling(k).source = Other(k.source) /\ Sibling(k).field = k.field
    BY <1>3, NameFacts DEF Sibling
  <2>2. QED
    BY <1>1, <2>1
<1>4. QED
  BY <1>2, <1>3

(* A source leads where its base does once it has been read. *)
LEMMA BaseLeads ==
  ASSUME NEW k, GoodKey(k), Sourced(k), NEW text
  PROVE  LET read == Sources(Suffix(k))[text] IN
         /\ Leads(k, text) <=> CanRead(Suffix(k), text) /\ Leads(Base(k), read)
         /\ Followed(k, text) = Followed(Base(k), read)
<1>1. CASE Chained(k)
  <2>1. Base(k) = NamedBy(k.field, k.source) /\ Suffix(k) = k.chained
    BY <1>1 DEF Base, Suffix
  <2>2. Base(k).source = k.source /\ Base(k).chained = ""
    BY <2>1, NamedFacts, Zenon
  <2>3. Sourced(Base(k)) /\ ~Chained(Base(k))
    BY <2>2 DEF Sourced, Chained
  <2>4. Suffix(Base(k)) = k.source
    <3>1. PICK b : b = Base(k)
      OBVIOUS
    <3>2. Suffix(b) = b.source
      BY <2>3, <3>1 DEF Suffix
    <3>3. QED
      BY <2>2, <3>1, <3>2
  <2>5. QED
    BY <1>1, <2>1, <2>2, <2>3, <2>4 DEF Leads, Followed
<1>2. CASE ~Chained(k)
  <2>1. ~Sourced(Base(k)) /\ ~Chained(Base(k)) /\ Suffix(k) = k.source
    BY <1>2, BaseKey DEF Suffix
  <2>2. QED
    BY <1>2, <2>1 DEF Leads, Followed
<1>3. QED
  BY <1>1, <1>2

LEMMA PlainLeads ==
  ASSUME NEW k, GoodKey(k), ~Sourced(k), NEW text
  PROVE  Leads(k, text) /\ Followed(k, text) = text
BY DEF Leads, Followed, GoodKey

LEMMA Expandeds ==
  ASSUME NEW value, value.reference = ""
  PROVE  Expanded(value).text = value.text
BY DEF Expanded

LEMMA ExpandedTwice ==
  ASSUME NEW value
  PROVE  Expanded(value).reference = "" /\ Expanded(Expanded(value)).text = Expanded(value).text
<1>1. Expanded(value).reference = ""
  BY DEF Expanded
<1>2. QED
  BY <1>1, Expandeds

LEMMA WrittenKeys ==
  ASSUME NEW d \in Documents, NEW k \in DOMAIN d.values
  PROVE  GoodKey(k) /\ k.field \in Fields
<1>1. k \in Key /\ (Chained(k) => Sourced(k))
  BY ConfigAssumption
<1>2. QED
  BY <1>1 DEF GoodKey, Key

-----------------------------------------------------------------------------
(* What a document that is accepted must be. *)

LEMMA Refuted ==
  ASSUME document \in Documents
  PROVE  /\ \A name \in Fields : Several(DOMAIN document.values, name) => ~Acceptable
         /\ \A k \in DOMAIN document.values : ~Readable(k) => ~Acceptable
BY DEF Several, Acceptable, Given

(* A key of the section that leads nowhere comes from one that does. *)
LEMMA DeadEnd ==
  ASSUME document \in Documents, Tracing(document, values), NEW k \in DOMAIN values,
         ~Leads(k, Expanded(values[k]).text)
  PROVE  ~Acceptable
<1>1. PICK g \in DOMAIN document.values : Traced(document, g, k, Expanded(values[k]).text)
  BY DEF Tracing
<1>2. ~Leads(g, Says(g))
  BY <1>1 DEF Traced, Origin, Says
<1>3. QED
  BY <1>2, Refuted DEF Readable

LEMMA TwoLive ==
  ASSUME document \in Documents, Tracing(document, values), NEW j \in DOMAIN values, NEW k \in DOMAIN values,
         j.field = k.field, j # k, k.field \in Fields
  PROVE  ~Acceptable
<1>1. Several(DOMAIN values, k.field)
  BY DEF Several
<1>2. QED
  BY <1>1, Refuted DEF Tracing

LEMMA Fresh ==
  ASSUME NEW d \in Documents
  PROVE  /\ Expanding(d, d.values, DOMAIN d.values) /\ Tracing(d, d.values)
         /\ Resolving(d, d.values, DOMAIN d.values)
<1>1. Expanding(d, d.values, DOMAIN d.values)
  BY WrittenKeys DEF Expanding
<1>2. \A k \in DOMAIN d.values : Traced(d, k, k, Expanded(d.values[k]).text)
  BY DEF Traced, Origin
<1>3. Tracing(d, d.values)
  BY <1>2 DEF Tracing
<1>4. QED
  BY <1>1, <1>3 DEF Resolving, Chainless

(* A step that leaves the document and says "no" need only go on as it should. *)
LEMMA GoesOnLoading ==
  ASSUME ConfigInv, document' = document, loaded' = "no", Loading'
  PROVE  ConfigInv'
BY DEF ConfigInv, LoadsWhatIsWritten

LEMMA SameDocument ==
  ASSUME document' = document
  PROVE  (Acceptable' <=> Acceptable) /\ (HasChain' <=> HasChain)
BY DEF Acceptable, HasChain, Given, Means, Readable, Says

LEMMA Rejects ==
  ASSUME ConfigInv, document' = document, loaded' = "rejected", ~Acceptable \/ HasChain
  PROVE  ConfigInv'
<1>1. ~Acceptable' \/ HasChain'
  BY SameDocument
<1>2. QED
  BY <1>1 DEF ConfigInv, LoadsWhatIsWritten

-----------------------------------------------------------------------------
(* The steps of the loop. *)

LEMMA ExpandedSection ==
  ASSUME NEW d \in Documents, NEW v, NEW ux, NEW ur, NEW key \in ux, Expands(v[key]),
         Expanding(d, v, ux), Tracing(d, v), Resolving(d, v, ur), NEW w,
         w = [v EXCEPT ![key] = Expanded(v[key])]
  PROVE  Expanding(d, w, ux \ {key}) /\ Tracing(d, w) /\ Resolving(d, w, ur)
<1>1. key \in DOMAIN v /\ DOMAIN w = DOMAIN v /\ v[key] = d.values[key] /\ w[key] = Expanded(v[key])
  BY DEF Expanding
<1>2. \A k \in DOMAIN v \ {key} : w[k] = v[k]
  OBVIOUS
<1>3. \A k \in DOMAIN v : Expanded(w[k]).text = Expanded(v[k]).text
  BY <1>1, <1>2, ExpandedTwice
<1>4. Tracing(d, w)
  BY <1>1, <1>3 DEF Tracing
<1>5. Resolving(d, w, ur)
  BY <1>1 DEF Resolving
<1>6. Expanding(d, w, ux \ {key})
  <2>1. \A k \in DOMAIN w \ (ux \ {key}) : w[k].reference = ""
    BY <1>1, <1>2, ExpandedTwice DEF Expanding
  <2>2. \A k \in DOMAIN d.values \ (ux \ {key}) : Expands(d.values[k])
    BY <1>1 DEF Expanding
  <2>3. QED
    BY <1>1, <1>2, <2>1, <2>2 DEF Expanding
<1>7. QED
  BY <1>4, <1>5, <1>6

LEMMA ExpandStep ==
  ASSUME ConfigInv, NEW key \in DOMAIN values, Expand(key)
  PROVE  ConfigInv'
<1>1. loaded = "no" /\ key \in unexpanded /\ Loading /\ document \in Documents
  BY DEF Expand, ConfigInv
<1>2. values[key] = document.values[key] /\ key \in DOMAIN document.values
  BY <1>1 DEF Loading, Expanding
<1>3. CASE Expands(values[key])
  <2>1. /\ values' = [values EXCEPT ![key] = Expanded(values[key])]
        /\ unexpanded' = unexpanded \ {key} /\ UNCHANGED <<document, unresolved, loaded>>
    BY <1>3 DEF Expand
  <2>2. Loading'
    BY <1>1, <1>3, <2>1, ExpandedSection DEF Loading
  <2>3. QED
    BY <1>1, <2>1, <2>2, GoesOnLoading
<1>4. CASE ~Expands(values[key])
  <2>1. ~Readable(key)
    BY <1>2, <1>4 DEF Readable
  <2>2. QED
    BY <1>1, <1>2, <1>4, <2>1, Refuted, Rejects DEF Expand, Reject
<1>5. QED
  BY <1>3, <1>4

(* One key of a set gives way to another, of the same field. *)
LEMMA Replaced ==
  ASSUME NEW keys, NEW key \in keys, NEW base, base \notin keys, base.field = key.field, NEW name
  PROVE  Several(keys, name) <=> Several((keys \ {key}) \cup {base}, name)
<1> DEFINE after == (keys \ {key}) \cup {base}
<1>1. ASSUME NEW j \in keys, NEW k \in keys, j.field = name, k.field = name, j # k
      PROVE  Several(after, name)
  <2>1. CASE j = key
    <3>1. base \in after /\ k \in after /\ base # k /\ base.field = name
      BY <1>1, <2>1
    <3>2. QED
      BY <1>1, <3>1 DEF Several
  <2>2. CASE k = key
    <3>1. base \in after /\ j \in after /\ base # j /\ base.field = name
      BY <1>1, <2>2
    <3>2. QED
      BY <1>1, <3>1 DEF Several
  <2>3. CASE j # key /\ k # key
    BY <1>1, <2>3 DEF Several
  <2>4. QED
    BY <2>1, <2>2, <2>3
<1>2. ASSUME NEW j \in after, NEW k \in after, j.field = name, k.field = name, j # k
      PROVE  Several(keys, name)
  <2>1. CASE j = base
    <3>1. k \in keys /\ k # key /\ key.field = name
      BY <1>2, <2>1
    <3>2. QED
      BY <1>2, <3>1 DEF Several
  <2>2. CASE k = base
    <3>1. j \in keys /\ j # key /\ key.field = name
      BY <1>2, <2>2
    <3>2. QED
      BY <1>2, <3>1 DEF Several
  <2>3. CASE j # base /\ k # base
    BY <1>2, <2>3 DEF Several
  <2>4. QED
    BY <2>1, <2>2, <2>3
<1>3. QED
  BY <1>1, <1>2 DEF Several

(* The source of a key is followed: v becomes w. *)
Follows(v, key, w) ==
  /\ key \in DOMAIN v /\ Sourced(key)
  /\ Base(key) \notin DOMAIN v /\ CanRead(Suffix(key), v[key].text)
  /\ DOMAIN w = (DOMAIN v \ {key}) \cup {Base(key)}
  /\ w[Base(key)] = [reference |-> "", text |-> Sources(Suffix(key))[v[key].text]]
  /\ \A k \in DOMAIN v \ {key} : w[k] = v[k]

LEMMA FollowedSection ==
  ASSUME NEW d \in Documents, NEW v, NEW ur, NEW key, NEW w, NEW after,
         Follows(v, key, w), ur \ {key} \subseteq after,
         Expanding(d, v, {}), Tracing(d, v), Resolving(d, v, ur)
  PROVE  Expanding(d, w, {}) /\ Tracing(d, w) /\ Resolving(d, w, after)
<1> USE DEF Follows
<1> DEFINE base == Base(key)
           read == Sources(Suffix(key))[v[key].text]
<1>1. GoodKey(key) /\ v[key].reference = ""
  BY DEF Expanding
<1>2. /\ GoodKey(base) /\ base.field = key.field /\ base # key /\ ~Chained(base)
      /\ ~Chained(key) => ~Sourced(base)
  BY <1>1, BaseKey
<1>3. /\ DOMAIN w = (DOMAIN v \ {key}) \cup {base} /\ w[base] = [reference |-> "", text |-> read]
      /\ \A k \in DOMAIN v \ {key} : w[k] = v[k]
  OBVIOUS
<1>4. w[base].reference = "" /\ w[base].text = read
  <2>1. \A text : [reference |-> "", text |-> text].reference = "" /\ [reference |-> "", text |-> text].text = text
    OBVIOUS
  <2>2. QED
    BY <1>3, <2>1
<1>5. Expanded(w[base]).text = read /\ Expanded(v[key]).text = v[key].text
  BY <1>1, <1>4, Expandeds
<1>6. /\ Leads(key, v[key].text) <=> Leads(base, read)
      /\ Followed(key, v[key].text) = Followed(base, read)
  BY <1>1, BaseLeads
<1>7. \A g : Traced(d, g, key, Expanded(v[key]).text) <=> Traced(d, g, base, Expanded(w[base]).text)
  BY <1>2, <1>5, <1>6 DEF Traced
<1> HIDE DEF base, read
<1>8. \A k \in DOMAIN v \ {key} : Expanded(w[k]).text = Expanded(v[k]).text
  BY <1>3
<1>9. Tracing(d, w)
  <2>1. ASSUME NEW g \in DOMAIN d.values
        PROVE  \E k \in DOMAIN w : Traced(d, g, k, Expanded(w[k]).text)
    <3>1. PICK k \in DOMAIN v : Traced(d, g, k, Expanded(v[k]).text)
      BY DEF Tracing
    <3>2. CASE k = key
      BY <1>3, <1>7, <3>1, <3>2
    <3>3. CASE k # key
      BY <1>3, <1>8, <3>1, <3>3
    <3>4. QED
      BY <3>2, <3>3
  <2>2. ASSUME NEW k \in DOMAIN w
        PROVE  \E g \in DOMAIN d.values : Traced(d, g, k, Expanded(w[k]).text)
    <3>1. CASE k = base
      <4>1. PICK g \in DOMAIN d.values : Traced(d, g, key, Expanded(v[key]).text)
        BY DEF Tracing
      <4>2. QED
        BY <1>7, <3>1, <4>1
    <3>2. CASE k # base
      <4>1. k \in DOMAIN v \ {key}
        BY <1>3, <3>2
      <4>2. QED
        BY <1>8, <4>1 DEF Tracing
    <3>3. QED
      BY <3>1, <3>2
  <2>3. \A name \in Fields : Several(DOMAIN d.values, name) <=> Several(DOMAIN w, name)
    <3>1. \A name : Several(DOMAIN v, name) <=> Several(DOMAIN w, name)
      <4>1. DOMAIN w = (DOMAIN v \ {key}) \cup {Base(key)} /\ Base(key).field = key.field
        BY <1>2, <1>3 DEF base
      <4>2. QED
        BY <4>1, Replaced
    <3>2. QED
      BY <3>1 DEF Tracing
  <2>4. QED
    BY <2>1, <2>2, <2>3 DEF Tracing
<1>10. Expanding(d, w, {})
  BY <1>2, <1>3, <1>4 DEF Expanding
<1>11. Resolving(d, w, after)
  <2>1. ASSUME Chainless(d), NEW k \in DOMAIN w
        PROVE  ~Chained(k) /\ (Sourced(k) => k \in after)
    <3>1. CASE k = base
      BY <1>2, <2>1, <3>1 DEF Resolving
    <3>2. CASE k # base
      <4>1. k \in DOMAIN v \ {key}
        BY <1>3, <3>2
      <4>2. QED
        BY <2>1, <4>1 DEF Resolving
    <3>3. QED
      BY <3>1, <3>2
  <2>2. QED
    BY <2>1 DEF Resolving
<1>12. QED
  BY <1>9, <1>10, <1>11

LEMMA SourceStep ==
  ASSUME ConfigInv, NEW key \in DOMAIN values, Source(key)
  PROVE  ConfigInv'
<1>1. /\ loaded = "no" /\ unexpanded = {} /\ key \in unresolved /\ document \in Documents
      /\ Expanding(document, values, {}) /\ Tracing(document, values)
      /\ Resolving(document, values, unresolved)
  BY DEF Source, ConfigInv, Loading
<1>2. GoodKey(key) /\ key.field \in Fields
  BY <1>1 DEF Expanding, GoodKey, Key
<1>3. CASE ~Sourced(key)
  <2>1. unresolved' = unresolved \ {key} /\ UNCHANGED <<document, values, unexpanded, loaded>>
    BY <1>3 DEF Source
  <2>2. Resolving(document, values, unresolved \ {key})
    BY <1>1, <1>3 DEF Resolving
  <2>3. Loading'
    BY <1>1, <2>1, <2>2 DEF Loading
  <2>4. QED
    BY <1>1, <2>1, <2>3, GoesOnLoading
<1>4. CASE Sourced(key) /\ Conflicts(key)
  <2>1. PICK other \in DOMAIN values : other.field = key.field /\ other # key
    BY <1>2, <1>4, BaseKey, SiblingKey DEF Conflicts
  <2>2. ~Acceptable
    BY <1>1, <1>2, <2>1, TwoLive
  <2>3. QED
    BY <1>4, <2>2, Rejects DEF Source, Reject
<1>5. CASE Sourced(key) /\ ~Conflicts(key) /\ ~Found(key)
  <2>1. ~Leads(key, values[key].text)
    BY <1>5 DEF Leads, Found
  <2>2. Expanded(values[key]).text = values[key].text
    BY <1>1, Expandeds DEF Expanding
  <2>3. ~Acceptable
    BY <1>1, <2>1, <2>2, DeadEnd
  <2>4. QED
    BY <1>5, <2>3, Rejects DEF Source, Reject
<1>6. CASE Sourced(key) /\ ~Conflicts(key) /\ Found(key)
  <2>1. /\ values' = [k \in (DOMAIN values \ {key}) \cup {Base(key)} |->
             IF k = Base(key)
               THEN [reference |-> "", text |-> Sources(Suffix(key))[values[key].text]] ELSE values[k]]
        /\ unresolved \ {key} \subseteq unresolved' /\ UNCHANGED <<document, unexpanded, loaded>>
    BY <1>6 DEF Source
  <2>2. Base(key) \notin DOMAIN values /\ CanRead(Suffix(key), values[key].text)
    BY <1>6 DEF Conflicts, Found
  <2>3. /\ Expanding(document, values', {}) /\ Tracing(document, values')
        /\ Resolving(document, values', unresolved')
    <3>1. /\ DOMAIN values' = (DOMAIN values \ {key}) \cup {Base(key)}
          /\ values'[Base(key)] = [reference |-> "", text |-> Sources(Suffix(key))[values[key].text]]
          /\ \A k \in DOMAIN values \ {key} : values'[k] = values[k]
      BY <2>1, <2>2
    <3>2. PICK d, v, ur, w, after :
            /\ d \in Documents /\ d = document /\ v = values /\ ur = unresolved
            /\ w = values' /\ after = unresolved'
      BY <1>1
    <3>3. Follows(v, key, w) /\ ur \ {key} \subseteq after
      BY <1>6, <2>1, <2>2, <3>1, <3>2 DEF Follows
    <3>4. Expanding(d, v, {}) /\ Tracing(d, v) /\ Resolving(d, v, ur)
      BY <1>1, <3>2
    <3>5. Expanding(d, w, {}) /\ Tracing(d, w) /\ Resolving(d, w, after)
      BY <3>2, <3>3, <3>4, FollowedSection
    <3>6. QED
      BY <3>2, <3>5
  <2>4. document' = document /\ unexpanded' = {}
    BY <1>1, <2>1
  <2>5. Loading'
    BY <2>3, <2>4 DEF Loading
  <2>6. QED
    BY <1>1, <2>1, <2>5, GoesOnLoading
<1>7. QED
  BY <1>3, <1>4, <1>5, <1>6

-----------------------------------------------------------------------------
(* The end of the loop. *)

(* The section that the document means. *)
Meant == [key \in {Field(name) : name \in {n \in Fields : Given(n) # {}}} |->
            [reference |-> "", text |-> Means(CHOOSE k \in Given(key.field) : TRUE)]]

LEMMA FitsAlike ==
  ASSUME NEW v, NEW u, NEW s,
         \A name \in Fields : (Field(name) \in DOMAIN v) <=> (Field(name) \in DOMAIN u),
         \A name \in Fields : TextOf(v, name) = TextOf(u, name)
  PROVE  Fits(v, s) <=> Fits(u, s)
<1>1. /\ TextOf(v, "token") = TextOf(u, "token") /\ TextOf(v, "driver") = TextOf(u, "driver")
      /\ TextOf(v, "replicas") = TextOf(u, "replicas")
      /\ (Field("replicas") \in DOMAIN v) <=> (Field("replicas") \in DOMAIN u)
  BY DEF Fields
<1>2. Replicas(v) = Replicas(u)
  BY <1>1 DEF Replicas
<1>3. OneWriter(v) <=> OneWriter(u)
  BY <1>1, <1>2 DEF OneWriter
<1>4. QED
  BY <1>1, <1>2, <1>3 DEF Fits

(* In a section of known fields, each has the text that its one key means. *)
LEMMA FieldsMeant ==
  ASSUME document \in Documents, Expanding(document, values, {}), Tracing(document, values), Known(values),
         NEW name \in Fields
  PROVE  /\ \A j, k \in Given(name) : j = k
         /\ \A g \in Given(name) : Readable(g) /\ TextOf(values, name) = Means(g)
         /\ (Field(name) \in DOMAIN values) <=> (Given(name) # {})
<1>1. \A k \in DOMAIN values : GoodKey(k) /\ ~Sourced(k) /\ k = Field(k.field)
  BY PlainKey DEF Expanding, Known
<1>2. ~Several(DOMAIN values, name)
  BY <1>1 DEF Several
<1>3. \A j, k \in Given(name) : j = k
  BY <1>2 DEF Tracing, Several, Given
<1>4. ASSUME NEW g \in Given(name)
      PROVE  Field(name) \in DOMAIN values /\ Readable(g) /\ TextOf(values, name) = Means(g)
  <2>1. g \in DOMAIN document.values /\ g.field = name
    BY DEF Given
  <2>2. PICK k \in DOMAIN values : Traced(document, g, k, Expanded(values[k]).text)
    BY <2>1 DEF Tracing
  <2>3. k = Field(name) /\ GoodKey(k) /\ ~Sourced(k)
    BY <1>1, <2>1, <2>2 DEF Traced
  <2>4. Expanded(values[k]).text = values[k].text
    BY Expandeds DEF Expanding
  <2>5. Leads(k, Expanded(values[k]).text) /\ Followed(k, Expanded(values[k]).text) = values[k].text
    BY <2>3, <2>4, PlainLeads
  <2>6. Leads(g, Says(g)) /\ Means(g) = values[k].text
    BY <2>2, <2>5 DEF Traced, Origin, Says, Means
  <2>7. Readable(g)
    BY <2>1, <2>6 DEF Readable, Expanding
  <2>8. QED
    BY <2>3, <2>6, <2>7 DEF TextOf
<1>5. ASSUME Field(name) \in DOMAIN values PROVE Given(name) # {}
  <2>1. PICK g \in DOMAIN document.values : Traced(document, g, Field(name), Expanded(values[Field(name)]).text)
    BY <1>5 DEF Tracing
  <2>2. g.field = name
    BY <2>1, FieldFacts DEF Traced
  <2>3. QED
    BY <2>2 DEF Given
<1>6. QED
  BY <1>3, <1>4, <1>5

LEMMA SectionMeant ==
  ASSUME document \in Documents, Expanding(document, values, {}), Tracing(document, values), Known(values),
         NEW s
  PROVE  Fits(Meant, s) <=> Fits(values, s)
<1>1. ASSUME NEW name \in Fields
      PROVE  (Field(name) \in DOMAIN Meant) <=> (Field(name) \in DOMAIN values)
  <2>1. (Field(name) \in DOMAIN Meant) <=> (Given(name) # {})
    <3>1. \A n : Field(n) = Field(name) => n = name
      <4>1. \A n : Field(n).field = n
        BY FieldFacts
      <4>2. QED
        BY <4>1
    <3>2. QED
      BY <3>1 DEF Meant
  <2>2. QED
    BY <2>1, FieldsMeant
<1>2. ASSUME NEW name \in Fields
      PROVE  TextOf(Meant, name) = TextOf(values, name)
  <2>1. CASE Given(name) = {}
    BY <1>1, <2>1, FieldsMeant DEF TextOf
  <2>2. CASE Given(name) # {}
    <3>1. PICK k \in Given(name) : k = CHOOSE j \in Given(name) : TRUE
      BY <2>2
    <3>2. TextOf(values, name) = Means(k) /\ Field(name) \in DOMAIN values
      BY <2>2, FieldsMeant
    <3>3. Field(name) \in DOMAIN Meant /\ Field(name).field = name
      BY <1>1, <3>2, FieldFacts
    <3>4. Meant[Field(name)].text = Means(k)
      BY <3>1, <3>3 DEF Meant
    <3>5. TextOf(Meant, name) = Means(k)
      BY <3>3, <3>4 DEF TextOf
    <3>6. QED
      BY <3>2, <3>5
  <2>3. QED
    BY <2>1, <2>2
<1> HIDE DEF Meant
<1>3. QED
  BY <1>1, <1>2, FitsAlike

LEMMA AcceptStep ==
  ASSUME ConfigInv, Accept
  PROVE  ConfigInv'
<1>1. /\ document \in Documents /\ Expanding(document, values, {}) /\ Tracing(document, values)
      /\ Resolving(document, values, {}) /\ UNCHANGED <<document, values>>
      /\ loaded' = IF Known(values) /\ Fits(values, document.settings) THEN "yes" ELSE "rejected"
  BY DEF Accept, ConfigInv, Loading
<1>2. CASE Known(values) /\ Fits(values, document.settings)
  <2>1. \A name \in Fields : \A key \in Given(name) : TextOf(values, name) = Means(key)
    BY <1>1, <1>2, FieldsMeant
  <2>2. \A name \in Fields : \A j, k \in Given(name) : j = k
    BY <1>1, <1>2, FieldsMeant
  <2>3. \A key \in DOMAIN document.values : Readable(key)
    <3>1. \A key \in DOMAIN document.values : key \in Given(key.field) /\ key.field \in Fields
      BY <1>1, WrittenKeys DEF Given
    <3>2. QED
      BY <1>1, <1>2, <3>1, FieldsMeant
  <2>4. Fits(Meant, document.settings)
    BY <1>1, <1>2, SectionMeant
  <2>5. Acceptable
    BY <2>2, <2>3, <2>4 DEF Acceptable, Meant
  <2>6. Acceptable'
    BY <1>1, <2>5, SameDocument
  <2>7. \A name \in Fields : \A key \in Given(name)' : TextOf(values', name) = Means(key)'
    BY <1>1, <2>1 DEF Given, Means, Says
  <2>8. QED
    BY <1>1, <1>2, <2>6, <2>7 DEF ConfigInv, LoadsWhatIsWritten
<1>3. CASE Known(values) /\ ~Fits(values, document.settings)
  <2>1. ~Fits(Meant, document.settings)
    BY <1>1, <1>3, SectionMeant
  <2>2. ~Acceptable
    BY <2>1 DEF Acceptable, Meant
  <2>3. QED
    BY <1>1, <1>3, <2>2, Rejects
<1>4. CASE ~Known(values)
  <2>1. HasChain
    BY <1>1, <1>4 DEF HasChain, Known, Resolving, Chainless
  <2>2. QED
    BY <1>1, <1>4, <2>1, Rejects
<1>5. QED
  BY <1>2, <1>3, <1>4

LEMMA ConfigQuiet ==
  ASSUME ConfigInv, UNCHANGED configVars
  PROVE  ConfigInv'
<1>1. UNCHANGED <<document, values, unexpanded, unresolved, loaded>>
  BY DEF configVars
<1>2. Loading => Loading'
  BY <1>1 DEF Loading
<1>3. (Acceptable' <=> Acceptable) /\ (HasChain' <=> HasChain)
  BY <1>1, SameDocument
<1>4. \A name \in Fields : Given(name)' = Given(name) /\ \A key : Means(key)' = Means(key)
  BY <1>1 DEF Given, Means, Says
<1>5. LoadsWhatIsWritten => LoadsWhatIsWritten'
  BY <1>1, <1>3, <1>4 DEF LoadsWhatIsWritten
<1>6. QED
  BY <1>1, <1>2, <1>5 DEF ConfigInv

LEMMA ConfigStarts ==
  ASSUME NEW d \in Documents, Unread(d)
  PROVE  ConfigInv
<1>1. Loading
  BY Fresh DEF Loading, Unread
<1>2. QED
  BY <1>1 DEF ConfigInv, Unread, LoadsWhatIsWritten

LEMMA ConfigRestarts ==
  ASSUME ConfigInv, Restart
  PROVE  ConfigInv'
<1>1. /\ document \in Documents /\ document' = document /\ loaded' = "no" /\ values' = document.values
      /\ unexpanded' = DOMAIN document.values /\ unresolved' = DOMAIN document.values
  BY DEF ConfigInv, Restart
<1>2. Loading'
  BY <1>1, Fresh DEF Loading
<1>3. QED
  BY <1>1, <1>2, GoesOnLoading

LEMMA NextLoads ==
  ASSUME ConfigInv, [ServiceNext]_allVars
  PROVE  ConfigInv'
<1>1. ASSUME LoadConfig PROVE ConfigInv'
  BY <1>1, ExpandStep, SourceStep, AcceptStep DEF LoadConfig, Load
<1>2. ASSUME NEW w \in Workers, Look(w) \/ Take(w) \/ PassOn(w) \/ Release(w)
      PROVE  UNCHANGED configVars
  BY <1>2 DEF Look, Take, PassOn, Release
<1>3. ASSUME Ends PROVE UNCHANGED configVars
  BY <1>3 DEF Ends
<1>4. ASSUME Start \/ Proceed \/ Serve \/ Deliver \/ Handle \/ Stop \/ Shutdown \/ Cancel \/ UNCHANGED allVars
      PROVE  UNCHANGED configVars
  BY <1>4 DEF Start, Proceed, Serve, Deliver, Handle, Stop, Shutdown, Cancel, allVars
<1>5. QED
  BY <1>1, <1>2, <1>3, <1>4, ConfigQuiet, ConfigRestarts
     DEF ServiceNext, NoSuchDriver, Crash, Dies, Drained, GraceEnds

(* config.Load and resolve: for any documents, variables and files, and in    *)
(* whatever order a section's map is ranged over and whatever inserted keys   *)
(* that comes upon, an accepted configuration is acceptable and each field is *)
(* what its one key leads to; and one without chained sources is refused only *)
(* if it is not acceptable, so that every start decides alike.  Of one with   *)
(* chained sources, whose keys have two suffixes at most, only the first is   *)
(* claimed: it may be refused by chance.                                      *)
THEOREM LoadIsAsWritten == ServiceSpec => []LoadsWhatIsWritten
<1>1. ServiceInit => ConfigInv
  BY ConfigStarts DEF ServiceInit
<1>2. ConfigInv /\ [ServiceNext]_allVars => ConfigInv'
  BY NextLoads
<1>3. ConfigInv => LoadsWhatIsWritten
  BY DEF ConfigInv
<1>4. QED
  BY <1>1, <1>2, <1>3, PTL DEF ServiceSpec

-----------------------------------------------------------------------------
(* What the store's records keep.  An event's fields are not typed here: a    *)
(* record keeps its shape, its ticket and its lease whatever the event says.  *)
ThreadFields == DOMAIN NoThread
JobFields == DOMAIN NoJob

(* A step leaves the lease of a thread as it is, or ends it. *)
SameLease(t, u) ==
  /\ u.leaseToken = t.leaseToken /\ u.leaseExpires = t.leaseExpires
  /\ u.active = t.active /\ u.revision = t.revision
LeaseStays(t, u) == DOMAIN u = ThreadFields /\ (u.leaseToken = 0 \/ SameLease(t, u))
Leaves(t, u) == LeaseStays(t, u) /\ u.ticketID = t.ticketID

(* A step leaves every job as it is, or queues a new reaction job, or ends a  *)
(* lease; and a reply stays the reply of its thread.                          *)
GoodJob(j) == DOMAIN j = JobFields /\ j.attempts \in Nat
JobsLeave(box, to) ==
  /\ DOMAIN to = JobIds
  /\ \A id \in JobIds : GoodJob(to[id]) /\ (to[id] = box[id] \/ to[id].leaseToken = 0)
RepliesStay(box, to) == \A id \in ReplyIds : to[id].key = box[id].key

Shapes ==
  /\ DOMAIN threads = Keys /\ \A k \in Keys : DOMAIN threads[k] = ThreadFields
  /\ DOMAIN outbox = JobIds /\ \A id \in JobIds : GoodJob(outbox[id])
  /\ clock \in Nat /\ issued \in [Keys -> Nat]

LEMMA TheFields ==
  /\ ThreadFields = {"active", "attempts", "attachmentRetryTS", "completed", "currentError",
       "lastCommandTS", "lastMessageTS", "lastSyncedTS", "leaseExpires", "leaseToken",
       "nextAttempt", "noteID", "requested", "revision", "state", "ticketID"}
  /\ JobFields = {"present", "key", "reactions", "updateTracking", "completed", "permanent",
       "attempts", "leaseToken", "leaseExpires", "nextAttempt"}
BY DEF ThreadFields, JobFields, NoThread, NoJob, NewJob

LEMMA NothingLeaves ==
  ASSUME NEW t, DOMAIN t = ThreadFields
  PROVE  Leaves(t, t)
BY DEF Leaves, LeaseStays, SameLease

LEMMA LeavesTwice ==
  ASSUME NEW t, NEW u, NEW v, Leaves(t, u), Leaves(u, v)
  PROVE  Leaves(t, v)
BY DEF Leaves, LeaseStays, SameLease

LEMMA QueuedLeaves ==
  ASSUME NEW t, NEW now, DOMAIN t = ThreadFields
  PROVE  Leaves(t, Queued(t, now))
<1> DEFINE wanted == [t EXCEPT !.currentError = NoText, !.requested = @ + 1,
                               !.attempts = 0, !.nextAttempt = 0]
           cleared == [ClearLease(wanted) EXCEPT !.state = "pending"]
<1>1. Leaves(t, wanted)
  BY TheFields DEF Leaves, LeaseStays, SameLease
<1>2. DOMAIN cleared = ThreadFields /\ cleared.leaseToken = 0 /\ cleared.ticketID = t.ticketID
  BY TheFields DEF ClearLease
<1>3. Leaves(t, cleared)
  BY <1>2 DEF Leaves, LeaseStays
<1>4. Queued(t, now) = wanted \/ Queued(t, now) = cleared
  BY DEF Queued
<1>5. QED
  BY <1>1, <1>3, <1>4

LEMMA EditLeaves ==
  ASSUME NEW t, NEW x, DOMAIN t = ThreadFields
  PROVE  /\ Leaves(t, [t EXCEPT !.lastMessageTS = x])
         /\ Leaves(t, [t EXCEPT !.lastCommandTS = x])
         /\ Leaves(t, [t EXCEPT !.attachmentRetryTS = x])
BY TheFields DEF Leaves, LeaseStays, SameLease

LEMMA EffectLeaves ==
  ASSUME NEW k, NEW e, NEW now, DOMAIN threads[k] = ThreadFields, e.key = k
  PROVE  IF NewThread(e) THEN Effect(e, now) = Linked(e) ELSE Leaves(threads[k], Effect(e, now))
<1> DEFINE t == threads[k]
<1>1. CASE NewThread(e)
  BY <1>1 DEF Effect, NewThread, NewMessage, Applies
<1>2. CASE NewMessage(e)
  <2>1. Effect(e, now) = Messaged(t, e, now) /\ ~NewThread(e)
    BY <1>2 DEF Effect, NewThread, NewMessage, Applies
  <2>2. Leaves(t, Queued(t, now)) /\ DOMAIN Queued(t, now) = ThreadFields
    BY QueuedLeaves DEF Leaves, LeaseStays
  <2>3. PICK x : Messaged(t, e, now) = [Queued(t, now) EXCEPT !.lastMessageTS = x]
    BY DEF Messaged
  <2>4. QED
    BY <2>1, <2>2, <2>3, EditLeaves, LeavesTwice
<1>3. CASE Applies(e)
  <2> DEFINE s == [t EXCEPT !.lastCommandTS = e.messageTS]
  <2>1. Effect(e, now) = Commanded(t, e, now) /\ ~NewThread(e)
    BY <1>3 DEF Effect, NewThread, NewMessage, Applies
  <2>2. Leaves(t, s) /\ DOMAIN s = ThreadFields
    BY EditLeaves DEF Leaves, LeaseStays
  <2> HIDE DEF s
  <2>3. Leaves(s, Synced(s, e, now))
    <3>1. Leaves(s, Queued(s, now)) /\ DOMAIN Queued(s, now) = ThreadFields
      BY <2>2, QueuedLeaves DEF Leaves, LeaseStays
    <3>2. QED
      BY <2>2, <3>1, EditLeaves, LeavesTwice, NothingLeaves DEF Synced
  <2>4. Leaves(s, Untracked(s))
    <3> DEFINE u == [ClearLease(s) EXCEPT !.active = FALSE, !.currentError = NoText,
                      !.revision = @ + 1, !.nextAttempt = 0, !.state = "stopped"]
    <3>1. DOMAIN u = ThreadFields /\ u.leaseToken = 0 /\ u.ticketID = s.ticketID
      BY <2>2, TheFields DEF ClearLease
    <3>2. Leaves(s, u)
      BY <3>1 DEF Leaves, LeaseStays
    <3>3. QED
      BY <2>2, <3>2, NothingLeaves DEF Untracked
  <2>5. Leaves(s, Resumed(s))
    <3> DEFINE u == [ClearLease(s) EXCEPT !.active = TRUE, !.attempts = 0,
                      !.currentError = NoText, !.nextAttempt = 0, !.requested = @ + 1,
                      !.revision = @ + 1, !.state = "pending"]
    <3>1. DOMAIN u = ThreadFields /\ u.leaseToken = 0 /\ u.ticketID = s.ticketID
      BY <2>2, TheFields DEF ClearLease
    <3>2. Leaves(s, u)
      BY <3>1 DEF Leaves, LeaseStays
    <3>3. QED
      BY <2>2, <3>2, NothingLeaves DEF Resumed
  <2>6. Commanded(t, e, now) \in {Synced(s, e, now), Untracked(s), Resumed(s)}
    <3>1. e.command \in {"sync", "untrack", "resume"}
      BY <1>3 DEF Applies, TrackingCommands
    <3>2. QED
      BY <3>1 DEF Commanded, s
  <2>7. QED
    BY <2>1, <2>2, <2>3, <2>4, <2>5, <2>6, LeavesTwice
<1>4. CASE ~NewThread(e) /\ ~NewMessage(e) /\ ~Applies(e)
  BY <1>4, NothingLeaves DEF Effect
<1>5. QED
  BY <1>1, <1>2, <1>3, <1>4

LEMMA LinkedIs ==
  ASSUME NEW e
  PROVE  DOMAIN Linked(e) = ThreadFields /\ Linked(e).leaseToken = 0 /\ Linked(e).ticketID = e.ticketID
<1>1. DOMAIN NoThread = ThreadFields /\ NoThread.leaseToken = 0
  BY DEF ThreadFields, NoThread
<1>2. QED
  BY <1>1, TheFields DEF Linked

LEMMA EndsLeave ==
  ASSUME NEW t, NEW l, NEW a, NEW b, NEW c, DOMAIN t = ThreadFields
  PROVE  /\ Leaves(t, Completed(t, l, a, b)) /\ Completed(t, l, a, b).leaseToken = 0
         /\ Leaves(t, Failed(t, l, a, b, c)) /\ Failed(t, l, a, b, c).leaseToken = 0
<1>1. /\ DOMAIN ClearLease(t) = ThreadFields
      /\ ClearLease(t).leaseToken = 0 /\ ClearLease(t).ticketID = t.ticketID
  BY TheFields DEF ClearLease
<1> DEFINE Ended(u) == DOMAIN u = ThreadFields /\ u.leaseToken = 0 /\ u.ticketID = t.ticketID
<1>2. \A u : Ended(u) => Leaves(t, u)
  BY DEF Leaves, LeaseStays
<1>3. Ended(Completed(t, l, a, b))
  BY <1>1, TheFields DEF Completed
<1>4. Ended(Failed(t, l, a, b, c))
  BY <1>1, TheFields DEF Failed
<1>5. QED
  BY <1>2, <1>3, <1>4

LEMMA NewJobIs ==
  ASSUME NEW key, NEW r, NEW u
  PROVE  GoodJob(NewJob(key, r, u)) /\ NewJob(key, r, u).leaseToken = 0
<1>1. DOMAIN NewJob(key, r, u) = JobFields
  BY TheFields DEF NewJob
<1>2. NewJob(key, r, u).attempts = 0 /\ NewJob(key, r, u).leaseToken = 0
  BY DEF NewJob
<1>3. QED
  BY <1>1, <1>2 DEF GoodJob

LEMMA QueueLeaves ==
  ASSUME NEW box, NEW to, NEW key, JobsLeave(box, to), RepliesStay(box, to), RoomFor(to, key)
  PROVE  /\ JobsLeave(box, WithReactions(to, key)) /\ RepliesStay(box, WithReactions(to, key))
         /\ \A id \in JobIds : to[id].leaseToken = 0 => WithReactions(to, key)[id].leaseToken = 0
<1>1. CASE Unclaimed(to, key) # {}
  BY <1>1 DEF WithReactions
<1>2. CASE Unclaimed(to, key) = {}
  <2>1. PICK free \in FreeIds(to) : free = CHOOSE id \in FreeIds(to) : TRUE
    BY <1>2 DEF RoomFor
  <2>2. free \in ReactionIds /\ free \notin ReplyIds /\ free \in JobIds
    BY OutboxAssumption, <2>1 DEF FreeIds, JobIds
  <2>3. WithReactions(to, key) = [to EXCEPT ![free] = NewJob(key, TRUE, FALSE)]
    BY <1>2, <2>1 DEF WithReactions
  <2>4. PICK job : job = NewJob(key, TRUE, FALSE)
    OBVIOUS
  <2>5. GoodJob(job) /\ job.leaseToken = 0
    BY <2>4, NewJobIs
  <2>6. PICK after : after = [to EXCEPT ![free] = job]
    OBVIOUS
  <2>7. DOMAIN after = JobIds /\ after[free] = job /\ \A id \in JobIds \ {free} : after[id] = to[id]
    BY <2>2, <2>6 DEF JobsLeave
  <2>8. JobsLeave(box, after) /\ RepliesStay(box, after)
    BY <2>2, <2>5, <2>7 DEF JobsLeave, RepliesStay, JobIds
  <2>9. QED
    BY <2>3, <2>4, <2>5, <2>6, <2>7, <2>8
<1>3. QED
  BY <1>1, <1>2

LEMMA SettleLeaves ==
  ASSUME Shapes, NEW id \in JobIds, NEW job, NEW over, Settle(id, job, over),
         GoodJob(job), job.leaseToken = 0, job.key = outbox[id].key
  PROVE  JobsLeave(outbox, outbox') /\ RepliesStay(outbox, outbox') /\ outbox'[id].leaseToken = 0
<1>1. PICK box : box = [outbox EXCEPT ![id] = job]
  OBVIOUS
<1>2. DOMAIN box = JobIds /\ box[id] = job /\ \A i \in JobIds \ {id} : box[i] = outbox[i]
  BY <1>1 DEF Shapes
<1>3. JobsLeave(outbox, box) /\ RepliesStay(outbox, box)
  BY <1>2 DEF JobsLeave, RepliesStay, JobIds, Shapes
<1>4. outbox' = box \/ (RoomFor(box, job.key) /\ outbox' = WithReactions(box, job.key))
  BY <1>1 DEF Settle
<1>5. QED
  BY <1>2, <1>3, <1>4, QueueLeaves

(* The store's part of what a step does to threads and jobs. *)
ThreadsLeave == DOMAIN threads' = Keys /\ \A k \in Keys : LeaseStays(threads[k], threads'[k])
TicketsStay == \A k \in Keys : threads'[k].ticketID = threads[k].ticketID

LEMMA PutLeaves ==
  ASSUME Shapes, NEW k, NEW t, threads' = [threads EXCEPT ![k] = t],
         k \in Keys => LeaseStays(threads[k], t)
  PROVE  ThreadsLeave
BY NothingLeaves DEF Shapes, ThreadsLeave, Leaves

LEMMA RecordLeaves ==
  ASSUME Shapes, NEW e, NEW now, Record(e, now)
  PROVE  /\ ThreadsLeave /\ JobsLeave(outbox, outbox') /\ UNCHANGED <<clock, issued>>
         /\ \A id \in ReplyIds \ {e.id} : outbox'[id].key = outbox[id].key
         /\ \A k \in Keys : threads'[k].ticketID =
              IF NewThread(e) /\ k = e.key THEN e.ticketID ELSE threads[k].ticketID
<1>1. threads' = [threads EXCEPT ![e.key] = Effect(e, now)] /\ UNCHANGED <<clock, issued>>
  BY DEF Record, Put, granted
<1>2. ASSUME e.key \in Keys
      PROVE  /\ LeaseStays(threads[e.key], Effect(e, now))
             /\ Effect(e, now).ticketID = IF NewThread(e) THEN e.ticketID ELSE threads[e.key].ticketID
  <2>1. DOMAIN threads[e.key] = ThreadFields
    BY <1>2 DEF Shapes
  <2>2. CASE NewThread(e)
    <3>1. Effect(e, now) = Linked(e)
      BY <2>1, <2>2, EffectLeaves
    <3>2. QED
      BY <2>2, <3>1, LinkedIs DEF LeaseStays
  <2>3. CASE ~NewThread(e)
    BY <2>1, <2>3, EffectLeaves DEF Leaves
  <2>4. QED
    BY <2>2, <2>3
<1>3. ThreadsLeave
  BY <1>1, <1>2, PutLeaves
<1>4. ASSUME NEW k \in Keys
      PROVE  threads'[k].ticketID = IF NewThread(e) /\ k = e.key THEN e.ticketID ELSE threads[k].ticketID
  <2>1. CASE k = e.key
    <3>1. threads'[k] = Effect(e, now)
      BY <1>1, <2>1 DEF Shapes
    <3>2. QED
      BY <1>2, <2>1, <3>1
  <2>2. CASE k # e.key
    BY <1>1, <2>2 DEF Shapes
  <2>3. QED
    BY <2>1, <2>2
<1>5. JobsLeave(outbox, outbox') /\ \A id \in ReplyIds \ {e.id} : outbox'[id].key = outbox[id].key
  <2>1. PICK job : job = NewJob(e.key, FALSE, UpdatesTracking(e))
    OBVIOUS
  <2>2. outbox' = outbox \/ outbox' = [outbox EXCEPT ![e.id] = job]
    BY <2>1 DEF Record
  <2>3. GoodJob(job) /\ job.leaseToken = 0
    BY <2>1, NewJobIs
  <2>4. QED
    BY <2>2, <2>3 DEF JobsLeave, Shapes, JobIds
<1>6. QED
  BY <1>1, <1>3, <1>4, <1>5

LEMMA EndLeaves ==
  ASSUME Shapes, NEW l, l.key \in Keys,
         \/ \E ts : Complete(l, ts, 0, clock)
         \/ \E error, at, permanent : Fail(l, error, at, permanent, clock)
  PROVE  /\ ThreadsLeave /\ TicketsStay /\ JobsLeave(outbox, outbox') /\ RepliesStay(outbox, outbox')
         /\ threads'[l.key].leaseToken = 0 /\ UNCHANGED <<clock, issued, events, actions>>
<1> DEFINE Ended(t) == /\ threads' = [threads EXCEPT ![l.key] = t]
                       /\ Leaves(threads[l.key], t) /\ t.leaseToken = 0
<1>1. PICK t : Ended(t)
  <2>1. DOMAIN threads[l.key] = ThreadFields
    BY DEF Shapes
  <2>2. ASSUME NEW ts, Complete(l, ts, 0, clock) PROVE \E t : Ended(t)
    <3>1. Ended(Completed(threads[l.key], l, ts, 0))
      BY <2>1, <2>2, EndsLeave DEF Complete, Put
    <3>2. QED
      BY <3>1
  <2>3. ASSUME NEW error, NEW at, NEW permanent, Fail(l, error, at, permanent, clock)
        PROVE  \E t : Ended(t)
    <3>1. threads' = [threads EXCEPT ![l.key] = Failed(threads[l.key], l, error, at, permanent)]
      BY <2>3 DEF Fail, Put
    <3>2. /\ Leaves(threads[l.key], Failed(threads[l.key], l, error, at, permanent))
          /\ Failed(threads[l.key], l, error, at, permanent).leaseToken = 0
      BY <2>1, EndsLeave
    <3>3. QED
      BY <3>1, <3>2
  <2>4. QED
    BY <2>2, <2>3
<1>2. RoomFor(outbox, l.key) /\ outbox' = WithReactions(outbox, l.key)
      /\ UNCHANGED <<clock, issued, events, actions>>
  BY DEF Complete, Fail, granted
<1>3. JobsLeave(outbox, outbox) /\ RepliesStay(outbox, outbox)
  BY DEF JobsLeave, RepliesStay, Shapes
<1>4. threads'[l.key].leaseToken = 0 /\ TicketsStay
  BY <1>1 DEF Shapes, Leaves, TicketsStay
<1>5. ThreadsLeave
  BY <1>1, PutLeaves DEF Leaves
<1>6. QED
  BY <1>1, <1>2, <1>3, <1>4, <1>5, QueueLeaves

LEMMA EndJobLeaves ==
  ASSUME Shapes, NEW id \in JobIds, NEW token,
         \/ CompleteNotification(id, token, clock)
         \/ \E at, permanent : FailNotification(id, token, at, permanent, clock)
  PROVE  /\ UNCHANGED <<threads, clock, issued, events, actions>>
         /\ JobsLeave(outbox, outbox') /\ RepliesStay(outbox, outbox') /\ outbox'[id].leaseToken = 0
<1>1. UNCHANGED <<threads, clock, issued, events, actions>>
  BY DEF CompleteNotification, FailNotification, granted
<1>2. PICK job, over : Settle(id, job, over) /\ GoodJob(job) /\ job.leaseToken = 0 /\ job.key = outbox[id].key
  <2>1. GoodJob(outbox[id])
    BY DEF Shapes
  <2>2. CASE CompleteNotification(id, token, clock)
    <3>1. PICK job : job = JobCompleted(outbox[id])
      OBVIOUS
    <3>2. GoodJob(job) /\ job.leaseToken = 0 /\ job.key = outbox[id].key
      BY <2>1, <3>1, TheFields DEF GoodJob, JobCompleted
    <3>3. Settle(id, job, TRUE)
      BY <2>2, <3>1 DEF CompleteNotification
    <3>4. QED
      BY <3>2, <3>3
  <2>3. ASSUME NEW at, NEW permanent, FailNotification(id, token, at, permanent, clock)
        PROVE  \E job, over : /\ Settle(id, job, over) /\ GoodJob(job)
                              /\ job.leaseToken = 0 /\ job.key = outbox[id].key
    <3>1. PICK job : job = JobFailed(outbox[id], at, permanent)
      OBVIOUS
    <3>2. GoodJob(job) /\ job.leaseToken = 0 /\ job.key = outbox[id].key
      BY <2>1, <3>1, TheFields DEF GoodJob, JobFailed
    <3>3. Settle(id, job, permanent)
      BY <2>3, <3>1 DEF FailNotification
    <3>4. QED
      BY <3>2, <3>3
  <2>4. QED
    BY <2>2, <2>3
<1>3. QED
  BY <1>1, <1>2, SettleLeaves

LEMMA ClaimJobIs ==
  ASSUME Shapes, NEW id \in JobIds,
         ClaimNotification(id, clock) \/ ClaimReactionNotification(id, clock)
  PROVE  /\ UNCHANGED <<threads, clock, issued, events, actions>>
         /\ DOMAIN outbox' = JobIds /\ \A i \in JobIds \ {id} : outbox'[i] = outbox[i]
         /\ GoodJob(outbox'[id]) /\ outbox'[id].key = outbox[id].key
         /\ ValidateNotification(outbox'[id], outbox[id].attempts + 1, clock)
<1>1. UNCHANGED <<threads, clock, issued, events, actions>>
  BY DEF ClaimNotification, ClaimReactionNotification, granted
<1>2. PICK job : job = JobClaimed(outbox[id], clock)
  OBVIOUS
<1>3. outbox' = [outbox EXCEPT ![id] = job] /\ Open(outbox[id])
  BY <1>2 DEF ClaimNotification, ClaimReactionNotification, Deliverable
<1>4. DOMAIN outbox' = JobIds /\ outbox'[id] = job /\ \A i \in JobIds \ {id} : outbox'[i] = outbox[i]
  BY <1>3 DEF Shapes
<1>5. GoodJob(outbox[id]) /\ clock \in Nat /\ JobLease \in Nat \ {0}
  BY OutboxAssumption DEF Shapes
<1>6. /\ DOMAIN job = JobFields /\ job.attempts = outbox[id].attempts + 1
      /\ job.leaseToken = outbox[id].attempts + 1 /\ job.leaseExpires = clock + JobLease
      /\ job.completed = outbox[id].completed /\ job.key = outbox[id].key
  BY <1>2, <1>5, TheFields DEF JobClaimed, GoodJob
<1>7. ValidateNotification(job, outbox[id].attempts + 1, clock)
  BY <1>3, <1>5, <1>6 DEF ValidateNotification, GoodJob, Open
<1>8. GoodJob(job)
  BY <1>5, <1>6 DEF GoodJob
<1>9. QED
  BY <1>1, <1>4, <1>6, <1>7, <1>8

LEMMA ClaimIs ==
  ASSUME Shapes, NEW k \in Keys, Claim(k, clock)
  PROVE  /\ UNCHANGED <<outbox, clock, events, actions>> /\ issued' \in [Keys -> Nat]
         /\ DOMAIN threads' = Keys /\ \A j \in Keys \ {k} : threads'[j] = threads[j]
         /\ DOMAIN threads'[k] = ThreadFields /\ threads'[k].ticketID = threads[k].ticketID
         /\ NewLease(k).key = k /\ Validate(threads'[k], NewLease(k), clock)
<1>1. UNCHANGED <<outbox, clock, events, actions>> /\ issued' \in [Keys -> Nat]
  BY DEF Claim, Shapes
<1>2. PICK t : t = Claimed(threads[k], issued[k] + 1, clock)
  OBVIOUS
<1>3. threads' = [threads EXCEPT ![k] = t] /\ threads[k].active
  BY <1>2 DEF Claim, Put, Claimable
<1>4. DOMAIN threads' = Keys /\ threads'[k] = t /\ \A j \in Keys \ {k} : threads'[j] = threads[j]
  BY <1>3 DEF Shapes
<1>5. DOMAIN threads[k] = ThreadFields /\ clock \in Nat /\ issued[k] \in Nat /\ LeaseDuration \in Nat \ {0}
  BY RecordAssumption DEF Shapes
<1>6. /\ DOMAIN t = ThreadFields /\ t.active = threads[k].active /\ t.revision = threads[k].revision
      /\ t.leaseToken = issued[k] + 1 /\ t.leaseExpires = clock + LeaseDuration
      /\ t.ticketID = threads[k].ticketID
  BY <1>2, <1>5, TheFields DEF Claimed
<1>7. NewLease(k).key = k /\ NewLease(k).revision = threads[k].revision /\ NewLease(k).token = issued[k] + 1
  BY DEF NewLease
<1>8. Validate(t, NewLease(k), clock)
  BY <1>3, <1>5, <1>6, <1>7 DEF Validate, After
<1>9. QED
  BY <1>1, <1>4, <1>6, <1>7, <1>8

-----------------------------------------------------------------------------
(* Stopping in time.  While no lease has been left to expire, every lease     *)
(* that the store knows is held by a worker and still valid.                  *)
HoldsThread(w, k) ==
  /\ held[w].kind = "thread" /\ held[w].lease.key = k
  /\ Validate(threads[k], held[w].lease, clock)
HoldsJob(w, id) ==
  /\ held[w].kind = "job" /\ held[w].id = id
  /\ ValidateNotification(outbox[id], held[w].token, clock)

AllHeld ==
  /\ \A k \in Keys : threads[k].leaseToken # 0 => \E w \in Workers : HoldsThread(w, k)
  /\ \A id \in JobIds : outbox[id].leaseToken # 0 => \E w \in Workers : HoldsJob(w, id)

HeldOK(what) ==
  \/ what = NoWork
  \/ what.kind = "thread" /\ what.lease.key \in Keys
  \/ what.kind = "job" /\ what.id \in JobIds

CleanInv ==
  /\ Shapes /\ DOMAIN held = Workers
  /\ \A w \in Workers : HeldOK(held[w])
  /\ ~lost => AllHeld

LEMMA ShapesStay ==
  ASSUME Shapes, ThreadsLeave, JobsLeave(outbox, outbox'), UNCHANGED <<clock, issued>>
  PROVE  Shapes'
BY DEF Shapes, ThreadsLeave, JobsLeave, LeaseStays

LEMMA ThreadStays ==
  ASSUME NEW w \in Workers, NEW k \in Keys, HoldsThread(w, k), held'[w] = held[w],
         LeaseStays(threads[k], threads'[k]), threads'[k].leaseToken # 0, UNCHANGED clock
  PROVE  HoldsThread(w, k)'
BY DEF HoldsThread, LeaseStays, SameLease, Validate

LEMMA JobStays ==
  ASSUME NEW w \in Workers, NEW id \in JobIds, HoldsJob(w, id), held'[w] = held[w],
         JobsLeave(outbox, outbox'), outbox'[id].leaseToken # 0, UNCHANGED clock
  PROVE  HoldsJob(w, id)'
<1>1. outbox'[id] = outbox[id]
  BY DEF JobsLeave
<1>2. QED
  BY <1>1 DEF HoldsJob

(* Whoever has nothing holds nothing. *)
LEMMA NothingHeld ==
  ASSUME NEW w, held[w] = NoWork
  PROVE  (\A k : ~HoldsThread(w, k)) /\ \A id : ~HoldsJob(w, id)
BY DEF HoldsThread, HoldsJob, NoWork

(* One worker lets go of what it held, whose lease is over or was not valid. *)
LEMMA LetsGo ==
  ASSUME AllHeld, NEW w \in Workers, \A v \in Workers \ {w} : held'[v] = held[v],
         ThreadsLeave, JobsLeave(outbox, outbox'), UNCHANGED clock,
         \A k \in Keys : HoldsThread(w, k) => threads'[k].leaseToken = 0,
         \A id \in JobIds : HoldsJob(w, id) => outbox'[id].leaseToken = 0
  PROVE  AllHeld'
<1>1. ASSUME NEW k \in Keys, threads'[k].leaseToken # 0
      PROVE  \E v \in Workers : HoldsThread(v, k)'
  <2>1. LeaseStays(threads[k], threads'[k]) /\ threads[k].leaseToken # 0
    BY <1>1 DEF ThreadsLeave, LeaseStays, SameLease
  <2>2. PICK v \in Workers : HoldsThread(v, k)
    BY <2>1 DEF AllHeld
  <2>3. v # w
    BY <1>1, <2>2
  <2>4. QED
    BY <1>1, <2>1, <2>2, <2>3, ThreadStays
<1>2. ASSUME NEW id \in JobIds, outbox'[id].leaseToken # 0
      PROVE  \E v \in Workers : HoldsJob(v, id)'
  <2>1. outbox[id].leaseToken # 0
    BY <1>2 DEF JobsLeave
  <2>2. PICK v \in Workers : HoldsJob(v, id)
    BY <2>1 DEF AllHeld
  <2>3. v # w
    BY <1>2, <2>2
  <2>4. QED
    BY <1>2, <2>2, <2>3, JobStays
<1>3. QED
  BY <1>1, <1>2 DEF AllHeld

LEMMA AllStays ==
  ASSUME AllHeld, \A v \in Workers : held'[v] = held[v],
         ThreadsLeave, JobsLeave(outbox, outbox'), UNCHANGED clock
  PROVE  AllHeld'
<1>1. ASSUME NEW k \in Keys, threads'[k].leaseToken # 0
      PROVE  \E v \in Workers : HoldsThread(v, k)'
  <2>1. LeaseStays(threads[k], threads'[k]) /\ threads[k].leaseToken # 0
    BY <1>1 DEF ThreadsLeave, LeaseStays, SameLease
  <2>2. QED
    BY <1>1, <2>1, ThreadStays DEF AllHeld
<1>2. ASSUME NEW id \in JobIds, outbox'[id].leaseToken # 0
      PROVE  \E v \in Workers : HoldsJob(v, id)'
  <2>1. outbox[id].leaseToken # 0
    BY <1>2 DEF JobsLeave
  <2>2. QED
    BY <1>2, <2>1, JobStays DEF AllHeld
<1>3. QED
  BY <1>1, <1>2 DEF AllHeld

LEMMA StoreStill ==
  ASSUME Shapes, UNCHANGED storeVars
  PROVE  /\ ThreadsLeave /\ TicketsStay /\ JobsLeave(outbox, outbox') /\ RepliesStay(outbox, outbox')
         /\ UNCHANGED <<threads, outbox, clock, issued, events, actions>>
<1>1. UNCHANGED <<threads, outbox, clock, issued, events, actions>>
  BY DEF storeVars, vars, durable, granted
<1>2. QED
  BY <1>1, NothingLeaves DEF Shapes, ThreadsLeave, TicketsStay, JobsLeave, RepliesStay, Leaves

(* Nothing is held and nothing is done. *)
LEMMA CleanQuiet ==
  ASSUME CleanInv, UNCHANGED <<storeVars, held>>, lost => lost'
  PROVE  CleanInv'
<1>1. Shapes'
  BY StoreStill, ShapesStay DEF CleanInv
<1>2. ~lost' => AllHeld'
  BY StoreStill, AllStays DEF CleanInv
<1>3. QED
  BY <1>1, <1>2 DEF CleanInv

LEMMA CleanEnd ==
  ASSUME CleanInv, Ends, lost' \/ ((\A w \in Workers : held[w] = NoWork) /\ (lost => lost'))
  PROVE  CleanInv'
<1>1. UNCHANGED storeVars /\ DOMAIN held' = Workers /\ \A w \in Workers : held'[w] = NoWork
  BY DEF Ends, Idle
<1>2. Shapes'
  BY <1>1, StoreStill, ShapesStay DEF CleanInv
<1>3. ~lost' => AllHeld'
  BY <1>1, StoreStill, AllStays DEF CleanInv
<1>4. QED
  BY <1>1, <1>2, <1>3 DEF CleanInv, HeldOK

LEMMA CleanHandle ==
  ASSUME CleanInv, NEW h \in Handlers, HandlerStep(h), UNCHANGED processVars
  PROVE  CleanInv'
<1>1. UNCHANGED <<held, lost>>
  BY DEF processVars
<1>2. CASE UNCHANGED storeVars
  BY <1>1, <1>2, CleanQuiet
<1>3. CASE \E e : Record(e, clock)
  <2>1. Shapes'
    BY <1>3, RecordLeaves, ShapesStay DEF CleanInv
  <2>2. ~lost' => AllHeld'
    BY <1>1, <1>3, RecordLeaves, AllStays DEF CleanInv
  <2>3. QED
    BY <1>1, <2>1, <2>2 DEF CleanInv
<1>4. UNCHANGED storeVars \/ \E e : Record(e, clock)
  BY DEF HandlerStep, GetThread, ValidateTicket, RecordEvents, Answer, Unavailable, Recorded
<1>5. QED
  BY <1>2, <1>3, <1>4

LEMMA CleanTake ==
  ASSUME CleanInv, NEW w \in Workers, Take(w)
  PROVE  CleanInv'
<1>1. held[w] = NoWork /\ UNCHANGED lost
  BY DEF Take
<1>2. (\A k : ~HoldsThread(w, k)) /\ \A id : ~HoldsJob(w, id)
  BY <1>1, NothingHeld
<1>3. ASSUME NEW id \in JobIds, ClaimNotification(id, clock) \/ ClaimReactionNotification(id, clock),
             Holds(w, [kind |-> "job", id |-> id, token |-> outbox[id].attempts + 1])
      PROVE  CleanInv'
  <2>1. PICK what : /\ held' = [held EXCEPT ![w] = what]
                    /\ what = [kind |-> "job", id |-> id, token |-> outbox[id].attempts + 1]
    BY <1>3 DEF Holds
  <2>2. what.kind = "job" /\ what.id = id /\ what.token = outbox[id].attempts + 1
    BY <2>1
  <2>3. DOMAIN held' = Workers /\ held'[w] = what /\ \A v \in Workers \ {w} : held'[v] = held[v]
    BY <2>1 DEF CleanInv
  <2>4. /\ UNCHANGED <<threads, clock, issued>>
        /\ DOMAIN outbox' = JobIds /\ \A i \in JobIds \ {id} : outbox'[i] = outbox[i]
        /\ GoodJob(outbox'[id])
        /\ ValidateNotification(outbox'[id], outbox[id].attempts + 1, clock)
    BY <1>3, ClaimJobIs DEF CleanInv
  <2>5. Shapes'
    BY <2>4 DEF CleanInv, Shapes
  <2>6. \A v \in Workers : HeldOK(held'[v])
    BY <2>2, <2>3 DEF CleanInv, HeldOK
  <2>7. HoldsJob(w, id)'
    BY <2>2, <2>3, <2>4 DEF HoldsJob
  <2>8. ASSUME AllHeld PROVE AllHeld'
    <3>1. ASSUME NEW k \in Keys, threads'[k].leaseToken # 0
          PROVE  \E v \in Workers : HoldsThread(v, k)'
      <4>1. PICK v \in Workers : HoldsThread(v, k)
        BY <2>4, <2>8, <3>1 DEF AllHeld
      <4>2. v # w
        BY <1>2, <4>1
      <4>3. HoldsThread(v, k)'
        BY <2>3, <2>4, <4>1, <4>2 DEF HoldsThread
      <4>4. QED
        BY <4>3
    <3>2. ASSUME NEW i \in JobIds \ {id}, outbox'[i].leaseToken # 0
          PROVE  \E v \in Workers : HoldsJob(v, i)'
      <4>1. PICK v \in Workers : HoldsJob(v, i)
        BY <2>4, <2>8, <3>2 DEF AllHeld
      <4>2. v # w
        BY <1>2, <4>1
      <4>3. HoldsJob(v, i)'
        BY <2>3, <2>4, <4>1, <4>2 DEF HoldsJob
      <4>4. QED
        BY <4>3
    <3>3. QED
      BY <2>7, <3>1, <3>2 DEF AllHeld
  <2>9. QED
    BY <1>1, <2>3, <2>5, <2>6, <2>8 DEF CleanInv
<1>4. ASSUME NEW k \in Keys, Claim(k, clock), Holds(w, [kind |-> "thread", lease |-> NewLease(k)])
      PROVE  CleanInv'
  <2>1. PICK what : held' = [held EXCEPT ![w] = what] /\ what = [kind |-> "thread", lease |-> NewLease(k)]
    BY <1>4 DEF Holds
  <2>2. what.kind = "thread" /\ what.lease = NewLease(k)
    BY <2>1
  <2>3. DOMAIN held' = Workers /\ held'[w] = what /\ \A v \in Workers \ {w} : held'[v] = held[v]
    BY <2>1 DEF CleanInv
  <2>4. /\ UNCHANGED <<outbox, clock>> /\ issued' \in [Keys -> Nat]
        /\ DOMAIN threads' = Keys /\ \A j \in Keys \ {k} : threads'[j] = threads[j]
        /\ DOMAIN threads'[k] = ThreadFields
        /\ NewLease(k).key = k /\ Validate(threads'[k], NewLease(k), clock)
    BY <1>4, ClaimIs DEF CleanInv
  <2>5. Shapes'
    BY <2>4 DEF CleanInv, Shapes
  <2>6. \A v \in Workers : HeldOK(held'[v])
    BY <2>2, <2>3, <2>4 DEF CleanInv, HeldOK
  <2>7. HoldsThread(w, k)'
    BY <2>2, <2>3, <2>4 DEF HoldsThread
  <2>8. ASSUME AllHeld PROVE AllHeld'
    <3>1. ASSUME NEW j \in Keys \ {k}, threads'[j].leaseToken # 0
          PROVE  \E v \in Workers : HoldsThread(v, j)'
      <4>1. PICK v \in Workers : HoldsThread(v, j)
        BY <2>4, <2>8, <3>1 DEF AllHeld
      <4>2. v # w
        BY <1>2, <4>1
      <4>3. HoldsThread(v, j)'
        BY <2>3, <2>4, <4>1, <4>2 DEF HoldsThread
      <4>4. QED
        BY <4>3
    <3>2. ASSUME NEW i \in JobIds, outbox'[i].leaseToken # 0
          PROVE  \E v \in Workers : HoldsJob(v, i)'
      <4>1. PICK v \in Workers : HoldsJob(v, i)
        BY <2>4, <2>8, <3>2 DEF AllHeld
      <4>2. v # w
        BY <1>2, <4>1
      <4>3. HoldsJob(v, i)'
        BY <2>3, <2>4, <4>1, <4>2 DEF HoldsJob
      <4>4. QED
        BY <4>3
    <3>3. QED
      BY <2>7, <3>1, <3>2 DEF AllHeld
  <2>9. QED
    BY <1>1, <2>3, <2>5, <2>6, <2>8 DEF CleanInv
<1>5. QED
  BY <1>3, <1>4 DEF Take, JobIds

(* A worker's work ends by the one call that ends it. *)
LEMMA ReleasedThread ==
  ASSUME NEW what, what.kind = "thread", Released(what)
  PROVE  /\ ~Validate(threads[what.lease.key], what.lease, clock) => UNCHANGED storeVars
         /\ Validate(threads[what.lease.key], what.lease, clock) =>
              \/ \E ts : Complete(what.lease, ts, 0, clock)
              \/ \E error, at, permanent : Fail(what.lease, error, at, permanent, clock)
BY DEF Released

LEMMA FailedThread ==
  ASSUME NEW what, what.kind = "thread", FailedWork(what)
  PROVE  /\ Validate(threads[what.lease.key], what.lease, clock)
         /\ \E error, at, permanent : Fail(what.lease, error, at, permanent, clock)
<1>1. \E error, at, permanent : Fail(what.lease, error, at, permanent, clock)
  BY DEF FailedWork
<1>2. QED
  BY <1>1 DEF Fail

LEMMA JobEnds ==
  ASSUME NEW what, what.kind = "job", Released(what) \/ FailedWork(what)
  PROVE  \/ CompleteNotification(what.id, what.token, clock)
         \/ \E at, permanent : FailNotification(what.id, what.token, at, permanent, clock)
BY DEF Released, FailedWork

LEMMA CleanRelease ==
  ASSUME CleanInv, NEW w \in Workers, Release(w)
  PROVE  CleanInv'
<1>1. /\ held[w] # NoWork /\ HeldOK(held[w])
      /\ DOMAIN held' = Workers /\ held'[w] = NoWork /\ \A v \in Workers \ {w} : held'[v] = held[v]
  BY DEF Release, CleanInv
<1>2. \A v \in Workers : HeldOK(held'[v])
  BY <1>1 DEF CleanInv, HeldOK
<1>3. CASE lost' = TRUE /\ UNCHANGED storeVars
  <2>1. Shapes'
    BY <1>3, StoreStill, ShapesStay DEF CleanInv
  <2>2. QED
    BY <1>1, <1>2, <1>3, <2>1 DEF CleanInv
<1>4. CASE (Released(held[w]) \/ FailedWork(held[w])) /\ UNCHANGED lost
  <2>1. /\ ThreadsLeave /\ JobsLeave(outbox, outbox') /\ UNCHANGED <<clock, issued>>
        /\ \A k \in Keys : HoldsThread(w, k) => threads'[k].leaseToken = 0
        /\ \A id \in JobIds : HoldsJob(w, id) => outbox'[id].leaseToken = 0
    <3>1. CASE held[w].kind = "thread" /\ held[w].lease.key \in Keys
      <4> DEFINE l == held[w].lease
      <4>1. \A id : ~HoldsJob(w, id)
        BY <3>1 DEF HoldsJob
      <4>2. CASE ~Validate(threads[l.key], l, clock)
        <5>1. UNCHANGED storeVars
          BY <1>4, <3>1, <4>2, FailedThread, ReleasedThread
        <5>2. \A k : ~HoldsThread(w, k)
          BY <4>2 DEF HoldsThread
        <5>3. QED
          BY <4>1, <5>1, <5>2, StoreStill DEF CleanInv
      <4>3. CASE Validate(threads[l.key], l, clock)
        <5>1. \/ \E ts : Complete(l, ts, 0, clock)
              \/ \E error, at, permanent : Fail(l, error, at, permanent, clock)
          BY <1>4, <3>1, <4>3, FailedThread, ReleasedThread
        <5>2. /\ ThreadsLeave /\ JobsLeave(outbox, outbox') /\ threads'[l.key].leaseToken = 0
              /\ UNCHANGED <<clock, issued>>
          BY <3>1, <5>1, EndLeaves DEF CleanInv
        <5>3. \A k : HoldsThread(w, k) => k = l.key
          BY DEF HoldsThread
        <5>4. QED
          BY <4>1, <5>2, <5>3
      <4>4. QED
        BY <4>2, <4>3
    <3>2. CASE held[w].kind = "job" /\ held[w].id \in JobIds
      <4>1. \A k : ~HoldsThread(w, k)
        BY <3>2 DEF HoldsThread
      <4>2. \/ CompleteNotification(held[w].id, held[w].token, clock)
            \/ \E at, permanent : FailNotification(held[w].id, held[w].token, at, permanent, clock)
        BY <1>4, <3>2, JobEnds
      <4>3. /\ UNCHANGED <<threads, clock, issued>>
            /\ JobsLeave(outbox, outbox') /\ outbox'[held[w].id].leaseToken = 0
        BY <3>2, <4>2, EndJobLeaves DEF CleanInv
      <4>4. ThreadsLeave
        BY <4>3, NothingLeaves DEF CleanInv, Shapes, ThreadsLeave, Leaves
      <4>5. \A id : HoldsJob(w, id) => id = held[w].id
        BY DEF HoldsJob
      <4>6. QED
        BY <4>1, <4>3, <4>4, <4>5
    <3>3. QED
      BY <1>1, <3>1, <3>2 DEF HeldOK
  <2>2. Shapes'
    BY <2>1, ShapesStay DEF CleanInv
  <2>3. ~lost' => AllHeld'
    BY <1>1, <1>4, <2>1, LetsGo DEF CleanInv
  <2>4. QED
    BY <1>1, <1>2, <2>2, <2>3 DEF CleanInv
<1>5. QED
  BY <1>3, <1>4 DEF Release

LEMMA NextClean ==
  ASSUME StopInv, CleanInv, [ServiceNext]_allVars
  PROVE  CleanInv'
<1>1. ASSUME Ends, UNCHANGED lost, \A w \in Workers : held[w] = NoWork PROVE CleanInv'
  BY <1>1, CleanEnd
<1>2. ASSUME Dies PROVE CleanInv'
  <2>1. CASE held = Idle
    <3>1. (\A w \in Workers : held[w] = NoWork) /\ (lost => lost')
      BY <1>2, <2>1 DEF Dies, Idle
    <3>2. QED
      BY <1>2, <3>1, CleanEnd DEF Dies
  <2>2. CASE held # Idle
    BY <1>2, <2>2, CleanEnd DEF Dies
  <2>3. QED
    BY <2>1, <2>2
<1>3. ASSUME NEW w \in Workers, Look(w) \/ Take(w) \/ PassOn(w) \/ Release(w)
      PROVE  CleanInv'
  <2>1. CASE Look(w) \/ PassOn(w)
    BY <2>1, CleanQuiet DEF Look, PassOn
  <2>2. QED
    BY <1>3, <2>1, CleanTake, CleanRelease
<1>4. CASE NoSuchDriver
  <2>1. phase \notin Running
    BY <1>4 DEF NoSuchDriver, Running, Stopping
  <2>2. \A w \in Workers : held[w] = NoWork
    BY <2>1 DEF StopInv
  <2>3. QED
    BY <1>1, <1>4, <2>2 DEF NoSuchDriver
<1>5. CASE Drained
  <2>1. \A w \in Workers : worker[w] = "off"
    BY <1>5 DEF Drained, AllStopped
  <2>2. \A w \in Workers : held[w] = NoWork
    BY <2>1, LoopFacts DEF StopInv
  <2>3. QED
    BY <1>1, <1>5, <2>2 DEF Drained
<1>6. CASE Handle
  BY <1>6, CleanHandle DEF Handle
<1>7. CASE Deliver
  <2>1. UNCHANGED <<storeVars, held, lost>>
    BY <1>7 DEF Deliver, Send, processVars
  <2>2. QED
    BY <2>1, CleanQuiet
<1>8. CASE LoadConfig \/ Restart \/ Start \/ Proceed \/ Serve \/ Stop \/ Shutdown \/ Cancel \/ UNCHANGED allVars
  <2>1. UNCHANGED <<storeVars, held, lost>>
    BY <1>8 DEF LoadConfig, Restart, Start, Proceed, Serve, Stop, Shutdown, Cancel, allVars, processVars
  <2>2. QED
    BY <2>1, CleanQuiet
<1>9. QED
  BY <1>2, <1>3, <1>4, <1>5, <1>6, <1>7, <1>8 DEF ServiceNext, Crash, GraceEnds

LEMMA InitClean ==
  ASSUME ServiceInit
  PROVE  CleanInv
<1>1. Shapes
  <2>1. clock = Lag + 1 /\ Lag \in Nat
    BY StoreAssumption DEF ServiceInit, IngressInit, Init
  <2>2. clock \in Nat
    BY <2>1
  <2>3. \A id \in JobIds : GoodJob(outbox[id])
    <3>1. DOMAIN NoJob = JobFields /\ NoJob.attempts = 0
      BY TheFields DEF NoJob, NewJob
    <3>2. \A id \in JobIds : outbox[id] = NoJob
      BY DEF ServiceInit, IngressInit, Init
    <3>3. QED
      BY <3>1, <3>2 DEF GoodJob
  <2>4. QED
    BY <2>2, <2>3 DEF Shapes, ThreadFields, ServiceInit, IngressInit, Init
<1>2. DOMAIN held = Workers /\ \A w \in Workers : held[w] = NoWork
  BY DEF ServiceInit, Idle
<1>3. AllHeld
  <2>1. \A k \in Keys : threads[k].leaseToken = 0
    BY DEF ServiceInit, IngressInit, Init, NoThread
  <2>2. \A id \in JobIds : outbox[id].leaseToken = 0
    BY DEF ServiceInit, IngressInit, Init, NoJob, NewJob
  <2>3. QED
    BY <2>1, <2>2 DEF AllHeld
<1>4. QED
  BY <1>1, <1>2, <1>3 DEF CleanInv, HeldOK

(* run: a process whose workers were done before the grace period ended goes  *)
(* down with no lease in the store, whatever crashed before and whatever      *)
(* messages arrived: its successor has nothing to wait for.                   *)
THEOREM StopsAreClean == ServiceSpec => []CleanStop
<1>1. ServiceInit => StopInv /\ CleanInv
  BY InitStops, InitClean
<1>2. StopInv /\ CleanInv /\ [ServiceNext]_allVars => (StopInv /\ CleanInv)'
  BY NextStops, NextClean
<1>3. StopInv /\ CleanInv => CleanStop
  <2>1. SUFFICES ASSUME StopInv, CleanInv, phase = "down", ~lost
        PROVE  /\ \A k \in Keys : threads[k].leaseToken = 0
               /\ \A id \in JobIds : outbox[id].leaseToken = 0
    BY DEF CleanStop
  <2>2. \A w \in Workers : held[w] = NoWork
    BY <2>1 DEF StopInv, Running, Stopping
  <2>3. QED
    BY <2>1, <2>2, NothingHeld DEF CleanInv, AllHeld
<1>4. QED
  BY <1>1, <1>2, <1>3, PTL DEF ServiceSpec

-----------------------------------------------------------------------------
(* Acknowledging.  A handler carries one event of Slack from the request to   *)
(* the answer; 200 is what it has to answer when that event, or the other     *)
(* event of its message, has been recorded.                                   *)
HandlerFields == DOMAIN Rest
EventFields == DOMAIN NoEvent

HandlerOK(s) == DOMAIN s = HandlerFields /\ DOMAIN s.event = EventFields
Carries(s, d) ==
  s.delivery = d.id /\ s.event.id = d.id /\ Action(s.event) = Action(EventOf(d))
IsHeard(d) == d.id \in events \/ Action(EventOf(d)) \in actions
Bears(s, d) == Concerns(d) /\ Carries(s, d) /\ (s.pc = "answering" /\ s.code = 200 => IsHeard(d))

AckInv ==
  /\ DOMAIN slack = Deliveries /\ DOMAIN handler = Handlers
  /\ \A h \in Handlers :
       /\ HandlerOK(handler[h])
       /\ handler[h].pc # "rest" => \E d \in Deliveries : Bears(handler[h], d)
  /\ AcknowledgedIsRecorded

LEMMA MoreFields ==
  /\ HandlerFields = {"pc", "delivery", "event", "code", "reply"}
  /\ EventFields = {"id", "key", "kind", "command", "messageTS", "ticketID"}
BY DEF HandlerFields, EventFields, Rest, NoEvent

LEMMA FirstFails ==
  ASSUME NEW a, NEW b, NEW c, NEW d, First(<<a, b, c, d>>) = 0
  PROVE  a = 0 /\ b = 0 /\ c = 0 /\ d = 0
<1> DEFINE codes == <<a, b, c, d>>
           P(i) == codes[i] # 0 /\ \A j \in DOMAIN codes : j < i => codes[j] = 0
<1>1. DOMAIN codes = 1..4 /\ codes[1] = a /\ codes[2] = b /\ codes[3] = c /\ codes[4] = d
  OBVIOUS
<1>2. First(codes) = IF \A i \in DOMAIN codes : codes[i] = 0 THEN 0 ELSE codes[CHOOSE i \in DOMAIN codes : P(i)]
  BY DEF First
<1> HIDE DEF codes
<1>3. SUFFICES ASSUME ~(a = 0 /\ b = 0 /\ c = 0 /\ d = 0) PROVE FALSE
  OBVIOUS
<1>4. \E i \in DOMAIN codes : P(i)
  <2>1. CASE a # 0
    <3>1. P(1)
      BY <1>1, <2>1
    <3>2. QED
      BY <1>1, <3>1
  <2>2. CASE a = 0 /\ b # 0
    <3>1. P(2)
      BY <1>1, <2>2
    <3>2. QED
      BY <1>1, <3>1
  <2>3. CASE a = 0 /\ b = 0 /\ c # 0
    <3>1. P(3)
      BY <1>1, <2>3
    <3>2. QED
      BY <1>1, <3>1
  <2>4. CASE a = 0 /\ b = 0 /\ c = 0 /\ d # 0
    <3>1. P(4)
      BY <1>1, <2>4
    <3>2. QED
      BY <1>1, <3>1
  <2>5. QED
    BY <1>3, <2>1, <2>2, <2>3, <2>4
<1>5. PICK i \in DOMAIN codes : P(i) /\ First(codes) = codes[i]
  BY <1>1, <1>2, <1>3, <1>4
<1>6. QED
  BY <1>5 DEF codes

(* A delivery concerns the bot or does not, whatever the process is at; one   *)
(* that does is signed and has its event's ID.                                *)
LEMMA ConcernsForever == \A d : Concerns(d)' = Concerns(d)
BY DEF Concerns, Code, ReadyCode

LEMMA ConcernsSigned ==
  ASSUME NEW d, Concerns(d)
  PROVE  d.signed /\ d.id # ""
<1>1. d.path = "/slack/events" => Code(d) = SlackCode(d)
  BY DEF Concerns, Code
<1>2. d.path = "/slack/events"
  <2>1. First(<<Decode(d), NotImplemented>>) # 0
    <3> DEFINE codes == <<Decode(d), NotImplemented>>
               P(i) == codes[i] # 0 /\ \A j \in DOMAIN codes : j < i => codes[j] = 0
    <3>1. DOMAIN codes = 1..2 /\ codes[2] = 501
      BY DEF NotImplemented
    <3>2. First(codes) = IF \A i \in DOMAIN codes : codes[i] = 0 THEN 0 ELSE codes[CHOOSE i \in DOMAIN codes : P(i)]
      BY DEF First
    <3>3. \E i \in DOMAIN codes : P(i)
      <4>1. P(1) \/ P(2)
        BY <3>1
      <4>2. QED
        BY <3>1, <4>1
    <3> HIDE DEF codes
    <3>4. QED
      BY <3>1, <3>2, <3>3 DEF codes
  <2>2. ReadyCode # 0
    BY DEF ReadyCode
  <2>3. QED
    BY <2>1, <2>2 DEF Concerns, Code
<1>3. Authenticate(d) = 0 /\ Envelope(d) = 0
  BY <1>1, <1>2, FirstFails DEF SlackCode, Concerns
<1>4. d.signed
  <2>1. ASSUME ~d.signed PROVE Authenticate(d) \in {413, 400, 401}
    BY <2>1 DEF Authenticate
  <2>2. QED
    BY <1>3, <2>1
<1>5. d.id # ""
  <2> DEFINE Codes == {400, 401, 200}
  <2>1. 400 \in Codes /\ 401 \in Codes /\ 200 \in Codes /\ 0 \notin Codes
    OBVIOUS
  <2> HIDE DEF Codes
  <2>2. ASSUME d.id = "" PROVE Envelope(d) \in Codes
    <3>1. CASE d.type = "url_verification"
      BY <2>1, <3>1, Zenon DEF Envelope
    <3>2. CASE d.type # "url_verification"
      BY <2>1, <2>2, <3>2, Zenon DEF Envelope
    <3>3. QED
      BY <3>1, <3>2
  <2>3. QED
    BY <1>3, <2>1, <2>2, Zenon
<1>6. QED
  BY <1>4, <1>5

LEMMA EventIs ==
  ASSUME NEW d
  PROVE  /\ EventOf(d).id = d.id /\ DOMAIN EventOf(d) = EventFields
         /\ EventOf(d).kind \in {"message", "reply", "command", "link"}
         /\ EventOf(d).kind = "link" => EventOf(d).ticketID # NoText
<1>1. PICK parsed : parsed = IF Changed(d) THEN Nothing ELSE Parse(d.message.text)
  OBVIOUS
<1>2. PICK event : event = [NoEvent EXCEPT !.id = d.id, !.key = KeyOf(d), !.messageTS = d.message.ts]
  OBVIOUS
<1>3. DOMAIN event = EventFields /\ event.id = d.id /\ event.kind = "message"
  BY <1>2, MoreFields DEF EventFields, NoEvent
<1>4. EventOf(d) =
        IF parsed.invalid THEN [event EXCEPT !.kind = "reply"]
        ELSE IF parsed.command # "" THEN [event EXCEPT !.kind = "command", !.command = parsed.command]
        ELSE IF parsed.ticketID = "" THEN event
        ELSE IF IsRoot(d) THEN [event EXCEPT !.kind = "link", !.ticketID = parsed.ticketID]
        ELSE [event EXCEPT !.kind = "reply"]
  BY <1>1, <1>2 DEF EventOf
<1>5. QED
  BY <1>3, <1>4, MoreFields DEF NoText

(* A thread that is linked has told its ticket in one reply, and in no other. *)
Tells(id, k) == said[id] = "summary" /\ outbox[id].key = k
ToldOnce(k) ==
  IF Exists(threads[k])
    THEN \E id \in ReplyIds : Tells(id, k) /\ \A j \in ReplyIds : Tells(j, k) => j = id
    ELSE \A id \in ReplyIds : ~Tells(id, k)

Kinds == {"message", "reply", "command", "link"}
LinksAfter(s) == s.pc = "recording" /\ s.event.kind = "link" /\ s.reply # "summary" /\ s.event.key \in Keys
Asks(s) ==
  /\ s.event.id \in ReplyIds /\ s.event.kind \in Kinds
  /\ s.event.kind = "link" => s.event.ticketID # NoText
  /\ LinksAfter(s) => Exists(threads[s.event.key])

SummaryInv ==
  /\ DOMAIN said = ReplyIds
  /\ \A id \in ReplyIds : said[id] = "summary" => id \in events
  /\ \A k \in Keys : ToldOnce(k)
  /\ \A h \in Handlers : handler[h].pc # "rest" => Asks(handler[h])

(* The store forgets no event, no action and no link. *)
Grows ==
  /\ events \subseteq events' /\ actions \subseteq actions'
  /\ \A k \in Keys : Exists(threads[k]) => Exists(threads[k])'

LEMMA HeardStays ==
  ASSUME Grows, NEW d, IsHeard(d)
  PROVE  IsHeard(d)'
BY DEF Grows, IsHeard

LEMMA BearsStays ==
  ASSUME Grows, NEW s, NEW d, Bears(s, d)
  PROVE  Concerns(d)' /\ Carries(s, d) /\ (s.pc = "answering" /\ s.code = 200 => IsHeard(d)')
BY HeardStays, ConcernsForever DEF Bears

LEMMA AcknowledgedStays ==
  ASSUME AcknowledgedIsRecorded, Grows, UNCHANGED slack
  PROVE  AcknowledgedIsRecorded'
BY ConcernsForever, HeardStays DEF AcknowledgedIsRecorded, IsHeard

(* One handler moves on. *)
LEMMA AckMoves ==
  ASSUME AckInv, Grows, NEW h \in Handlers, NEW s, Moves(h, s), HandlerOK(s),
         s.pc # "rest" => \E d \in Deliveries :
            Concerns(d) /\ Carries(s, d) /\ (s.pc = "answering" /\ s.code = 200 => IsHeard(d)'),
         DOMAIN slack' = Deliveries, AcknowledgedIsRecorded'
  PROVE  AckInv'
<1>1. DOMAIN handler' = Handlers /\ handler'[h] = s /\ \A g \in Handlers \ {h} : handler'[g] = handler[g]
  BY DEF Moves, AckInv
<1>2. ASSUME NEW g \in Handlers, handler'[g].pc # "rest"
      PROVE  \E d \in Deliveries : Bears(handler[g], d)'
  <2>1. CASE g = h
    <3>1. PICK d \in Deliveries :
            Concerns(d) /\ Carries(s, d) /\ (s.pc = "answering" /\ s.code = 200 => IsHeard(d)')
      BY <1>1, <1>2, <2>1
    <3>2. Bears(handler[g], d)'
      BY <1>1, <2>1, <3>1, ConcernsForever DEF Bears, Carries
    <3>3. QED
      BY <3>2
  <2>2. CASE g # h
    <3>1. handler'[g] = handler[g]
      BY <1>1, <2>2
    <3>2. PICK d \in Deliveries : Bears(handler[g], d)
      BY <1>2, <3>1 DEF AckInv
    <3>3. Bears(handler[g], d)'
      BY <3>1, <3>2, BearsStays DEF Bears, Carries
    <3>4. QED
      BY <3>3
  <2>3. QED
    BY <2>1, <2>2
<1>3. \A g \in Handlers : HandlerOK(handler'[g])
  BY <1>1 DEF AckInv
<1>4. QED
  BY <1>1, <1>2, <1>3 DEF AckInv, HandlerOK

LEMMA AckQuiet ==
  ASSUME AckInv, Grows, UNCHANGED <<slack, handler>>
  PROVE  AckInv'
<1>1. ASSUME NEW g \in Handlers, handler'[g].pc # "rest"
      PROVE  \E d \in Deliveries : Bears(handler[g], d)'
  <2>1. PICK d \in Deliveries : Bears(handler[g], d)
    BY <1>1 DEF AckInv
  <2>2. Bears(handler[g], d)'
    BY <2>1, BearsStays DEF Bears, Carries
  <2>3. QED
    BY <2>2
<1>2. AcknowledgedIsRecorded'
  BY AcknowledgedStays DEF AckInv
<1>3. QED
  BY <1>1, <1>2 DEF AckInv, HandlerOK

LEMMA AskStays ==
  ASSUME Grows, NEW s, Asks(s)
  PROVE  /\ s.event.id \in ReplyIds /\ s.event.kind \in Kinds
         /\ s.event.kind = "link" => s.event.ticketID # NoText
         /\ LinksAfter(s) => Exists(threads[s.event.key])'
BY DEF Grows, Asks, LinksAfter

(* A handler moves on, and nothing is said. *)
LEMMA SummaryMoves ==
  ASSUME SummaryInv, AckInv, NEW h \in Handlers, NEW s, Moves(h, s), s.pc # "rest" => Asks(s),
         UNCHANGED <<threads, outbox, events, actions, said>>
  PROVE  SummaryInv'
<1>1. DOMAIN handler' = Handlers /\ handler'[h] = s /\ \A g \in Handlers \ {h} : handler'[g] = handler[g]
  BY DEF Moves, AckInv
<1>2. \A g \in Handlers : handler'[g].pc # "rest" => Asks(handler[g])'
  BY <1>1 DEF SummaryInv, Asks, LinksAfter
<1>3. \A k \in Keys : ToldOnce(k)'
  BY DEF SummaryInv, ToldOnce, Tells
<1>4. QED
  BY <1>2, <1>3 DEF SummaryInv

(* The store does something that is no recording. *)
LEMMA SummaryQuiet ==
  ASSUME SummaryInv, UNCHANGED <<handler, said, events, actions>>, TicketsStay, RepliesStay(outbox, outbox')
  PROVE  SummaryInv' /\ Grows
<1>1. \A k \in Keys : Exists(threads[k])' <=> Exists(threads[k])
  BY DEF TicketsStay, Exists
<1>2. \A k \in Keys, id \in ReplyIds : Tells(id, k)' <=> Tells(id, k)
  BY DEF RepliesStay, Tells
<1>3. \A k \in Keys : ToldOnce(k)'
  BY <1>1, <1>2 DEF SummaryInv, ToldOnce
<1>4. \A g \in Handlers : handler'[g].pc # "rest" => Asks(handler[g])'
  BY <1>1 DEF SummaryInv, Asks, LinksAfter
<1>5. Grows
  BY <1>1 DEF Grows
<1>6. QED
  BY <1>3, <1>4, <1>5 DEF SummaryInv

HearInv == AckInv /\ SummaryInv

LEMMA StillGrows ==
  ASSUME UNCHANGED <<threads, events, actions>>
  PROVE  Grows
BY DEF Grows

(* The states that a handler moves to. *)
LEMMA StatesOK ==
  ASSUME NEW s, HandlerOK(s), NEW x, NEW y
  PROVE  /\ HandlerOK([s EXCEPT !.pc = x])
         /\ HandlerOK([s EXCEPT !.pc = x, !.code = y])
         /\ HandlerOK([s EXCEPT !.pc = x, !.reply = y])
         /\ HandlerOK([s EXCEPT !.pc = x, !.event.kind = y, !.reply = y])
         /\ HandlerOK([s EXCEPT !.pc = "recording", !.event.kind = "reply", !.reply = "not validated"])
BY MoreFields DEF HandlerOK

LEMMA RestOK == HandlerOK(Rest) /\ Rest.pc = "rest"
BY DEF HandlerOK, HandlerFields, EventFields, Rest

(* A handler that goes on, or answers anything but 200, bears what it bore. *)
LEMMA GoesOnBearing ==
  ASSUME NEW s, NEW u, NEW d, Bears(s, d), u.delivery = s.delivery, u.event.id = s.event.id,
         Action(u.event) = Action(s.event), u.pc # "answering" \/ u.code # 200
  PROVE  Concerns(d) /\ Carries(u, d) /\ (u.pc = "answering" /\ u.code = 200 => IsHeard(d)')
BY DEF Bears, Carries

LEMMA HearMoves ==
  ASSUME HearInv, NEW h \in Handlers, NEW u, Moves(h, u), handler[h].pc # "rest",
         HandlerOK(u), u.delivery = handler[h].delivery, u.event.id = handler[h].event.id,
         Action(u.event) = Action(handler[h].event), u.pc # "answering" \/ u.code # 200,
         Asks(u), UNCHANGED <<storeVars, slack, said>>
  PROVE  HearInv'
<1>1. UNCHANGED <<threads, outbox, events, actions>>
  BY DEF storeVars, vars, durable
<1>2. Grows
  BY <1>1, StillGrows
<1>3. PICK d \in Deliveries : Bears(handler[h], d)
  BY DEF HearInv, AckInv
<1>4. AcknowledgedIsRecorded'
  BY <1>2, AcknowledgedStays DEF HearInv, AckInv
<1>5. AckInv'
  BY <1>2, <1>3, <1>4, GoesOnBearing, AckMoves DEF HearInv, AckInv
<1>6. SummaryInv'
  BY <1>1, SummaryMoves DEF HearInv
<1>7. QED
  BY <1>5, <1>6 DEF HearInv

LEMMA SendStep ==
  ASSUME HearInv, NEW d \in Deliveries, NEW h \in Handlers, Send(d, h)
  PROVE  HearInv'
<1>1. UNCHANGED <<storeVars, said>> /\ UNCHANGED <<threads, outbox, events, actions>>
  BY DEF Send, storeVars, vars, durable
<1>2. Grows
  BY <1>1, StillGrows
<1>3. CASE Concerns(d)
  <2>1. PICK pc, reply : /\ pc = (IF EventOf(d).kind = "link" THEN "reading" ELSE "recording")
                         /\ reply = EventOf(d).kind
    OBVIOUS
  <2>2. PICK e : e = EventOf(d)
    OBVIOUS
  <2>3. PICK s : s = [Rest EXCEPT !.pc = pc, !.delivery = d.id, !.event = e, !.reply = reply]
    OBVIOUS
  <2>4. Moves(h, s) /\ UNCHANGED slack
    BY <1>3, <2>1, <2>2, <2>3 DEF Send
  <2>5. DOMAIN Rest = HandlerFields
    BY DEF HandlerFields
  <2>6. DOMAIN s = HandlerFields /\ s.pc = pc /\ s.delivery = d.id /\ s.event = e /\ s.reply = reply
    BY <2>3, <2>5, MoreFields
  <2>7. HandlerOK(s) /\ Carries(s, d) /\ s.pc # "answering"
    BY <2>1, <2>2, <2>6, EventIs DEF HandlerOK, Carries
  <2>8. Asks(s)
    <3>1. d.id \in ReplyIds
      BY <1>3, ConcernsSigned, IngressAssumption
    <3>2. /\ e.id = d.id /\ e.kind \in Kinds /\ (e.kind = "link" => e.ticketID # NoText)
      BY <2>2, EventIs DEF Kinds
    <3>3. ~LinksAfter(s)
      BY <2>1, <2>2, <2>6 DEF LinksAfter
    <3>4. QED
      BY <2>6, <3>1, <3>2, <3>3 DEF Asks
  <2>9. AckInv'
    <3>1. AcknowledgedIsRecorded' /\ DOMAIN slack' = Deliveries
      BY <1>2, <2>4, AcknowledgedStays DEF HearInv, AckInv
    <3>2. QED
      BY <1>2, <1>3, <2>4, <2>7, <3>1, AckMoves DEF HearInv
  <2>10. SummaryInv'
    BY <1>1, <2>4, <2>8, SummaryMoves DEF HearInv
  <2>11. QED
    BY <2>9, <2>10 DEF HearInv
<1>4. CASE ~Concerns(d)
  <2>1. UNCHANGED handler /\ DOMAIN slack' = Deliveries /\ \A c \in Deliveries \ {d} : slack'[c] = slack[c]
    BY <1>4 DEF Send, HearInv, AckInv
  <2>2. AcknowledgedIsRecorded'
    BY <1>1, <1>4, <2>1, ConcernsForever DEF AcknowledgedIsRecorded, HearInv, AckInv
  <2>3. AckInv'
    <3>1. ASSUME NEW g \in Handlers, handler'[g].pc # "rest"
          PROVE  \E c \in Deliveries : Bears(handler[g], c)'
      <4>1. PICK c \in Deliveries : Bears(handler[g], c)
        BY <2>1, <3>1 DEF HearInv, AckInv
      <4>2. Bears(handler[g], c)'
        BY <1>2, <2>1, <4>1, BearsStays DEF Bears, Carries
      <4>3. QED
        BY <4>2
    <3>2. QED
      BY <2>1, <2>2, <3>1 DEF HearInv, AckInv, HandlerOK
  <2>4. SummaryInv'
    <3>1. TicketsStay /\ RepliesStay(outbox, outbox')
      BY <1>1 DEF TicketsStay, RepliesStay
    <3>2. QED
      BY <1>1, <2>1, <3>1, SummaryQuiet DEF HearInv
  <2>5. QED
    BY <2>3, <2>4 DEF HearInv
<1>5. QED
  BY <1>3, <1>4

LEMMA GivesUp ==
  ASSUME HearInv, NEW h \in Handlers, handler[h].pc # "rest", Answers(h, 503),
         UNCHANGED <<storeVars, slack, said>>
  PROVE  HearInv'
<1>1. PICK u : u = [handler[h] EXCEPT !.pc = "answering", !.code = 503]
  OBVIOUS
<1>2. HandlerOK(handler[h]) /\ Asks(handler[h])
  BY DEF HearInv, AckInv, SummaryInv
<1>3. /\ HandlerOK(u) /\ u.pc = "answering" /\ u.code = 503
      /\ u.delivery = handler[h].delivery /\ u.event = handler[h].event
  BY <1>1, <1>2, MoreFields DEF HandlerOK
<1>4. Asks(u)
  BY <1>2, <1>3 DEF Asks, LinksAfter
<1>5. Moves(h, u)
  BY <1>1 DEF Answers
<1>6. QED
  BY <1>3, <1>4, <1>5, HearMoves

LEMMA GetThreadStep ==
  ASSUME HearInv, NEW h \in Handlers, GetThread(h)
  PROVE  HearInv'
<1>1. handler[h].pc = "reading" /\ HandlerOK(handler[h]) /\ Asks(handler[h]) /\ UNCHANGED <<storeVars, slack, said>>
  BY DEF GetThread, HearInv, AckInv, SummaryInv, Unavailable
<1>2. CASE Answers(h, 503)
  BY <1>1, <1>2, GivesUp
<1>3. CASE Moves(h, [handler[h] EXCEPT !.pc =
             IF Exists(threads[handler[h].event.key]) THEN "recording" ELSE "validating"])
  <2>1. PICK pc : pc = IF Exists(threads[handler[h].event.key]) THEN "recording" ELSE "validating"
    OBVIOUS
  <2>2. PICK u : u = [handler[h] EXCEPT !.pc = pc]
    OBVIOUS
  <2>3. HandlerOK(u) /\ u.pc = pc /\ u.delivery = handler[h].delivery /\ u.event = handler[h].event
    BY <1>1, <2>2, MoreFields DEF HandlerOK
  <2>4. Asks(u)
    BY <1>1, <2>1, <2>3 DEF Asks, LinksAfter
  <2>5. Moves(h, u) /\ u.pc # "answering"
    BY <1>3, <2>1, <2>2, <2>3
  <2>6. QED
    BY <1>1, <2>3, <2>4, <2>5, HearMoves
<1>4. QED
  BY <1>2, <1>3 DEF GetThread, Unavailable

LEMMA ValidateStep ==
  ASSUME HearInv, NEW h \in Handlers, ValidateTicket(h)
  PROVE  HearInv'
<1>1. handler[h].pc = "validating" /\ HandlerOK(handler[h]) /\ Asks(handler[h]) /\ UNCHANGED <<storeVars, slack, said>>
  BY DEF ValidateTicket, HearInv, AckInv, SummaryInv
<1>2. CASE Answers(h, 503)
  BY <1>1, <1>2, GivesUp
<1>3. CASE Moves(h, [handler[h] EXCEPT !.pc = "recording", !.reply = "summary"])
  <2>1. PICK u : u = [handler[h] EXCEPT !.pc = "recording", !.reply = "summary"]
    OBVIOUS
  <2>2. /\ HandlerOK(u) /\ u.pc = "recording" /\ u.reply = "summary"
        /\ u.delivery = handler[h].delivery /\ u.event = handler[h].event
    BY <1>1, <2>1, MoreFields DEF HandlerOK
  <2>3. Asks(u)
    BY <1>1, <2>2 DEF Asks, LinksAfter
  <2>4. QED
    BY <1>1, <1>3, <2>1, <2>2, <2>3, HearMoves
<1>4. CASE Moves(h, NotLinked(h))
  <2>1. PICK u : u = NotLinked(h)
    OBVIOUS
  <2>2. PICK e : e = [handler[h].event EXCEPT !.kind = "reply"]
    OBVIOUS
  <2>3. e.kind = "reply" /\ e.id = handler[h].event.id /\ e.key = handler[h].event.key
        /\ e.messageTS = handler[h].event.messageTS /\ DOMAIN e = EventFields
    BY <1>1, <2>2, MoreFields DEF HandlerOK
  <2>4. /\ DOMAIN u = HandlerFields /\ u.pc = "recording" /\ u.event = e
        /\ u.delivery = handler[h].delivery
    BY <1>1, <2>1, <2>2, MoreFields DEF HandlerOK, NotLinked
  <2>5. HandlerOK(u) /\ Asks(u) /\ Action(u.event) = Action(handler[h].event)
    BY <1>1, <2>3, <2>4 DEF HandlerOK, Asks, LinksAfter, Action, Kinds
  <2>6. QED
    BY <1>1, <1>4, <2>1, <2>3, <2>4, <2>5, HearMoves
<1>5. QED
  BY <1>2, <1>3, <1>4 DEF ValidateTicket, Refused

LEMMA AnswerStep ==
  ASSUME HearInv, NEW h \in Handlers, Answer(h)
  PROVE  HearInv'
<1>1. UNCHANGED <<storeVars, said>> /\ UNCHANGED <<threads, outbox, events, actions>> /\ Moves(h, Rest)
  BY DEF Answer, storeVars, vars, durable
<1>2. Grows
  BY <1>1, StillGrows
<1>3. handler[h].pc = "answering"
  BY DEF Answer
<1>4. PICK d \in Deliveries : Bears(handler[h], d)
  BY <1>3 DEF HearInv, AckInv
<1>5. DOMAIN slack' = Deliveries
  BY DEF Answer, HearInv, AckInv
<1>6. AcknowledgedIsRecorded'
  <2>1. SUFFICES ASSUME NEW c \in Deliveries, slack'[c] = "acked", Concerns(c)
                 PROVE  IsHeard(c)
    BY <1>1, ConcernsForever DEF AcknowledgedIsRecorded, IsHeard
  <2>2. CASE slack[c] = "acked"
    BY <2>1, <2>2 DEF HearInv, AckInv, AcknowledgedIsRecorded, IsHeard
  <2>3. CASE slack[c] # "acked"
    <3>1. c.id = handler[h].delivery /\ handler[h].code = 200
      BY <2>1, <2>3 DEF Answer
    <3>2. c.id = d.id /\ IsHeard(d) /\ Concerns(d)
      BY <1>3, <1>4, <3>1 DEF Bears, Carries
    <3>3. c = d
      BY <2>1, <3>2, ConcernsSigned, IngressAssumption
    <3>4. QED
      BY <3>2, <3>3
  <2>4. QED
    BY <2>2, <2>3
<1>7. AckInv'
  BY <1>1, <1>2, <1>5, <1>6, RestOK, AckMoves DEF HearInv
<1>8. SummaryInv'
  BY <1>1, RestOK, SummaryMoves DEF HearInv
<1>9. QED
  BY <1>7, <1>8 DEF HearInv

(* The thread that a new event links has one summary, the event's own. *)
LEMMA RecordTells ==
  ASSUME Shapes, SummaryInv, NEW e, NEW reply, Record(e, clock), e.id \in ReplyIds, e.kind \in Kinds,
         e.kind = "link" => e.ticketID # NoText,
         e.key \in Keys /\ NewThread(e) => reply = "summary",
         said' = [said EXCEPT ![e.id] = IF NewThread(e) THEN reply ELSE IF Replies(e) THEN e.kind ELSE ""]
  PROVE  /\ \A k \in Keys : ToldOnce(k)'
         /\ DOMAIN said' = ReplyIds
         /\ \A id \in ReplyIds : said'[id] = "summary" => id \in events'
<1>1. /\ e.id \notin events /\ events' = events \cup {e.id}
  BY DEF Record, Duplicate
<1>2. PICK text : text = IF NewThread(e) THEN reply ELSE IF Replies(e) THEN e.kind ELSE ""
  OBVIOUS
<1>3. /\ DOMAIN said' = ReplyIds /\ said'[e.id] = text
      /\ \A id \in ReplyIds \ {e.id} : said'[id] = said[id]
  BY <1>2 DEF SummaryInv
<1>4. said[e.id] # "summary"
  BY <1>1 DEF SummaryInv
<1>5. ~NewThread(e) => text # "summary"
  BY <1>2, Zenon DEF Kinds
<1>6. /\ \A id \in ReplyIds \ {e.id} : outbox'[id].key = outbox[id].key
      /\ \A k \in Keys : threads'[k].ticketID =
              IF NewThread(e) /\ k = e.key THEN e.ticketID ELSE threads[k].ticketID
  BY RecordLeaves
<1>7. \A k \in Keys, id \in ReplyIds \ {e.id} : Tells(id, k)' <=> Tells(id, k)
  BY <1>3, <1>6 DEF Tells
<1>8. \A k \in Keys : ~Tells(e.id, k)
  BY <1>4 DEF Tells
<1>9. ASSUME NEW k \in Keys PROVE ToldOnce(k)'
  <2>1. CASE NewThread(e) /\ k = e.key
    <3>1. ~Exists(threads[k]) /\ Exists(threads[k])'
      BY <1>6, <2>1 DEF NewThread, Exists
    <3>2. Tells(e.id, k)'
      <4>1. PICK job : job = NewJob(e.key, FALSE, UpdatesTracking(e))
        OBVIOUS
      <4>2. outbox' = [outbox EXCEPT ![e.id] = job]
        BY <2>1, <4>1 DEF Record, Replies
      <4>3. outbox'[e.id] = job /\ job.key = e.key
        BY <4>1, <4>2 DEF Shapes, JobIds, NewJob
      <4>4. text = "summary"
        BY <1>2, <2>1
      <4>5. QED
        BY <1>3, <2>1, <4>3, <4>4 DEF Tells
    <3>3. \A id \in ReplyIds : Tells(id, k)' => id = e.id
      BY <1>7, <3>1 DEF SummaryInv, ToldOnce
    <3>4. QED
      BY <3>1, <3>2, <3>3 DEF ToldOnce
  <2>2. CASE ~(NewThread(e) /\ k = e.key)
    <3>1. Exists(threads[k])' <=> Exists(threads[k])
      BY <1>6, <2>2 DEF Exists
    <3>2. ~Tells(e.id, k)'
      <4>1. CASE NewThread(e)
        <5>1. PICK job : job = NewJob(e.key, FALSE, UpdatesTracking(e))
          OBVIOUS
        <5>2. outbox' = [outbox EXCEPT ![e.id] = job]
          BY <4>1, <5>1 DEF Record, Replies
        <5>3. outbox'[e.id] = job /\ job.key = e.key
          BY <5>1, <5>2 DEF Shapes, JobIds, NewJob
        <5>4. QED
          BY <2>2, <4>1, <5>3 DEF Tells
      <4>2. CASE ~NewThread(e)
        BY <1>3, <1>5, <4>2 DEF Tells
      <4>3. QED
        BY <4>1, <4>2
    <3>3. \A id \in ReplyIds : Tells(id, k)' <=> Tells(id, k)
      BY <1>7, <1>8, <3>2
    <3>4. ToldOnce(k)
      BY DEF SummaryInv
    <3>5. QED
      BY <3>1, <3>3, <3>4 DEF ToldOnce
  <2>3. QED
    BY <2>1, <2>2
<1>10. QED
  BY <1>1, <1>3, <1>9 DEF SummaryInv

LEMMA RecordedHeard ==
  ASSUME HearInv, Shapes, NEW h \in Handlers, handler[h].pc = "recording", Recorded(h)
  PROVE  /\ Grows
         /\ handler[h].event.id \in events' \/ Action(handler[h].event) \in actions'
         /\ \A k \in Keys : ToldOnce(k)'
         /\ DOMAIN said' = ReplyIds
         /\ \A id \in ReplyIds : said'[id] = "summary" => id \in events'
<1> DEFINE e == handler[h].event
<1>1. Asks(handler[h])
  BY DEF HearInv, SummaryInv
<1>2. CASE Duplicate(e)
  <2>1. UNCHANGED <<threads, outbox, events, actions, said>>
    BY <1>2 DEF Recorded, storeVars, vars, durable
  <2>2. \A k \in Keys : ToldOnce(k)'
    BY <2>1 DEF HearInv, SummaryInv, ToldOnce, Tells
  <2>3. Grows
    BY <2>1, StillGrows
  <2>4. QED
    BY <1>2, <2>1, <2>2, <2>3 DEF HearInv, SummaryInv, Duplicate
<1>3. CASE ~Duplicate(e)
  <2>1. /\ Record(e, clock)
        /\ said' = [said EXCEPT ![e.id] = IF NewThread(e) THEN handler[h].reply
                                          ELSE IF Replies(e) THEN e.kind ELSE ""]
    BY <1>3 DEF Recorded
  <2>2. e.key \in Keys /\ NewThread(e) => handler[h].reply = "summary"
    BY <1>1 DEF Asks, LinksAfter, NewThread
  <2>3. e.id \in ReplyIds /\ e.kind \in Kinds /\ (e.kind = "link" => e.ticketID # NoText)
    BY <1>1 DEF Asks
  <2>4. /\ \A k \in Keys : ToldOnce(k)'
        /\ DOMAIN said' = ReplyIds
        /\ \A id \in ReplyIds : said'[id] = "summary" => id \in events'
    BY <2>1, <2>2, <2>3, RecordTells DEF HearInv
  <2>5. events \subseteq events' /\ actions \subseteq actions' /\ e.id \in events'
    BY <2>1 DEF Record
  <2>6. \A k \in Keys : Exists(threads[k]) => Exists(threads[k])'
    <3>1. \A k \in Keys : threads'[k].ticketID =
              IF NewThread(e) /\ k = e.key THEN e.ticketID ELSE threads[k].ticketID
      BY <2>1, RecordLeaves
    <3>2. QED
      BY <2>3, <3>1 DEF Exists, NewThread
  <2>7. QED
    BY <2>4, <2>5, <2>6 DEF Grows
<1>4. QED
  BY <1>2, <1>3

LEMMA RecordStep ==
  ASSUME HearInv, Shapes, NEW h \in Handlers, RecordEvents(h)
  PROVE  HearInv'
<1>1. handler[h].pc = "recording" /\ UNCHANGED slack /\ HandlerOK(handler[h]) /\ Asks(handler[h])
  BY DEF RecordEvents, HearInv, AckInv, SummaryInv
<1>2. CASE UNCHANGED <<storeVars, said>> /\ Answers(h, Failure)
  BY <1>1, <1>2, GivesUp DEF Failure
<1>3. ASSUME NEW code, Recorded(h), Answers(h, code) PROVE HearInv'
  <2>1. PICK u : u = [handler[h] EXCEPT !.pc = "answering", !.code = code]
    OBVIOUS
  <2>2. /\ HandlerOK(u) /\ u.pc = "answering" /\ u.code = code
        /\ u.delivery = handler[h].delivery /\ u.event = handler[h].event
    BY <1>1, <2>1, MoreFields DEF HandlerOK
  <2>3. Moves(h, u)
    BY <1>3, <2>1 DEF Answers
  <2>4. /\ Grows
        /\ handler[h].event.id \in events' \/ Action(handler[h].event) \in actions'
        /\ \A k \in Keys : ToldOnce(k)'
        /\ DOMAIN said' = ReplyIds
        /\ \A id \in ReplyIds : said'[id] = "summary" => id \in events'
    BY <1>1, <1>3, RecordedHeard
  <2>5. PICK d \in Deliveries : Bears(handler[h], d)
    BY <1>1 DEF HearInv, AckInv
  <2>6. Concerns(d) /\ Carries(u, d) /\ IsHeard(d)'
    BY <2>2, <2>4, <2>5 DEF Bears, Carries, IsHeard
  <2>7. AcknowledgedIsRecorded' /\ DOMAIN slack' = Deliveries
    BY <1>1, <2>4, AcknowledgedStays DEF HearInv, AckInv
  <2>8. AckInv'
    BY <2>2, <2>3, <2>4, <2>6, <2>7, AckMoves DEF HearInv
  <2>9. ASSUME NEW g \in Handlers, handler'[g].pc # "rest" PROVE Asks(handler[g])'
    <3>1. DOMAIN handler' = Handlers /\ handler'[h] = u /\ \A f \in Handlers \ {h} : handler'[f] = handler[f]
      BY <2>3 DEF Moves, HearInv, AckInv
    <3>2. CASE g = h
      BY <1>1, <2>2, <3>1, <3>2 DEF Asks, LinksAfter
    <3>3. CASE g # h
      <4>1. handler'[g] = handler[g] /\ Asks(handler[g])
        BY <2>9, <3>1, <3>3 DEF HearInv, SummaryInv
      <4>2. QED
        BY <2>4, <4>1, AskStays DEF Asks, LinksAfter
    <3>4. QED
      BY <3>2, <3>3
  <2>10. SummaryInv'
    BY <2>4, <2>9 DEF SummaryInv
  <2>11. QED
    BY <2>8, <2>10 DEF HearInv
<1>4. QED
  BY <1>2, <1>3 DEF RecordEvents

(* The workers and the process say nothing, and forget nothing. *)
LEMMA HearQuiet ==
  ASSUME HearInv, UNCHANGED <<slack, handler, said, events, actions>>,
         TicketsStay, RepliesStay(outbox, outbox')
  PROVE  HearInv'
BY SummaryQuiet, AckQuiet DEF HearInv

LEMMA HearStill ==
  ASSUME HearInv, Shapes, UNCHANGED <<storeVars, slack, handler, said>>
  PROVE  HearInv'
BY StoreStill, HearQuiet

LEMMA HearEnds ==
  ASSUME HearInv, Ends
  PROVE  HearInv'
<1>1. UNCHANGED <<storeVars, slack, said>> /\ UNCHANGED <<threads, outbox, events, actions>>
  BY DEF Ends, storeVars, vars, durable
<1>2. DOMAIN handler' = Handlers /\ \A h \in Handlers : handler'[h] = Rest
  BY DEF Ends
<1>3. Grows
  BY <1>1, StillGrows
<1>4. AcknowledgedIsRecorded'
  BY <1>1, <1>3, AcknowledgedStays DEF HearInv, AckInv
<1>5. AckInv'
  BY <1>1, <1>2, <1>4, RestOK DEF HearInv, AckInv
<1>6. \A k \in Keys : ToldOnce(k)'
  BY <1>1 DEF HearInv, SummaryInv, ToldOnce, Tells
<1>7. SummaryInv'
  BY <1>1, <1>2, <1>6, RestOK DEF HearInv, SummaryInv
<1>8. QED
  BY <1>5, <1>7 DEF HearInv

LEMMA HearTake ==
  ASSUME HearInv, CleanInv, NEW w \in Workers, Take(w)
  PROVE  HearInv'
<1>1. UNCHANGED <<slack, handler, said>>
  BY DEF Take, ingressVars
<1>2. ASSUME NEW id \in JobIds, ClaimNotification(id, clock) \/ ClaimReactionNotification(id, clock)
      PROVE  UNCHANGED <<events, actions>> /\ TicketsStay /\ RepliesStay(outbox, outbox')
  BY <1>2, ClaimJobIs DEF CleanInv, TicketsStay, RepliesStay, JobIds
<1>3. ASSUME NEW k \in Keys, Claim(k, clock)
      PROVE  UNCHANGED <<events, actions>> /\ TicketsStay /\ RepliesStay(outbox, outbox')
  BY <1>3, ClaimIs DEF CleanInv, TicketsStay, RepliesStay
<1>4. UNCHANGED <<events, actions>> /\ TicketsStay /\ RepliesStay(outbox, outbox')
  BY <1>2, <1>3 DEF Take, JobIds
<1>5. QED
  BY <1>1, <1>4, HearQuiet

LEMMA HearRelease ==
  ASSUME HearInv, CleanInv, NEW w \in Workers, Release(w)
  PROVE  HearInv'
<1>1. UNCHANGED <<slack, handler, said>> /\ held[w] # NoWork /\ HeldOK(held[w]) /\ Shapes
  BY DEF Release, CleanInv
<1>2. CASE UNCHANGED storeVars
  BY <1>1, <1>2, HearStill
<1>3. CASE Released(held[w]) \/ FailedWork(held[w])
  <2>1. CASE held[w].kind = "thread" /\ held[w].lease.key \in Keys
    <3> DEFINE l == held[w].lease
    <3>1. CASE ~Validate(threads[l.key], l, clock)
      <4>1. UNCHANGED storeVars
        BY <1>3, <2>1, <3>1, FailedThread, ReleasedThread
      <4>2. QED
        BY <1>1, <4>1, HearStill
    <3>2. CASE Validate(threads[l.key], l, clock)
      <4>1. \/ \E ts : Complete(l, ts, 0, clock)
            \/ \E error, at, permanent : Fail(l, error, at, permanent, clock)
        BY <1>3, <2>1, <3>2, FailedThread, ReleasedThread
      <4>2. UNCHANGED <<events, actions>> /\ TicketsStay /\ RepliesStay(outbox, outbox')
        BY <1>1, <2>1, <4>1, EndLeaves
      <4>3. QED
        BY <1>1, <4>2, HearQuiet
    <3>3. QED
      BY <3>1, <3>2
  <2>2. CASE held[w].kind = "job" /\ held[w].id \in JobIds
    <3>1. \/ CompleteNotification(held[w].id, held[w].token, clock)
          \/ \E at, permanent : FailNotification(held[w].id, held[w].token, at, permanent, clock)
      BY <1>3, <2>2, JobEnds
    <3>2. UNCHANGED <<threads, events, actions>> /\ RepliesStay(outbox, outbox')
      BY <1>1, <2>2, <3>1, EndJobLeaves
    <3>3. QED
      BY <1>1, <3>2, HearQuiet DEF TicketsStay
  <2>3. QED
    BY <1>1, <2>1, <2>2 DEF HeldOK
<1>4. QED
  BY <1>2, <1>3 DEF Release

LEMMA NextHears ==
  ASSUME HearInv, CleanInv, [ServiceNext]_allVars
  PROVE  HearInv'
<1>1. Shapes
  BY DEF CleanInv
<1>2. ASSUME NEW w \in Workers, Look(w) \/ Take(w) \/ PassOn(w) \/ Release(w)
      PROVE  HearInv'
  <2>1. CASE Look(w) \/ PassOn(w)
    BY <1>1, <2>1, HearStill DEF Look, PassOn, ingressVars
  <2>2. QED
    BY <1>2, <2>1, HearTake, HearRelease
<1>3. CASE Deliver
  BY <1>3, SendStep DEF Deliver
<1>4. CASE Handle
  BY <1>1, <1>4, GetThreadStep, ValidateStep, RecordStep, AnswerStep DEF Handle, HandlerStep
<1>5. CASE LoadConfig \/ Restart \/ Start \/ Proceed \/ Serve \/ Stop \/ Shutdown \/ Cancel \/ UNCHANGED allVars
  <2>1. UNCHANGED <<storeVars, slack, handler, said>>
    BY <1>5 DEF LoadConfig, Restart, Start, Proceed, Serve, Stop, Shutdown, Cancel, allVars, ingressVars
  <2>2. QED
    BY <1>1, <2>1, HearStill
<1>6. QED
  BY <1>2, <1>3, <1>4, <1>5, HearEnds
     DEF ServiceNext, NoSuchDriver, Crash, Dies, Drained, GraceEnds

LEMMA InitHears ==
  ASSUME ServiceInit
  PROVE  HearInv
<1>1. DOMAIN handler = Handlers /\ \A h \in Handlers : handler[h] = Rest
  BY DEF ServiceInit, IngressInit
<1>2. DOMAIN slack = Deliveries /\ \A d \in Deliveries : slack[d] # "acked"
  BY DEF ServiceInit, IngressInit
<1>3. AckInv
  BY <1>1, <1>2, RestOK DEF AckInv, AcknowledgedIsRecorded
<1>4. DOMAIN said = ReplyIds /\ \A id \in ReplyIds : said[id] # "summary"
  <2>1. said = [id \in ReplyIds |-> ""]
    BY DEF ServiceInit, IngressInit
  <2>2. QED
    BY <2>1
<1>5. \A k \in Keys : threads[k] = NoThread
  BY DEF ServiceInit, IngressInit, Init
<1>6. \A k \in Keys : ToldOnce(k)
  <2>1. NoThread.ticketID = NoText
    BY DEF NoThread
  <2>2. \A k \in Keys : ~Exists(threads[k])
    BY <1>5, <2>1 DEF Exists
  <2>3. QED
    BY <1>4, <2>2 DEF ToldOnce, Tells
<1>7. SummaryInv
  BY <1>1, <1>4, <1>6, RestOK DEF SummaryInv
<1>8. QED
  BY <1>3, <1>7 DEF HearInv

LEMMA HearInvariant == ServiceSpec => [](StopInv /\ CleanInv /\ HearInv)
<1>1. ServiceInit => StopInv /\ CleanInv /\ HearInv
  BY InitStops, InitClean, InitHears
<1>2. StopInv /\ CleanInv /\ HearInv /\ [ServiceNext]_allVars => (StopInv /\ CleanInv /\ HearInv)'
  BY NextStops, NextClean, NextHears
<1>3. QED
  BY <1>1, <1>2, PTL DEF ServiceSpec

(* SlackEvent: an event that Slack is told it need not deliver again has been *)
(* recorded, or its message's command or reply has, whatever handlers, lost   *)
(* answers, failures and crashes there were before the 200.                   *)
THEOREM AcknowledgedIsAlwaysRecorded == ServiceSpec => []AcknowledgedIsRecorded
<1>1. HearInv => AcknowledgedIsRecorded
  BY DEF HearInv, AckInv
<1>2. QED
  BY <1>1, HearInvariant, PTL

(* SlackEvent reads the thread, asks HubSpot and records, in three steps of   *)
(* many handlers at once: the summary of a ticket is shown in exactly one     *)
(* reply of a thread that is linked, and in none of one that is not.          *)
THEOREM SummariesAreShownOnce == ServiceSpec => []OneSummary
<1>1. HearInv => OneSummary
  <2>1. SUFFICES ASSUME HearInv, NEW k \in Keys
                 PROVE  Cardinality({id \in ReplyIds : said[id] = "summary" /\ outbox[id].key = k})
                          = IF Exists(threads[k]) THEN 1 ELSE 0
    BY DEF OneSummary
  <2> DEFINE summaries == {id \in ReplyIds : said[id] = "summary" /\ outbox[id].key = k}
  <2>2. ToldOnce(k)
    BY <2>1 DEF HearInv, SummaryInv
  <2>3. CASE Exists(threads[k])
    <3>1. PICK id \in ReplyIds : Tells(id, k) /\ \A j \in ReplyIds : Tells(j, k) => j = id
      BY <2>2, <2>3 DEF ToldOnce
    <3>2. summaries = {id}
      BY <3>1 DEF Tells
    <3>3. QED
      BY <2>3, <3>2, FS_Singleton
  <2>4. CASE ~Exists(threads[k])
    <3>1. summaries = {}
      BY <2>2, <2>4 DEF ToldOnce, Tells
    <3>2. QED
      BY <2>4, <3>1, FS_EmptySet
  <2>5. QED
    BY <2>3, <2>4
<1>2. QED
  BY <1>1, HearInvariant, PTL
=============================================================================
