--------------------------- MODULE UploadsProofs ---------------------------
(***************************************************************************)
(* Proofs about Uploads, for any files, threads and events.  UploadInv is  *)
(* inductive with the types: the fields of a record agree, and no token in *)
(* use is beyond the tokens drawn.  RetryInv adds what OneRetryPerSync     *)
(* needs: every reopening by a thread has used a sync of that thread whose *)
(* timestamp the upload has recorded.                                      *)
(***************************************************************************)
EXTENDS Uploads, StoreProofs, FiniteSetTheorems

UploadInv ==
  /\ \A f \in Files : UploadMeaningOf(uploads[f]) /\ uploads[f].leaseToken <= drawn[f]
  /\ \A c \in uploadClaims : c.token <= drawn[c.file]

Syncs(k, ts) == {e \in heard[k] : e.command = "sync" /\ e.messageTS <= ts}

(* The retry a thread asks for is 0, or the timestamp of a sync it has heard. *)
Asked(k, ts) == ts = 0 \/ \E e \in heard[k] : e.command = "sync" /\ e.messageTS = ts

HeardInv == \A k \in Keys : IsFiniteSet(heard[k]) /\ Asked(k, threads[k].attachmentRetryTS)

RetryInv ==
  /\ HeardInv
  /\ \A f \in Files, k \in Keys :
       reopened[f][k] <= Cardinality(Syncs(k, uploads[f].lastRetryTS))

AllTypeOK == TypeOK /\ UploadsTypeOK

UploadsKept == UNCHANGED uploadVars /\ [Next]_vars

Writes(c, u) ==
  /\ uploads[c.file].leaseToken # 0 /\ uploads[c.file].leaseToken = c.token
  /\ uploads' = [uploads EXCEPT ![c.file] = u]
  /\ UNCHANGED <<vars, uploadClaims, drawn, reopened>>

LEMMA ThreadStepNext == ThreadStep => Next
BY DEF ThreadStep, Next

(* What a step can be, with the times it uses typed. *)
LEMMA UploadStepCases ==
  ASSUME AllTypeOK, [UploadsNext]_allVars
  PROVE  \/ UploadsKept
         \/ \E l \in leases, f \in Files, now \in Nat : ClaimUpload(l, f, now)
         \/ \E c \in uploadClaims, copy \in Copies :
              Writes(c, CompletedUpload(uploads[c.file], copy))
         \/ \E c \in uploadClaims, at \in Nat, permanent \in BOOLEAN :
              Writes(c, FailedUpload(uploads[c.file], at, permanent))
         \/ \E c \in uploadClaims, at \in Nat \ {0} :
              Writes(c, [uploads[c.file] EXCEPT !.leaseExpires = at])
<1>1. Nows \subseteq Nat
  BY NowsType DEF AllTypeOK, TypeOK
<1>2. \A now \in Nows : RetryTimes(now) \subseteq Nat
  <2>1. Backoff \in Nat
    BY StoreAssumption
  <2>2. QED
    BY <1>1, <2>1 DEF RetryTimes
<1>3. \A now \in Nows : now + LeaseDuration \in Nat \ {0}
  BY <1>1, RecordAssumption
<1>4. CASE ThreadStep /\ UNCHANGED uploadVars
  BY <1>4, ThreadStepNext DEF UploadsKept
<1>5. CASE UNCHANGED allVars
  BY <1>5 DEF allVars, UploadsKept
<1>6. CASE ClaimFile
  BY <1>1, <1>6 DEF ClaimFile
<1>7. CASE UseClaim
  <2>1. PICK c \in uploadClaims, now \in Nows :
          \/ \E copy \in Copies : CompleteUpload(c, copy, now)
          \/ \E at \in RetryTimes(now), permanent \in BOOLEAN : FailUpload(c, at, permanent, now)
          \/ RenewUpload(c, now)
    BY <1>7 DEF UseClaim
  <2>2. \A u : Replace(c, u, now) => Writes(c, u)
    BY DEF Replace, Writes, ValidateUpload
  <2>3. QED
    BY <1>2, <1>3, <2>1, <2>2 DEF CompleteUpload, FailUpload, RenewUpload
<1>8. QED
  BY <1>4, <1>5, <1>6, <1>7 DEF UploadsNext

-----------------------------------------------------------------------------
(* Types. *)

LEMMA ClaimedUploadType ==
  ASSUME NEW t \in Thread, NEW u \in Upload, NEW token \in Nat, NEW now \in Nat
  PROVE  ClaimedUpload(t, u, token, now) \in Upload
<1>1. u.attempts + 1 \in Nat /\ 0 + 1 \in Nat /\ now + LeaseDuration \in Nat
  BY RecordAssumption DEF Upload
<1>2. t.attachmentRetryTS \in Nat
  BY DEF Thread
<1>3. QED
  BY <1>1, <1>2 DEF ClaimedUpload, Upload, UploadStates, Errors

LEMMA WrittenType ==
  ASSUME NEW u \in Upload
  PROVE  /\ \A copy \in Copies : CompletedUpload(u, copy) \in Upload
         /\ \A at \in Nat, permanent \in BOOLEAN : FailedUpload(u, at, permanent) \in Upload
         /\ \A at \in Nat : [u EXCEPT !.leaseExpires = at] \in Upload
<1>1. \A copy \in Copies : CompletedUpload(u, copy) \in Upload
  BY DEF CompletedUpload, Upload, UploadStates, Errors
<1>2. \A at \in Nat, permanent \in BOOLEAN : FailedUpload(u, at, permanent) \in Upload
  BY DEF FailedUpload, Upload, UploadStates, Errors
<1>3. \A at \in Nat : [u EXCEPT !.leaseExpires = at] \in Upload
  BY DEF Upload
<1>4. QED
  BY <1>1, <1>2, <1>3

LEMMA UploadsInitType ==
  ASSUME UploadsInit
  PROVE  AllTypeOK
<1>1. NoUpload \in Upload
  BY DEF NoUpload, Upload, UploadStates, Errors
<1>2. UploadsTypeOK
  BY <1>1 DEF UploadsInit, UploadsTypeOK
<1>3. QED
  BY <1>2, InitType DEF UploadsInit, AllTypeOK

LEMMA UploadsNextType ==
  ASSUME AllTypeOK, [UploadsNext]_allVars
  PROVE  AllTypeOK'
<1>1. CASE UploadsKept
  BY <1>1, NextType DEF UploadsKept, uploadVars, AllTypeOK, UploadsTypeOK
<1>2. ASSUME UNCHANGED vars PROVE TypeOK'
  BY <1>2, NextType DEF AllTypeOK
<1>3. ASSUME NEW l \in leases, NEW f \in Files, NEW now \in Nat, ClaimUpload(l, f, now)
      PROVE  AllTypeOK'
  <2>1. l.key \in Keys /\ threads[l.key] \in Thread
    BY DEF AllTypeOK, TypeOK, Lease
  <2>2. drawn[f] + 1 \in Nat \ {0} /\ uploads[f] \in Upload
    BY DEF AllTypeOK, UploadsTypeOK
  <2>3. uploads' \in [Files -> Upload]
    BY <1>3, <2>1, <2>2, ClaimedUploadType DEF ClaimUpload, AllTypeOK, UploadsTypeOK
  <2>4. uploads'[f].leaseToken = drawn[f] + 1
    BY <1>3, <2>2 DEF ClaimUpload, ClaimedUpload, AllTypeOK, UploadsTypeOK, Upload
  <2>5. uploadClaims' \subseteq UploadClaim
    BY <1>3, <2>2, <2>4 DEF ClaimUpload, AllTypeOK, UploadsTypeOK, UploadClaim
  <2>6. drawn' \in [Files -> Nat]
    BY <1>3, <2>2 DEF ClaimUpload, AllTypeOK, UploadsTypeOK
  <2>7. reopened' \in [Files -> [Keys -> Nat]]
    <3>1. reopened \in [Files -> [Keys -> Nat]] /\ reopened[f][l.key] + 1 \in Nat
      BY <2>1 DEF AllTypeOK, UploadsTypeOK
    <3>2. QED
      BY <1>3, <2>1, <3>1 DEF ClaimUpload
  <2>8. QED
    BY <1>2, <1>3, <2>3, <2>5, <2>6, <2>7 DEF ClaimUpload, AllTypeOK, UploadsTypeOK
<1>4. ASSUME NEW c \in uploadClaims, NEW u, Writes(c, u), uploads[c.file] \in Upload => u \in Upload
      PROVE  AllTypeOK'
  <2>1. c.file \in Files
    BY DEF AllTypeOK, UploadsTypeOK, UploadClaim
  <2>2. QED
    BY <1>2, <1>4, <2>1 DEF Writes, AllTypeOK, UploadsTypeOK
<1>5. QED
  BY <1>1, <1>3, <1>4, UploadStepCases, WrittenType

(* Every reachable state of the shared uploads has its type. *)
THEOREM UploadsTypeCorrect == UploadsSpec => []UploadsTypeOK
<1>1. UploadsInit => AllTypeOK
  BY UploadsInitType
<1>2. AllTypeOK /\ [UploadsNext]_allVars => AllTypeOK'
  BY UploadsNextType
<1>3. AllTypeOK => UploadsTypeOK
  BY DEF AllTypeOK
<1>4. QED
  BY <1>1, <1>2, <1>3, PTL DEF UploadsSpec

-----------------------------------------------------------------------------
(* The invariant of the records and their claims. *)

CopyStays(f) == uploads[f].hubspotID # NoText => uploads'[f].hubspotID = uploads[f].hubspotID
ClaimsStayLost == \A c \in uploadClaims : ~HoldsUpload(c) => ~HoldsUpload(c)'

LEMMA ClaimedUploadMeaning ==
  ASSUME NEW t \in Thread, NEW u \in Upload, NEW token \in Nat \ {0}, NEW now \in Nat,
         UploadMeaningOf(u), u.hubspotID = NoText
  PROVE  LET r == ClaimedUpload(t, u, token, now) IN
         /\ UploadMeaningOf(r)
         /\ r.leaseToken = token /\ r.hubspotID = NoText
<1>1. u.attempts + 1 # 0 /\ 0 + 1 # 0 /\ now + LeaseDuration # 0
  BY RecordAssumption DEF Upload
<1>2. QED
  BY <1>1 DEF ClaimedUpload, UploadMeaningOf, Upload

LEMMA WrittenMeaning ==
  ASSUME NEW u \in Upload, UploadMeaningOf(u), u.leaseToken # 0
  PROVE  /\ u.hubspotID = NoText
         /\ \A copy \in Copies :
              LET r == CompletedUpload(u, copy) IN UploadMeaningOf(r) /\ r.leaseToken = 0
         /\ \A at \in Nat, permanent \in BOOLEAN :
              LET r == FailedUpload(u, at, permanent) IN UploadMeaningOf(r) /\ r.leaseToken = 0
         /\ \A at \in Nat \ {0} :
              LET r == [u EXCEPT !.leaseExpires = at] IN
              UploadMeaningOf(r) /\ r.leaseToken = u.leaseToken
<1>1. u.state = "running" /\ u.hubspotID = NoText /\ u.attempts # 0
  BY DEF UploadMeaningOf
<1>2. ASSUME NEW copy \in Copies
      PROVE  LET r == CompletedUpload(u, copy) IN UploadMeaningOf(r) /\ r.leaseToken = 0
  <2>1. copy # NoText
    BY UploadsAssumption
  <2>2. QED
    BY <1>1, <2>1 DEF CompletedUpload, UploadMeaningOf, Upload
<1>3. ASSUME NEW at \in Nat, NEW permanent \in BOOLEAN
      PROVE  LET r == FailedUpload(u, at, permanent) IN UploadMeaningOf(r) /\ r.leaseToken = 0
  BY <1>1 DEF FailedUpload, UploadMeaningOf, Upload, NoText
<1>4. ASSUME NEW at \in Nat \ {0}
      PROVE  LET r == [u EXCEPT !.leaseExpires = at] IN
             UploadMeaningOf(r) /\ r.leaseToken = u.leaseToken
  BY <1>1 DEF UploadMeaningOf, Upload
<1>5. QED
  BY <1>1, <1>2, <1>3, <1>4

(* Claiming draws a token no claim has had. *)
LEMMA ClaimUploadInv ==
  ASSUME AllTypeOK, UploadInv, NEW l \in leases, NEW f \in Files, NEW now \in Nat,
         ClaimUpload(l, f, now)
  PROVE  UploadInv' /\ ClaimsStayLost /\ \A g \in Files : CopyStays(g)
<1> DEFINE r == ClaimedUpload(threads[l.key], uploads[f], drawn[f] + 1, now)
<1>1. threads[l.key] \in Thread /\ uploads[f] \in Upload /\ drawn[f] + 1 \in Nat \ {0}
  BY DEF AllTypeOK, TypeOK, UploadsTypeOK, Lease
<1>2. uploads[f].hubspotID = NoText /\ UploadMeaningOf(uploads[f])
  BY DEF ClaimUpload, UploadClaimable, UploadInv
<1>3. UploadMeaningOf(r) /\ r.leaseToken = drawn[f] + 1
  BY <1>1, <1>2, ClaimedUploadMeaning
<1>0. /\ uploads' = [uploads EXCEPT ![f] = r]
      /\ uploadClaims' = uploadClaims \cup {[file |-> f, token |-> uploads'[f].leaseToken]}
      /\ drawn' = [drawn EXCEPT ![f] = @ + 1]
  BY DEF ClaimUpload
<1> HIDE DEF r
<1>4. /\ uploads'[f] = r /\ drawn'[f] = drawn[f] + 1
      /\ \A g \in Files \ {f} : uploads'[g] = uploads[g] /\ drawn'[g] = drawn[g]
      /\ uploadClaims' = uploadClaims \cup {[file |-> f, token |-> drawn[f] + 1]}
  BY <1>0, <1>3 DEF AllTypeOK, UploadsTypeOK
<1>5. \A c \in uploadClaims : c.file \in Files /\ c.token \in Nat /\ c.token <= drawn[c.file]
  BY DEF AllTypeOK, UploadsTypeOK, UploadClaim, UploadInv
<1>6. \A g \in Files : drawn[g] \in Nat /\ drawn'[g] \in Nat /\ drawn[g] <= drawn'[g]
  BY <1>4 DEF AllTypeOK, UploadsTypeOK
<1>7. \A g \in Files : UploadMeaningOf(uploads'[g]) /\ uploads'[g].leaseToken <= drawn'[g]
  BY <1>1, <1>3, <1>4 DEF UploadInv
<1>8. \A c \in uploadClaims' : c.token <= drawn'[c.file]
  <2>1. ASSUME NEW c \in uploadClaims PROVE c.token <= drawn'[c.file]
    BY <1>4, <1>5, <1>6
  <2>2. QED
    BY <1>1, <1>4, <2>1
<1>9. UploadInv'
  BY <1>7, <1>8 DEF UploadInv, UploadMeaningOf
<1>10. ClaimsStayLost
  <2>1. SUFFICES ASSUME NEW c \in uploadClaims, ~HoldsUpload(c)
                 PROVE  uploads'[c.file].leaseToken # c.token
    BY DEF ClaimsStayLost, HoldsUpload
  <2>2. CASE c.file = f
    BY <1>3, <1>4, <1>5, <1>6, <2>2
  <2>3. CASE c.file # f
    BY <1>4, <1>5, <2>1, <2>3 DEF HoldsUpload
  <2>4. QED
    BY <2>2, <2>3
<1>11. \A g \in Files : CopyStays(g)
  BY <1>2, <1>4 DEF CopyStays
<1>12. QED
  BY <1>9, <1>10, <1>11

(* A write by the claim that holds the upload keeps its token or clears it. *)
LEMMA WritesInv ==
  ASSUME AllTypeOK, UploadInv, NEW c \in uploadClaims, NEW u, Writes(c, u),
         UploadMeaningOf(u), u.leaseToken \in {0, uploads[c.file].leaseToken}
  PROVE  UploadInv' /\ ClaimsStayLost /\ \A g \in Files : CopyStays(g)
<1>1. c.file \in Files /\ uploads[c.file] \in Upload
  BY DEF AllTypeOK, UploadsTypeOK, UploadClaim
<1>2. /\ uploads'[c.file] = u
      /\ \A g \in Files \ {c.file} : uploads'[g] = uploads[g]
      /\ drawn' = drawn /\ uploadClaims' = uploadClaims
  BY <1>1 DEF Writes, AllTypeOK, UploadsTypeOK
<1>3. u.leaseToken <= drawn[c.file]
  <2>1. drawn[c.file] \in Nat /\ uploads[c.file].leaseToken <= drawn[c.file]
    BY <1>1 DEF AllTypeOK, UploadsTypeOK, UploadInv
  <2>2. QED
    BY <2>1
<1>4. UploadInv'
  <2>1. \A g \in Files : UploadMeaningOf(uploads'[g]) /\ uploads'[g].leaseToken <= drawn'[g]
    BY <1>2, <1>3 DEF UploadInv
  <2>2. QED
    BY <1>2, <2>1 DEF UploadInv, UploadMeaningOf
<1>5. ClaimsStayLost
  <2>1. SUFFICES ASSUME NEW d \in uploadClaims, ~HoldsUpload(d)
                 PROVE  uploads'[d.file].leaseToken # d.token
    BY DEF ClaimsStayLost, HoldsUpload
  <2>2. d.file \in Files /\ d.token # 0
    BY DEF AllTypeOK, UploadsTypeOK, UploadClaim
  <2>3. QED
    BY <1>2, <2>1, <2>2 DEF HoldsUpload
<1>6. uploads[c.file].hubspotID = NoText
  BY <1>1, WrittenMeaning DEF UploadInv, Writes
<1>7. \A g \in Files : CopyStays(g)
  BY <1>2, <1>6 DEF CopyStays
<1>8. QED
  BY <1>4, <1>5, <1>7

LEMMA UploadsNextInv ==
  ASSUME AllTypeOK, UploadInv, [UploadsNext]_allVars
  PROVE  UploadInv' /\ ClaimsStayLost /\ \A g \in Files : CopyStays(g)
<1>1. CASE UploadsKept
  BY <1>1 DEF UploadsKept, uploadVars, UploadInv, ClaimsStayLost, HoldsUpload, CopyStays
<1>2. ASSUME NEW c \in uploadClaims
      PROVE  uploads[c.file] \in Upload /\ UploadMeaningOf(uploads[c.file])
  BY DEF AllTypeOK, UploadsTypeOK, UploadClaim, UploadInv
<1>3. ASSUME NEW c \in uploadClaims, NEW copy \in Copies,
             Writes(c, CompletedUpload(uploads[c.file], copy))
      PROVE  UploadInv' /\ ClaimsStayLost /\ \A g \in Files : CopyStays(g)
  <2>1. uploads[c.file].leaseToken # 0
    BY <1>3 DEF Writes
  <2>2. QED
    BY <1>2, <1>3, <2>1, WrittenMeaning, WritesInv
<1>4. ASSUME NEW c \in uploadClaims, NEW at \in Nat, NEW permanent \in BOOLEAN,
             Writes(c, FailedUpload(uploads[c.file], at, permanent))
      PROVE  UploadInv' /\ ClaimsStayLost /\ \A g \in Files : CopyStays(g)
  <2>1. uploads[c.file].leaseToken # 0
    BY <1>4 DEF Writes
  <2>2. QED
    BY <1>2, <1>4, <2>1, WrittenMeaning, WritesInv
<1>5. ASSUME NEW c \in uploadClaims, NEW at \in Nat \ {0},
             Writes(c, [uploads[c.file] EXCEPT !.leaseExpires = at])
      PROVE  UploadInv' /\ ClaimsStayLost /\ \A g \in Files : CopyStays(g)
  <2>1. uploads[c.file].leaseToken # 0
    BY <1>5 DEF Writes
  <2>2. QED
    BY <1>2, <1>5, <2>1, WrittenMeaning, WritesInv
<1>6. QED
  BY <1>1, <1>3, <1>4, <1>5, UploadStepCases, ClaimUploadInv

LEMMA UploadsInitInv ==
  ASSUME UploadsInit
  PROVE  UploadInv
<1>1. UploadMeaningOf(NoUpload) /\ NoUpload.leaseToken = 0
  BY DEF UploadMeaningOf, NoUpload, NoText
<1>2. QED
  BY <1>1 DEF UploadsInit, UploadInv

LEMMA UploadInvariant == UploadsSpec => [](AllTypeOK /\ UploadInv)
<1>1. UploadsInit => AllTypeOK /\ UploadInv
  BY UploadsInitType, UploadsInitInv
<1>2. AllTypeOK /\ UploadInv /\ [UploadsNext]_allVars => (AllTypeOK /\ UploadInv)'
  BY UploadsNextType, UploadsNextInv
<1>3. QED
  BY <1>1, <1>2, PTL DEF UploadsSpec

(* The state, lease, copy and delay of an upload record always agree. *)
THEOREM UploadAlwaysMeans == UploadsSpec => []UploadMeaning
<1>1. AllTypeOK /\ UploadInv => UploadMeaning
  BY DEF UploadInv, UploadMeaning
<1>2. QED
  BY <1>1, UploadInvariant, PTL

(* An upload claim that is lost, to recovery, completion or failure, stays lost. *)
THEOREM LostUploadsStayLost == UploadsSpec => UploadFencedForever
<1>1. AllTypeOK /\ UploadInv /\ [UploadsNext]_allVars
        => [\A c \in uploadClaims : ~HoldsUpload(c) => ~HoldsUpload(c)']_allVars
  BY UploadsNextInv DEF ClaimsStayLost
<1>2. QED
  BY <1>1, UploadInvariant, PTL DEF UploadsSpec, UploadFencedForever

(* The copy of a file that was uploaded is never replaced. *)
THEOREM CopiesNeverChange == UploadsSpec => CopyKept
<1>1. AllTypeOK /\ UploadInv /\ [UploadsNext]_allVars
        => [\A f \in Files : uploads[f].hubspotID # NoText
              => uploads'[f].hubspotID = uploads[f].hubspotID]_allVars
  BY UploadsNextInv DEF CopyStays
<1>2. QED
  BY <1>1, UploadInvariant, PTL DEF UploadsSpec, CopyKept

-----------------------------------------------------------------------------
(* One retry per sync. *)

(* Only a sync that applies changes the retry a thread asks for. *)
LEMMA EffectRetry ==
  ASSUME TypeOK, NEW e \in Events, NEW now \in Nat
  PROVE  \/ Effect(e, now).attachmentRetryTS \in {0, threads[e.key].attachmentRetryTS}
         \/ /\ Effect(e, now).attachmentRetryTS = e.messageTS
            /\ e.command = "sync" /\ Heard(e)
<1>1. e.key \in Keys /\ threads[e.key] \in Thread
  BY StoreAssumption DEF TypeOK, Event
<1> DEFINE t == threads[e.key]
           s == [t EXCEPT !.lastCommandTS = e.messageTS]
<1>2. \A q \in Thread : Queued(q, now).attachmentRetryTS = q.attachmentRetryTS
  BY DEF Queued, ClearLease, Thread
<1>3. Linked(e).attachmentRetryTS = 0
  BY DEF Linked, NoThread
<1>4. Messaged(t, e, now).attachmentRetryTS = t.attachmentRetryTS
  BY <1>1, <1>2 DEF Messaged, Queued, ClearLease, Thread
<1>5. CASE Applies(e)
  <2>1. e.kind = "command" /\ e.command \in TrackingCommands /\ Exists(t)
    BY <1>5 DEF Applies
  <2>2. s \in Thread /\ s.attachmentRetryTS = t.attachmentRetryTS
    <3>1. e.messageTS \in Nat
      BY StoreAssumption DEF Event
    <3>2. QED
      BY <1>1, <3>1 DEF Thread
  <2> HIDE DEF s
  <2>3. Untracked(s).attachmentRetryTS = s.attachmentRetryTS
    BY <2>2 DEF Untracked, ClearLease, Thread
  <2>4. Resumed(s).attachmentRetryTS = s.attachmentRetryTS
    BY <2>2 DEF Resumed, ClearLease, Thread
  <2>5. Synced(s, e, now).attachmentRetryTS \in {s.attachmentRetryTS, e.messageTS}
    <3>1. Queued(s, now) \in Thread
      BY <2>2, QueuedType
    <3>2. QED
      BY <3>1 DEF Synced, Thread
  <2>6. Effect(e, now) = Commanded(t, e, now)
    BY <1>5, <2>1 DEF Effect, NewThread, NewMessage
  <2>7. Commanded(t, e, now) = CASE e.command = "sync"    -> Synced(s, e, now)
                                 [] e.command = "untrack" -> Untracked(s)
                                 [] e.command = "resume"  -> Resumed(s)
    BY DEF Commanded, s
  <2>8. QED
    BY <2>1, <2>2, <2>3, <2>4, <2>5, <2>6, <2>7 DEF TrackingCommands, Heard
<1>6. CASE ~Applies(e)
  BY <1>3, <1>4, <1>6 DEF Effect
<1>7. QED
  BY <1>5, <1>6

LEMMA WorkRetry ==
  ASSUME NEW t \in Thread
  PROVE  /\ \A token, now : Claimed(t, token, now).attachmentRetryTS = t.attachmentRetryTS
         /\ \A now : Renewed(t, now).attachmentRetryTS = t.attachmentRetryTS
         /\ \A note : NoteSaved(t, note).attachmentRetryTS = t.attachmentRetryTS
         /\ \A l, ts, at : Completed(t, l, ts, at).attachmentRetryTS = t.attachmentRetryTS
         /\ \A l, error, at, permanent :
              Failed(t, l, error, at, permanent).attachmentRetryTS = t.attachmentRetryTS
<1>1. \A token, now : Claimed(t, token, now).attachmentRetryTS = t.attachmentRetryTS
  BY DEF Claimed, Thread
<1>2. /\ \A now : Renewed(t, now).attachmentRetryTS = t.attachmentRetryTS
      /\ \A note : NoteSaved(t, note).attachmentRetryTS = t.attachmentRetryTS
  BY DEF Renewed, NoteSaved, Thread
<1>3. \A l, ts, at : Completed(t, l, ts, at).attachmentRetryTS = t.attachmentRetryTS
  BY DEF Completed, ClearLease, Thread
<1>4. \A l, error, at, permanent :
        Failed(t, l, error, at, permanent).attachmentRetryTS = t.attachmentRetryTS
  BY DEF Failed, ClearLease, Thread
<1>5. QED
  BY <1>1, <1>2, <1>3, <1>4

LEMMA PutHeard ==
  ASSUME TypeOK, HeardInv, NEW k \in Keys, NEW r, Put(k, r),
         r.attachmentRetryTS = threads[k].attachmentRetryTS, heard' = heard
  PROVE  HeardInv'
<1>1. threads'[k] = r /\ \A j \in Keys \ {k} : threads'[j] = threads[j]
  BY PutThread
<1>2. QED
  BY <1>1 DEF HeardInv, Asked

LEMMA NextHeard ==
  ASSUME TypeOK, HeardInv, [Next]_vars
  PROVE  HeardInv' /\ \A k \in Keys : heard[k] \subseteq heard'[k]
<1>1. ASSUME NEW e \in Events, NEW now \in Nat, Record(e, now)
      PROVE  HeardInv' /\ \A k \in Keys : heard[k] \subseteq heard'[k]
  <2>1. e.key \in Keys
    BY StoreAssumption DEF Event
  <2>2. /\ threads'[e.key] = Effect(e, now)
        /\ \A j \in Keys \ {e.key} : threads'[j] = threads[j]
    BY <1>1, <2>1, PutThread DEF Record
  <2>3. /\ heard'[e.key] = IF Heard(e) THEN heard[e.key] \cup {e} ELSE heard[e.key]
        /\ \A j \in Keys \ {e.key} : heard'[j] = heard[j]
    BY <1>1, <2>1 DEF Record, TypeOK
  <2>4. IsFiniteSet(heard'[e.key])
    <3>1. IsFiniteSet(heard[e.key])
      BY <2>1 DEF HeardInv
    <3>2. IsFiniteSet(heard[e.key] \cup {e})
      BY <3>1, FS_AddElement
    <3>3. QED
      BY <2>3, <3>1, <3>2
  <2>5. Asked(e.key, threads[e.key].attachmentRetryTS)'
    <3>1. CASE Effect(e, now).attachmentRetryTS \in {0, threads[e.key].attachmentRetryTS}
      BY <2>1, <2>2, <2>3, <3>1 DEF HeardInv, Asked
    <3>2. CASE /\ Effect(e, now).attachmentRetryTS = e.messageTS
               /\ e.command = "sync" /\ Heard(e)
      BY <2>2, <2>3, <3>2 DEF Asked
    <3>3. QED
      BY <3>1, <3>2, EffectRetry
  <2>6. QED
    BY <2>2, <2>3, <2>4, <2>5 DEF HeardInv, Asked
<1>2. ASSUME NEW k \in Keys, NEW now \in Nat, Claim(k, now)
      PROVE  HeardInv' /\ heard' = heard
  <2>1. threads[k] \in Thread
    BY DEF TypeOK
  <2>2. QED
    BY <1>2, <2>1, WorkRetry, PutHeard DEF Claim
<1>3. ASSUME NEW l \in leases, NEW now \in Nat, NEW r, Put(l.key, r), heard' = heard,
             r.attachmentRetryTS = threads[l.key].attachmentRetryTS
      PROVE  HeardInv'
  BY <1>3, PutHeard DEF TypeOK, Lease
<1>4. \A l \in leases : threads[l.key] \in Thread
  BY DEF TypeOK, Lease
<1>5. ASSUME NEW l \in leases, NEW now \in Nat, Renew(l, now)
      PROVE  HeardInv' /\ heard' = heard
  BY <1>3, <1>4, <1>5, WorkRetry DEF Renew
<1>6. ASSUME NEW l \in leases, NEW now \in Nat, NEW note \in Notes, SaveNote(l, note, now)
      PROVE  HeardInv' /\ heard' = heard
  BY <1>3, <1>4, <1>6, WorkRetry DEF SaveNote
<1>7. ASSUME NEW l \in leases, NEW now \in Nat, NEW ts \in Nat, NEW at \in Nat,
             Complete(l, ts, at, now)
      PROVE  HeardInv' /\ heard' = heard
  BY <1>3, <1>4, <1>7, WorkRetry DEF Complete
<1>8. ASSUME NEW l \in leases, NEW now \in Nat, NEW error \in Errors, NEW at \in Nat,
             NEW permanent \in BOOLEAN, Fail(l, error, at, permanent, now)
      PROVE  HeardInv' /\ heard' = heard
  BY <1>3, <1>4, <1>8, WorkRetry DEF Fail
<1>9. CASE UNCHANGED <<threads, leases, issued, queued, covered, tried, heard>>
  BY <1>9 DEF HeardInv, Asked
<1>10. QED
  BY <1>1, <1>2, <1>5, <1>6, <1>7, <1>8, <1>9, StepCases

(* The syncs an upload has recorded only grow in number. *)
LEMMA SyncsGrow ==
  ASSUME NEW S, NEW T, IsFiniteSet(T), S \subseteq T
  PROVE  /\ Cardinality(S) \in Nat /\ Cardinality(T) \in Nat
         /\ Cardinality(S) <= Cardinality(T)
         /\ S # T => Cardinality(S) + 1 <= Cardinality(T)
<1>1. /\ IsFiniteSet(S) /\ Cardinality(S) <= Cardinality(T)
      /\ Cardinality(S) = Cardinality(T) => S = T
  BY FS_Subset
<1>2. Cardinality(S) \in Nat /\ Cardinality(T) \in Nat
  BY <1>1, FS_CardinalityType
<1>3. QED
  BY <1>1, <1>2

LEMMA ClaimedRetry ==
  ASSUME NEW t \in Thread, NEW u \in Upload, NEW token \in Nat, NEW now \in Nat
  PROVE  /\ ClaimedUpload(t, u, token, now).lastRetryTS
              = IF t.attachmentRetryTS > u.lastRetryTS THEN t.attachmentRetryTS ELSE u.lastRetryTS
         /\ \A copy : CompletedUpload(u, copy).lastRetryTS = u.lastRetryTS
         /\ \A at, permanent : FailedUpload(u, at, permanent).lastRetryTS = u.lastRetryTS
         /\ \A at : [u EXCEPT !.leaseExpires = at].lastRetryTS = u.lastRetryTS
<1>1. ClaimedUpload(t, u, token, now).lastRetryTS
        = IF t.attachmentRetryTS > u.lastRetryTS THEN t.attachmentRetryTS ELSE u.lastRetryTS
  BY DEF ClaimedUpload, ManualRetry, Newer, Upload
<1>2. /\ \A copy : CompletedUpload(u, copy).lastRetryTS = u.lastRetryTS
      /\ \A at, permanent : FailedUpload(u, at, permanent).lastRetryTS = u.lastRetryTS
      /\ \A at : [u EXCEPT !.leaseExpires = at].lastRetryTS = u.lastRetryTS
  BY DEF CompletedUpload, FailedUpload, Upload
<1>3. QED
  BY <1>1, <1>2

(* Uploads record a newer retry when a failed one is reopened, and lose none. *)
LEMMA ClaimUploadRetry ==
  ASSUME AllTypeOK, RetryInv, NEW l \in leases, NEW f \in Files, NEW now \in Nat,
         ClaimUpload(l, f, now)
  PROVE  RetryInv'
<1> DEFINE u == uploads[f]
           t == threads[l.key]
           ts == uploads'[f].lastRetryTS
<1>1. l.key \in Keys /\ t \in Thread /\ u \in Upload /\ drawn[f] + 1 \in Nat
  BY DEF AllTypeOK, TypeOK, UploadsTypeOK, Lease
<1>2. /\ ts = IF t.attachmentRetryTS > u.lastRetryTS THEN t.attachmentRetryTS ELSE u.lastRetryTS
      /\ \A g \in Files \ {f} : uploads'[g] = uploads[g]
      /\ heard' = heard /\ threads' = threads
  BY <1>1, ClaimedRetry
     DEF ClaimUpload, AllTypeOK, UploadsTypeOK, vars, durable, history
<1>3. u.lastRetryTS \in Nat /\ t.attachmentRetryTS \in Nat /\ ts \in Nat /\ u.lastRetryTS <= ts
  BY <1>1, <1>2 DEF Upload, Thread
<1>4. HeardInv'
  BY <1>2 DEF RetryInv, HeardInv, Asked
<1>5. \A e \in Events : e.messageTS \in Nat
  BY StoreAssumption DEF Event
<1>6. \A k \in Keys : heard[k] \subseteq Events /\ IsFiniteSet(heard[k])
  BY DEF AllTypeOK, TypeOK, RetryInv, HeardInv
<1>7. ASSUME NEW k \in Keys
      PROVE  /\ Syncs(k, u.lastRetryTS) \subseteq Syncs(k, ts)
             /\ IsFiniteSet(Syncs(k, ts))
  <2>1. \A e \in heard[k] : e.messageTS <= u.lastRetryTS => e.messageTS <= ts
    BY <1>3, <1>5, <1>6
  <2>2. Syncs(k, ts) \in SUBSET heard[k]
    BY DEF Syncs
  <2>3. QED
    BY <1>6, <2>1, <2>2, FS_Subset DEF Syncs
<1>8. ASSUME u.state = "failed"
      PROVE  Syncs(l.key, u.lastRetryTS) # Syncs(l.key, ts)
  <2>1. t.attachmentRetryTS > u.lastRetryTS
    BY <1>8 DEF ClaimUpload, UploadClaimable, ManualRetry, Newer
  <2>2. ts = t.attachmentRetryTS /\ t.attachmentRetryTS # 0
    BY <1>2, <1>3, <2>1
  <2>3. PICK e \in heard[l.key] : e.command = "sync" /\ e.messageTS = ts
    BY <1>1, <2>2 DEF RetryInv, HeardInv, Asked
  <2>4. e \in Syncs(l.key, ts)
    BY <1>3, <2>3 DEF Syncs
  <2>5. e \notin Syncs(l.key, u.lastRetryTS)
    BY <1>3, <2>1, <2>2, <2>3 DEF Syncs
  <2>6. QED
    BY <2>4, <2>5
<1>9. ASSUME NEW k \in Keys
      PROVE  reopened'[f][k] <= Cardinality(Syncs(k, ts))
  <2>1. reopened[f][k] \in Nat /\ reopened[f][k] <= Cardinality(Syncs(k, u.lastRetryTS))
    BY DEF AllTypeOK, UploadsTypeOK, RetryInv
  <2>2. /\ Cardinality(Syncs(k, u.lastRetryTS)) \in Nat /\ Cardinality(Syncs(k, ts)) \in Nat
        /\ Cardinality(Syncs(k, u.lastRetryTS)) <= Cardinality(Syncs(k, ts))
        /\ Syncs(k, u.lastRetryTS) # Syncs(k, ts)
             => Cardinality(Syncs(k, u.lastRetryTS)) + 1 <= Cardinality(Syncs(k, ts))
    BY <1>7, SyncsGrow
  <2>3. \/ reopened'[f][k] = reopened[f][k]
        \/ u.state = "failed" /\ k = l.key /\ reopened'[f][k] = reopened[f][k] + 1
    BY <1>1 DEF ClaimUpload, AllTypeOK, UploadsTypeOK
  <2>4. QED
    BY <1>8, <2>1, <2>2, <2>3
<1>10. \A g \in Files \ {f}, k \in Keys : reopened'[g][k] = reopened[g][k]
  BY <1>1 DEF ClaimUpload, AllTypeOK, UploadsTypeOK
<1>11. \A g \in Files, k \in Keys :
         reopened'[g][k] <= Cardinality(Syncs(k, uploads'[g].lastRetryTS))
  BY <1>2, <1>9, <1>10 DEF RetryInv
<1>12. QED
  BY <1>2, <1>4, <1>11 DEF RetryInv, Syncs

LEMMA UploadsNextRetry ==
  ASSUME AllTypeOK, RetryInv, [UploadsNext]_allVars
  PROVE  RetryInv'
<1>1. CASE UploadsKept
  <2>1. HeardInv' /\ \A k \in Keys : heard[k] \subseteq heard'[k]
    BY <1>1, NextHeard DEF UploadsKept, AllTypeOK, RetryInv
  <2>2. ASSUME NEW f \in Files, NEW k \in Keys
        PROVE  (reopened[f][k] <= Cardinality(Syncs(k, uploads[f].lastRetryTS)))'
    <3>1. uploads' = uploads /\ reopened' = reopened
      BY <1>1 DEF UploadsKept, uploadVars
    <3>2. Syncs(k, uploads[f].lastRetryTS) \subseteq Syncs(k, uploads[f].lastRetryTS)'
      BY <2>1, <3>1 DEF Syncs
    <3>3. Syncs(k, uploads[f].lastRetryTS)' \in SUBSET heard'[k]
      BY DEF Syncs
    <3>4. IsFiniteSet(Syncs(k, uploads[f].lastRetryTS)')
      BY <2>1, <3>3, FS_Subset DEF HeardInv
    <3>5. reopened[f][k] \in Nat /\ reopened[f][k] <= Cardinality(Syncs(k, uploads[f].lastRetryTS))
      BY DEF AllTypeOK, UploadsTypeOK, RetryInv
    <3>6. /\ Cardinality(Syncs(k, uploads[f].lastRetryTS)) \in Nat
          /\ Cardinality(Syncs(k, uploads[f].lastRetryTS)') \in Nat
          /\ Cardinality(Syncs(k, uploads[f].lastRetryTS))
               <= Cardinality(Syncs(k, uploads[f].lastRetryTS)')
      BY <3>2, <3>4, SyncsGrow
    <3>7. QED
      BY <3>1, <3>5, <3>6
  <2>3. QED
    BY <2>1, <2>2 DEF RetryInv
<1>2. ASSUME NEW c \in uploadClaims, NEW u, Writes(c, u),
             u.lastRetryTS = uploads[c.file].lastRetryTS
      PROVE  RetryInv'
  <2>1. c.file \in Files
    BY DEF AllTypeOK, UploadsTypeOK, UploadClaim
  <2>2. heard' = heard /\ threads' = threads /\ reopened' = reopened
    BY <1>2 DEF Writes, vars, durable, history
  <2>3. \A f \in Files : uploads'[f].lastRetryTS = uploads[f].lastRetryTS
    BY <1>2, <2>1 DEF Writes, AllTypeOK, UploadsTypeOK
  <2>4. QED
    BY <2>2, <2>3 DEF RetryInv, HeardInv, Asked, Syncs
<1>3. \A c \in uploadClaims : uploads[c.file] \in Upload
  BY DEF AllTypeOK, UploadsTypeOK, UploadClaim
<1>4. ASSUME NEW u \in Upload
      PROVE  /\ \A copy : CompletedUpload(u, copy).lastRetryTS = u.lastRetryTS
             /\ \A at, permanent : FailedUpload(u, at, permanent).lastRetryTS = u.lastRetryTS
             /\ \A at : [u EXCEPT !.leaseExpires = at].lastRetryTS = u.lastRetryTS
  BY DEF CompletedUpload, FailedUpload, Upload
<1>5. ASSUME NEW c \in uploadClaims, NEW copy \in Copies,
             Writes(c, CompletedUpload(uploads[c.file], copy))
      PROVE  RetryInv'
  BY <1>2, <1>3, <1>4, <1>5
<1>6. ASSUME NEW c \in uploadClaims, NEW at \in Nat, NEW permanent \in BOOLEAN,
             Writes(c, FailedUpload(uploads[c.file], at, permanent))
      PROVE  RetryInv'
  BY <1>2, <1>3, <1>4, <1>6
<1>7. ASSUME NEW c \in uploadClaims, NEW at \in Nat \ {0},
             Writes(c, [uploads[c.file] EXCEPT !.leaseExpires = at])
      PROVE  RetryInv'
  BY <1>2, <1>3, <1>4, <1>7
<1>8. QED
  BY <1>1, <1>5, <1>6, <1>7, UploadStepCases, ClaimUploadRetry

LEMMA UploadsInitRetry ==
  ASSUME UploadsInit
  PROVE  RetryInv
<1>1. IsFiniteSet({}) /\ Cardinality({}) = 0
  BY FS_EmptySet
<1>2. HeardInv
  <2>1. \A k \in Keys : heard[k] = {} /\ threads[k].attachmentRetryTS = 0
    BY DEF UploadsInit, Init, NoThread
  <2>2. QED
    BY <1>1, <2>1 DEF HeardInv, Asked
<1>3. \A f \in Files, k \in Keys :
        reopened[f][k] = 0 /\ Syncs(k, uploads[f].lastRetryTS) = {}
  BY DEF UploadsInit, Init, Syncs
<1>4. \A f \in Files, k \in Keys :
        reopened[f][k] <= Cardinality(Syncs(k, uploads[f].lastRetryTS))
  <2>1. SUFFICES ASSUME NEW f \in Files, NEW k \in Keys
                 PROVE  reopened[f][k] <= Cardinality(Syncs(k, uploads[f].lastRetryTS))
    OBVIOUS
  <2>2. reopened[f][k] = 0 /\ Syncs(k, uploads[f].lastRetryTS) = {}
    BY <1>3
  <2>3. Cardinality(Syncs(k, uploads[f].lastRetryTS)) = 0
    BY <1>1, <2>2
  <2>4. QED
    BY <2>2, <2>3
<1>5. QED
  BY <1>2, <1>4 DEF RetryInv

(* However often the threads that show a file are reconciled, each reopens a  *)
(* failed upload at most once for each sync command it was given.             *)
THEOREM RetriesAreAsked == UploadsSpec => []OneRetryPerSync
<1>1. UploadsInit => AllTypeOK /\ RetryInv
  BY UploadsInitType, UploadsInitRetry
<1>2. AllTypeOK /\ RetryInv /\ [UploadsNext]_allVars => (AllTypeOK /\ RetryInv)'
  BY UploadsNextType, UploadsNextRetry
<1>3. AllTypeOK /\ RetryInv => OneRetryPerSync
  <2>1. SUFFICES ASSUME AllTypeOK, RetryInv, NEW f \in Files, NEW k \in Keys
                 PROVE  reopened[f][k] <= Cardinality({e \in heard[k] : e.command = "sync"})
    BY DEF OneRetryPerSync
  <2> DEFINE All == {e \in heard[k] : e.command = "sync"}
             Used == Syncs(k, uploads[f].lastRetryTS)
  <2>2. Used \subseteq All /\ All \in SUBSET heard[k]
    BY DEF Syncs
  <2>3. IsFiniteSet(All)
    BY <2>1, <2>2, FS_Subset DEF RetryInv, HeardInv
  <2>4. /\ Cardinality(Used) \in Nat /\ Cardinality(All) \in Nat
        /\ Cardinality(Used) <= Cardinality(All)
    BY <2>2, <2>3, SyncsGrow
  <2>5. reopened[f][k] \in Nat /\ reopened[f][k] <= Cardinality(Used)
    BY <2>1 DEF AllTypeOK, UploadsTypeOK, RetryInv
  <2>6. QED
    BY <2>4, <2>5
<1>4. QED
  BY <1>1, <1>2, <1>3, PTL DEF UploadsSpec
=============================================================================
