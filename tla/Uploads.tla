------------------------------ MODULE Uploads ------------------------------
(***************************************************************************)
(* The shared uploads of the store (internal/store/uploads.go): a Slack    *)
(* file is copied to HubSpot once for its workspace, under a lease of its  *)
(* own that a worker obtains with the lease of any thread showing the file *)
(* and keeps when that thread stops.  Callers are as free as Store's: any  *)
(* lease and any upload claim may be used again at any time.               *)
(***************************************************************************)
EXTENDS Store

CONSTANTS
  Files,           \* Slack files of the workspace
  Copies,          \* the IDs HubSpot may give to their copies
  MaxUploadClaims  \* bound: claims of one file

ASSUME UploadsAssumption ==
  /\ NoText \notin Copies
  /\ MaxUploadClaims \in Nat

VARIABLES
  uploads,         \* upload records
  uploadClaims,    \* every claim ClaimUpload has granted
  drawn,           \* claims granted per file: the last token drawn
  \* History:
  reopened         \* claims of a failed upload, per file and thread

uploadVars == <<uploads, uploadClaims, drawn, reopened>>
allVars == <<vars, uploadVars>>

UploadStates == {"", "running", "retrying", "failed", "complete"}
Upload == [attempts: Nat, currentError: Errors, hubspotID: Copies \cup {NoText},
           lastRetryTS: Nat, leaseExpires: Nat, leaseToken: Nat, nextAttempt: Nat,
           state: UploadStates]
UploadClaim == [file: Files, token: Nat \ {0}]

NoUpload == [attempts |-> 0, currentError |-> NoText, hubspotID |-> NoText,
             lastRetryTS |-> 0, leaseExpires |-> 0, leaseToken |-> 0,
             nextAttempt |-> 0, state |-> ""]

UploadsInit ==
  /\ Init
  /\ uploads = [f \in Files |-> NoUpload]
  /\ uploadClaims = {}
  /\ drawn = [f \in Files |-> 0]
  /\ reopened = [f \in Files |-> [k \in Keys |-> 0]]

-----------------------------------------------------------------------------
ValidateUpload(u, claim, now) ==
  /\ u.leaseToken # 0
  /\ u.leaseToken = claim.token
  /\ After(u.leaseExpires, now)

(* A sync of the thread that no claim of this upload has acted on yet. *)
ManualRetry(thread, u) == Newer(thread.attachmentRetryTS, u.lastRetryTS)

UploadFree(u, now) == ~After(u.leaseExpires, now) /\ ~After(u.nextAttempt, now)

\* Mutation: a copied file is uploaded again on request.
CopyWanted(thread, u, now) ==
  UploadFree(u, now) /\ (u.state = "failed" => ManualRetry(thread, u))

UploadClaimable(thread, u, now) ==
  /\ u.hubspotID = NoText
  /\ UploadFree(u, now)
  /\ u.state = "failed" => ManualRetry(thread, u)

\* Mutation: the attempt number, which a manual retry resets, is the token.
ClaimedUploadByAttempt(thread, u, token, now) ==
  LET fresh == IF u.state = "failed"
                 THEN [u EXCEPT !.attempts = 0, !.currentError = NoText, !.nextAttempt = 0]
                 ELSE u
  IN  [fresh EXCEPT !.attempts = @ + 1, !.leaseExpires = now + LeaseDuration,
        !.leaseToken = fresh.attempts + 1, !.state = "running",
        !.lastRetryTS = IF ManualRetry(thread, u) THEN thread.attachmentRetryTS ELSE @]

\* Mutation: the retry is not recorded as used.
ClaimedUploadForgetting(thread, u, token, now) ==
  [u EXCEPT !.attempts = IF u.state = "failed" THEN 1 ELSE @ + 1,
            !.currentError = IF u.state = "failed" THEN NoText ELSE @,
            !.leaseExpires = now + LeaseDuration, !.leaseToken = token,
            !.state = "running"]

ClaimedUpload(thread, u, token, now) ==
  LET fresh == IF u.state = "failed"
                 THEN [u EXCEPT !.attempts = 0, !.currentError = NoText, !.nextAttempt = 0]
                 ELSE u
  IN  [fresh EXCEPT !.attempts = @ + 1, !.leaseExpires = now + LeaseDuration,
        !.leaseToken = token, !.state = "running",
        !.lastRetryTS = IF ManualRetry(thread, u) THEN thread.attachmentRetryTS ELSE @]

\* Mutation: the lease stays with a completed upload.
CompletedLeased(u, copy) ==
  [u EXCEPT !.currentError = NoText, !.hubspotID = copy, !.nextAttempt = 0,
            !.state = "complete"]

CompletedUpload(u, copy) ==
  [u EXCEPT !.currentError = NoText, !.hubspotID = copy, !.leaseExpires = 0,
            !.leaseToken = 0, !.nextAttempt = 0, !.state = "complete"]

FailedUpload(u, nextAttempt, permanent) ==
  [u EXCEPT !.currentError = "error", !.leaseExpires = 0, !.leaseToken = 0,
            !.nextAttempt = IF permanent THEN 0 ELSE nextAttempt,
            !.state = IF permanent THEN "failed" ELSE "retrying"]

-----------------------------------------------------------------------------
(* The claim of a copied file returns its copy and writes nothing: no step. *)
ClaimUpload(l, f, now) ==
  /\ Validate(threads[l.key], l, now)
  /\ UploadClaimable(threads[l.key], uploads[f], now)
  /\ drawn[f] < MaxUploadClaims
  /\ uploads' = [uploads EXCEPT ![f] = ClaimedUpload(threads[l.key], @, drawn[f] + 1, now)]
  /\ uploadClaims' = uploadClaims \cup {[file |-> f, token |-> uploads'[f].leaseToken]}
  /\ drawn' = [drawn EXCEPT ![f] = @ + 1]
  /\ reopened' = IF uploads[f].state = "failed"
                   THEN [reopened EXCEPT ![f][l.key] = @ + 1] ELSE reopened
  /\ UNCHANGED vars

Replace(c, u, now) ==
  /\ ValidateUpload(uploads[c.file], c, now)
  /\ uploads' = [uploads EXCEPT ![c.file] = u]
  /\ UNCHANGED <<vars, uploadClaims, drawn, reopened>>

CompleteUpload(c, copy, now) == Replace(c, CompletedUpload(uploads[c.file], copy), now)

FailUpload(c, nextAttempt, permanent, now) ==
  Replace(c, FailedUpload(uploads[c.file], nextAttempt, permanent), now)

RenewUpload(c, now) ==
  Replace(c, [uploads[c.file] EXCEPT !.leaseExpires = now + LeaseDuration], now)

-----------------------------------------------------------------------------
ClaimFile == \E l \in leases, f \in Files, now \in Nows : ClaimUpload(l, f, now)

UseClaim ==
  \E c \in uploadClaims, now \in Nows :
    \/ \E copy \in Copies : CompleteUpload(c, copy, now)
    \/ \E at \in RetryTimes(now), permanent \in BOOLEAN : FailUpload(c, at, permanent, now)
    \/ RenewUpload(c, now)

(* The steps of Store that uploads can see: the outbox does not touch them. *)
ThreadStep == RecordEvent \/ ClaimThread \/ UseLease \/ Tick

UploadsNext == (ThreadStep /\ UNCHANGED uploadVars) \/ ClaimFile \/ UseClaim
UploadsSpec == UploadsInit /\ [][UploadsNext]_allVars

-----------------------------------------------------------------------------
(* Every variable of the uploads has its type. *)
UploadsTypeOK ==
  /\ uploads \in [Files -> Upload]
  /\ uploadClaims \subseteq UploadClaim
  /\ drawn \in [Files -> Nat]
  /\ reopened \in [Files -> [Keys -> Nat]]

(* State agrees with the fields ClaimUpload decides by: a lease is held       *)
(* exactly while running, a copy is known exactly when complete, and neither  *)
(* a complete nor a failed upload waits for a retry.                          *)
UploadMeaningOf(u) ==
  /\ (u.state = "running") <=> (u.leaseToken # 0)
  /\ (u.leaseToken # 0) <=> (u.leaseExpires # 0)
  /\ (u.state = "complete") <=> (u.hubspotID # NoText)
  /\ u.state \in {"complete", "failed"} => u.nextAttempt = 0
  /\ (u.state = "failed") => u.currentError # NoText
  /\ (u.state = "") <=> (u.attempts = 0)
UploadMeaning == \A f \in Files : UploadMeaningOf(uploads[f])

(* A claim that lost its upload to expiry and recovery, completion or failure *)
(* never writes it again, though a manual retry starts the attempts afresh.   *)
HoldsUpload(c) == uploads[c.file].leaseToken = c.token
UploadFencedForever == [][\A c \in uploadClaims : ~HoldsUpload(c) => ~HoldsUpload(c)']_allVars

(* Once some thread's claim was completed, every thread shows that copy. *)
CopyKept ==
  [][\A f \in Files : uploads[f].hubspotID # NoText
       => uploads'[f].hubspotID = uploads[f].hubspotID]_allVars

(* A permanently failed file is tried again by a thread at most once for each *)
(* sync of that very thread, however often the thread is reconciled and       *)
(* whatever the other threads that show the file are asked for.               *)
OneRetryPerSync ==
  \A f \in Files, k \in Keys :
    reopened[f][k] <= Cardinality({e \in heard[k] : e.command = "sync"})

=============================================================================
