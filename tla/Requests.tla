------------------------------ MODULE Requests ------------------------------
(***************************************************************************)
(* One tracked thread's durable job, request by request: the pages of the  *)
(* Slack thread, the names of its authors, the permalinks of its messages, *)
(* the pages of the ticket's notes, and the note (slack.Client.Thread,     *)
(* hubspot.Client.FindNote and its neighbours, worker.failure, retryAt).   *)
(* Messages are posted and deleted, and other notes go, between any two    *)
(* requests; any request may fail.                                         *)
(*                                                                         *)
(* Instants are relative to now: time passes by bringing them nearer.  One *)
(* worker holds the lease throughout; leases are lost in module Worker.    *)
(***************************************************************************)
EXTENDS ThreadRecord, Remote, FiniteSets

CONSTANTS
  Messages,        \* timestamps of the messages the thread may ever have
  Author,          \* who wrote each
  OtherNotes,      \* notes of the ticket that are not the thread's
  Rank,            \* the order in which HubSpot lists notes
  SlackPage,       \* messages of a page besides the root: 99
  NotePage,        \* notes of a page: 100
  Responses,       \* the failures Slack and HubSpot may answer with
  Settings,        \* worker settings: backoff base and maximum, attempts
  MaxFaults        \* bound: requests that fail and pages that are broken

Root == 1
Setting == [base: 1..MaxInt, max: 1..MaxInt, attempts: Nat \ {0}]

ASSUME RequestsAssumption ==
  /\ Messages \subseteq Nat \ {0} /\ Root \in Messages /\ Tickets # {}
  /\ Notes \cap OtherNotes = {} /\ \A n \in Notes \cup OtherNotes : Rank[n] \in Nat \ {0}
  /\ IsFiniteSet(OtherNotes) /\ MaxInt \in Nat
  /\ {SlackPage, NotePage} \subseteq Nat \ {0} /\ MaxFaults \in Nat
  /\ Responses \subseteq Response
  /\ Settings \subseteq Setting /\ \A s \in Settings : s.base <= s.max

VARIABLES
  setting,         \* the settings Load accepted
  trouble,         \* what is wrong with Slack or HubSpot for good, if anything
  thread,          \* the thread's record
  message,         \* each message in Slack: not yet, there or gone
  arriving,        \* changed messages whose event has not arrived
  notes,           \* the ticket's notes
  shows,           \* the messages each note of the thread shows
  read,            \* the pass: its lease and locals
  faults,          \* faults so far
  \* History:
  stayed,          \* messages there since the pass began
  cause            \* the error of the last failure

remote == <<message, arriving, notes, shows>>
history == <<stayed, cause>>
vars == <<setting, trouble, thread, remote, read, faults, history>>

Now == 1
There == {m \in Messages : message[m] = "there"}
MaxRetries == 3    \* of a page, while Slack limits the rate

NoLease == [generation |-> 0, revision |-> 0, token |-> 0]
Idle == [pc |-> "idle", lease |-> NoLease, attempts |-> 0, cursor |-> 0, seen |-> {}, tries |-> 0,
         got |-> {}, todo |-> {}, named |-> {}, own |-> NoText]

RequestsInit ==
  /\ setting \in Settings
  /\ trouble \in {"none", "cursors", "limits", "notes"}
  /\ \E ticket \in Tickets : thread = Linked([ticketID |-> ticket, messageTS |-> Root])
  /\ message = [m \in Messages |-> IF m = Root THEN "there" ELSE "none"]
  /\ arriving = {}
  /\ notes = OtherNotes
  /\ shows = [n \in Notes |-> {}]
  /\ read = Idle
  /\ faults = 0
  /\ stayed = {}
  /\ cause = Fine

At(pc) == read.pc = pc
Fault == faults < MaxFaults /\ faults' = faults + 1
Reads(state) == read' = state /\ UNCHANGED <<setting, trouble, thread, remote, history>>

-----------------------------------------------------------------------------
(* Users and time. *)

Post(m) ==
  /\ message[m] = "none" /\ \A other \in Messages : other < m => message[other] # "none"
  /\ message' = [message EXCEPT ![m] = "there"]
  /\ arriving' = arriving \cup {m}
  /\ UNCHANGED <<setting, trouble, thread, notes, shows, read, faults, history>>

Delete(m) ==
  /\ m # Root /\ message[m] = "there"
  /\ message' = [message EXCEPT ![m] = "gone"]
  /\ arriving' = arriving \cup {m}
  /\ stayed' = stayed \ {m}
  /\ UNCHANGED <<setting, trouble, thread, notes, shows, read, faults, cause>>

NoteGoes(n) ==
  /\ n \in notes \cap OtherNotes /\ Fault
  /\ notes' = notes \ {n}
  /\ UNCHANGED <<setting, trouble, thread, message, arriving, shows, read, history>>

(* Record of the event of a posted or a deleted message. *)
Arrive(m) ==
  /\ m \in arriving
  /\ arriving' = arriving \ {m}
  /\ thread' = Messaged(thread, [messageTS |-> m], Now)
  /\ UNCHANGED <<setting, trouble, message, notes, shows, read, faults, history>>

Wait ==
  /\ After(thread.nextAttempt, Now)
  /\ thread' = [thread EXCEPT !.nextAttempt = Now]
  /\ UNCHANGED <<setting, trouble, remote, read, faults, history>>

-----------------------------------------------------------------------------
(* The pass and its end. *)

Begin ==
  /\ At("idle") /\ Claimable(thread, Now)
  /\ thread' = Claimed(thread, 1, Now)
  /\ read' = [Idle EXCEPT !.pc = "pages", !.attempts = thread.attempts + 1, !.lease =
                [generation |-> thread.requested, revision |-> thread.revision, token |-> 1]]
  /\ stayed' = There /\ cause' = Fine
  /\ UNCHANGED <<setting, trouble, remote, faults>>

(* process: failure and Store.Fail. *)
Fails(e) ==
  LET permanent == Permanent(e, read.attempts, setting.attempts) IN
  /\ \E delay \in Delays(setting.base, setting.max, read.attempts, e.retryAfter) :
       thread' = Failed(thread, read.lease, "error", Now + delay, permanent)
  /\ read' = Idle
  /\ cause' = e /\ stayed' = {}
  /\ UNCHANGED <<setting, trouble>>

(* A request that failed and did nothing. *)
Refused(e) == Fault /\ Fails(e) /\ UNCHANGED remote

Complete ==
  /\ At("completing")
  /\ thread' = Completed(thread, read.lease, Root, 0)
  /\ read' = Idle /\ stayed' = {}
  /\ UNCHANGED <<setting, trouble, remote, faults, cause>>

-----------------------------------------------------------------------------
(* Slack.Thread: its pages. *)

(* Every page begins with the root. *)
Page(cursor) ==
  LET rest == {m \in There \ {Root} : m > cursor}
  IN  {Root} \cup {m \in rest : Cardinality({x \in rest : x < m}) < SlackPage}

(* The cursor after a page, 0 at the end; in trouble it is always the same. *)
NextCursor(cursor) ==
  LET shown == Page(cursor) IN
  IF trouble = "cursors" THEN Root
  ELSE IF \A m \in There : m > cursor => m \in shown THEN 0
  ELSE CHOOSE m \in shown : \A other \in shown : other <= m

\* Mutation: a page that repeats its cursor is followed.
Unremembered(cursor) == FALSE
Repeated(cursor) == cursor \in read.seen

\* Mutation: the first page is taken for the thread.
FirstPageOnly(next) == TRUE
LastPage(next) == next = 0

GetPage ==
  LET next == NextCursor(read.cursor)
      got == read.got \cup Page(read.cursor) IN
  /\ At("pages") /\ trouble # "limits"
  /\ \/ /\ LastPage(next)
        /\ Reads([read EXCEPT !.pc = "messages", !.got = got, !.todo = got])
        /\ UNCHANGED faults
     \/ /\ next # 0 /\ Repeated(next)
        /\ Fails(RemoteError("repeated_cursor", TRUE, 0))
        /\ UNCHANGED <<remote, faults>>
     \/ /\ next # 0 /\ ~Repeated(next) /\ ~LastPage(next)
        /\ Reads([read EXCEPT !.got = got, !.cursor = next, !.seen = @ \cup {next}, !.tries = 0])
        /\ UNCHANGED faults

(* Pages that say there is more and not where, or end without the root. *)
BrokenPage ==
  /\ At("pages")
  /\ \E code \in {"incomplete_pagination", "incomplete_thread"} : Refused(RemoteError(code, TRUE, 0))

\* Mutation: a page is asked for until Slack gives it.
RetriedAlways(e) == e.code = "ratelimited"
RetriedPage(e) == e.code = "ratelimited" /\ read.tries < MaxRetries

PageError(e) ==
  IF RetriedPage(e)
    THEN Reads([read EXCEPT !.tries = IF @ < MaxRetries THEN @ + 1 ELSE @])
    ELSE Fails(e) /\ UNCHANGED remote

NoPage ==
  /\ At("pages")
  /\ \/ \E r \in Responses : Fault /\ PageError(SlackCall(r))
     \/ /\ trouble = "limits" /\ UNCHANGED faults
        /\ PageError(SlackCall([status |-> 429, body |-> "ok", retryAfter |-> 0]))

-----------------------------------------------------------------------------
(* Slack.Thread: the author and the permalink of each message, in order. *)

First == CHOOSE m \in read.todo : \A other \in read.todo : m <= other
Unnamed == read.todo # {} /\ Author[First] \notin read.named

GetName ==
  /\ At("messages") /\ Unnamed
  /\ \/ UNCHANGED faults /\ Reads([read EXCEPT !.named = @ \cup {Author[First]}])
     \/ \E r \in Responses : Fault /\
          LET e == SlackCall(r) IN
          IF e.code \in {"user_not_found", "user_not_visible"}
            THEN Reads([read EXCEPT !.named = @ \cup {Author[First]}])
            ELSE Fails(e) /\ UNCHANGED remote

GetPermalink ==
  /\ At("messages") /\ read.todo # {} /\ ~Unnamed
  /\ IF message[First] = "there"
       THEN Reads([read EXCEPT !.todo = @ \ {First}])
       ELSE Fails(SlackCall([status |-> 200, body |-> "message_not_found", retryAfter |-> 0])) /\ UNCHANGED remote
  /\ UNCHANGED faults

NoPermalink ==
  /\ At("messages") /\ read.todo # {} /\ ~Unnamed
  /\ \E r \in Responses : Refused(SlackCall(r))

(* A thread whose note is known is not looked up. *)
HaveThread ==
  /\ At("messages") /\ read.todo = {}
  /\ Reads([read EXCEPT !.pc = IF thread.noteID = NoText THEN "notes" ELSE "updating",
                        !.own = thread.noteID, !.cursor = 0, !.seen = {}])
  /\ UNCHANGED faults

-----------------------------------------------------------------------------
(* FindNote: pages of notes, each of which is read until one has the marker. *)

Listable(cursor) == {n \in notes : Rank[n] > cursor}
Listed(cursor) ==
  {n \in Listable(cursor) : Cardinality({x \in Listable(cursor) : Rank[x] < Rank[n]}) < NotePage}

\* Mutation: the lookup ends with the first page.
OnePage(cursor) == 0
AfterPage(cursor) ==
  IF trouble = "notes" THEN 1
  ELSE IF Listable(cursor) \subseteq Listed(cursor) THEN 0
  ELSE CHOOSE rank \in {Rank[n] : n \in Listed(cursor)} : \A n \in Listed(cursor) : Rank[n] <= rank

ListNotes ==
  /\ At("notes")
  /\ Reads([read EXCEPT !.pc = "looking", !.todo = Listed(read.cursor), !.cursor = AfterPage(read.cursor)])
  /\ UNCHANGED faults

FirstNote == CHOOSE n \in read.todo : \A other \in read.todo : Rank[n] <= Rank[other]

LookAtNote ==
  /\ At("looking") /\ read.todo # {}
  /\ CASE FirstNote \notin notes ->
            Fails(HubSpotRequest([status |-> 404, body |-> "ok", retryAfter |-> 0])) /\ UNCHANGED remote
       [] FirstNote \in notes \cap Notes -> Reads([read EXCEPT !.pc = "saving", !.own = FirstNote])
       [] OTHER -> Reads([read EXCEPT !.todo = @ \ {FirstNote}])
  /\ UNCHANGED faults

EndOfPage ==
  /\ At("looking") /\ read.todo = {}
  /\ CASE read.cursor = 0    -> Reads([read EXCEPT !.pc = "creating"])
       [] Repeated(read.cursor) -> Fails(RemoteError("repeated_cursor", TRUE, 0)) /\ UNCHANGED remote
       [] OTHER -> Reads([read EXCEPT !.pc = "notes", !.seen = @ \cup {read.cursor}])
  /\ UNCHANGED faults

NoNotes ==
  /\ read.pc \in {"notes", "looking"}
  /\ \E r \in Responses : Refused(HubSpotRequest(r))

-----------------------------------------------------------------------------
(* CreateNote, SaveNote, UpdateNote. *)

(* What a failed write may have done all the same. *)
MayApply(r) == r.status = 0 \/ r.status >= 500 \/ Success(r.status)

Written(n) ==
  /\ notes' = notes \cup {n}
  /\ shows' = [shows EXCEPT ![n] = read.got]
  /\ UNCHANGED <<message, arriving>>

Creates(n) == At("creating") /\ n \in Notes \ notes
Updates(n) == At("updating") /\ n = read.own

CreateNote(n) ==
  /\ Creates(n) /\ Written(n)
  /\ read' = [read EXCEPT !.pc = "saving", !.own = n]
  /\ UNCHANGED <<setting, trouble, thread, faults, history>>

SaveNote ==
  /\ At("saving") /\ NoteAccepted(thread, read.own)
  /\ thread' = NoteSaved(thread, read.own)
  /\ read' = [read EXCEPT !.pc = "updating"]
  /\ UNCHANGED <<setting, trouble, remote, faults, history>>

UpdateNote(n) ==
  /\ Updates(n) /\ Written(n)
  /\ read' = [read EXCEPT !.pc = "completing"]
  /\ UNCHANGED <<setting, trouble, thread, faults, history>>

FailedWrite(n) ==
  /\ Creates(n) \/ Updates(n)
  /\ \E r \in Responses :
       /\ Fault /\ Fails(HubSpotRequest(r))
       /\ UNCHANGED remote \/ (MayApply(r) /\ Written(n))

-----------------------------------------------------------------------------
NoteStep(n) == CreateNote(n) \/ UpdateNote(n)
PassStep ==
  \/ Begin \/ GetPage \/ NoPage \/ GetName \/ GetPermalink \/ HaveThread \/ ListNotes \/ LookAtNote
  \/ EndOfPage \/ SaveNote \/ Complete
  \/ \E n \in Notes : NoteStep(n)
Events == \E m \in Messages : Post(m) \/ Delete(m) \/ Arrive(m)
Failures ==
  \/ BrokenPage \/ NoPermalink \/ NoNotes
  \/ \E n \in Notes : FailedWrite(n)
  \/ \E n \in OtherNotes : NoteGoes(n)

RequestsNext == PassStep \/ Events \/ Failures \/ Wait

(* Requests end in an answer or in the client's timeout, Slack delivers the *)
(* events of changed messages, and the worker polls.                        *)
RequestsSpec ==
  /\ RequestsInit /\ [][RequestsNext]_vars
  /\ WF_vars(PassStep) /\ WF_vars(Wait)
  /\ \A m \in Messages : WF_vars(Arrive(m))

-----------------------------------------------------------------------------

(* slack.Client.Thread loses nothing between its pages: however the thread     *)
(* changes and whatever requests fail, the messages it returns include all     *)
(* those that were there throughout.                                           *)
ThreadIsWhole == read.pc \notin {"idle", "pages"} => stayed \subseteq read.got

(* A thread has one note, though a create whose answer was lost is repeated    *)
(* and the ticket's other notes fill several pages.                            *)
OneNote == Cardinality(notes \cap Notes) <= 1

(* worker.retryAt: a failed pass is not tried again before Slack or HubSpot    *)
(* asked for, nor later than that or the configured maximum; and never at once *)
(* unless the configured base is a single nanosecond.                          *)
BackoffInBounds ==
  [][thread.state = "running" /\ thread'.state = "retrying" =>
       LET delay == thread'.nextAttempt - Now IN
       /\ delay >= cause'.retryAfter
       /\ delay <= Larger(setting.max, cause'.retryAfter)
       /\ setting.base > 1 => delay > 0]_vars

(* What Slack or HubSpot refuses until somebody changes the installation, or   *)
(* for a reason the client does not know.                                      *)
Denied == cause.code \in {"invalid_auth", "missing_scope", "not_in_channel", "user_not_found", "api_error"}
(* Every attempt was used up, on trouble that is never mended. *)
GivenUp == trouble # "none" /\ cause.temporary /\ thread.attempts >= setting.attempts
(* Errors the clients call permanent though another attempt would mend them: a *)
(* listed note that went before it was read, and a 408 from Slack.             *)
Misjudged == cause.code = "not_found" \/ (cause.code = "http_error" /\ ~cause.temporary)

(* worker.failure: in the end the note shows the thread, or the job is parked, *)
(* for a denial, attempts used up against lasting trouble, or one of the two   *)
(* errors named in Misjudged; never for a failure called temporary that passed,*)
(* and never for a message deleted while the thread is read, which ends the    *)
(* pass in a permanent error and whose event queues the job again.             *)
Settles ==
  <>[](\/ thread.state = "up-to-date" /\ shows[thread.noteID] = There
       \/ thread.state = "failed" /\ (Denied \/ GivenUp \/ Misjudged))

(* A pass ends, though Slack limits every request or its cursors go round.     *)
PassEnds == read.pc # "idle" ~> read.pc = "idle"
=============================================================================
