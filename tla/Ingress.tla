------------------------------ MODULE Ingress ------------------------------
(***************************************************************************)
(* The HTTP service (internal/httpapi) between Slack, HubSpot and the      *)
(* store: a delivery of the Events API is authenticated, decoded and       *)
(* classified; a link reads the thread and validates the ticket; and the   *)
(* event is recorded before it is acknowledged.  Handlers run concurrently *)
(* and the store is read, HubSpot asked and the event recorded in three    *)
(* separate steps.  Slack delivers again what was not acknowledged, and    *)
(* delivers a message that mentions the bot twice, under two event IDs.    *)
(***************************************************************************)
EXTENDS Store, Remote, Invocation

CONSTANTS
  Deliveries,      \* the requests that Slack, or somebody else, sends
  Handlers,        \* requests handled at a time
  Responses,       \* the failures HubSpot may answer with
  MaxFaults        \* bound: failures of HubSpot and the store, lost answers, ends of the process

\* A timestamp that is absent is 0, one that is malformed negative.
SlackMessage == [subtype: STRING, user: {"user", "bot", "another bot", ""}, ts: Int, threadTS: Int, text: Text]
(* HubSpot's body is "json" if it is an array of its events, each with the fields *)
(* required of those.  In Slack's, a type may be "absent"; eventType is "none"    *)
(* where there is no event.  present says that a change or deletion brings the   *)
(* message it is about.                                                          *)
Delivery == [id: STRING, path: STRING, method: STRING, body: {"json", "not json", "too large", "cut"},
             contentType: {"json", "other"}, signed: BOOLEAN, age: Int, type: STRING, challenge: BOOLEAN,
             team: {"ours", "other", ""}, eventType: STRING, channelID: STRING, subtype: STRING,
             present: BOOLEAN, message: SlackMessage]

ASSUME IngressAssumption ==
  /\ Handlers # {} /\ MaxFaults \in Nat
  /\ Deliveries \subseteq Delivery
  \* Slack gives each of its events an ID of its own.
  /\ \A d \in Deliveries : d.signed => d.id \in ReplyIds \cup {""}
  /\ \A d, e \in Deliveries : (d.signed /\ e.signed /\ d.id = e.id /\ d.id # "") => d = e
  /\ Responses \subseteq Response

VARIABLES
  slack,           \* each delivery: "pending", "acked" or "refused"
  known,           \* the tickets our HubSpot token can read
  ready,           \* what /readyz reports, storage aside
  handler,         \* what each handler is at
  faults,          \* faults so far
  said             \* history: what the reply to each event says

ingressVars == <<slack, known, ready, handler, faults, said>>
storeVars == vars

NoEvent == [id |-> "", key |-> SomeKey, kind |-> "message", command |-> "", messageTS |-> 0, ticketID |-> NoText]
Rest == [pc |-> "rest", delivery |-> "", event |-> NoEvent, code |-> 0, reply |-> ""]

IngressInit ==
  /\ Init
  /\ slack = [d \in Deliveries |-> "pending"]
  /\ known \in SUBSET Tickets
  /\ ready = FALSE
  /\ handler = [h \in Handlers |-> Rest]
  /\ faults = 0
  /\ said = [id \in ReplyIds |-> ""]

Moves(h, state) == handler' = [handler EXCEPT ![h] = state]
Fault == faults < MaxFaults /\ faults' = faults + 1

-----------------------------------------------------------------------------
(* From the request to the event: codes as answered, 0 to go on. *)

Operations ==
  {[path |-> "/slack/events", method |-> "POST"], [path |-> "/hubspot/events", method |-> "POST"],
   [path |-> "/livez", method |-> "GET"], [path |-> "/readyz", method |-> "GET"],
   [path |-> "/metrics", method |-> "GET"]}

NotRouted(d) ==
  CASE \A o \in Operations : o.path # d.path -> 404
    [] \E o \in Operations : o = [path |-> d.path, method |-> d.method] -> 0
    [] OTHER -> IF d.method = "OPTIONS" THEN 204 ELSE 405

(* The first stage that does not go on answers the request. *)
First(codes) ==
  IF \A i \in DOMAIN codes : codes[i] = 0 THEN 0
  ELSE codes[CHOOSE i \in DOMAIN codes : codes[i] # 0 /\ \A j \in DOMAIN codes : j < i => codes[j] = 0]

(* Raw bytes, timestamp and signature, before anything is decoded. *)
Authenticate(d) ==
  CASE d.body = "too large" -> 413
    [] d.body = "cut"       -> 400
    [] OTHER                -> IF d.signed /\ d.age \in -5..5 THEN 0 ELSE 401

(* The fields the schema of Slack's events requires. *)
EnvelopeComplete(d) == d.type # "absent"
EventComplete(d) == d.eventType # "absent"
HasRequired(d) == d.path = "/slack/events" => EnvelopeComplete(d) /\ EventComplete(d)

DecodeError(d) ==
  IF d.contentType # "json" THEN "content type"
  ELSE IF d.body = "too large" THEN "too large"
  ELSE IF d.body = "json" /\ HasRequired(d) THEN ""
  ELSE "request"

(* The error handler of New. *)
ErrorCode(error) ==
  CASE error = "too large"    -> 413
    [] error = "content type" -> 415
    [] error = "request"      -> 400
    [] OTHER                  -> 0

Decode(d) == ErrorCode(DecodeError(d))

(* SlackEvent: the envelope. *)
Envelope(d) ==
  IF d.type = "url_verification"
    THEN IF ~d.challenge THEN 400 ELSE IF d.team = "other" THEN 401 ELSE 200
  ELSE IF d.type # "event_callback" \/ d.id = "" \/ d.team = "" \/ d.eventType = "none" THEN 400
  ELSE IF d.team = "other" THEN 401
  ELSE IF d.eventType = "" THEN 400
  ELSE IF d.eventType \notin {"message", "app_mention"} THEN 200
  ELSE IF d.channelID = "" THEN 400 ELSE 0

Changed(d) == d.subtype \in {"message_changed", "message_deleted"}
Spoken == {"", "bot_message", "file_share", "thread_broadcast"}

(* SlackEvent: the message, or the one that was changed. *)
MessageCode(d) ==
  IF Changed(d) /\ ~d.present THEN 400
  ELSE IF ~Changed(d) /\ d.subtype \notin Spoken THEN 200
  ELSE IF d.message.user = "bot" THEN 200
  ELSE IF d.message.subtype \notin Spoken \cup {"message_changed", "message_deleted"} THEN 200
  ELSE IF d.message.user = "" \/ d.message.ts <= 0 \/ d.message.threadTS < 0 THEN 400 ELSE 0

(* HubspotEvent acknowledges nothing. *)
NotImplemented == 501

ReadyCode == IF ready THEN 200 ELSE 503

SlackCode(d) == First(<<Authenticate(d), Decode(d), Envelope(d), MessageCode(d)>>)

Code(d) ==
  IF NotRouted(d) # 0 THEN NotRouted(d)
  ELSE CASE d.path = "/slack/events"   -> SlackCode(d)
         [] d.path = "/hubspot/events" -> First(<<Decode(d), NotImplemented>>)
         [] d.path = "/readyz"         -> ReadyCode
         [] OTHER                      -> 200
Concerns(d) == Code(d) = 0

KeyOf(d) ==
  [channelID |-> d.channelID,
   threadTS |-> IF d.message.threadTS = 0 THEN d.message.ts ELSE d.message.threadTS]
IsRoot(d) == KeyOf(d).threadTS = d.message.ts

(* A changed message is never obeyed. *)
EventOf(d) ==
  LET parsed == IF Changed(d) THEN Nothing ELSE Parse(d.message.text)
      event == [NoEvent EXCEPT !.id = d.id, !.key = KeyOf(d), !.messageTS = d.message.ts]
  IN  IF parsed.invalid THEN [event EXCEPT !.kind = "reply"]
      ELSE IF parsed.command # "" THEN [event EXCEPT !.kind = "command", !.command = parsed.command]
      ELSE IF parsed.ticketID = "" THEN event
      ELSE IF IsRoot(d) THEN [event EXCEPT !.kind = "link", !.ticketID = parsed.ticketID]
      ELSE [event EXCEPT !.kind = "reply"]

-----------------------------------------------------------------------------
(* Slack. *)

Handled(d) == \E h \in Handlers : handler[h].pc # "rest" /\ handler[h].delivery = d.id
Free(h) == handler[h].pc = "rest" /\ h = CHOOSE g \in Handlers : handler[g].pc = "rest"

(* Slack gives up waiting, and delivers again what is still being handled. *)
Send(d, h) ==
  /\ slack[d] = "pending" /\ Free(h)
  /\ IF Handled(d) THEN Fault ELSE UNCHANGED faults
  /\ IF Concerns(d)
       THEN /\ UNCHANGED slack
            /\ Moves(h, [Rest EXCEPT !.pc = IF EventOf(d).kind = "link" THEN "reading" ELSE "recording",
                                     !.delivery = d.id, !.event = EventOf(d), !.reply = EventOf(d).kind])
       ELSE /\ slack' = [slack EXCEPT ![d] = IF Code(d) = 503 THEN "pending"
                                                ELSE IF Code(d) \in 200..299 THEN "acked" ELSE "refused"]
            /\ UNCHANGED handler
  /\ UNCHANGED <<storeVars, known, ready, said>>

Answers(h, code) == Moves(h, [handler[h] EXCEPT !.pc = "answering", !.code = code])
Unavailable(h) == Answers(h, 503) /\ UNCHANGED <<storeVars, slack, known, ready, said>>

(* The response arrives, or is lost with the connection. *)
Answer(h) ==
  /\ handler[h].pc = "answering"
  /\ \/ slack' = [d \in Deliveries |-> IF d.id = handler[h].delivery /\ handler[h].code = 200
                                         THEN "acked" ELSE slack[d]] /\ UNCHANGED faults
     \/ UNCHANGED slack /\ Fault
  /\ Moves(h, Rest)
  /\ UNCHANGED <<storeVars, known, ready, said>>

-----------------------------------------------------------------------------
(* A link: the thread is read, then the ticket. *)

GetThread(h) ==
  /\ handler[h].pc = "reading"
  /\ \/ Fault /\ Unavailable(h)
     \/ /\ Moves(h, [handler[h] EXCEPT !.pc =
               IF Exists(threads[handler[h].event.key]) THEN "recording" ELSE "validating"])
        /\ UNCHANGED <<storeVars, slack, known, ready, faults, said>>

(* HubSpot.Ticket: the ticket, its pipeline, owner, company and contact.  The *)
(* first of these requests that fails decides.                                *)
NoTicket == [status |-> 404, body |-> "ok", retryAfter |-> 0]

NotLinked(h) == [handler[h] EXCEPT !.pc = "recording", !.event.kind = "reply", !.reply = "not validated"]

Refused(h, r) == IF Retryable(HubSpotRequest(r)) THEN Answers(h, 503) ELSE Moves(h, NotLinked(h))

ValidateTicket(h) ==
  LET readable == handler[h].event.ticketID \in known IN
  /\ handler[h].pc = "validating"
  /\ \/ readable /\ Moves(h, [handler[h] EXCEPT !.pc = "recording", !.reply = "summary"]) /\ UNCHANGED faults
     \/ ~readable /\ Refused(h, NoTicket) /\ UNCHANGED faults
     \/ \E r \in Responses : Fault /\ Refused(h, r)
  /\ UNCHANGED <<storeVars, slack, known, ready, said>>

-----------------------------------------------------------------------------
(* The event is recorded, and only then acknowledged. *)

Recorded(h) ==
  LET e == handler[h].event IN
  IF Duplicate(e) THEN UNCHANGED <<storeVars, said>>
  ELSE Record(e, clock)
       /\ said' = [said EXCEPT ![e.id] = IF NewThread(e) THEN handler[h].reply
                                         ELSE IF Replies(e) THEN e.kind ELSE ""]

\* Mutation: a failed recording is acknowledged.
AlwaysAcknowledged == 200
Failure == 503

RecordEvents(h) ==
  /\ handler[h].pc = "recording"
  /\ \/ Recorded(h) /\ Answers(h, 200) /\ UNCHANGED faults
     \/ Fault /\ Recorded(h) /\ Answers(h, Failure)
     \/ Fault /\ UNCHANGED <<storeVars, said>> /\ Answers(h, Failure)
  /\ UNCHANGED <<slack, known, ready>>

HandlerStep(h) == GetThread(h) \/ ValidateTicket(h) \/ RecordEvents(h) \/ Answer(h)
=============================================================================
