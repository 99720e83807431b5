----------------------------- MODULE MCService -----------------------------
(* A root message that mentions the bot and a ticket, delivered as two        *)
(* events, and a message in the thread.                                       *)
EXTENDS Service, TLC

Thread1 == [channelID |-> "c1", threadTS |-> 1]
Said0(kind, value) == [mention |-> "first", words |-> <<[kind |-> kind, value |-> value]>>]

Post(id, type, ts, threadTS, text) ==
  [id |-> id, path |-> "/slack/events", method |-> "POST", body |-> "json", contentType |-> "json",
   signed |-> TRUE, age |-> 1, type |-> "event_callback", challenge |-> FALSE, team |-> "ours",
   eventType |-> type, channelID |-> "c1", subtype |-> "", present |-> FALSE,
   message |-> [subtype |-> "", user |-> "user", ts |-> ts, threadTS |-> threadTS, text |-> text]]

MCDeliveries ==
  {Post("e1", "message", 1, 0, Said0("number", "T1")), Post("e2", "app_mention", 1, 0, Said0("number", "T1")),
   Post("e3", "message", 2, 1, [mention |-> "none", words |-> <<>>])}

(* The stages in their order, on variations of one delivery that pass or fail *)
(* several of them, as server_test.go has them.                               *)
Some == Post("e4", "message", 3, 0, Said0("number", "T1"))
ASSUME CodesInOrder ==
  /\ SlackCode(Some) = 0
  /\ SlackCode([Some EXCEPT !.body = "too large", !.signed = FALSE]) = 413
  /\ SlackCode([Some EXCEPT !.body = "not json", !.signed = FALSE]) = 401
  /\ SlackCode([Some EXCEPT !.contentType = "other", !.body = "not json"]) = 415
  /\ SlackCode([Some EXCEPT !.body = "not json"]) = 400
  /\ SlackCode([Some EXCEPT !.age = 6]) = 401 /\ SlackCode([Some EXCEPT !.age = -5]) = 0
  /\ SlackCode([Some EXCEPT !.type = "url_verification", !.challenge = TRUE, !.eventType = "none"]) = 200
  /\ SlackCode([Some EXCEPT !.team = "other", !.eventType = "reaction_added"]) = 401
  /\ SlackCode([Some EXCEPT !.eventType = "reaction_added", !.channelID = ""]) = 200
  /\ SlackCode([Some EXCEPT !.message.user = "bot", !.message.ts = 0]) = 200
  /\ SlackCode([Some EXCEPT !.subtype = "channel_join"]) = 200
  /\ SlackCode([Some EXCEPT !.subtype = "message_changed"]) = 400
  /\ SlackCode([Some EXCEPT !.message.threadTS = -1]) = 400
  /\ EventOf([Some EXCEPT !.subtype = "message_changed", !.present = TRUE]).kind = "message"
  /\ EventOf([Some EXCEPT !.message.threadTS = 1]).kind = "reply"
  /\ LET hubspot == [Some EXCEPT !.path = "/hubspot/events", !.signed = FALSE, !.type = "absent"] IN
     /\ First(<<Decode(hubspot), NotImplemented>>) = 501
     /\ First(<<Decode([hubspot EXCEPT !.body = "not json"]), NotImplemented>>) = 400
MCKeys == {Thread1}
MCResponses == {[status |-> 503, body |-> "ok", retryAfter |-> 0], [status |-> 403, body |-> "ok", retryAfter |-> 0]}

Plain(text) == [reference |-> "", text |-> text]
MCSettings ==
  [port |-> 8080, bodyKiB |-> 1024, headerTimeout |-> 5000, requestTimeout |-> 2500, backoffBase |-> 1000,
   backoffMax |-> 60000, coalesce |-> 0, concurrency |-> 1, grace |-> 20000, lease |-> 60000, attempts |-> 5,
   poll |-> 1000, tracking |-> "eyes", success |-> "ok", failure |-> "x", attachments |-> FALSE, types |-> {},
   attachmentBytes |-> 25000000, tempDir |-> "/tmp", accountIsNumber |-> TRUE, template |-> "compiles"]
Doc(v, s) == [values |-> v, settings |-> s]
Driven == (Field("driver") :> Plain("sqlite")) @@ (NamedBy("token", "_env") :> Plain("TOKEN"))
Good == Driven @@ (Field("replicas") :> [reference |-> "REPLICAS", text |-> ""])
SourceOfSource(name, source, chained) == [NamedBy(name, source) EXCEPT !.chained = chained]
Chain(driver) == (Field("driver") :> Plain(driver)) @@ (SourceOfSource("token", "_file", "_env") :> Plain("PATH"))
MCDocuments ==
  {Doc(Good, MCSettings),
   Doc(Good @@ (Field("token") :> Plain("inline")), MCSettings),
   Doc(Good @@ (NamedBy("token", "_file") :> Plain("token")), MCSettings),
   Doc(Driven @@ (Field("replicas") :> Plain("2")), MCSettings),
   Doc(Driven @@ (Field("replicas") :> [reference |-> "UNSET", text |-> ""]), MCSettings),
   Doc((Field("driver") :> Plain("mysql")) @@ (Field("token") :> Plain("inline")), MCSettings),
   Doc((Field("driver") :> Plain("mysql")) @@ (NamedBy("token", "_env") :> [reference |-> "NAME", text |-> ""]), MCSettings),
   Doc(Chain("mysql"), MCSettings),
   Doc(Chain("mysql") @@ (Field("token") :> Plain("inline")), MCSettings),
   Doc(Chain("mysql") @@ (NamedBy("token", "_env") :> Plain("TOKEN")), MCSettings),
   Doc(Chain("mysql") @@ (SourceOfSource("token", "_file", "_file") :> Plain("token")), MCSettings),
   Doc((Field("driver") :> Plain("mysql")) @@ (SourceOfSource("token", "_env", "_env") :> Plain("NAME")), MCSettings),
   Doc(Good, [MCSettings EXCEPT !.requestTimeout = 3000]),
   Doc(Good, [MCSettings EXCEPT !.lease = 2999]),
   Doc(Good, [MCSettings EXCEPT !.tracking = "ok"]),
   Doc(Good, [MCSettings EXCEPT !.accountIsNumber = FALSE]),
   Doc(Good, [MCSettings EXCEPT !.attachmentBytes = 1073741825]),
   Doc(Good, [MCSettings EXCEPT !.template = "broken"])}
MCEnvironment == ("TOKEN" :> "xoxb") @@ ("REPLICAS" :> "1") @@ ("NAME" :> "TOKEN") @@ ("PATH" :> "token")
MCSecretFiles == "token" :> "xoxb"
=============================================================================
