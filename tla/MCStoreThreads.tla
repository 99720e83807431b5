--------------------------- MODULE MCStoreThreads ---------------------------
(***************************************************************************)
(* One thread and every kind of event that changes it, the command and the *)
(* message repeated under a second event ID, against the work queue.  No   *)
(* outbox job is claimed (MaxJobClaims = 0), so the outbox only records.   *)
(***************************************************************************)
EXTENDS Store

K1 == [channelID |-> "C1", threadTS |-> 1]
MCKeys == {K1}

Link(id, k, ts, ticket) ==
  [id |-> id, key |-> k, kind |-> "link", command |-> "", messageTS |-> ts, ticketID |-> ticket]
Message(id, k, ts) ==
  [id |-> id, key |-> k, kind |-> "message", command |-> "", messageTS |-> ts, ticketID |-> NoText]
Command(id, k, ts, command) ==
  [id |-> id, key |-> k, kind |-> "command", command |-> command, messageTS |-> ts, ticketID |-> NoText]

\* Two deliveries of one untrack, and an untrack older than the resume.
MCEvents == {Link("link", K1, 1, "T1"), Message("m2", K1, 2), Command("stop3", K1, 3, "untrack"),
             Command("again3", K1, 3, "untrack"), Command("go4", K1, 4, "resume"),
             Command("sync5", K1, 5, "sync")}
MCReplyIds == {"link", "m2", "stop3", "again3", "go4", "sync5"}
=============================================================================
