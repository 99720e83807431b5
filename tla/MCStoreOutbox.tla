--------------------------- MODULE MCStoreOutbox ---------------------------
(***************************************************************************)
(* The outbox against one thread: a link and an untrack, both with a       *)
(* confirmation that queues reactions, and a message, which has no reply.  *)
(***************************************************************************)
EXTENDS Store

K1 == [channelID |-> "C1", threadTS |-> 1]
MCKeys == {K1}

Link == [id |-> "link", key |-> K1, kind |-> "link", command |-> "", messageTS |-> 1, ticketID |-> "T1"]
Message == [id |-> "m2", key |-> K1, kind |-> "message", command |-> "", messageTS |-> 2, ticketID |-> NoText]
Untrack == [id |-> "stop3", key |-> K1, kind |-> "command", command |-> "untrack", messageTS |-> 3, ticketID |-> NoText]

MCEvents == {Link, Message, Untrack}
MCMessages == {Link, Message}
MCReplyIds == {"link", "m2", "stop3"}
=============================================================================
