----------------------------- MODULE MCReactions -----------------------------
(***************************************************************************)
(* Two workers over one thread: a link, a message and an untrack, arriving *)
(* at any point of a reconciliation, and a budget of faults.               *)
(***************************************************************************)
EXTENDS Reactions

K1 == [channelID |-> "C1", threadTS |-> 1]
MCKeys == {K1}

Link == [id |-> "link", key |-> K1, kind |-> "link", command |-> "", messageTS |-> 1, ticketID |-> "T1"]
Message == [id |-> "m2", key |-> K1, kind |-> "message", command |-> "", messageTS |-> 2, ticketID |-> NoText]
Untrack == [id |-> "stop3", key |-> K1, kind |-> "command", command |-> "untrack", messageTS |-> 3, ticketID |-> NoText]

MCEvents == {Link, Message, Untrack}
MCReplyIds == {"link", "m2", "stop3"}
=============================================================================
