---------------------------- MODULE MCAttachments ----------------------------
(***************************************************************************)
(* Two workers and one file shown by two threads, one of which is          *)
(* untracked at any point of the copy, and a budget of faults.             *)
(***************************************************************************)
EXTENDS Attachments

K1 == [channelID |-> "C1", threadTS |-> 1]
K2 == [channelID |-> "C1", threadTS |-> 2]
MCKeys == {K1, K2}

Link(id, k, ts) ==
  [id |-> id, key |-> k, kind |-> "link", command |-> "", messageTS |-> ts, ticketID |-> "T1"]
Untrack == [id |-> "stop3", key |-> K1, kind |-> "command", command |-> "untrack", messageTS |-> 3, ticketID |-> NoText]

MCEvents == {Link("a", K1, 1), Link("b", K2, 2), Untrack}
MCReplyIds == {"a", "b", "stop3"}
=============================================================================
