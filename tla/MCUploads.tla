------------------------------ MODULE MCUploads ------------------------------
(***************************************************************************)
(* One file shown by two threads, each linked and synchronized by command  *)
(* once, and three claims of the file: it may fail for good, be tried      *)
(* again for one thread, fail again and be tried again for the other.      *)
(***************************************************************************)
EXTENDS Uploads

K1 == [channelID |-> "C1", threadTS |-> 1]
K2 == [channelID |-> "C1", threadTS |-> 2]
MCKeys == {K1, K2}

Link(id, k, ts) ==
  [id |-> id, key |-> k, kind |-> "link", command |-> "", messageTS |-> ts, ticketID |-> "T1"]
Command(id, k, ts, command) ==
  [id |-> id, key |-> k, kind |-> "command", command |-> command, messageTS |-> ts, ticketID |-> NoText]

MCEvents == {Link("a", K1, 1), Link("b", K2, 2),
             Command("sync3", K1, 3, "sync"), Command("sync4", K2, 4, "sync")}
MCReplyIds == {"a", "b", "sync3", "sync4"}
=============================================================================
