---------------------------- MODULE MCRequests ----------------------------
(***************************************************************************)
(* A root and two messages by two authors, over pages of the root and one; *)
(* two other notes, over pages of one.  Durations have four bits.          *)
(***************************************************************************)
EXTENDS Requests

MCAuthor == [m \in Messages |-> IF m = 2 THEN "u2" ELSE "u1"]
MCRank == [n \in Notes \cup OtherNotes |->
             CASE n = "other1" -> 1 [] n = "note1" -> 2 [] n = "other2" -> 3 [] n = "note2" -> 4]
MCSettings == {[base |-> 4, max |-> 6, attempts |-> 3]}

Answer(status, body, retryAfter) == [status |-> status, body |-> body, retryAfter |-> retryAfter]
MCResponses ==
  {Answer(0, "ok", 0), Answer(200, "cut", 0), Answer(200, "garbled", 0), Answer(200, "ratelimited", 7),
   Answer(200, "user_not_found", 0), Answer(200, "not_in_channel", 0), Answer(200, "some_new_error", 0),
   Answer(401, "ok", 0), Answer(408, "ok", 0), Answer(429, "ok", 3), Answer(503, "ok", 0)}
=============================================================================
