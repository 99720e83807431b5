----------------------------- MODULE Invocation -----------------------------
(***************************************************************************)
(* What the bot reads in a message (internal/render: Parse, Eligible).     *)
(* A text is where the mention of the bot stands and the words after it,   *)
(* told apart as Parse tells them apart.                                   *)
(***************************************************************************)
EXTENDS Naturals, Sequences

Command == {"help", "resume", "status", "sync", "untrack"}

(* A link is a ticket's, with its account and form right, or another page of   *)
(* HubSpot's; a link to another site is a URL.                                 *)
Word == [kind: {"command", "number", "ticket link", "other link", "url", "word"}, value: STRING]
Text == [mention: {"none", "first", "inside"}, words: Seq(Word)]

Nothing == [command |-> "", invalid |-> FALSE, ticketID |-> ""]
Invalid == [Nothing EXCEPT !.invalid = TRUE]
Ticket(id) == [Nothing EXCEPT !.ticketID = id]

Links(words) == SelectSeq(words, LAMBDA w : w.kind \in {"ticket link", "other link"})

Linking(text) ==
  LET links == Links(text.words) IN
  CASE links = <<>> -> IF text.mention = "first" THEN Invalid ELSE Nothing
    [] Len(links) = 1 /\ links[1].kind = "ticket link" -> Ticket(links[1].value)
    [] OTHER -> Invalid

(* A command goes before a number, and that before links.  Words that follow  *)
(* the mention at the start of a message are meant for the bot.               *)
Parse(text) ==
  IF text.mention = "none" THEN Nothing
  ELSE IF text.words = <<>> THEN Linking(text)
  ELSE LET first == text.words[1]
           alone == Len(text.words) = 1
       IN  CASE first.kind = "command" -> [Nothing EXCEPT !.command = first.value, !.invalid = ~alone]
             [] first.kind = "number"  -> IF alone THEN Ticket(first.value) ELSE Invalid
             [] first.kind = "word" /\ text.mention = "first" -> Invalid
             [] OTHER -> Linking(text)
=============================================================================
