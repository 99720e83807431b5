----------------------------- MODULE MCBackend -----------------------------
(***************************************************************************)
(* Two callers on one thread's jobs, under each driver, from an empty      *)
(* database or from one of this or another schema version.                 *)
(***************************************************************************)
EXTENDS Backend

MCKeys == {[channelID |-> "C1", threadTS |-> 1]}
=============================================================================
