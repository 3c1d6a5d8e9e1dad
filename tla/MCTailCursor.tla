---------------------------- MODULE MCTailCursor ----------------------------
(* Instances of TailCursor for TLC. *)
EXTENDS TailCursor

\* Errors of the store and of reading an archive.
ConstFaults == {"insert", "archive", "cursor"}
\* Errors of reading Game.log.
ConstTailRead == {"read"}
ConstNone == {}
=============================================================================
