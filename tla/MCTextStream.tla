---------------------------- MODULE MCTextStream ----------------------------
(* Two streams on one file: a text that is there at first, of three blocks, and *)
(* a text that is written, of one character in two bytes.                       *)
EXTENDS TextStream

Files == {[text |-> <<"x", "x", "CR", "LF", "x">>, unicode |-> FALSE]}
TextsToWrite == {<<"e'">>}
=============================================================================
