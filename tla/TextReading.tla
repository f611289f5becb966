---------------------------- MODULE TextReading ----------------------------
(* What a script expects of a TextStream that it reads: the characters that are *)
(* left are taken from the front, a call answers with as many as it asked for   *)
(* or with all there are, and an error at the end says that there are none.     *)
(* The file may be changed by others, which changes what is left; nothing else  *)
(* may.                                                                         *)
EXTENDS Integers, Sequences

CONSTANTS CR, LF  \* the characters of a line's end

VARIABLES
  file,    \* the file, whatever it holds
  live,    \* a script reads the stream
  rest,    \* the characters that are left
  done,    \* no more are fetched from the file
  broken,  \* a call that writes was tried: reads may fail
  answer   \* the last call's answer, or NoAnswer

vars == <<file, live, rest, done, broken, answer>>

NoAnswer == [m |-> "none", n |-> 0, hr |-> "", text |-> <<>>]
Least(a, b) == IF a < b THEN a ELSE b
From(k) == SubSeq(rest, k + 1, Len(rest))

\* What a line is: the characters before the first line feed, without the carriage
\* return before it; at the end of the file it need not have a line feed.
LineEnds == {i \in 1..Len(rest) : rest[i] = LF /\ \A j \in 1..(i - 1) : rest[j] # LF}
LineLength(i) == IF i > 1 /\ rest[i - 1] = CR THEN i - 2 ELSE i - 1

Gives(m, n, hr, k, skip) ==
  /\ answer' = [m |-> m, n |-> n, hr |-> hr, text |-> SubSeq(rest, 1, k)]
  /\ rest' = From(k + skip)

AtTheEnd(m, n) ==
  /\ rest = <<>>
  /\ Gives(m, n, "CTL_E_ENDOFFILE", 0, 0)

Read(n) ==
  \/ AtTheEnd("Read", n)
  \/ /\ rest # <<>>
     /\ Gives("Read", n, IF n <= Len(rest) THEN "S_OK" ELSE "S_FALSE", Least(n, Len(rest)), 0)

ReadLine ==
  \/ AtTheEnd("ReadLine", 0)
  \/ \E i \in LineEnds : Gives("ReadLine", 0, "S_OK", LineLength(i), i - LineLength(i))
  \/ /\ rest # <<>> /\ LineEnds = {}
     /\ Gives("ReadLine", 0, "S_FALSE", Len(rest), 0)

ReadAll ==
  \/ AtTheEnd("ReadAll", 0)
  \/ rest # <<>> /\ Gives("ReadAll", 0, "S_FALSE", Len(rest), 0)

\* AtEndOfStream is true only if nothing is left; it may not know yet.
AtEndOfStream ==
  /\ UNCHANGED rest
  /\ answer'.m = "AtEndOfStream"
  /\ answer'.hr = "True" => rest = <<>>

Reads == \/ Read(answer'.n)
         \/ ReadLine
         \/ ReadAll
         \/ AtEndOfStream

Fails == /\ broken
         /\ answer'.hr = "E_FAIL"
Silent == answer' = NoAnswer /\ UNCHANGED rest

Answering == /\ live /\ live' /\ UNCHANGED <<file, broken>>
             /\ Silent \/ Fails \/ Reads
Broken == live /\ live' /\ broken' /\ UNCHANGED <<file, rest, done>>
FileChanges == /\ live /\ live' /\ answer' = NoAnswer /\ UNCHANGED <<done, broken>>
               /\ file' # file
               /\ done => UNCHANGED rest
Opens == ~live /\ live'
Idles == ~live /\ ~live'
Closes == live /\ ~live'

Init == ~live /\ answer = NoAnswer
Next == Idles \/ Opens \/ Closes \/ FileChanges \/ Answering \/ Broken
Spec == Init /\ [][Next]_vars
=============================================================================
