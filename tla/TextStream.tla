----------------------------- MODULE TextStream -----------------------------
(* The text streams of scrrun (filesystem.c) over the files of wine.c: opening, *)
(* reading through a buffer that is filled a block at a time, writing, closing. *)
(* Several streams may be open on one file.                                     *)
(*                                                                              *)
(* A handle is a stdio FILE: it reads ahead, and what is written through it     *)
(* reaches the file when its buffer is full or when it is closed.  The file     *)
(* system has room for Capacity bytes.  Bytes and characters are strings; the   *)
(* code page of ANSI streams is UTF-8, with one character of two bytes.         *)
EXTENDS Integers, Sequences, SequencesExt, FiniteSets

CONSTANTS
  Streams,       \* the TextStream objects
  HeadSize,      \* bytes read when a stream is opened (64)
  BlockSize,     \* bytes read at a time afterwards (256)
  BufferSize,    \* bytes of a stdio buffer (4096)
  Capacity,      \* bytes the file system has room for
  InitialFiles,  \* the files that may be there at first: their text and format
  Texts,         \* the texts that scripts write
  Lengths,       \* the lengths that scripts read
  MaxOpens,      \* bound: streams opened
  MaxWrites      \* bound: texts written

ASSUME SizesAssumption ==
  /\ HeadSize \in Nat /\ HeadSize >= 2 /\ HeadSize % 2 = 0
  /\ BlockSize \in Nat /\ BlockSize >= 2 /\ BlockSize % 2 = 0
  /\ BufferSize \in Nat \ {0} /\ {Capacity, MaxOpens, MaxWrites} \subseteq Nat

VARIABLES
  exists,   \* the file exists
  content,  \* its bytes
  stream,   \* the streams
  call,     \* the reading call in progress, or NoCall
  answer,   \* what the last call returned
  history,  \* history: the characters written, in which formats, and whether they
            \* are all that the file holds
  used      \* how many streams were opened and texts written, for the bounds

vars == <<exists, content, stream, call, answer, history, used>>

Modes == {"ForReading", "ForWriting", "ForAppending"}
NoCall == [m |-> "none"]
NoAnswer == [m |-> "none", n |-> 0, hr |-> "", text |-> <<>>]
Answer(s, m, n, hr, text) == [m |-> m, s |-> s, n |-> n, hr |-> hr, text |-> text]

NoStream == [file |-> "free", kind |-> "r", mode |-> "ForReading", unicode |-> FALSE, eof |-> FALSE,
             read_buf |-> <<>>, pos |-> 0, ahead |-> <<>>, out |-> <<>>, error |-> FALSE]

\* textstream_check_iomode
CanRead(t) == t.mode = "ForReading"
CanWrite(t) == t.mode # "ForReading"

Open(s) == stream[s].file = "open"
Writers == {s \in Streams : Open(s) /\ CanWrite(stream[s])}

-----------------------------------------------------------------------------
(* Bytes and characters.                                                        *)

CRLF == <<"CR", "LF">>
Lead == "C3"   \* the bytes of the character "e'"
Trail == "A9"
BOM == <<"FF", "FE">>

\* WideCharToMultiByte, or the text as it is
Encode(text, unicode) ==
  FlattenSeq([i \in DOMAIN text |->
    IF unicode THEN <<text[i], "00">>
    ELSE IF text[i] = "e'" THEN <<Lead, Trail>> ELSE <<text[i]>>])

Narrow(b, i) ==
  IF b[i] = Lead /\ i < Len(b) /\ b[i + 1] = Trail THEN "e'"
  ELSE IF b[i] \in {Lead, Trail, "FF", "FE", "e'"} THEN "unknown" ELSE b[i]
Wide(lo, hi) ==
  IF hi = "00" THEN lo ELSE IF <<lo, hi>> = BOM THEN "BOM" ELSE "other"

\* append_read_data: the characters of one block.  IsDBCSLeadByte knows no lead
\* bytes, so nothing is put back; the odd byte of a wide text is, at its end.
Decode(b, unicode) ==
  IF unicode THEN [i \in 1..(Len(b) \div 2) |-> Wide(b[2 * i - 1], b[2 * i])]
  ELSE FlattenSeq([i \in DOMAIN b |->
         IF b[i] = Trail /\ i > 1 /\ b[i - 1] = Lead THEN <<>> ELSE <<Narrow(b, i)>>])

\* What scripts write: "x" stands for the characters of one byte.  A text has no
\* character that only a reader of something else meets ("unknown", "BOM", "other").
\* textstream_Read returns at once when it is asked for no character or fewer.
Plain == {"x", "CR", "LF", "e'"}
ASSUME TextsAssumption ==
  /\ Texts \subseteq Seq(Plain) /\ Lengths \subseteq Nat \ {0}
  /\ InitialFiles \subseteq [text : Seq(Plain), unicode : BOOLEAN]

Drop(b, k) == SubSeq(b, k + 1, Len(b))
Least(a, b) == IF a < b THEN a ELSE b

-----------------------------------------------------------------------------
(* Files.                                                                       *)

\* How many bytes are taken from the file: none if those read ahead are enough, else
\* buffers full until there are, or all there are.
ReadAhead(t, n) ==
  LET left == IF t.pos < Len(content) THEN Len(content) - t.pos ELSE 0
      missing == n - Len(t.ahead)
  IN  IF missing <= 0 THEN 0
      ELSE Least(left, ((missing + BufferSize - 1) \div BufferSize) * BufferSize)

\* fread of n bytes
Fread(t, n) ==
  LET k == ReadAhead(t, n)
      have == t.ahead \o SubSeq(content, t.pos + 1, t.pos + k)
  IN  [data |-> SubSeq(have, 1, Least(n, Len(have))), ahead |-> Drop(have, n), pos |-> t.pos + k]

\* Where a handle writes: at its place, or at the end (O_APPEND).
At(disk, t) == IF t.kind = "a+" THEN Len(disk) ELSE t.pos
Put(disk, k, bytes) ==
  [i \in 1..(IF Len(disk) > k + Len(bytes) THEN Len(disk) ELSE k + Len(bytes)) |->
     IF i > k /\ i <= k + Len(bytes) THEN bytes[i - k]
     ELSE IF i <= Len(disk) THEN disk[i] ELSE "00"]

\* j bytes of a handle's buffer reach the disk.
Flushed(disk, t, j) ==
  LET k == At(disk, t)
  IN  [disk |-> IF j = 0 THEN disk ELSE Put(disk, k, SubSeq(t.out, 1, j)),
       stream |-> [t EXCEPT !.out = Drop(@, j), !.pos = IF t.kind = "a+" THEN @ ELSE @ + j],
       ok |-> TRUE, lost |-> FALSE]

Room(disk, t) == IF At(disk, t) < Capacity THEN Capacity - At(disk, t) ELSE 0

\* No room: what fits is written, the rest of the buffer is lost; whether the call
\* notices depends on where the buffer ended.
DiskFull(disk, t) ==
  IF Len(t.out) <= Room(disk, t) THEN {}
  ELSE LET f == Flushed(disk, t, Room(disk, t))
       IN  {[f EXCEPT !.stream.out = <<>>, !.lost = TRUE, !.ok = b] : b \in BOOLEAN}

\* WriteFile: everything goes into the buffer; a buffer that does not hold it goes
\* to the disk in whole blocks and keeps the rest.
WriteFile(disk, t, bytes) ==
  LET u == [t EXCEPT !.out = @ \o bytes]
      j == IF Len(u.out) <= BufferSize THEN 0 ELSE Len(u.out) - (Len(u.out) % BufferSize)
  IN  IF t.kind = "r" THEN {[disk |-> disk, stream |-> [t EXCEPT !.error = TRUE], ok |-> FALSE, lost |-> FALSE]}
      ELSE IF j <= Room(disk, u) THEN {Flushed(disk, u, j)} ELSE DiskFull(disk, u)

\* One WriteFile after the other, the second one only if the first succeeded.
WriteFiles(disk, t, first, second) ==
  UNION {IF w.ok THEN {[v EXCEPT !.lost = @ \/ w.lost] : v \in WriteFile(w.disk, w.stream, second)}
         ELSE {w} : w \in WriteFile(disk, t, first)}

\* mutant: the handle is closed without its buffer
CloseUnflushed(t) == {[Flushed(content, t, 0) EXCEPT !.lost = FALSE]}
\* CloseHandle: the buffer goes to the disk; that it did not fit is not noticed.
CloseHandle(t) ==
  DiskFull(content, t) \cup (IF Len(t.out) <= Room(content, t) THEN {Flushed(content, t, Len(t.out))} ELSE {})

-----------------------------------------------------------------------------
(* Opening: create_textstream and its callers.                                  *)

\* The modes in which CreateFileW opens, by disposition and access.
Kind(disposition, mode) ==
  CASE disposition = "OPEN_ALWAYS" -> "a+"
    [] disposition = "OPEN_EXISTING" /\ mode = "ForReading" -> "r"
    [] disposition = "OPEN_EXISTING" /\ mode = "ForAppending" -> "r+"
    [] OTHER -> "w"

CanOpen(disposition) ==
  CASE disposition = "CREATE_NEW" -> ~exists
    [] disposition \in {"OPEN_EXISTING", "TRUNCATE_EXISTING"} -> exists
    [] OTHER -> TRUE

\* mutant: the byte order mark is taken for text
NoBOM(head, unicode) == 0
\* The byte order mark at the head of a file is no text.
SkippedBOM(head, unicode) == IF unicode /\ Len(head) >= 2 /\ SubSeq(head, 1, 2) = BOM THEN 2 ELSE 0

\* The BOM of a new file, which waits in the buffer: not for OpenAsTextStream.
WritesBOM(disposition, mode, unicode, disk) ==
  /\ unicode
  /\ \/ mode = "ForWriting" /\ disposition # "OPEN_EXISTING"
     \/ mode = "ForAppending" /\ disk = <<>>

\* What is written in the file after a stream was opened: truncation by the only
\* writer begins a new text; a second writer makes it unknown.
Opened(t, truncates) ==
  LET alone == Writers = {}
      before == IF truncates THEN [text |-> <<>>, formats |-> {}, whole |-> alone]
                ELSE [history EXCEPT !.whole = @ /\ (alone \/ CanRead(t))]
  IN  IF t.out = <<>> THEN before ELSE [before EXCEPT !.formats = @ \cup {t.unicode}]

\* An unknown text is not kept.
Recorded(h) == history' = IF h.whole /\ Cardinality(h.formats) <= 1 THEN h
                          ELSE [text |-> <<>>, formats |-> {}, whole |-> FALSE]

OpenForReading(s, t, disk) ==
  LET f == Fread(t, HeadSize)
  IN  stream' = [stream EXCEPT ![s] =
        [t EXCEPT !.pos = f.pos, !.ahead = f.ahead, !.eof = Len(f.data) # HeadSize,
                  !.read_buf = Decode(Drop(f.data, SkippedBOM(f.data, t.unicode)), t.unicode)]]

OpenForWriting(s, t, disk) ==
  stream' = [stream EXCEPT ![s] = [t EXCEPT !.pos = IF t.mode = "ForAppending" THEN Len(disk) ELSE 0]]

create_textstream(s, disposition, mode, unicode) ==
  LET kind == Kind(disposition, mode)
      disk == IF kind = "w" THEN <<>> ELSE content
      t == [NoStream EXCEPT !.file = "open", !.kind = kind, !.mode = mode, !.unicode = unicode,
                            !.out = IF WritesBOM(disposition, mode, unicode, disk) THEN BOM ELSE <<>>]
  IN  /\ call = NoCall /\ stream[s].file = "free" /\ CanOpen(disposition)
      /\ exists' = TRUE /\ content' = disk
      /\ IF mode = "ForReading" THEN OpenForReading(s, t, disk) ELSE OpenForWriting(s, t, disk)
      /\ Recorded(Opened(t, kind = "w"))
      /\ used.opens < MaxOpens /\ used' = [used EXCEPT !.opens = @ + 1]
      /\ answer' = NoAnswer
      /\ UNCHANGED call

CreateTextFile(s, overwrite, unicode) ==
  create_textstream(s, IF overwrite THEN "CREATE_ALWAYS" ELSE "CREATE_NEW", "ForWriting", unicode)

OpenTextFile(s, mode, create, unicode) ==
  create_textstream(s, CASE mode = "ForWriting" /\ create -> "CREATE_ALWAYS"
                         [] mode = "ForWriting" /\ ~create -> "TRUNCATE_EXISTING"
                         [] mode # "ForWriting" /\ create -> "OPEN_ALWAYS"
                         [] OTHER -> "OPEN_EXISTING", mode, unicode)

OpenAsTextStream(s, mode, unicode) == create_textstream(s, "OPEN_EXISTING", mode, unicode)

-----------------------------------------------------------------------------
(* Reading.                                                                     *)

Calls(s) == call = NoCall /\ stream[s].file # "free"
Returns(s, m, n, hr, text) ==
  /\ answer' = Answer(s, m, n, hr, text)
  /\ UNCHANGED <<exists, content, history, used>>

\* CTL_E_BADFILEMODE: a stream that writes gives nothing to read.
BadFileMode(s) ==
  /\ Calls(s) /\ CanWrite(stream[s])
  /\ answer' = NoAnswer
  /\ UNCHANGED <<exists, content, stream, call, history, used>>

\* A call that still has to fetch text needs the handle: a closed stream has none,
\* and fread of no handle is undefined.
HasLine(t) == "LF" \in Range(t.read_buf)
Enough(t, m, n) ==
  CASE m = "Read" -> n <= Len(t.read_buf)
    [] m = "ReadLine" -> HasLine(t)
    [] OTHER -> FALSE
Fetches(t, m, n) == ~t.eof /\ ~Enough(t, m, n)

BeginRead(s, m, n) ==
  /\ Calls(s) /\ CanRead(stream[s])
  /\ Fetches(stream[s], m, n) => Open(s)
  /\ call' = [m |-> m, s |-> s, n |-> n]
  /\ answer' = NoAnswer
  /\ UNCHANGED <<exists, content, stream, history, used>>

Reading == call # NoCall
Reader == stream[call.s]

\* mutant: the end of the file is not kept
SeesEndNever(data, size) == FALSE
\* The end is seen only when a block is short.
SeesEnd(data, size) == Len(data) # size

read_more_data ==
  /\ Reading /\ Fetches(Reader, call.m, call.n) /\ ~Reader.error
  /\ LET f == Fread(Reader, BlockSize)
     IN  stream' = [stream EXCEPT ![call.s] =
           [Reader EXCEPT !.pos = f.pos, !.ahead = f.ahead, !.eof = SeesEnd(f.data, BlockSize),
                          !.read_buf = @ \o Decode(f.data, Reader.unicode)]]
  /\ answer' = NoAnswer
  /\ UNCHANGED <<exists, content, call, history, used>>

\* ReadFile reports a handle's earlier error, and the block it read is lost.
ReadFails ==
  /\ Reading /\ Fetches(Reader, call.m, call.n) /\ Reader.error
  /\ LET f == Fread(Reader, BlockSize)
     IN  stream' = [stream EXCEPT ![call.s] = [@ EXCEPT !.pos = f.pos, !.ahead = f.ahead]]
  /\ Returns(call.s, call.m, call.n, "E_FAIL", <<>>)
  /\ call' = NoCall

\* read_from_buffer
Takes(hr, len, skip) ==
  /\ Returns(call.s, call.m, call.n, hr, SubSeq(Reader.read_buf, 1, len))
  /\ stream' = [stream EXCEPT ![call.s].read_buf = Drop(@, len + skip)]
  /\ call' = NoCall

Fetched == Reading /\ ~Fetches(Reader, call.m, call.n)

EndOfFile ==
  /\ Fetched /\ Reader.eof /\ Reader.read_buf = <<>>
  /\ Takes("CTL_E_ENDOFFILE", 0, 0)

Some == Fetched /\ Reader.read_buf # <<>>

ReadText ==
  /\ Some /\ call.m = "Read"
  /\ IF call.n <= Len(Reader.read_buf) THEN Takes("S_OK", call.n, 0)
     ELSE Takes("S_FALSE", Len(Reader.read_buf), 0)

\* mutant: of a line's end only the carriage return is skipped
ReadLineSkipOne ==
  /\ Some /\ call.m = "ReadLine"
  /\ LET buf == Reader.read_buf
         nl == SelectInSeq(buf, LAMBDA c : c = "LF")
     IN  CASE nl = 0 -> Takes("S_FALSE", Len(buf), 0)
           [] nl > 1 /\ buf[nl - 1] = "CR" -> Takes("S_OK", nl - 2, 1)
           [] OTHER -> Takes("S_OK", nl - 1, 1)
ReadLine ==
  /\ Some /\ call.m = "ReadLine"
  /\ LET buf == Reader.read_buf
         nl == SelectInSeq(buf, LAMBDA c : c = "LF")
     IN  CASE nl = 0 -> Takes("S_FALSE", Len(buf), 0)
           [] nl > 1 /\ buf[nl - 1] = "CR" -> Takes("S_OK", nl - 2, 2)
           [] OTHER -> Takes("S_OK", nl - 1, 1)

ReadAll ==
  /\ Some /\ call.m = "ReadAll"
  /\ Takes("S_FALSE", Len(Reader.read_buf), 0)

get_AtEndOfStream(s) ==
  /\ Calls(s) /\ CanRead(stream[s])
  /\ Returns(s, "AtEndOfStream", 0,
             IF stream[s].eof /\ stream[s].read_buf = <<>> THEN "True" ELSE "False", <<>>)
  /\ UNCHANGED <<stream, call>>

ReadStep == read_more_data \/ ReadFails \/ EndOfFile \/ ReadText \/ ReadLine \/ ReadAll

-----------------------------------------------------------------------------
(* Writing and closing.                                                         *)

\* What a write leaves behind: the text is whole if it succeeded and nothing was lost.
Writes(s, w, text) ==
  /\ content' = w.disk
  /\ stream' = [stream EXCEPT ![s] = w.stream]
  /\ Recorded([text |-> history.text \o text, whole |-> history.whole /\ w.ok /\ ~w.lost,
               formats |-> IF text = <<>> THEN history.formats
                           ELSE history.formats \cup {stream[s].unicode}])
  /\ answer' = NoAnswer
  /\ UNCHANGED <<exists, call>>

\* A closed stream has no handle, and fwrite without one is undefined.
MayWrite(s) ==
  /\ Calls(s) /\ Open(s)
  /\ used.writes < MaxWrites /\ used' = [used EXCEPT !.writes = @ + 1]

\* textstream_write
Write(s, text) ==
  /\ MayWrite(s) /\ CanWrite(stream[s])
  /\ \E w \in WriteFile(content, stream[s], Encode(text, stream[s].unicode)) : Writes(s, w, text)

WriteLine(s, text) ==
  /\ MayWrite(s) /\ CanWrite(stream[s])
  /\ \E w \in WriteFiles(content, stream[s], Encode(text, stream[s].unicode),
                         Encode(CRLF, stream[s].unicode)) : Writes(s, w, text \o CRLF)

\* WriteBlankLines does not look at the mode: on a stream that reads, the write
\* fails and leaves its error on the handle.  (On a handle that may also write,
\* a write after a read is undefined.)
WriteBlankLines(s) ==
  /\ MayWrite(s)
  /\ CanWrite(stream[s]) \/ stream[s].kind = "r"
  /\ \E w \in WriteFile(content, stream[s], Encode(CRLF, stream[s].unicode)) :
       IF CanWrite(stream[s]) THEN Writes(s, w, CRLF)
       ELSE /\ stream' = [stream EXCEPT ![s] = w.stream]
            /\ answer' = Answer(s, "WriteBlankLines", 1, "E_FAIL", <<>>)
            /\ UNCHANGED <<exists, content, call, history>>

ClosedBy(s, after) ==
  /\ \E w \in CloseHandle(stream[s]) :
       /\ content' = w.disk
       /\ stream' = [stream EXCEPT ![s] = IF after = "free" THEN NoStream
                                          ELSE [w.stream EXCEPT !.file = after]]
       /\ Recorded([history EXCEPT !.whole = @ /\ ~w.lost])
  /\ answer' = NoAnswer
  /\ UNCHANGED <<exists, call, used>>

Close(s) == Calls(s) /\ Open(s) /\ ClosedBy(s, "null")

Release(s) ==
  /\ Calls(s)
  /\ IF Open(s) THEN ClosedBy(s, "free")
     ELSE /\ stream' = [stream EXCEPT ![s] = NoStream]
          /\ answer' = NoAnswer
          /\ UNCHANGED <<exists, content, call, history, used>>

-----------------------------------------------------------------------------
Init ==
  /\ \/ /\ exists = FALSE /\ content = <<>>
        /\ history = [text |-> <<>>, formats |-> {}, whole |-> TRUE]
     \/ \E file \in InitialFiles :
          /\ exists = TRUE
          /\ content = (IF file.unicode THEN BOM ELSE <<>>) \o Encode(file.text, file.unicode)
          /\ Len(content) <= Capacity
          /\ history = [text |-> file.text, formats |-> {file.unicode}, whole |-> TRUE]
  /\ stream = [s \in Streams |-> NoStream]
  /\ call = NoCall /\ answer = NoAnswer
  /\ used = [opens |-> 0, writes |-> 0]

Opens(s) == \E mode \in Modes, b \in BOOLEAN, unicode \in BOOLEAN :
  \/ CreateTextFile(s, b, unicode)
  \/ OpenTextFile(s, mode, b, unicode)
  \/ OpenAsTextStream(s, mode, unicode)

BeginsReading(s) ==
  \/ \E n \in Lengths : BeginRead(s, "Read", n)
  \/ BeginRead(s, "ReadLine", 0)
  \/ BeginRead(s, "ReadAll", 0)

Next ==
  \/ ReadStep
  \/ \E s \in Streams :
       \/ Opens(s)
       \/ BadFileMode(s)
       \/ BeginsReading(s)
       \/ get_AtEndOfStream(s)
       \/ \E text \in Texts : Write(s, text) \/ WriteLine(s, text)
       \/ WriteBlankLines(s)
       \/ Close(s)
       \/ Release(s)

\* A call that has begun goes on: there is nothing that it waits for.
Spec == Init /\ [][Next]_vars /\ WF_vars(ReadStep)

-----------------------------------------------------------------------------
(* Properties.                                                                  *)

Characters == {"x", "CR", "LF", "e'", "unknown", "BOM", "other", "00", "C3", "A9", "FF", "FE"}

\* Types, and: no more bytes than there is room for; only an open handle has
\* bytes that are still to be written, so CloseHandle leaves nothing behind; a
\* call in progress is one of a stream that reads.
TypeOK ==
  /\ exists \in BOOLEAN
  /\ content \in Seq(Characters) /\ Len(content) <= Capacity
  /\ ~exists => content = <<>>
  /\ \A s \in Streams :
       LET t == stream[s]
       IN  /\ t.file \in {"free", "open", "null"} /\ t.kind \in {"r", "r+", "w", "a+"}
           /\ t.mode \in Modes /\ {t.unicode, t.eof, t.error} \subseteq BOOLEAN
           /\ t.read_buf \in Seq(Characters) /\ t.ahead \in Seq(Characters) /\ t.out \in Seq(Characters)
           /\ t.pos \in Nat
           /\ t.out # <<>> => t.file = "open" /\ CanWrite(t)
           /\ t.read_buf # <<>> => CanRead(t)
  /\ Reading => CanRead(Reader) /\ (Fetches(Reader, call.m, call.n) => Open(call.s))
  /\ history.text \in Seq(Characters) /\ history.whole \in BOOLEAN
  /\ used.opens \in 0..MaxOpens /\ used.writes \in 0..MaxWrites

\* What a stream still has to give: its buffer, and the file from its place on,
\* decoded in the blocks in which it will be read.
Left(t) == t.ahead \o Drop(content, t.pos)
Block(left, i) == SubSeq(left, (i - 1) * BlockSize + 1, Least(i * BlockSize, Len(left)))
DecodeBlocks(left, unicode) ==
  FlattenSeq([i \in 1..((Len(left) + BlockSize - 1) \div BlockSize) |-> Decode(Block(left, i), unicode)])
RestOf(s) ==
  LET t == stream[s]
  IN  IF t.eof THEN t.read_buf ELSE t.read_buf \o DecodeBlocks(Left(t), t.unicode)

\* Read, ReadLine, ReadAll and AtEndOfStream answer as TextReading says: the
\* buffer, its blocks, the lines that lie across two of them and the end seen late
\* are hidden, whatever else is done to the file between two calls: each stream
\* implements TextOf(s)!Spec.
TextOf(s) == INSTANCE TextReading
  WITH CR <- "CR", LF <- "LF", file <- content,
       live <- stream[s].file # "free" /\ CanRead(stream[s]),
       rest <- RestOf(s), done <- stream[s].eof, broken <- stream[s].error,
       answer <- IF answer.m # "none" /\ answer.s = s
                 THEN [m |-> answer.m, n |-> answer.n, hr |-> answer.hr, text |-> answer.text]
                 ELSE NoAnswer
ReadsText == /\ \A s \in Streams : TextOf(s)!Init
             /\ [][\A s \in Streams : [TextOf(s)!Next]_(TextOf(s)!vars)]_vars

\* A character of two bytes lies in two of the blocks in which the file is read.
SplitsCharacter(disk) ==
  \E i \in 1..(Len(disk) - 1) :
    /\ disk[i] = Lead /\ disk[i + 1] = Trail
    /\ i >= HeadSize /\ (i - HeadSize) % BlockSize = 0

\* What streams wrote, one at a time and in one format, with room on the disk,
\* and closed, is what a stream of that format finds in the file: the byte order
\* mark, the encoding, the appended parts and the ends of lines fit together.
ReadBack ==
  [][\A s \in Streams :
       (/\ stream[s].file = "free" /\ stream'[s].file = "open" /\ CanRead(stream'[s])
        /\ history.whole /\ Writers = {} /\ history.formats \subseteq {stream'[s].unicode}
        /\ ~stream'[s].unicode => ~SplitsCharacter(content))
       => RestOf(s)' = history.text]_vars

\* Every call to read returns: each block that is read brings the end nearer.
CallsReturn == Reading ~> ~Reading
=============================================================================
