----------------------------- MODULE LineStreams ----------------------------
(* The processing writers and readers of src/inoutz: a LineIOProcesser      *)
(* buffers bytes until a line is whole and rewrites it with its callback.   *)
(* In mode "write", goroutines Write to a ProcessingStreamWriter with a     *)
(* chain of these, nested on a CallbackLineWriter.  In modes "read" and     *)
(* "readall", a source is read through a ProcessingStreamReader or a        *)
(* ProcessingBufferReader with a processer.                                 *)
(*                                                                          *)
(* External: the callback of processer i puts Mark[i] before the line, or   *)
(* fails; the nested reader returns some of the bytes asked for, maybe with *)
(* an error, but never neither; the array that a slice is of is its         *)
(* caller's, who may write what follows the slice in it with another Write. *)
EXTENDS Integers, Sequences, FiniteSets

Texts == INSTANCE SequencesExt

CONSTANTS
  Writers,
  Bytes,
  Chunks,       \* the texts that are written
  Following,    \* what may follow them in the arrays of the callers
  Source,       \* the text that is read
  Sizes,        \* of the slices it is read with
  Mark,         \* one mark per processer
  NewLine, Stale, \* a byte; what a buffer holds where nothing was read
  MaxWrites, MaxFailures,
  Slack         \* 32: capacity of a slice beyond its length

\* no callback puts the end of a line into one
ASSUME BytesAssumption ==
  /\ NewLine \in Bytes /\ Stale \in Bytes
  /\ Chunks \subseteq Seq(Bytes) /\ Following \subseteq Seq(Bytes)
  /\ Source \in Seq(Bytes) /\ Sizes \subseteq Nat \ {0}
  /\ Mark \in Seq(Bytes \ {NewLine}) /\ Mark # <<>>

VARIABLES
  mode,
  pend,         \* buffer of each processer: the part of a line
  stage, text,  \* per writer: the processer it is at, and the bytes it carries
  caller,       \* per writer: the slice it was given as it was meant; the bytes that follow
                \* it in its array, as they are and as they were meant; whether text is there
  clobbered,    \* TRUE: a Write was given other bytes than its caller meant
  inner, lines, \* of the CallbackLineWriter: its buffer, the lines given
  input,        \* the bytes written, in the order the first processer got them
  failures, panicked,
  overlapped,   \* TRUE: two Writes went on at once
  source,       \* what the nested reader has left
  outBuffer, delivered,
  eof,          \* TRUE: io.EOF was the last answer
  short,        \* TRUE: the nested reader returned fewer bytes than asked for
  dropped,      \* TRUE: it returned bytes with io.EOF
  broken        \* TRUE: it failed under a ProcessingBufferReader

writing == <<stage, text, caller, clobbered, inner, lines, overlapped>>
reading == <<source, outBuffer, delivered, eof, short, dropped, broken>>
streamVars == <<mode, pend, writing, input, failures, panicked, reading>>

Processers == DOMAIN Mark
Idle == 0

StreamsInit ==
  /\ mode \in {"write", "read", "readall"}
  /\ pend = [i \in Processers |-> <<>>]
  /\ stage = [w \in Writers |-> Idle] /\ text = [w \in Writers |-> <<>>]
  /\ caller = [w \in Writers |->
                [chunk |-> <<>>, following |-> <<>>, meant |-> <<>>, shared |-> FALSE]]
  /\ clobbered = FALSE
  /\ inner = <<>> /\ lines = <<>>
  /\ input = <<>>
  /\ failures = 0 /\ panicked = FALSE /\ overlapped = FALSE
  /\ source = Source
  /\ outBuffer = <<>> /\ delivered = <<>>
  /\ eof = FALSE /\ short = FALSE /\ dropped = FALSE /\ broken = FALSE

-----------------------------------------------------------------------------
(* Lines.                                                                  *)

\* the whole lines of s, with their ends, and what is left
Split(s) ==
  LET split[k \in 0 .. Len(s)] ==
        IF k = 0 THEN [lines |-> <<>>, rest |-> <<>>]
        ELSE LET sofar == split[k - 1] IN
             IF s[k] = NewLine
             THEN [lines |-> Append(sofar.lines, Append(sofar.rest, s[k])), rest |-> <<>>]
             ELSE [sofar EXCEPT !.rest = Append(@, s[k])]
  IN  split[Len(s)]
WholeLines(s) == Split(s).lines
Rest(s)       == Split(s).rest

Marked(mark, ls) == [k \in DOMAIN ls |-> <<mark>> \o ls[k]]

\* Mutant: what remains of a line is forgotten.
RemainsForgotten(s) == <<>>
\* what stays in the buffer
Remains(s) == Rest(s)

\* Process of a LineIOProcesser, of the whole slice chunk: a line longer than the
\* capacity of the slice panics
Fits(chunk, ls) == \A k \in DOMAIN ls : Len(ls[k]) <= Len(chunk) + Slack
Process(i, chunk) ==
  LET s  == pend[i] \o chunk
      ls == WholeLines(s)
  IN  [rest |-> Remains(s), out |-> Texts!FlattenSeq(Marked(Mark[i], ls)), fits |-> Fits(chunk, ls)]
\* when the callback fails the line is lost, and those before it
AfterFailure(i, chunk) ==
  LET s  == pend[i] \o chunk
      ls == WholeLines(s)
  IN  {SubSeq(s, Len(Texts!FlattenSeq(SubSeq(ls, 1, k))) + 1, Len(s)) :
         k \in {k \in DOMAIN ls : Fits(chunk, SubSeq(ls, 1, k))}}

-----------------------------------------------------------------------------
Starts(w) ==
  /\ mode = "write" /\ ~panicked
  /\ stage[w] = Idle
  /\ Len(input) + Cardinality({v \in Writers : stage[v] = 1}) < MaxWrites
  /\ stage' = [stage EXCEPT ![w] = 1]
  /\ overlapped' = (overlapped \/ \E v \in Writers : stage[v] # Idle)
  /\ UNCHANGED <<mode, pend, inner, lines, input, failures, panicked, reading>>

Write(w) ==
  /\ Starts(w)
  /\ \E chunk \in Chunks, f \in Following :
       /\ text' = [text EXCEPT ![w] = chunk]
       /\ caller' = [caller EXCEPT ![w] = [chunk |-> chunk, following |-> f, meant |-> f,
                                           shared |-> TRUE]]
  /\ UNCHANGED clobbered

\* what follows in the array is written, as it is now
WriteOn(w) ==
  /\ caller[w].meant # <<>>
  /\ Starts(w)
  /\ text' = [text EXCEPT ![w] = caller[w].following]
  /\ caller' = [caller EXCEPT ![w] = [chunk |-> caller[w].meant, following |-> <<>>,
                                      meant |-> <<>>, shared |-> TRUE]]
  /\ clobbered' = (clobbered \/ caller[w].following # caller[w].meant)

AtProcesser(w) == mode = "write" /\ ~panicked /\ stage[w] \in Processers

Arrives(w) == input' = IF stage[w] = 1 THEN Append(input, caller[w].chunk) ELSE input

\* GrowOrCopy and copy: what was given is written over, and what follows it, unless the
\* array is too small for all that is written
Overwrite(c, out) ==
  IF c.shared /\ Len(out) <= Len(c.chunk) + Len(c.following)
  THEN [c EXCEPT !.following = [j \in DOMAIN @ |-> IF Len(c.chunk) + j <= Len(out)
                                                  THEN out[Len(c.chunk) + j] ELSE @[j]]]
  ELSE [c EXCEPT !.shared = FALSE]

\* prc.Process(&tmpBuffer, n), with the mutex of the processer
WriteProcess(w) ==
  /\ AtProcesser(w)
  /\ LET i == stage[w]
         r == Process(i, text[w])
     IN  IF r.fits
         THEN /\ pend' = [pend EXCEPT ![i] = r.rest]
              /\ text' = [text EXCEPT ![w] = r.out]
              /\ caller' = [caller EXCEPT ![w] = Overwrite(@, r.out)]
              /\ stage' = [stage EXCEPT ![w] = i + 1]
              /\ UNCHANGED panicked
         ELSE /\ panicked' = TRUE
              /\ UNCHANGED <<pend, text, caller, stage>>
  /\ Arrives(w)
  /\ UNCHANGED <<mode, clobbered, inner, lines, failures, overlapped, reading>>

\* the callback fails: Write returns the error
WriteFails(w) ==
  /\ AtProcesser(w) /\ failures < MaxFailures
  /\ \E rest \in AfterFailure(stage[w], text[w]) : pend' = [pend EXCEPT ![stage[w]] = rest]
  /\ failures' = failures + 1
  /\ stage' = [stage EXCEPT ![w] = Idle] /\ text' = [text EXCEPT ![w] = <<>>]
  /\ Arrives(w)
  /\ UNCHANGED <<mode, caller, clobbered, inner, lines, panicked, overlapped, reading>>

\* w.Nested.Write: the CallbackLineWriter gives its lines, with its mutex
WriteNested(w) ==
  /\ mode = "write" /\ ~panicked /\ stage[w] = Len(Mark) + 1
  /\ LET s == inner \o text[w] IN
       /\ lines' = lines \o WholeLines(s)
       /\ inner' = Rest(s)
  /\ stage' = [stage EXCEPT ![w] = Idle] /\ text' = [text EXCEPT ![w] = <<>>]
  /\ UNCHANGED <<mode, pend, caller, clobbered, input, failures, panicked, overlapped, reading>>

-----------------------------------------------------------------------------
\* Mutant: what a Read has no room for is dropped.
DeliverDropping(out, k) ==
  /\ delivered' = delivered \o SubSeq(out, 1, Texts!Min({k, Len(out)}))
  /\ outBuffer' = <<>>
  /\ eof' = (out = <<>>)
\* r.outBuffer.Read(buffer): io.EOF if there is nothing
Deliver(out, k) ==
  /\ delivered' = delivered \o SubSeq(out, 1, Texts!Min({k, Len(out)}))
  /\ outBuffer' = SubSeq(out, k + 1, Len(out))
  /\ eof' = (out = <<>>)

\* the processer takes the slice; what it gives goes to outBuffer
Through(slice, k) ==
  LET r == Process(1, slice) IN
  IF r.fits
  THEN pend' = [pend EXCEPT ![1] = r.rest] /\ Deliver(outBuffer \o r.out, k) /\ UNCHANGED panicked
  ELSE panicked' = TRUE /\ UNCHANGED <<pend, delivered, outBuffer, eof>>

\* its callback fails: Read returns the error
Fails(slice) ==
  /\ failures < MaxFailures
  /\ failures' = failures + 1
  /\ \E rest \in AfterFailure(1, slice) : pend' = [pend EXCEPT ![1] = rest]
  /\ eof' = FALSE
  /\ UNCHANGED <<outBuffer, delivered, panicked>>

\* n bytes of the nested reader are taken, and m more are not looked at
Consume(n, m) ==
  /\ input' = <<Texts!FlattenSeq(input) \o SubSeq(source, 1, n)>>
  /\ source' = SubSeq(source, n + m + 1, Len(source))

\* ProcessingStreamReader.Read of a slice of k bytes, of which the nested reader
\* fills n: Process takes the whole slice, and an error that comes with n is lost
Taken(k, n) == SubSeq(source, 1, n) \o [j \in 1 .. k - n |-> Stale]
Takes(k, n) ==
  /\ mode = "read" /\ ~panicked
  /\ n \in 1 .. Texts!Min({k, Len(source)})
  /\ Consume(n, 0)
  /\ short' = (short \/ n < k)
  /\ UNCHANGED <<mode, dropped, broken, writing>>
Read(k, n)      == Takes(k, n) /\ Through(Taken(k, n), k) /\ UNCHANGED failures
ReadFails(k, n) == Takes(k, n) /\ Fails(Taken(k, n))

\* io.EOF comes with the last bytes
ReadLast(k) ==
  /\ mode = "read" /\ ~panicked
  /\ source # <<>> /\ Len(source) <= k
  /\ Deliver(outBuffer, k)
  /\ source' = <<>> /\ dropped' = TRUE
  /\ UNCHANGED <<mode, pend, input, failures, panicked, short, broken, writing>>

\* ProcessingBufferReader.Read: the nested reader is read until io.EOF, with which m bytes
\* may come, or until an error without a byte, which is taken for the end
TakesWhole(k, n, m) ==
  /\ mode = "readall" /\ ~panicked /\ source # <<>>
  /\ n \in 0 .. Len(source) /\ m \in 0 .. Texts!Min({k, Len(source) - n})
  /\ m = 0 \/ n + m = Len(source)
  /\ Consume(n, m)
  /\ dropped' = (dropped \/ m > 0)
  /\ broken' = (broken \/ n + m < Len(source))
  /\ UNCHANGED <<mode, short, writing>>
ReadWhole(k, n, m) ==
  TakesWhole(k, n, m) /\ Through(SubSeq(source, 1, n), k) /\ UNCHANGED failures
ReadWholeFails(k, n, m) == TakesWhole(k, n, m) /\ Fails(SubSeq(source, 1, n))

\* the nested reader is at its end
ReadBuffered(k) ==
  /\ mode \in {"read", "readall"} /\ ~panicked
  /\ source = <<>>
  /\ Deliver(outBuffer, k)
  /\ UNCHANGED <<mode, pend, input, failures, panicked, source, short, dropped, broken, writing>>

\* the nested reader fails, without a byte in mode "read": its error is returned; a
\* ProcessingBufferReader loses the n bytes it has read so far
ReadBroken(n) ==
  /\ mode \in {"read", "readall"} /\ ~panicked
  /\ n \in IF mode = "read" THEN {0} ELSE 1 .. Len(source)
  /\ source' = SubSeq(source, n + 1, Len(source))
  /\ broken' = (broken \/ n > 0)
  /\ eof' = FALSE
  /\ UNCHANGED <<mode, pend, input, failures, panicked, outBuffer, delivered, short, dropped, writing>>

StreamsNext ==
  \/ \E w \in Writers :
       Write(w) \/ WriteOn(w) \/ WriteProcess(w) \/ WriteFails(w) \/ WriteNested(w)
  \/ \E k \in Sizes :
       \/ ReadLast(k) \/ ReadBuffered(k)
       \/ \E n \in 1 .. k : Read(k, n) \/ ReadFails(k, n)
       \/ \E n, m \in 0 .. Len(source) : ReadWhole(k, n, m) \/ ReadWholeFails(k, n, m)
  \/ \E n \in 0 .. Len(source) : ReadBroken(n)

StreamsSpec == StreamsInit /\ [][StreamsNext]_streamVars

-----------------------------------------------------------------------------
(* Properties.                                                             *)

\* the lines of the input, rewritten by all processers, the last mark first
Rewritten ==
  LET ls    == WholeLines(Texts!FlattenSeq(input))
      marks == IF mode = "write" THEN Texts!Reverse(Mark) ELSE <<Mark[1]>>
  IN  [k \in DOMAIN ls |-> marks \o ls[k]]

Times(x, s) == Cardinality({k \in DOMAIN s : s[k] = x})

\* Whatever the chunks and the interleaving, the nested writer gets the lines that
\* were meant, whole, rewritten once by each processer, none twice; in order if Writes
\* do not overlap; all of them if no callback failed.  This as long as no Write is given
\* bytes that an earlier one has written over: Write leaves its output in the array of
\* the slice it was given, beyond the end of the slice if the array is large enough.
LinesWhole ==
  LET all == Rewritten IN
  mode = "write" /\ ~clobbered =>
    /\ \A x \in Texts!ToSet(lines) : Times(x, lines) <= Times(x, all)
    /\ failures = 0 /\ ~overlapped => Texts!IsPrefix(lines, all)
    /\ failures = 0 /\ ~panicked /\ (\A w \in Writers : stage[w] = Idle) =>
         Len(lines) = Len(all) /\ inner = <<>>

\* A reader delivers the lines of what it has taken of its source in order, each whole
\* and rewritten, whatever the sizes of the Reads, if the nested reader fills the slice:
\* Process takes what it does not fill for bytes that were read.  A last line without
\* its end is not among them.  What it has taken is the source up to some byte.  io.EOF
\* means nothing of a stream reader, which answers it as soon as no line is whole; of a
\* buffer reader, that everything was taken and delivered: unless the nested reader
\* failed, or gave bytes with io.EOF, which are dropped.
ReadInOrder ==
  LET taken == Texts!FlattenSeq(input) IN
  mode # "write" =>
    /\ ~short =>
         IF failures = 0 /\ ~panicked THEN delivered \o outBuffer = Texts!FlattenSeq(Rewritten)
         ELSE \A x \in Texts!ToSet(WholeLines(delivered \o outBuffer)) : x \in Texts!ToSet(Rewritten)
    /\ ~broken => Texts!IsPrefix(taken, Source)
    /\ mode = "readall" /\ eof /\ ~dropped /\ ~broken => taken = Source /\ outBuffer = <<>>
=============================================================================
