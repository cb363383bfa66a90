---------------------------- MODULE LogCapture -----------------------------
(***************************************************************************)
(* The logs of a service: fabricks-runtime/src/output.rs and fabricksd's   *)
(* service/logs.rs.  Every output stream of every instance cuts what its   *)
(* guest writes into lines, in a buffer of its own, and pushes each line   *)
(* on the one bounded buffer that the instances of the service share.      *)
(* A write of several characters is several steps here, as the lines in it *)
(* are pushed one by one; only whole characters are written.               *)
(***************************************************************************)
EXTENDS Naturals, Sequences, SequencesExt

CONSTANTS
  Outputs,    \* output streams of the instances of a service
  Kind,       \* output -> "stdout" or "stderr"
  Capacity,   \* capacity of the log buffer
  MaxChars    \* bound: characters an output writes

ASSUME LogAssumption ==
  Capacity \in Nat \ {0} /\ MaxChars \in Nat /\ Kind \in [Outputs -> {"stdout", "stderr"}]

VARIABLES
  entries,   \* the log buffer: [stream, message], oldest first; a message is a
             \* sequence of characters <<output, number>>
  outputs    \* output -> [open, line, count, ends]: whether the guest has it, its
             \* line buffer, the characters written, those before a newline

logVars == <<entries, outputs>>

LogInit ==
  /\ entries = <<>>
  /\ outputs = [o \in Outputs |-> [open |-> FALSE, line |-> <<>>, count |-> 0, ends |-> {}]]

\* The sink makes a stream for the guest, with an empty line buffer.
OpenOutput(o) ==
  /\ ~outputs[o].open /\ outputs[o].count = 0
  /\ outputs' = [outputs EXCEPT ![o].open = TRUE] /\ UNCHANGED entries

\* mutant: the newest entry makes room
WithoutNewest(log) == IF Len(log) >= Capacity THEN Front(log) ELSE log

\* The buffer with room for one more: the oldest entry goes.
WithRoom(log) == IF Len(log) >= Capacity THEN Tail(log) ELSE log

\* An entry of what the line buffer holds, if it holds anything.
PushLine(o) ==
  entries' = IF outputs[o].line = <<>> THEN entries
             ELSE Append(WithRoom(entries), [stream |-> Kind[o], message |-> outputs[o].line])

WriteChar(o) ==
  /\ outputs[o].open /\ outputs[o].count < MaxChars
  /\ outputs' = [outputs EXCEPT ![o].count = @ + 1,
                                ![o].line = Append(@, <<o, outputs[o].count + 1>>)]
  /\ UNCHANGED entries

WriteNewline(o) ==
  /\ outputs[o].open /\ PushLine(o)
  /\ outputs' = [outputs EXCEPT ![o].line = <<>>, ![o].ends = @ \cup {outputs[o].count}]

\* The guest flushes: what there is of a line becomes an entry.
FlushOutput(o) ==
  /\ outputs[o].open /\ PushLine(o)
  /\ outputs' = [outputs EXCEPT ![o].line = <<>>]

\* The guest, or its instance, drops the stream.
DropOutput(o) ==
  /\ outputs[o].open /\ PushLine(o)
  /\ outputs' = [outputs EXCEPT ![o].line = <<>>, ![o].open = FALSE]

LogNext ==
  \E o \in Outputs :
    OpenOutput(o) \/ WriteChar(o) \/ WriteNewline(o) \/ FlushOutput(o) \/ DropOutput(o)

LogSpec == LogInit /\ [][LogNext]_logVars

-----------------------------------------------------------------------------
(* Properties.                                                              *)

\* What there is of an output's text: its entries and, after the last one,
\* its line buffer.  A piece is given by its position.
EntriesOf(o, log) == {i \in DOMAIN log : log[i].message[1][1] = o}
Pieces(o, log) == EntriesOf(o, log) \cup {Len(log) + 1}
Piece(i, log, out) == IF i \in DOMAIN log THEN log[i].message ELSE out.line

\* The number of a piece's first character, the line buffer's when it has one.
Start(i, log, out) ==
  IF i \in DOMAIN log THEN log[i].message[1][2] ELSE out.count + 1 - Len(out.line)

\* A piece is written by one output, without gaps ...
Whole(o, log, out) ==
  \A i \in Pieces(o, log) : \A k \in 1 .. Len(Piece(i, log, out)) :
    Piece(i, log, out)[k] = <<o, Start(i, log, out) + k - 1>>

\* ... and none is missing between one piece and the next.
Adjacent(o, log, out) ==
  \A i, j \in Pieces(o, log) :
    (i < j /\ \A m \in Pieces(o, log) : m <= i \/ j <= m) =>
      Start(j, log, out) = Start(i, log, out) + Len(Piece(i, log, out))

\* An entry is of the kind its output is, and runs over no newline.
OneLine(o, log, out) ==
  \A i \in EntriesOf(o, log) :
    /\ log[i].stream = Kind[o]
    /\ \A k \in 1 .. (Len(log[i].message) - 1) : log[i].message[k][2] \notin out.ends

\* Instances that write to the log of their service at the same time do not
\* garble each other's lines: an entry is written by one output, of the kind
\* it says, and runs over no newline.  Of what an output wrote, the log and
\* its line buffer hold the end, in order and without gaps, and they miss
\* the beginning only when the log is full.
OutputInOrder ==
  \A o \in Outputs :
    LET out == outputs[o] IN
    /\ Whole(o, entries, out) /\ Adjacent(o, entries, out) /\ OneLine(o, entries, out)
    /\ (\A i \in Pieces(o, entries) : Start(i, entries, out) > 1) => Len(entries) = Capacity

=============================================================================
