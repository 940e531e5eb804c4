------------------------------ MODULE FileList ------------------------------
(***************************************************************************)
(* decode of the reply to a ReadFileList: the data that ReadFile collected *)
(* is split into lines.  It runs in one handler, on the thread of the      *)
(* io_context: while it does not end, nothing else runs.                   *)
(*                                                                         *)
(* finger is an index into data, from 0.  A loop that spins without any    *)
(* effect is undefined behaviour: a build may spin, or leave it.           *)
(***************************************************************************)
EXTENDS Integers, Sequences

CONSTANT MaxSize  \* bound on the size of the data

VARIABLES
  data,        \* the list as it was received
  line_start,
  finger,
  result,      \* the lines found
  outcome      \* "decoding", "done", "malformed", or "thrown"

vars == <<data, line_start, finger, result, outcome>>

Bytes == {"cr", "lf", "x"}

Datas == UNION {[1 .. n -> Bytes] : n \in 0 .. MaxSize}

Init ==
  /\ data \in Datas
  /\ line_start = 0
  /\ finger = 0
  /\ result = << >>
  /\ outcome = CASE Len(data) = 0 -> "done"
                 [] Len(data) = 1 -> "malformed"
                 [] OTHER -> "decoding"

AtLineEnd == data[finger + 1] = "cr" /\ data[finger + 2] = "lf"

Looping == outcome = "decoding" /\ finger < Len(data) - 1

\* A line is taken; the string of a range that ends before it begins throws.
Line ==
  /\ Looping
  /\ AtLineEnd
  /\ IF line_start <= finger
     THEN /\ result' = Append(result, SubSeq(data, line_start + 1, finger))
          /\ line_start' = finger + 2
          /\ UNCHANGED outcome
     ELSE outcome' = "thrown" /\ UNCHANGED <<result, line_start>>
  /\ UNCHANGED <<data, finger>>

\* Nothing advances finger.
Spin ==
  /\ Looping
  /\ ~AtLineEnd
  /\ outcome' \in {"decoding", "done"}
  /\ UNCHANGED <<data, line_start, finger, result>>

Return ==
  /\ outcome = "decoding"
  /\ finger >= Len(data) - 1
  /\ outcome' = "done"
  /\ UNCHANGED <<data, line_start, finger, result>>

Next == Line \/ Spin \/ Return

\* The code runs on until it returns.
FairSpec == Init /\ [][Next]_vars /\ WF_vars(Next)

-----------------------------------------------------------------------------
(* The list of one file: its name and a line end.                          *)

OneFile(d) ==
  LET n == Len(d) - 2
  IN  /\ n > 0
      /\ d[n + 1] = "cr" /\ d[n + 2] = "lf"
      /\ \A k \in 1 .. n : d[k] = "x"

\* "Decode a ReadFileList response" (protocol.cpp:294): the list of one file is
\* decoded to its name.
ListsTheFile ==
  OneFile(data) => <>(outcome = "done" /\ result = <<SubSeq(data, 1, Len(data) - 2)>>)

=============================================================================
