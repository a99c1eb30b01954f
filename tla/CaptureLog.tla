------------------------------ MODULE CaptureLog ------------------------------
(***************************************************************************)
(* What timing_log.h promises of the CSV file over all runs of the bridge: *)
(* one header, at its beginning, and behind it the rows in the order of    *)
(* their frames, each at most once; nothing that is in it is ever written  *)
(* over.  Only the loss of power, or of the whole directory, takes from    *)
(* it, and only at its end.                                                *)
(*                                                                         *)
(* The file is the sequence of pieces written to it: the header, the rows, *)
(* named by their frames, and what is left of one that was cut.            *)
(***************************************************************************)
EXTENDS Integers, Sequences

CONSTANT Frame   \* the numbers of frames, from 1

VARIABLE log

Header == 0
Torn == -1

\* What a storage that loses its newest data may leave of a file.
Remains(q) ==
  {SubSeq(q, 1, k) : k \in 0..Len(q)}
    \cup {Append(SubSeq(q, 1, k), Torn) : k \in 0..Len(q) - 1}

Init == log = <<>>

Begin == log = <<>> /\ log' = <<Header>>

Row ==
  /\ log # <<>>
  /\ \E n \in Frame : /\ \A i \in 1..Len(log) : log[i] < n
                      /\ log' = Append(log, n)

Lose == log' \in Remains(log)

Next == Begin \/ Row \/ Lose

Spec == Init /\ [][Next]_log
=============================================================================
