---------------------------- MODULE OrderedOutput ----------------------------
(***************************************************************************)
(* What moses promises of its output streams: line after line, in the      *)
(* order of the input sentences, until all are written.                    *)
(***************************************************************************)
EXTENDS Naturals, Sequences

CONSTANTS Streams, NumLines

VARIABLE out   \* the lines written so far to each stream

Init == out = [s \in Streams |-> <<>>]

\* One or more lines follow.
WriteMore(s) ==
  \E n \in Len(out[s]) + 1 .. NumLines :
    out' = [out EXCEPT ![s] = [k \in 1 .. n |-> k - 1]]

Next == \E s \in Streams : WriteMore(s)

\* Lines never come out of order ...
Safety == Init /\ [][Next]_out

\* ... and in the end all come.
Spec == Safety /\ \A s \in Streams : WF_out(WriteMore(s))
=============================================================================
