--------------------------- MODULE OutputCollector ---------------------------
(***************************************************************************)
(* OutputCollector: the outputs of translation tasks that finish in any    *)
(* order, written in the order of the input lines.                         *)
(*                                                                         *)
(* A collector is the record                                               *)
(*   nextOutput   m_nextOutput                                             *)
(*   outputs      the keys of m_outputs, the cached outputs                *)
(*   debugs       the keys of m_debugs, the cached debug texts             *)
(*   out, debug   the lines written to m_outStream and m_debugStream; the  *)
(*                text of a line is its number                             *)
(***************************************************************************)
EXTENDS Integers, Sequences, SequencesExt

NewCollector == [nextOutput |-> 0, outputs |-> {}, debugs |-> {}, out |-> <<>>, debug |-> <<>>]

\* The numbers from a to b.
Lines(a, b) == [k \in 1 .. (IF b < a THEN 0 ELSE b - a + 1) |-> a + k - 1]

\* Mutant: "if" in place of "while".
NextMissingOne(outputs, id) == IF id + 1 \in outputs THEN id + 2 ELSE id + 1

\* "see if there's any more": where the loop ends that begins behind id.
NextMissing(outputs, id) ==
  CHOOSE n \in {id + 1} \cup {k + 1 : k \in outputs} :
    n > id /\ n \notin outputs /\ id + 1 .. n - 1 \subseteq outputs

\* Write.  The debug texts of cached outputs are looked up under iter->first
\* after the erasure of iter: the freed node may still hold the key, or not; then
\* the text stays in the cache.
Write(c, id) ==
  IF id # c.nextOutput
  THEN {[c EXCEPT !.outputs = @ \cup {id}, !.debugs = @ \cup {id}]}
  ELSE LET n       == NextMissing(c.outputs, id)
           flushed == id + 1 .. n - 1
       IN  {[nextOutput |-> n,
             outputs    |-> c.outputs \ flushed,
             debugs     |-> c.debugs \ found,
             out        |-> c.out \o Lines(id, n - 1),
             debug      |-> c.debug \o SelectSeq(Lines(id, n - 1),
                                                 LAMBDA k : k = id \/ k \in found)] :
              found \in SUBSET (flushed \cap c.debugs)}
=============================================================================
