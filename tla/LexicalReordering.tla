-------------------------- MODULE LexicalReordering --------------------------
(***************************************************************************)
(* The lexicalised reordering features: how the phrase that a hypothesis   *)
(* translates is placed with respect to what was translated before it.     *)
(* A behaviour is a derivation (module HypothesisExpansion) with the       *)
(* states that LexicalReordering::Evaluate hands from hypothesis to        *)
(* hypothesis.                                                             *)
(*                                                                         *)
(* The phrase-based state is the previous range, which is currRange.  The  *)
(* hierarchical backward state is a ReorderingStack: a sequence of spans,  *)
(* its last element on top, each a block of source words that consecutive  *)
(* phrases have translated.  The hierarchical forward state is the         *)
(* previous range and the words that the phrases have covered.  The words  *)
(* of a partial translation (the seed) are in none of these states.        *)
(***************************************************************************)
EXTENDS HypothesisExpansion, SequencesExt

VARIABLES reoStack,       \* m_reoStack of HierarchicalReorderingBackwardState
          reoCoverage     \* m_coverage of HierarchicalReorderingForwardState

reorderingVars == <<sourceCompleted, currRange, constraint, reoStack, reoCoverage>>

\* The span that begins with the first word of a and ends with the last of b.
Joined(a, b) == Span(a.start, b.end)

\* Blocks with no word between them.
NextTo(a, b) == a.start - b.end = 1 \/ b.start - a.end = 1

\* The span that a block and the span next to it, on either side, become.
Merge(previous, current) ==
  IF current.start - previous.end = 1 THEN Joined(previous, current)
                                      ELSE Joined(current, previous)

\* ReorderingStack::Reduce: the span merges with the blocks on top as long as
\* they are next to it and goes on the stack.  merged[k] is what it has become
\* after k turns of the loop.
Reduce(stack, span) ==
  LET n == Len(stack)
      merged[k \in 0 .. n] ==
        IF k = 0 THEN span ELSE Merge(stack[n - k + 1], merged[k - 1])
      turns == Least({k \in 0 .. n : k = n \/ ~NextTo(stack[n - k], merged[k])})
  IN  Append(SubSeq(stack, 1, n - turns), merged[turns])

\* Mutant: a phrase before the block is measured from its first word.
DistanceFromStart(stack, span) ==
  IF stack = <<>> THEN span.start + 1
  ELSE IF span.start > Last(stack).start THEN span.start - Last(stack).end
                                         ELSE span.start - Last(stack).start

\* The distance that ShiftReduce returns: from the block on top of the stack,
\* or from the position before the sentence.
ReoDistance(stack, span) ==
  IF stack = <<>> THEN span.start + 1
  ELSE IF span.start > Last(stack).start THEN span.start - Last(stack).end
                                         ELSE span.end - Last(stack).start

\* ReorderingStack::ShiftReduce
ShiftReduce(stack, span) ==
  CASE stack = <<>> -> <<span>>
    [] stack # <<>> /\ ReoDistance(stack, span) = 1 ->
         Reduce(Front(stack), Joined(Last(stack), span))
    [] stack # <<>> /\ ReoDistance(stack, span) = -1 ->
         Reduce(Front(stack), Joined(span, Last(stack)))
    [] OTHER -> Append(stack, span)

\* The types of the model MSLR; MSD has D for DL and DR, monotonicity NM for
\* all but M, leftright L for S and DL and R for M and DR.
\* PhraseBasedReorderingState::GetOrientationTypeMSLR, prev the EmptyRange for
\* m_first.
PhraseOrientation(prev, cur) ==
  CASE prev = EmptyRange -> IF cur.start = 0 THEN "M" ELSE "DR"
    [] prev # EmptyRange /\ prev.end = cur.start - 1 -> "M"
    [] prev # EmptyRange /\ prev.start = cur.end + 1 -> "S"
    [] OTHER -> IF prev.end < cur.start THEN "DR" ELSE "DL"

\* HierarchicalReorderingBackwardState::GetOrientationTypeMSLR
BackwardOrientation(distance) ==
  CASE distance = 1  -> "M"
    [] distance = -1 -> "S"
    [] OTHER -> IF distance > 1 THEN "DR" ELSE "DL"

\* HierarchicalReorderingForwardState::GetOrientationTypeMSLR: cov are the
\* words covered, cur included.
ForwardOrientation(prev, cur, cov) ==
  CASE cur.start > prev.end /\ (prev.end + 1 \notin cov \/ cur.start = prev.end + 1) -> "M"
    [] cur.end < prev.start /\ (prev.start - 1 \notin cov \/ cur.end = prev.start - 1) -> "S"
    [] OTHER -> IF cur.start > prev.end THEN "DR" ELSE "DL"

\* EmptyHypothesisState: empty states, whatever the seed covers.
ReorderingInit == Init /\ reoStack = <<>> /\ reoCoverage = {}

\* LexicalReordering::Evaluate for the hypothesis that translates s..e.
ExpandReordering(s, e) ==
  /\ Expand(s, e)
  /\ reoStack' = ShiftReduce(reoStack, Span(s, e))
  /\ reoCoverage' = reoCoverage \cup (s .. e)

ReorderingNext == \E s \in Positions : \E e \in s .. SourceSize - 1 : ExpandReordering(s, e)

ReorderingSpec == ReorderingInit /\ [][ReorderingNext]_reorderingVars

-----------------------------------------------------------------------------
(* Properties *)

Left  == {"S", "DL"}
FirstPhrase == reoStack = <<>>

\* What the models say of a phrase that comes next, prev the EmptyRange for the
\* first one: what is monotone or a swap after the previous phrase is so after
\* the previous block, and a phrase is on the same side of both.
ModelsAgree(prev, span) ==
  LET byPhrase == PhraseOrientation(prev, span)
      backward == BackwardOrientation(ReoDistance(reoStack, span))
      forward  == ForwardOrientation(prev, span, reoCoverage \cup (span.start .. span.end))
  IN  /\ byPhrase \in {"M", "S"} => backward = byPhrase
      /\ (backward \in Left) = (byPhrase \in Left)
      /\ ~FirstPhrase => /\ byPhrase \in {"M", "S"} => forward = byPhrase
                         /\ (forward \in Left) = (byPhrase \in Left)

\* The hierarchical models generalise the phrase-based one: whatever phrase comes
\* next, the three models (GetOrientationTypeMSLR) agree; and the blocks they
\* look at are disjoint, are the translated words, and none could still be merged
\* with the one below it (ReorderingStack::Reduce).
OrientationsAgree ==
  /\ \A s \in Positions : \A e \in s .. SourceSize - 1 :
       CanExpand(constraint, sourceCompleted, currRange, s, e) =>
         ModelsAgree(IF FirstPhrase THEN EmptyRange ELSE currRange, Span(s, e))
  /\ UNION {reoStack[i].start .. reoStack[i].end : i \in DOMAIN reoStack} = reoCoverage
  /\ \A i, j \in DOMAIN reoStack :
       i # j => Outside(reoStack[i].start, reoStack[i].end, reoStack[j])
  /\ \A i \in 2 .. Len(reoStack) : ~NextTo(reoStack[i], reoStack[i - 1])
=============================================================================
