------------------------ MODULE MCHypothesisExpansion ------------------------
(* Instances of HypothesisExpansion for TLC. *)
EXTENDS HypothesisExpansion

\* Every span up to the maximal phrase length has a translation option.
MCOptionSpans ==
  {se \in Positions \X Positions : se[1] <= se[2] /\ se[2] - se[1] < MaxPhraseLength}

\* A sentence without XML markup and without -monotone-at-punctuation.
MCUnconstrained == {NoConstraint}

\* Seeds: a translated prefix, which may be empty, or a partial
\* translation with words beyond the first gap within the distortion limit.
MCEmptySeed == {{}}

MCPrefixSeeds == {0 .. k - 1 : k \in 0 .. SourceSize - 1}

MCWindowSeeds ==
  {cov \in SUBSET Positions :
     \A p \in cov : p > FirstGapPos(cov) =>
       p - FirstGapPos(cov) + 1 <= MaxDistortion}

\* The tag that closes first comes first in the vector, but the span attribute
\* allows any order.
MCZoneSpans ==
  {z \in [start : Positions, end : Positions] : z.start < z.end}

MCZones ==
  {<<>>} \cup {<<a>> : a \in MCZoneSpans}
         \cup {ab \in MCZoneSpans \X MCZoneSpans : Nested(ab[1], ab[2])}

\* Walls of the markup (<wall/> in front of word i sets the wall at i - 1).
MCWalls == {w \in SUBSET Positions : Cardinality(w) <= 2}

MCConstraints ==
  {SentenceConstraint({}, w, z) : w \in MCWalls, z \in MCZones}
    \cup {SentenceConstraint(p, {}, z) : p \in MCWalls, z \in MCZones}
=============================================================================
