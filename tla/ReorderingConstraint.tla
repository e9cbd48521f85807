------------------------ MODULE ReorderingConstraint ------------------------
(***************************************************************************)
(* The reordering constraints of an input sentence: walls (no word behind  *)
(* the wall is translated while a word before it is not), zones (once      *)
(* entered, a zone is finished before anything outside it is translated)   *)
(* and walls local to a zone.                                              *)
(*                                                                         *)
(* A constraint is the record of ReorderingConstraint's members:           *)
(*   active     m_active                                                   *)
(*   wall       the positions with m_wall[pos]; the wall stands between    *)
(*              pos and pos + 1                                            *)
(*   localWall  m_localWall: the index of the zone the wall belongs to     *)
(*   zones      m_zone, a sequence of ranges (indexed from 1, the code's   *)
(*              vector from 0)                                             *)
(***************************************************************************)
EXTENDS Coverage, Sequences

NotAZone == 0

\* SetMonotoneAtPunctuation: the walls it sets for the positions of
\* punctuation, neither at the start nor at the end of the sentence.
PunctuationWalls(punctuation) ==
  {i \in punctuation : i > 0 /\ i < SourceSize - 1}
    \cup {i - 1 : i \in {j \in punctuation : j > 1}}

\* The zone z claims the wall at pos: one pass of FinalizeWalls' outer loop,
\* for one position.  w is the pair <<m_wall[pos], m_localWall[pos]>>.
ClaimWall(zones, z, pos, w) ==
  IF pos \notin zones[z].start .. zones[z].end - 1 THEN w
  ELSE IF w[1] THEN <<FALSE, z>>
  ELSE IF /\ w[2] # NotAZone
          /\ \/ zones[w[2]].start < zones[z].start
             \/ zones[w[2]].end > zones[z].end
       THEN <<FALSE, z>>
       ELSE w

\* m_wall[pos] and m_localWall[pos] when FinalizeWalls is done.
FinalWall(zones, walls, pos) ==
  LET after[z \in 0 .. Len(zones)] ==
        IF z = 0 THEN <<pos \in walls, NotAZone>>
                 ELSE ClaimWall(zones, z, pos, after[z - 1])
  IN  after[Len(zones)]

\* The constraint of a sentence as Sentence::Read assembles it: the zones of
\* the XML markup, the walls at punctuation and those of the markup that fall
\* inside the sentence, then FinalizeWalls.
SentenceConstraint(punctuation, xmlWalls, zones) ==
  LET walls == PunctuationWalls(punctuation) \cup (xmlWalls \cap Positions)
  IN  [active    |-> walls # {} \/ zones # <<>>,
       wall      |-> {p \in Positions : FinalWall(zones, walls, p)[1]},
       localWall |-> [p \in Positions |-> FinalWall(zones, walls, p)[2]],
       zones     |-> zones]

NoConstraint == [active |-> FALSE, wall |-> {},
                 localWall |-> [p \in Positions |-> NotAZone], zones |-> <<>>]

Outside(s, e, zone) == e < zone.start \/ s > zone.end

\* Mutant: the distortion limit is not looked at.
AlwaysReachable(zone, cov, s, maxDistortion) == FALSE

\* "dead end due to distortion limit": a phrase that leaves a gap in front of
\* it, in a zone whose end is too far from the first gap.  endZone - firstGap
\* and the limit are compared as unsigned numbers, so that a negative limit (no
\* limit) never counts as reached.
ZoneEndTooFar(zone, cov, s, maxDistortion) ==
  /\ s # FirstGapPos(cov)
  /\ maxDistortion >= 0
  /\ zone.end - FirstGapPos(cov) >= maxDistortion

\* Mutant: walls local to the zone are ignored.
IgnoresLocalWalls(c, z, cov, s, e) == FALSE

\* A word of the zone before the phrase and before a wall local to the zone
\* that the phrase reaches over is still untranslated.
HitsLocalWall(c, z, cov, s, e) ==
  \E p \in c.zones[z].start .. e - 1 :
    /\ c.localWall[p] = z
    /\ \E q \in c.zones[z].start .. p : q \notin cov /\ q < s

\* The branch of Check taken by a phrase that is at least partly in the zone.
CheckInsideZone(c, z, cov, s, e, maxDistortion) ==
  LET zone         == c.zones[z]
      untranslated == (zone.start .. zone.end) \ cov
  IN  /\ ~ZoneEndTooFar(zone, cov, s, maxDistortion)
      /\ \/ s <= zone.start
         \/ e > zone.end /\ zone.end - s + 1 >= Cardinality(untranslated)
         \/ e <= zone.end /\ ~HitsLocalWall(c, z, cov, s, e)

\* Mutant: a zone that is begun may be left.
ZoneMayBeLeft(c, z, cov, s, e, maxDistortion) ==
  \/ Outside(s, e, c.zones[z])
  \/ CheckInsideZone(c, z, cov, s, e, maxDistortion)

\* The body of Check's loop over the zones.
CheckZone(c, z, cov, s, e, maxDistortion) ==
  LET zone       == c.zones[z]
      translated == (zone.start .. zone.end) \cap cov
  IN  \/ LastPos(cov) < zone.start /\ Outside(s, e, zone)
      \/ FirstGapPos(cov) > zone.end
      \/ translated = zone.start .. zone.end
      \/ translated = {} /\ Outside(s, e, zone)
      \/ /\ ~Outside(s, e, zone)
         /\ CheckInsideZone(c, z, cov, s, e, maxDistortion)

\* Mutant: only walls behind the phrase's start are seen.
HitsWallInPhrase(c, cov, s, e) ==
  /\ FirstGapPos(cov) # s
  /\ \E p \in s .. e - 1 : p \in c.wall

\* A phrase that starts in the first gap cannot leave a gap in front of a
\* wall.
HitsWall(c, cov, s, e) ==
  /\ FirstGapPos(cov) # s
  /\ \E p \in FirstGapPos(cov) .. e - 1 : p \in c.wall

\* The phrase continues a translation without gaps.
Monotone(cov, s) ==
  \/ LastPos(cov) = NotFound /\ s = 0
  \/ FirstGapPos(cov) > LastPos(cov) /\ FirstGapPos(cov) = s

\* ReorderingConstraint::Check: may the span s..e be translated next?
Check(c, cov, s, e, maxDistortion) ==
  \/ ~c.active
  \/ /\ ~HitsWall(c, cov, s, e)
     /\ \/ Monotone(cov, s)
        \/ \A z \in 1 .. Len(c.zones) : CheckZone(c, z, cov, s, e, maxDistortion)
=============================================================================
