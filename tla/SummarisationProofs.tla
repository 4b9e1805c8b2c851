------------------------- MODULE SummarisationProofs -------------------------
(***************************************************************************)
(* The speaker statistics of Summarisation, for any labels, names, lengths *)
(* and number of segments and turns.  The argument goes through the order  *)
(* of a list: the rank of a speaker determines the speaker, so the names   *)
(* merge_speaker_names hands out are different, so the lookup back from a  *)
(* name to the label it replaced finds that label.                         *)
(***************************************************************************)
EXTENDS Summarisation, FiniteSetTheorems, WellFoundedInduction, TLAPS

Above(t, p) == {q \in Heard(t) : Ahead(t, q, p)}

(* The speakers ahead of anyone are finitely many, so a rank is a number.  *)
LEMMA RankIsNat ==
  ASSUME NEW t \in Tallies, NEW p \in People
  PROVE  IsFiniteSet(Above(t, p)) /\ Rank(t, p) = Cardinality(Above(t, p)) /\ Rank(t, p) \in Nat
  <1>1. Above(t, p) \in SUBSET People
    BY DEF Above, Heard
  <1>2. IsFiniteSet(Above(t, p))
    BY <1>1, PeopleAssumption, FS_Subset
  <1>3. Cardinality(Above(t, p)) \in Nat
    BY <1>2, FS_CardinalityType
  <1> QED
    BY <1>2, <1>3 DEF Rank, Above

(* Who is ahead of another has a smaller rank. *)
LEMMA AheadRanksLower ==
  ASSUME NEW t \in Tallies, NEW p \in Heard(t), NEW q \in Heard(t), Ahead(t, p, q)
  PROVE  Rank(t, p) < Rank(t, q)
  <1>0. p \in People /\ q \in People
    BY DEF Heard
  <1>t. \A r \in People : t.time[r] \in Nat /\ t.first[r] \in Nat
    BY DEF Tallies
  <1>1. Above(t, p) \in SUBSET Above(t, q)
    BY <1>0, <1>t DEF Above, Ahead, Heard
  <1>2. p \in Above(t, q) /\ p \notin Above(t, p)
    BY <1>0, <1>t DEF Above, Ahead
  <1>3. /\ Cardinality(Above(t, p)) <= Cardinality(Above(t, q))
        /\ Cardinality(Above(t, q)) = Cardinality(Above(t, p)) => Above(t, q) = Above(t, p)
    BY <1>0, <1>1, RankIsNat, FS_Subset
  <1>4. Cardinality(Above(t, q)) # Cardinality(Above(t, p))
    BY <1>2, <1>3
  <1> QED
    BY <1>0, <1>3, <1>4, RankIsNat

(* The rank determines the speaker. *)
LEMMA RankInjective ==
  ASSUME NEW t \in Tallies, Orderly(t), NEW p \in Heard(t), NEW q \in Heard(t),
         Rank(t, p) = Rank(t, q)
  PROVE  p = q
  <1>0. p \in People /\ q \in People
    BY DEF Heard
  <1> SUFFICES ASSUME p # q PROVE FALSE
    OBVIOUS
  <1>1. /\ t.time[p] \in Nat /\ t.time[q] \in Nat
        /\ t.first[p] \in Nat /\ t.first[q] \in Nat
    BY <1>0 DEF Tallies
  <1>2. t.first[p] # t.first[q]
    BY DEF Orderly
  <1>3. Ahead(t, p, q) \/ Ahead(t, q, p)
    BY <1>1, <1>2 DEF Ahead
  <1>4. Rank(t, p) < Rank(t, q) \/ Rank(t, q) < Rank(t, p)
    BY <1>3, AheadRanksLower
  <1> QED
    BY <1>0, <1>4, RankIsNat

(* Every list that is not empty has a first speaker, whom nobody exceeds.  *)
LEMMA TopSpokeMost ==
  ASSUME NEW t \in Tallies, Heard(t) # {}
  PROVE  /\ Top(t) \in Heard(t)
         /\ \A q \in Heard(t) : t.time[q] <= t.time[Top(t)]
  <1> DEFINE ranks == {Rank(t, p) : p \in Heard(t)}
             less == OpToRel(<, Nat)
  <1>1. ranks \subseteq Nat /\ ranks # {}
    BY RankIsNat DEF Heard
  <1>2. PICK n \in ranks : \A k \in ranks : <<k, n>> \notin less
    <2> HIDE DEF ranks, less
    <2>1. IsWellFoundedOn(less, Nat)
      BY NatLessThanWellFounded DEF less
    <2> QED
      BY <1>1, <2>1, WFMin
  <1>3. \A k \in ranks : ~(k < n)
    BY <1>1, <1>2 DEF OpToRel
  <1>4. PICK p \in Heard(t) : n = Rank(t, p)
    OBVIOUS
  <1>5. p \in People
    BY <1>4 DEF Heard
  <1>6. Above(t, p) = {}
    <2> SUFFICES ASSUME NEW q \in Above(t, p) PROVE FALSE
      OBVIOUS
    <2>1. q \in Heard(t) /\ Ahead(t, q, p)
      BY DEF Above
    <2>2. Rank(t, q) < Rank(t, p)
      BY <1>4, <2>1, AheadRanksLower
    <2> QED
      BY <1>3, <1>4, <2>1, <2>2
  <1>7. Rank(t, p) = 0
    BY <1>5, <1>6, RankIsNat, FS_EmptySet
  <1>8. Top(t) \in Heard(t) /\ Rank(t, Top(t)) = 0
    BY <1>4, <1>7 DEF Top
  <1>9. Above(t, Top(t)) = {}
    <2>1. Top(t) \in People
      BY <1>8 DEF Heard
    <2> QED
      BY <1>8, <2>1, RankIsNat, FS_EmptySet
  <1>10. ASSUME NEW q \in Heard(t)
         PROVE  t.time[q] <= t.time[Top(t)]
    <2>1. q \in People /\ Top(t) \in People
      BY <1>8 DEF Heard
    <2>2. t.time[q] \in Nat /\ t.time[Top(t)] \in Nat
      BY <2>1 DEF Tallies
    <2>3. ~Ahead(t, q, Top(t))
      BY <1>9 DEF Above
    <2> QED
      BY <2>2, <2>3 DEF Ahead
  <1> QED
    BY <1>8, <1>10

-----------------------------------------------------------------------------
(* What merge_speaker_names and the lookup back from it do.                *)

(* name_map gives labels that were heard different names, none generic.    *)
LEMMA NameMapDistinct ==
  ASSUME NEW s \in Tallies, NEW t \in Tallies, Orderly(s)
  PROVE  LET m == NameMap(s, t)
         IN /\ m = [p \in DOMAIN m |-> m[p]]
            /\ DOMAIN m \subseteq Heard(s)
            /\ \A p \in DOMAIN m : m[p] \in Names
            /\ \A p, q \in DOMAIN m : m[p] = m[q] => p = q
  <1> DEFINE m == NameMap(s, t)
  <1>1. /\ m = [p \in DOMAIN m |-> m[p]]
        /\ DOMAIN m = {p \in Heard(s) : NameFor(s, t, p) # {}}
        /\ \A p \in DOMAIN m : m[p] \in NameFor(s, t, p)
    BY DEF NameMap
  <1>2. \A p \in DOMAIN m : m[p] \in Names /\ Rank(t, m[p]) = Rank(s, p)
    BY <1>1 DEF NameFor, Heard, People
  <1>3. ASSUME NEW p \in DOMAIN m, NEW q \in DOMAIN m, m[p] = m[q]
        PROVE  p = q
    <2>1. Rank(s, p) = Rank(s, q)
      BY <1>2, <1>3
    <2>2. p \in Heard(s) /\ q \in Heard(s)
      BY <1>1
    <2> QED
      BY <2>1, <2>2, RankInjective
  <1> QED
    BY <1>1, <1>2, <1>3

(* What the verification needs of a name_map. *)
Faithful(s, m) ==
  /\ Heard(s) \subseteq Labels
  /\ DOMAIN m \subseteq Heard(s)
  /\ \A p \in DOMAIN m : m[p] \in Names
  /\ \A p, q \in DOMAIN m : m[p] = m[q] => p = q

(* The merged names of the speakers on a list are different. *)
LEMMA RenamedApart ==
  ASSUME NEW s \in Tallies, NEW m, Faithful(s, m)
  PROVE  /\ Rename(m) \in [People -> People]
         /\ \A p, q \in Heard(s) : Rename(m)[p] = Rename(m)[q] => p = q
  <1>1. \A p \in DOMAIN m : m[p] \in People \ Labels
    BY PeopleAssumption DEF Faithful, People
  <1>2. Rename(m) \in [People -> People]
    BY <1>1 DEF Rename
  <1>3. \A p \in Heard(s) : p \in People /\ p \in Labels
    BY DEF Faithful, Heard
  <1>4. \A p \in Heard(s) : Rename(m)[p] = IF p \in DOMAIN m THEN m[p] ELSE p
    BY <1>3 DEF Rename
  <1> QED
    BY <1>1, <1>2, <1>3, <1>4 DEF Faithful

(* The lookup back from a merged name finds the label it came from. *)
LEMMA LookupFindsLabel ==
  ASSUME NEW s \in Tallies, NEW m, Faithful(s, m), NEW p \in Heard(s)
  PROVE  OriginalLabel(s, m, Rename(m)[p]) = p
  <1>0. p \in People /\ p \in Labels
    BY DEF Faithful, Heard
  <1>1. CASE p \in DOMAIN m
    <2>1. Rename(m)[p] = m[p]
      BY <1>0, <1>1 DEF Rename
    <2>2. {q \in DOMAIN m : m[q] = m[p]} = {p}
      BY <1>1 DEF Faithful
    <2>3. Rank(s, p) <= Rank(s, p)
      BY <1>0, RankIsNat
    <2> DEFINE labels == {q \in DOMAIN m : m[q] = m[p]}
    <2>4. OriginalLabel(s, m, m[p])
            = CHOOSE q \in labels : \A r \in labels : Rank(s, r) <= Rank(s, q)
      BY <2>2 DEF OriginalLabel
    <2>5. p \in labels /\ \A r \in labels : Rank(s, r) <= Rank(s, p)
      BY <2>2, <2>3
    <2>6. OriginalLabel(s, m, m[p]) \in labels
      <3> HIDE DEF labels
      <3> QED BY <2>4, <2>5
    <2> QED
      BY <2>1, <2>2, <2>6
  <1>2. CASE p \notin DOMAIN m
    <2>1. Rename(m)[p] = p
      BY <1>0, <1>2 DEF Rename
    <2>2. {q \in DOMAIN m : m[q] = p} = {}
      BY <1>0, PeopleAssumption DEF Faithful
    <2> QED
      BY <2>1, <2>2 DEF OriginalLabel
  <1> QED
    BY <1>1, <1>2

-----------------------------------------------------------------------------
(* The loop of analyse_participation. *)

LEMMA SegmentsType ==
  ASSUME NEW who \in SUBSET (People \cup {NoSpeaker}), NEW lengths \in SUBSET Int,
         NEW n \in Nat, NEW u \in Segments(who, lengths, n)
  PROVE  /\ u \in Seq(SegmentType)
         /\ \A k \in 1 .. Len(u) : u[k].speaker \in who
  <1> DEFINE R == [speaker : who, length : lengths]
  <1>1. PICK k \in 0 .. n : u \in [1 .. k -> R]
    BY DEF Segments
  <1>2. \A r \in R : r.speaker \in who /\ r \in SegmentType
    BY DEF SegmentType
  <1> HIDE DEF R
  <1>3. u \in [1 .. k -> SegmentType]
    BY <1>1, <1>2
  <1>4. k \in Nat /\ u \in Seq(SegmentType) /\ Len(u) = k
    BY <1>3
  <1>5. \A i \in 1 .. Len(u) : u[i].speaker \in who
    BY <1>1, <1>2, <1>4
  <1> QED
    BY <1>4, <1>5

(* The turns of the LLM are segments like any others. *)
LEMMA TurnsType == Turns \subseteq Seq(SegmentType)
  <1>1. /\ People \cup {NoSpeaker} \in SUBSET (People \cup {NoSpeaker})
        /\ {Spoken(n) : n \in Lengths} \in SUBSET Int
    BY LengthsAssumption DEF Spoken
  <1> QED
    BY <1>1, BoundsAssumption, SegmentsType DEF Turns

LEMMA EmptyType == Empty \in Tallies /\ Heard(Empty) = {}
  BY DEF Empty, Tallies, Heard

(* One more segment keeps a tally a tally, tied to its segments. *)
LEMMA AddCounts ==
  ASSUME TypeOK, Counted, position < Len(input)
  PROVE  LET t == Add(tally, position + 1, input[position + 1])
         IN /\ t \in Tallies
            /\ \A p \in People : t.turns[p] = 0 => t.time[p] = 0
            /\ \A p \in Heard(t) : /\ t.first[p] \in 1 .. position + 1
                                   /\ input[t.first[p]].speaker = p
  <1> DEFINE seg == input[position + 1]
             who == seg.speaker
             t == Add(tally, position + 1, seg)
  <1>1. seg \in SegmentType /\ position \in Nat /\ tally \in Tallies
    BY DEF TypeOK
  <1>2. who \in People \cup {NoSpeaker} /\ seg.length \in Int
    BY <1>1 DEF SegmentType
  <1>3. Spoken(seg.length) \in Nat
    BY <1>2 DEF Spoken
  <1>4. CASE who = NoSpeaker
    <2>1. t = tally
      BY <1>4 DEF Add
    <2> QED
      BY <1>1, <2>1 DEF Counted
  <1>5. CASE who # NoSpeaker
    <2>1. who \in People
      BY <1>2, <1>5
    <2>2. /\ tally.time \in [People -> Nat] /\ tally.turns \in [People -> Nat]
          /\ tally.first \in [People -> Nat]
      BY <1>1 DEF Tallies
    <2>3. t = [time  |-> [tally.time EXCEPT ![who] = @ + Spoken(seg.length)],
               turns |-> [tally.turns EXCEPT ![who] = @ + 1],
               first |-> [tally.first EXCEPT ![who] =
                            IF tally.turns[who] = 0 THEN position + 1 ELSE @]]
      BY <1>5 DEF Add
    <2> HIDE DEF t
    <2>4. /\ t.time = [tally.time EXCEPT ![who] = @ + Spoken(seg.length)]
          /\ t.turns = [tally.turns EXCEPT ![who] = @ + 1]
          /\ t.first = [tally.first EXCEPT ![who] =
                          IF tally.turns[who] = 0 THEN position + 1 ELSE @]
      BY <2>3
    <2> HIDE DEF who, seg
    <2>5. t \in Tallies
      <3>1. /\ t.time \in [People -> Nat] /\ t.turns \in [People -> Nat]
            /\ t.first \in [People -> Nat]
        BY <1>1, <1>3, <2>1, <2>2, <2>4
      <3>2. t = [time |-> t.time, turns |-> t.turns, first |-> t.first]
        BY <2>3
      <3> QED
        BY <3>1, <3>2 DEF Tallies
    <2>6. \A p \in People : t.turns[p] = 0 => t.time[p] = 0
      BY <2>1, <2>2, <2>4 DEF Counted
    <2>7. ASSUME NEW p \in Heard(t)
          PROVE  t.first[p] \in 1 .. position + 1 /\ input[t.first[p]].speaker = p
      <3>0. p \in People /\ t.turns[p] > 0
        BY <2>7 DEF Heard
      <3>1. CASE p = who /\ tally.turns[who] = 0
        <4>1. t.first[p] = position + 1
          BY <2>2, <2>4, <3>0, <3>1
        <4> QED
          BY <1>1, <3>1, <4>1 DEF who, seg
      <3>2. CASE ~(p = who /\ tally.turns[who] = 0)
        <4>1. t.first[p] = tally.first[p] /\ tally.turns[p] > 0
          BY <2>1, <2>2, <2>4, <3>0, <3>2
        <4>2. p \in Heard(tally)
          BY <3>0, <4>1 DEF Heard
        <4>3. tally.first[p] \in 1 .. position /\ input[tally.first[p]].speaker = p
          BY <4>2 DEF Counted
        <4> QED
          BY <1>1, <4>1, <4>3
      <3> QED
        BY <3>1, <3>2
    <2> QED
      BY <2>5, <2>6, <2>7 DEF t, who, seg
  <1> QED
    BY <1>4, <1>5

(* A finished loop leaves no analysis, or an orderly one of somebody.      *)
LEMMA AnalysisOrderly ==
  ASSUME TypeOK, Counted
  PROVE  \/ Analysis(tally) = None
         \/ /\ Analysis(tally) = tally
            /\ tally \in Tallies /\ Orderly(tally) /\ Heard(tally) # {}
  <1>1. tally \in Tallies
    BY DEF TypeOK
  <1>2. \A p \in People : tally.turns[p] \in Nat
    BY <1>1 DEF Tallies
  <1>3. Orderly(tally)
    BY DEF Counted, Orderly
  <1>4. CASE \A p \in People : tally.time[p] = 0
    <2>1. Analysis(tally) = None
      BY <1>4 DEF Analysis
    <2> QED
      BY <2>1
  <1>5. CASE \E p \in People : tally.time[p] # 0
    <2>1. PICK p \in People : tally.time[p] # 0
      BY <1>5
    <2>2. tally.turns[p] > 0
      BY <1>2, <2>1 DEF Counted
    <2>3. Heard(tally) # {}
      BY <2>2 DEF Heard
    <2>4. Analysis(tally) = tally
      BY <2>1 DEF Analysis
    <2> QED
      BY <1>1, <1>3, <2>3, <2>4
  <1> QED
    BY <1>4, <1>5

(* In layer 1 only labels are counted. *)
LEMMA OnlyLabelsCounted ==
  ASSUME TypeOK, Counted, GenericTranscript, input = transcript.segments
  PROVE  Heard(tally) \subseteq Labels
  <1> SUFFICES ASSUME NEW p \in Heard(tally) PROVE p \in Labels
    OBVIOUS
  <1>1. p \in People /\ p # NoSpeaker
    BY PeopleAssumption DEF Heard
  <1>2. tally.first[p] \in 1 .. position /\ input[tally.first[p]].speaker = p
    BY DEF Counted
  <1>3. position \in 0 .. Len(input) /\ Len(input) \in Nat
    BY DEF TypeOK
  <1>4. tally.first[p] \in 1 .. Len(input)
    BY <1>2, <1>3
  <1> QED
    BY <1>1, <1>2, <1>4 DEF GenericTranscript

-----------------------------------------------------------------------------
(* The statistics that are made from a list. *)

LEMMA StatsTyped ==
  ASSUME NEW t \in Tallies, Heard(t) # {}, NEW shown \in [People -> People],
         NEW method \in Methods
  PROVE  Stats(t, shown, method) \in StatsType
  <1>1. Top(t) \in People
    BY TopSpokeMost DEF Heard
  <1>2. shown[Top(t)] \in People
    BY <1>1
  <1> QED
    BY <1>2 DEF Stats, StatsType

LEMMA CorrectedTyped ==
  ASSUME NEW st, NEW m, NEW v \in Mappings,
         st.tally \in Tallies, Heard(st.tally) # {}, st.shown \in [People -> People]
  PROVE  Corrected(st, m, v) \in StatsType
  <1> DEFINE shown == [p \in People |->
                         LET label == OriginalLabel(st.tally, m, st.shown[p])
                         IN IF label \in DOMAIN v THEN v[label] ELSE st.shown[p]]
  <1>1. \A x \in DOMAIN v : v[x] \in People
    BY DEF Mappings
  <1>2. \A p \in People : st.shown[p] \in People
    OBVIOUS
  <1>3. shown \in [People -> People]
    BY <1>1, <1>2
  <1>4. Corrected(st, m, v) = Stats(st.tally, shown, "verified")
    BY DEF Corrected
  <1> HIDE DEF shown
  <1> QED
    BY <1>3, <1>4, StatsTyped DEF Methods

(* The mapping of a merge, when layer 1 has only labels. *)
LEMMA NameMapFaithful ==
  ASSUME NEW s \in Tallies, NEW t \in Tallies, Orderly(s), Heard(s) \subseteq Labels
  PROVE  Faithful(s, NameMap(s, t)) /\ NameMap(s, t) \in Mappings
  <1> DEFINE m == NameMap(s, t)
  <1>1. /\ m = [p \in DOMAIN m |-> m[p]]
        /\ DOMAIN m \subseteq Heard(s)
        /\ \A p \in DOMAIN m : m[p] \in Names
        /\ \A p, q \in DOMAIN m : m[p] = m[q] => p = q
    BY NameMapDistinct
  <1> HIDE DEF m
  <1>2. Faithful(s, m)
    BY <1>1 DEF Faithful
  <1>3. DOMAIN m \in SUBSET Labels
    BY <1>1
  <1>4. m \in [DOMAIN m -> People]
    BY <1>1 DEF People
  <1>5. m \in Mappings
    BY <1>3, <1>4 DEF Mappings
  <1> QED
    BY <1>2, <1>5 DEF m

-----------------------------------------------------------------------------
LEMMA InitInv == Init => SInv
  <1> SUFFICES ASSUME Init PROVE SInv
    OBVIOUS
  <1>1. /\ transcript.diarised \in BOOLEAN
        /\ transcript = [diarised |-> transcript.diarised, segments |-> transcript.segments]
        /\ \/ transcript.segments \in Segments(Labels, Lengths, MaxSegments)
           \/ transcript.segments \in Segments({NoSpeaker}, Lengths, MaxSegments)
    BY DEF Init, Transcripts
  <1>2. /\ transcript.segments \in Seq(SegmentType)
        /\ GenericTranscript
    <2>1. PICK who \in SUBSET (Labels \cup {NoSpeaker}) :
            transcript.segments \in Segments(who, Lengths, MaxSegments)
      BY <1>1
    <2>2. who \in SUBSET (People \cup {NoSpeaker}) /\ Lengths \in SUBSET Int
      BY LengthsAssumption DEF People
    <2>3. /\ transcript.segments \in Seq(SegmentType)
          /\ \A k \in 1 .. Len(transcript.segments) : transcript.segments[k].speaker \in who
      BY <2>1, <2>2, BoundsAssumption, SegmentsType
    <2> QED
      BY <2>3 DEF GenericTranscript
  <1>3. NoMapping \in Mappings
    BY DEF NoMapping, Mappings
  <1>4. TypeOK
    <2>1. transcript \in [diarised : BOOLEAN, segments : Seq(SegmentType)]
      BY <1>1, <1>2
    <2>2. input = << >> /\ position = 0 /\ input \in Seq(SegmentType)
          /\ position \in 0 .. Len(input)
      BY DEF Init
    <2> QED
      BY <1>3, <2>1, <2>2, EmptyType DEF Init, TypeOK, Outcomes
  <1>5. Counted
    BY EmptyType DEF Init, Counted, Empty
  <1>6. LayersOrderly /\ StatsStage
    BY DEF Init, LayersOrderly, StatsStage
  <1> QED
    BY <1>2, <1>4, <1>5, <1>6 DEF SInv

(* A new analysis starts with nothing counted. *)
LEMMA AnalyseCounts ==
  ASSUME NEW u \in Seq(SegmentType), Analyse(u)
  PROVE  /\ Counted'
         /\ input' \in Seq(SegmentType) /\ position' \in 0 .. Len(input') /\ tally' \in Tallies
  BY EmptyType DEF Analyse, Counted, Empty

(* Steps that leave the statistics and both layers alone. *)
Quiet == UNCHANGED <<transcript, stt, text, stats, mapping, verified>>

LEMMA QuietKeepsStats ==
  ASSUME SInv, Quiet, pc \notin {"verify", "done"}, pc' # "verify"
  PROVE  StatsStage' /\ GenericTranscript'
  <1>1. verified = NoMapping /\ stats = None /\ mapping = NoMapping
    BY DEF SInv, StatsStage
  <1> QED
    BY <1>1 DEF SInv, Quiet, StatsStage, GenericTranscript

LEMMA CheckTextKeeps == SInv /\ CheckText => SInv'
  <1> SUFFICES ASSUME SInv, CheckText PROVE SInv'
    OBVIOUS
  <1>1. TypeOK' /\ Counted' /\ LayersOrderly'
    BY DEF SInv, TypeOK, Counted, LayersOrderly, CheckText, Finish, GoTo, Outcomes, Orderly, Heard
  <1>2. StatsStage' /\ GenericTranscript'
    BY QuietKeepsStats DEF CheckText, Quiet, Finish, GoTo
  <1> QED
    BY <1>1, <1>2 DEF SInv

LEMMA GenerateSummaryKeeps == SInv /\ GenerateSummary => SInv'
  <1> SUFFICES ASSUME SInv, GenerateSummary PROVE SInv'
    OBVIOUS
  <1> USE DEF SInv
  <1>1. transcript.segments \in Seq(SegmentType)
    BY DEF TypeOK
  <1>2. CASE Analyse(transcript.segments) /\ GoTo("layer1")
    <2>1. TypeOK' /\ Counted'
      BY <1>1, <1>2, AnalyseCounts DEF TypeOK, GenerateSummary, GoTo
    <2>2. LayersOrderly'
      BY <1>2 DEF LayersOrderly, GenerateSummary, Analyse, Orderly, Heard
    <2> QED
      BY <1>2, <2>1, <2>2, QuietKeepsStats DEF GenerateSummary, Quiet, GoTo
  <1>3. CASE UNCHANGED <<input, position, tally>> /\ pc' \in {"done", "detect", "merge"}
             /\ outcome' \in Outcomes
    <2>1. TypeOK' /\ Counted' /\ LayersOrderly'
      BY <1>3 DEF TypeOK, Counted, LayersOrderly, GenerateSummary, Orderly, Heard
    <2> QED
      BY <1>3, <2>1, QuietKeepsStats DEF GenerateSummary, Quiet
  <1> QED
    BY <1>2, <1>3 DEF GenerateSummary, Finish, GoTo, AfterLayer1, Outcomes, TypeOK

LEMMA CountSegmentKeeps == SInv /\ CountSegment => SInv'
  <1> SUFFICES ASSUME SInv, CountSegment PROVE SInv'
    OBVIOUS
  <1>1. TypeOK /\ Counted /\ position < Len(input)
    BY DEF SInv, CountSegment
  <1>2. /\ tally' \in Tallies
        /\ \A p \in People : tally'.turns[p] = 0 => tally'.time[p] = 0
        /\ \A p \in Heard(tally') : /\ tally'.first[p] \in 1 .. position'
                                    /\ input[tally'.first[p]].speaker = p
    BY <1>1, AddCounts DEF CountSegment
  <1>3. Counted'
    BY <1>2 DEF Counted, CountSegment
  <1>4. TypeOK'
    BY <1>1, <1>2 DEF TypeOK, CountSegment
  <1>5. LayersOrderly'
    BY DEF SInv, LayersOrderly, CountSegment, Orderly, Heard
  <1>6. StatsStage' /\ GenericTranscript'
    BY QuietKeepsStats DEF CountSegment, Quiet
  <1> QED
    BY <1>3, <1>4, <1>5, <1>6 DEF SInv

LEMMA EndLayer1Keeps == SInv /\ EndLayer1 => SInv'
  <1> SUFFICES ASSUME SInv, EndLayer1 PROVE SInv'
    OBVIOUS
  <1>0. TypeOK /\ Counted /\ GenericTranscript /\ input = transcript.segments
    BY DEF SInv, LayersOrderly, EndLayer1
  <1>1. \/ stt' = None
        \/ /\ stt' = tally /\ tally \in Tallies
           /\ Orderly(tally) /\ Heard(tally) # {} /\ Heard(tally) \subseteq Labels
    BY <1>0, AnalysisOrderly, OnlyLabelsCounted DEF EndLayer1
  <1>2. mapping = NoMapping /\ stats = None /\ verified = NoMapping
    BY DEF SInv, StatsStage, EndLayer1
  <1>3. pc' \in {"detect", "merge"} /\ UNCHANGED outcome
    BY DEF EndLayer1, GoTo, AfterLayer1
  <1>4. TypeOK'
    BY <1>0, <1>1, <1>3 DEF TypeOK, EndLayer1
  <1>5. Counted' /\ GenericTranscript'
    BY <1>0 DEF Counted, GenericTranscript, EndLayer1
  <1>6. LayersOrderly'
    BY <1>1, <1>3 DEF SInv, LayersOrderly, EndLayer1
  <1>7. StatsStage'
    BY <1>2, <1>3 DEF StatsStage, EndLayer1
  <1> QED
    BY <1>4, <1>5, <1>6, <1>7 DEF SInv

LEMMA DetectSpeakersKeeps == SInv /\ DetectSpeakers => SInv'
  <1> SUFFICES ASSUME SInv, DetectSpeakers PROVE SInv'
    OBVIOUS
  <1> USE DEF SInv
  <1>1. transcript.segments \in Seq(SegmentType)
    BY DEF TypeOK
  <1>2. Turns \subseteq Seq(SegmentType)
    BY TurnsType
  <1>3. PICK u \in Seq(SegmentType) : Analyse(u)
    BY <1>1, <1>2 DEF DetectSpeakers
  <1>4. /\ Counted'
        /\ input' \in Seq(SegmentType) /\ position' \in 0 .. Len(input') /\ tally' \in Tallies
    BY <1>3, AnalyseCounts
  <1>5. TypeOK'
    BY <1>4 DEF TypeOK, DetectSpeakers, GoTo
  <1>6. LayersOrderly'
    BY DEF LayersOrderly, DetectSpeakers, GoTo, Orderly, Heard
  <1>7. StatsStage' /\ GenericTranscript'
    BY QuietKeepsStats DEF DetectSpeakers, Quiet, GoTo
  <1> QED
    BY <1>4, <1>5, <1>6, <1>7

LEMMA EndLayer2Keeps == SInv /\ EndLayer2 => SInv'
  <1> SUFFICES ASSUME SInv, EndLayer2 PROVE SInv'
    OBVIOUS
  <1>0. TypeOK /\ Counted
    BY DEF SInv
  <1>1. \/ text' = None
        \/ text' = tally /\ tally \in Tallies /\ Orderly(tally) /\ Heard(tally) # {}
    BY <1>0, AnalysisOrderly DEF EndLayer2
  <1>2. mapping = NoMapping /\ stats = None /\ verified = NoMapping
    BY DEF SInv, StatsStage, EndLayer2
  <1>3. pc' = "merge" /\ UNCHANGED outcome
    BY DEF EndLayer2, GoTo
  <1>4. TypeOK'
    BY <1>0, <1>1, <1>3 DEF TypeOK, EndLayer2
  <1>5. Counted' /\ GenericTranscript'
    BY DEF SInv, Counted, GenericTranscript, EndLayer2
  <1>6. LayersOrderly'
    BY <1>1, <1>3 DEF SInv, LayersOrderly, EndLayer2
  <1>7. StatsStage'
    BY <1>2, <1>3 DEF StatsStage, EndLayer2
  <1> QED
    BY <1>4, <1>5, <1>6, <1>7 DEF SInv

LEMMA UnnamedTyped ==
  ASSUME NEW t \in Tallies, Heard(t) # {}, NEW method \in Methods
  PROVE  /\ Unnamed(t, method) \in StatsType
         /\ Unnamed(t, method).tally = t
         /\ Unnamed(t, method).shown = [p \in People |-> p]
         /\ Unnamed(t, method).mostActive = Unnamed(t, method).shown[Top(t)]
  <1>1. [p \in People |-> p] \in [People -> People]
    OBVIOUS
  <1> QED
    BY <1>1, StatsTyped DEF Unnamed, Stats

LEMMA MergedTyped ==
  ASSUME NEW s \in Tallies, Heard(s) # {}, NEW m, Faithful(s, m)
  PROVE  /\ Merged(s, m) \in StatsType
         /\ Merged(s, m).tally = s
         /\ Merged(s, m).shown = Rename(m)
         /\ Merged(s, m).mostActive = Merged(s, m).shown[Top(s)]
  <1>1. Rename(m) \in [People -> People]
    BY RenamedApart
  <1> QED
    BY <1>1, StatsTyped DEF Merged, Stats, Methods

LEMMA MergeLayersKeeps == SInv /\ MergeLayers => SInv'
  <1> SUFFICES ASSUME SInv, MergeLayers PROVE SInv'
    OBVIOUS
  <1>0. /\ TypeOK /\ Counted /\ GenericTranscript /\ LayersOrderly /\ pc = "merge"
        /\ verified = NoMapping /\ mapping = NoMapping
    BY DEF SInv, StatsStage, MergeLayers
  <1>1. Counted' /\ GenericTranscript' /\ verified' = NoMapping
    BY <1>0 DEF Counted, GenericTranscript, MergeLayers
  <1>2. pc' # "layer1" /\ LayersOrderly'
    BY <1>0 DEF LayersOrderly, MergeLayers, Finish, GoTo
  <1>3. CASE stats' = None /\ UNCHANGED mapping /\ Finish("report")
    <2>1. TypeOK'
      BY <1>0, <1>3 DEF TypeOK, MergeLayers, Finish, Outcomes
    <2>2. StatsStage'
      BY <1>0, <1>1, <1>3 DEF StatsStage, Finish
    <2> QED
      BY <1>1, <1>2, <2>1, <2>2 DEF SInv
  <1>4. ASSUME NEW method \in Methods, NEW t \in {stt, text}, t # None,
               stats' = Unnamed(t, method), mapping' = NoMapping, Finish("report")
        PROVE  SInv'
    <2>1. t \in Tallies /\ Heard(t) # {}
      BY <1>0, <1>4 DEF TypeOK, LayersOrderly
    <2>2. /\ stats' \in StatsType /\ stats'.tally = t
          /\ stats'.shown = [p \in People |-> p]
          /\ stats'.mostActive = stats'.shown[Top(t)]
      BY <1>4, <2>1, UnnamedTyped
    <2>3. TypeOK'
      BY <1>0, <1>4, <2>2 DEF TypeOK, MergeLayers, Finish, Outcomes
    <2>4. StatsStage'
      BY <1>0, <1>1, <1>4, <2>2 DEF StatsStage, Finish, MergeLayers
    <2> QED
      BY <1>1, <1>2, <2>3, <2>4 DEF SInv
  <1>5. CASE /\ stt # None /\ text # None
             /\ mapping' = NameMap(stt, text)
             /\ DOMAIN mapping' # {}
             /\ stats' = Merged(stt, mapping') /\ GoTo("verify")
    <2>1. /\ stt \in Tallies /\ Orderly(stt) /\ Heard(stt) # {} /\ Heard(stt) \subseteq Labels
          /\ text \in Tallies
      BY <1>0, <1>5 DEF TypeOK, LayersOrderly
    <2>2. Faithful(stt, mapping') /\ mapping' \in Mappings
      BY <1>5, <2>1, NameMapFaithful
    <2>3. /\ stats' \in StatsType /\ stats'.tally = stt
          /\ stats'.shown = Rename(mapping')
          /\ stats'.mostActive = stats'.shown[Top(stt)]
      BY <1>5, <2>1, <2>2, MergedTyped
    <2>4. mapping' # NoMapping
      BY <1>5 DEF NoMapping
    <2>5. TypeOK'
      BY <1>0, <1>5, <2>2, <2>3 DEF TypeOK, MergeLayers, GoTo
    <2>6. stt' = stt /\ text' = text /\ pc' = "verify"
      BY <1>5 DEF MergeLayers, GoTo
    <2>7. StatsStage'
      BY <1>1, <1>5, <2>3, <2>4, <2>6 DEF StatsStage
    <2> QED
      BY <1>1, <1>2, <2>5, <2>7 DEF SInv
  <1>6. ASSUME stt # None, text # None, mapping' = NameMap(stt, text), DOMAIN mapping' = {}
        PROVE  mapping' = NoMapping
    BY <1>6 DEF NameMap, NoMapping
  <1> QED
    BY <1>0, <1>3, <1>4, <1>5, <1>6 DEF MergeLayers, Methods

LEMMA VerifyMappingKeeps == SInv /\ VerifyMapping => SInv'
  <1> SUFFICES ASSUME SInv, VerifyMapping PROVE SInv'
    OBVIOUS
  <1>0. /\ TypeOK /\ Counted /\ GenericTranscript /\ LayersOrderly /\ StatsStage
        /\ pc = "verify" /\ pc' = "done" /\ outcome' = "report"
        /\ verified = NoMapping /\ mapping # NoMapping /\ stt # None /\ text # None
        /\ mapping = NameMap(stt, text) /\ stats = Merged(stt, mapping)
    BY DEF SInv, StatsStage, VerifyMapping, Finish
  <1>1. Counted' /\ GenericTranscript' /\ LayersOrderly'
    BY <1>0 DEF Counted, GenericTranscript, LayersOrderly, VerifyMapping, Orderly, Heard
  <1>2. /\ stt \in Tallies /\ Orderly(stt) /\ Heard(stt) # {} /\ Heard(stt) \subseteq Labels
        /\ text \in Tallies
    BY <1>0 DEF TypeOK, LayersOrderly
  <1>3. Faithful(stt, mapping)
    BY <1>0, <1>2, NameMapFaithful
  <1>4. /\ stats \in StatsType /\ stats.tally = stt /\ stats.shown = Rename(mapping)
        /\ stats.mostActive = stats.shown[Top(stt)]
    BY <1>0, <1>2, <1>3, MergedTyped
  <1>5. CASE UNCHANGED verified /\ stats' \in {stats, [stats EXCEPT !.method = "verified"]}
    <2>1. /\ stats' \in StatsType /\ stats'.tally = stt /\ stats'.shown = Rename(mapping)
          /\ stats'.mostActive = stats'.shown[Top(stt)]
      BY <1>4, <1>5 DEF StatsType, Methods
    <2>2. TypeOK'
      BY <1>0, <1>5, <2>1 DEF TypeOK, VerifyMapping, Outcomes
    <2>3. StatsStage'
      BY <1>0, <1>5, <2>1 DEF StatsStage, VerifyMapping
    <2> QED
      BY <1>1, <2>2, <2>3 DEF SInv
  <1>6. ASSUME NEW v \in Mappings \ {NoMapping}, verified' = v,
               stats' = Corrected(stats, mapping, v)
        PROVE  SInv'
    <2>1. stats' \in StatsType
      BY <1>2, <1>4, <1>6, CorrectedTyped DEF StatsType
    <2>2. stats'.tally = stt /\ stats'.mostActive = stats'.shown[Top(stt)]
      BY <1>4, <1>6 DEF Corrected, Stats
    <2>3. TypeOK'
      BY <1>0, <1>6, <2>1 DEF TypeOK, VerifyMapping, Outcomes
    <2>4. StatsStage'
      BY <1>0, <1>6, <2>1, <2>2 DEF StatsStage, VerifyMapping
    <2> QED
      BY <1>1, <2>3, <2>4 DEF SInv
  <1> QED
    BY <1>5, <1>6 DEF VerifyMapping

-----------------------------------------------------------------------------
(* Layer 2 on the segments of layer 1.                                     *)

(* One more segment keeps a tally complete. *)
LEMMA AddCompletes ==
  ASSUME TypeOK, Complete, CountSegment
  PROVE  Complete'
  <1> DEFINE seg == input[position + 1]
             who == seg.speaker
  <1>0. /\ seg \in SegmentType /\ position \in Nat /\ tally \in Tallies
        /\ position' = position + 1 /\ input' = input
        /\ tally' = Add(tally, position + 1, seg)
    BY DEF TypeOK, CountSegment
  <1>1. who \in People \cup {NoSpeaker} /\ seg.length \in Int
    BY <1>0 DEF SegmentType
  <1>2. CASE who = NoSpeaker
    <2>1. tally' = tally /\ who \notin People
      BY <1>0, <1>2, PeopleAssumption DEF Add
    <2> QED
      BY <1>0, <2>1 DEF Complete
  <1>3. CASE who \in People
    <2>1. /\ tally.time \in [People -> Nat] /\ tally.turns \in [People -> Nat]
          /\ who # NoSpeaker
      BY <1>0, <1>3, PeopleAssumption DEF Tallies
    <2>2. /\ tally'.time = [tally.time EXCEPT ![who] = @ + Spoken(seg.length)]
          /\ tally'.turns = [tally.turns EXCEPT ![who] = @ + 1]
      BY <1>0, <2>1 DEF Add
    <2>3. Spoken(seg.length) \in Nat /\ (Spoken(seg.length) > 0 <=> seg.length > 0)
      BY <1>1 DEF Spoken
    <2>4. \A p \in People : /\ tally'.turns[p] = tally.turns[p] + (IF p = who THEN 1 ELSE 0)
                            /\ tally'.time[p] = tally.time[p] + (IF p = who THEN Spoken(seg.length) ELSE 0)
                            /\ tally.turns[p] \in Nat /\ tally.time[p] \in Nat
      BY <1>3, <2>1, <2>2, <2>3
    <2>5. ASSUME NEW k \in 1 .. position + 1, input[k].speaker \in People
          PROVE  /\ tally'.turns[input[k].speaker] > 0
                 /\ input[k].length > 0 => tally'.time[input[k].speaker] > 0
      <3>1. CASE k = position + 1
        BY <1>3, <2>3, <2>4, <3>1
      <3>2. CASE k \in 1 .. position
        BY <2>3, <2>4, <2>5, <3>2 DEF Complete
      <3> QED
        BY <1>0, <3>1, <3>2
    <2>6. ASSUME NEW p \in People, tally'.time[p] > 0
          PROVE  \E k \in 1 .. position + 1 : input[k].speaker = p /\ input[k].length > 0
      <3>1. CASE p = who /\ seg.length > 0
        BY <1>0, <3>1
      <3>2. CASE ~(p = who /\ seg.length > 0)
        <4>1. tally.time[p] > 0
          BY <2>3, <2>4, <2>6, <3>2
        <4>2. PICK k \in 1 .. position : input[k].speaker = p /\ input[k].length > 0
          BY <4>1 DEF Complete
        <4> QED
          BY <1>0, <4>2
      <3> QED
        BY <3>1, <3>2
    <2> QED
      BY <1>0, <2>5, <2>6 DEF Complete
  <1> QED
    BY <1>1, <1>2, <1>3

LEMMA VoicesAreLabels == ASSUME GenericTranscript PROVE Voices \subseteq Labels
  BY DEF GenericTranscript, Voices

(* A finished loop over the transcript: who is on the list, and when there *)
(* is none.                                                                *)
LEMMA TranscriptCounted ==
  ASSUME TypeOK, Counted, Complete, GenericTranscript,
         input = transcript.segments, position = Len(input)
  PROVE  /\ Heard(tally) = Voices
         /\ Analysis(tally) = None <=> Silent
         /\ Analysis(tally) # None => Analysis(tally) = tally
  <1>0. /\ tally \in Tallies
        /\ \A p \in People : tally.turns[p] \in Nat /\ tally.time[p] \in Nat
        /\ \A k \in 1 .. Len(input) : input[k] \in SegmentType
    BY DEF TypeOK, Tallies
  <1>1. \A k \in 1 .. Len(input) : /\ input[k].speaker \in People \cup {NoSpeaker}
                                   /\ input[k].length \in Int
    BY <1>0 DEF SegmentType
  <1>2. Heard(tally) = Voices
    <2>1. ASSUME NEW p \in Heard(tally) PROVE p \in Voices
      <3>1. p # NoSpeaker
        BY PeopleAssumption DEF Heard
      <3>2. tally.first[p] \in 1 .. position /\ input[tally.first[p]].speaker = p
        BY DEF Counted
      <3> QED
        BY <3>1, <3>2 DEF Voices
    <2>2. ASSUME NEW p \in Voices PROVE p \in Heard(tally)
      <3>1. PICK k \in 1 .. position : input[k].speaker = p
        BY DEF Voices
      <3>2. p \in People
        BY VoicesAreLabels DEF People
      <3> QED
        BY <3>1, <3>2 DEF Complete, Heard
    <2> QED
      BY <2>1, <2>2
  <1>3. ASSUME Analysis(tally) = None PROVE Silent
    <2>1. \A p \in People : tally.time[p] = 0
      BY <1>0, <1>3, NoneAssumption DEF Analysis
    <2> QED
      BY <1>1, <2>1 DEF Complete, Silent
  <1>4. ASSUME Silent PROVE Analysis(tally) = None
    <2>1. ASSUME NEW p \in People, tally.time[p] # 0 PROVE FALSE
      <3>1. PICK k \in 1 .. position : input[k].speaker = p /\ input[k].length > 0
        BY <1>0, <2>1 DEF Complete
      <3> QED
        BY <1>1, <1>4, <3>1, PeopleAssumption DEF Silent
    <2> QED
      BY <2>1 DEF Analysis
  <1>5. Analysis(tally) # None => Analysis(tally) = tally
    BY DEF Analysis
  <1> QED
    BY <1>2, <1>3, <1>4, <1>5

LEMMA InitDetection == Init => DetectionInv
  <1> SUFFICES ASSUME Init PROVE DetectionInv
    OBVIOUS
  <1>1. Complete
    BY DEF Init, Complete, Empty
  <1>2. ~transcript.diarised => Voices = {}
    <2> SUFFICES ASSUME ~transcript.diarised PROVE Voices = {}
      OBVIOUS
    <2>1. transcript.segments \in Segments({NoSpeaker}, Lengths, MaxSegments)
      BY DEF Init, Transcripts
    <2>2. \A k \in 1 .. Len(transcript.segments) : transcript.segments[k].speaker \in {NoSpeaker}
      BY <2>1, LengthsAssumption, BoundsAssumption, SegmentsType
    <2> QED
      BY <2>2 DEF Voices
  <1> QED
    BY <1>1, <1>2, NoneAssumption DEF Init, DetectionInv, SameSegments, FailedDetectionHarmless

(* A new analysis has counted everything it has seen. *)
LEMMA AnalyseCompletes == ASSUME NEW u, Analyse(u) PROVE Complete'
  BY DEF Analyse, Complete, Empty

LEMMA DetectionStep == SInv /\ DetectionInv /\ [Next]_vars => DetectionInv'
  <1> SUFFICES ASSUME SInv, DetectionInv, [Next]_vars PROVE DetectionInv'
    OBVIOUS
  <1>0. /\ TypeOK /\ Counted /\ GenericTranscript /\ LayersOrderly
        /\ Complete /\ SameSegments /\ FailedDetectionHarmless
    BY DEF SInv, DetectionInv
  <1>1. CASE UNCHANGED vars
    BY <1>0, <1>1 DEF vars, DetectionInv, Complete, SameSegments, FailedDetectionHarmless,
                      Voices, Silent, Heard
  <1>2. CASE CheckText
    BY <1>0, <1>2, NoneAssumption DEF CheckText, Finish, GoTo, DetectionInv, Complete, SameSegments,
       FailedDetectionHarmless, Voices, Silent, Heard
  <1>3. CASE GenerateSummary
    <2>0. /\ stt = None /\ text = None /\ outcome = None /\ outcome' # "report"
          /\ UNCHANGED <<transcript, stt, text, detected, stats>>
      BY <1>0, <1>3, NoneAssumption DEF SameSegments, GenerateSummary, Finish, GoTo
    <2>1. Complete'
      BY <1>0, <1>3, AnalyseCompletes DEF GenerateSummary, Complete
    <2>2. ~(transcript.diarised /\ transcript.segments # << >>) => Silent
      <3>1. CASE ~transcript.diarised
        BY <1>0, <3>1 DEF SameSegments, Voices, Silent
      <3>2. CASE transcript.segments = << >>
        BY <3>2 DEF Silent
      <3> QED
        BY <3>1, <3>2
    <2>3. SameSegments'
      BY <1>0, <1>3, <2>0, <2>2 DEF SameSegments, GenerateSummary, Finish, GoTo, AfterLayer1,
                                    Voices, Silent
    <2> QED
      BY <2>0, <2>1, <2>3 DEF DetectionInv, FailedDetectionHarmless
  <1>4. CASE CountSegment
    <2>1. Complete'
      BY <1>0, <1>4, AddCompletes
    <2>2. SameSegments' /\ FailedDetectionHarmless'
      BY <1>0, <1>4 DEF SameSegments, CountSegment, Voices, Silent, FailedDetectionHarmless, Heard
    <2> QED
      BY <2>1, <2>2 DEF DetectionInv
  <1>5. CASE EndLayer1
    <2>0. /\ input = transcript.segments /\ position = Len(input) /\ stt' = Analysis(tally)
          /\ text' = None /\ pc' \in {"detect", "merge"}
          /\ outcome = None /\ outcome' = None
          /\ UNCHANGED <<transcript, input, position, tally, detected>>
      BY <1>0, <1>5 DEF SameSegments, LayersOrderly, EndLayer1, GoTo, AfterLayer1
    <2>1. IF stt' = None THEN Silent ELSE stt' = tally /\ Voices = Heard(tally)
      BY <1>0, <2>0, TranscriptCounted
    <2>2. SameSegments'
      BY <1>0, <2>0, <2>1 DEF SameSegments, Voices, Silent, Heard
    <2> QED
      BY <1>0, <2>0, <2>2, NoneAssumption DEF DetectionInv, Complete, FailedDetectionHarmless
  <1>6. CASE DetectSpeakers
    <2>0. /\ pc = "detect" /\ pc' = "layer2" /\ outcome = None /\ outcome' = None
          /\ UNCHANGED <<transcript, stt, text>>
          /\ detected' \/ input' = transcript.segments
      BY <1>0, <1>6 DEF SameSegments, DetectSpeakers, GoTo, Analyse
    <2>1. Complete'
      BY <1>6, AnalyseCompletes DEF DetectSpeakers
    <2>2. SameSegments'
      BY <1>0, <2>0 DEF SameSegments, Voices, Silent, Heard
    <2> QED
      BY <2>0, <2>1, <2>2, NoneAssumption DEF DetectionInv, FailedDetectionHarmless
  <1>7. CASE EndLayer2
    <2>0. /\ pc = "layer2" /\ pc' = "merge" /\ position = Len(input) /\ text' = Analysis(tally)
          /\ outcome = None /\ outcome' = None
          /\ UNCHANGED <<transcript, input, position, tally, stt, detected>>
      BY <1>0, <1>7 DEF SameSegments, EndLayer2, GoTo
    <2>1. ASSUME ~detected, text' # None
          PROVE  stt # None /\ Heard(text') \subseteq Heard(stt)
      <3>1. input = transcript.segments
        BY <1>0, <2>0, <2>1 DEF SameSegments
      <3>2. Heard(tally) = Voices /\ ~Silent /\ text' = tally
        BY <1>0, <2>0, <2>1, <3>1, TranscriptCounted
      <3> QED
        BY <1>0, <2>0, <3>2 DEF SameSegments
    <2>2. SameSegments'
      BY <1>0, <2>0, <2>1 DEF SameSegments, Voices, Silent, Heard
    <2> QED
      BY <1>0, <2>0, <2>2, NoneAssumption DEF DetectionInv, Complete, FailedDetectionHarmless
  <1>8. CASE MergeLayers
    <2>0. /\ pc = "merge" /\ UNCHANGED <<transcript, input, position, tally, stt, text, detected>>
          /\ outcome = None /\ pc' \in {"verify", "done"}
      BY <1>0, <1>8 DEF SameSegments, MergeLayers, Finish, GoTo
    <2>1. Complete'
      BY <1>0, <2>0 DEF Complete
    <2>2. CASE detected
      <3>1. pc' = "verify" => outcome' = None
        BY <1>8, <2>0 DEF MergeLayers, GoTo, Finish
      <3>2. SameSegments'
        BY <1>0, <2>0, <2>2, <3>1 DEF SameSegments, Voices
      <3> QED
        BY <2>0, <2>1, <2>2, <3>2 DEF DetectionInv, FailedDetectionHarmless
    <2>3. CASE ~detected /\ stt = None
      <3>1. text = None
        BY <1>0, <2>0, <2>3 DEF SameSegments
      <3>2. stats' = None /\ pc' = "done"
        BY <1>8, <2>3, <3>1 DEF MergeLayers, Finish
      <3> QED
        BY <1>0, <2>0, <2>1, <2>3, <3>2 DEF DetectionInv, SameSegments, FailedDetectionHarmless, Voices
    <2>4. CASE ~detected /\ stt # None
      <3>1. text # None => Heard(text) \subseteq Heard(stt) /\ Heard(stt) \subseteq Labels
        BY <1>0, <2>0, <2>4 DEF SameSegments, LayersOrderly
      <3>2. text # None => ~SttFailed
        <4> SUFFICES ASSUME text # None, SttFailed PROVE FALSE
          OBVIOUS
        <4>1. Heard(stt) \in SUBSET People /\ IsFiniteSet(Heard(stt))
          BY PeopleAssumption, FS_Subset DEF Heard
        <4>2. /\ Cardinality(Heard(text)) <= Cardinality(Heard(stt))
              /\ Cardinality(Heard(stt)) \in Nat /\ Cardinality(Heard(text)) \in Nat
          BY <3>1, <4>1, FS_Subset, FS_CardinalityType
        <4> QED
          BY <4>2 DEF SttFailed
      <3>3. text # None => DOMAIN NameMap(stt, text) = {}
        <4> SUFFICES ASSUME text # None PROVE DOMAIN NameMap(stt, text) = {}
          OBVIOUS
        <4>1. \A p : NameFor(stt, text, p) = {}
          BY <3>1 DEF NameFor
        <4> QED
          BY <4>1 DEF NameMap
      <3>4. stats' = Unnamed(stt, "stt") /\ pc' = "done"
        BY <1>8, <2>4, <3>2, <3>3 DEF MergeLayers, Finish
      <3> QED
        BY <1>0, <2>0, <2>1, <2>4, <3>4 DEF DetectionInv, SameSegments, FailedDetectionHarmless, Voices,
                                            Unnamed, Stats, Top, Rank, Heard, Ahead
    <2> QED
      BY <2>2, <2>3, <2>4
  <1>9. CASE VerifyMapping
    BY <1>0, <1>9 DEF VerifyMapping, Finish, DetectionInv, Complete, SameSegments,
                      FailedDetectionHarmless, Voices
  <1> QED
    BY <1>1, <1>2, <1>3, <1>4, <1>5, <1>6, <1>7, <1>8, <1>9 DEF Next

-----------------------------------------------------------------------------
LEMMA StepInv == SInv /\ [Next]_vars => SInv'
  <1> SUFFICES ASSUME SInv, [Next]_vars PROVE SInv'
    OBVIOUS
  <1>1. CASE UNCHANGED vars
    BY <1>1 DEF SInv, vars, TypeOK, Counted, GenericTranscript, LayersOrderly, StatsStage,
                Orderly, Heard
  <1> QED
    BY <1>1, CheckTextKeeps, GenerateSummaryKeeps, CountSegmentKeeps, EndLayer1Keeps,
       DetectSpeakersKeeps, EndLayer2Keeps, MergeLayersKeeps, VerifyMappingKeeps DEF Next

(* Summarisation keeps SInv: every list of statistics can be ranked, and   *)
(* speaker_stats is one of the analyses of generate_report, under the      *)
(* names merge_speaker_names or the verification gave it.                  *)
THEOREM SummarisationInvariant == Spec => []SInv
  BY InitInv, StepInv, PTL DEF Spec

(* Summarisation keeps TypeOK. *)
THEOREM SummarisationTypeCorrect == Spec => []TypeOK
  <1>1. SInv => TypeOK
    BY DEF SInv
  <1> QED
    BY <1>1, SummarisationInvariant, PTL

(* Two voices are never shown under one name before the verification: the  *)
(* mapping of merge_speaker_names goes by rank, and a rank is one voice's. *)
THEOREM SpeakersStayApart == Spec => []SpeakersApart
  <1>1. SInv => SpeakersApart
    <2> SUFFICES ASSUME SInv, stats # None, verified = NoMapping,
                        NEW p \in Heard(stats.tally), NEW q \in Heard(stats.tally),
                        stats.shown[p] = stats.shown[q]
                 PROVE  p = q
      BY DEF SpeakersApart
    <2>0. p \in People /\ q \in People
      BY DEF Heard
    <2>1. CASE stats.shown = [x \in People |-> x]
      BY <2>0, <2>1
    <2>2. CASE mapping # NoMapping /\ stats.tally = stt /\ stats.shown = Rename(mapping)
      <3>1. /\ stt \in Tallies /\ text \in Tallies
            /\ Orderly(stt) /\ Heard(stt) \subseteq Labels /\ mapping = NameMap(stt, text)
        BY <2>2 DEF SInv, TypeOK, LayersOrderly, StatsStage
      <3>2. Faithful(stt, mapping)
        BY <3>1, NameMapFaithful
      <3> QED
        BY <2>2, <3>1, <3>2, RenamedApart
    <2> QED
      BY <2>1, <2>2 DEF SInv, StatsStage
  <1> QED
    BY <1>1, SummarisationInvariant, PTL

(* A correction of _verify_speaker_mapping is applied to the voice of the  *)
(* label it names, and to no other.                                        *)
THEOREM CorrectionsAreRouted == Spec => []CorrectionsHitTheirSpeaker
  <1>1. SInv => CorrectionsHitTheirSpeaker
    <2> SUFFICES ASSUME SInv, verified # NoMapping, NEW p \in Heard(stats.tally)
                 PROVE  stats.shown[p] = IF p \in DOMAIN verified THEN verified[p]
                                         ELSE IF p \in DOMAIN mapping THEN mapping[p] ELSE p
      BY DEF CorrectionsHitTheirSpeaker
    <2>1. /\ mapping = NameMap(stt, text) /\ stt # None /\ text # None
          /\ stats = Corrected(Merged(stt, mapping), mapping, verified)
      BY DEF SInv, StatsStage
    <2>2. /\ stt \in Tallies /\ text \in Tallies
          /\ Orderly(stt) /\ Heard(stt) # {} /\ Heard(stt) \subseteq Labels
      BY <2>1 DEF SInv, TypeOK, LayersOrderly
    <2>3. Faithful(stt, mapping)
      BY <2>1, <2>2, NameMapFaithful
    <2>4. Merged(stt, mapping).tally = stt /\ Merged(stt, mapping).shown = Rename(mapping)
      BY <2>2, <2>3, MergedTyped
    <2>5. stats.tally = stt
      BY <2>1, <2>4 DEF Corrected, Stats
    <2>6. p \in Heard(stt) /\ p \in People
      BY <2>5 DEF Heard
    <2>7. stats.shown[p] = LET label == OriginalLabel(stt, mapping, Rename(mapping)[p])
                           IN IF label \in DOMAIN verified THEN verified[label]
                              ELSE Rename(mapping)[p]
      BY <2>1, <2>4, <2>6 DEF Corrected, Stats
    <2>8. OriginalLabel(stt, mapping, Rename(mapping)[p]) = p
      BY <2>2, <2>3, <2>6, LookupFindsLabel
    <2>9. Rename(mapping)[p] = IF p \in DOMAIN mapping THEN mapping[p] ELSE p
      BY <2>6 DEF Rename
    <2> QED
      BY <2>7, <2>8, <2>9
  <1> QED
    BY <1>1, SummarisationInvariant, PTL

(* The most active speaker of a report is on its list, and nobody on the   *)
(* list spoke longer.                                                      *)
THEOREM MostActiveIsTop == Spec => []MostActiveSpokeMost
  <1>1. SInv => MostActiveSpokeMost
    <2> SUFFICES ASSUME SInv, stats # None
                 PROVE  \E p \in Heard(stats.tally) :
                          /\ stats.mostActive = stats.shown[p]
                          /\ \A q \in Heard(stats.tally) : stats.tally.time[q] <= stats.tally.time[p]
      BY DEF MostActiveSpokeMost
    <2>1. /\ stats.tally \in Tallies /\ Heard(stats.tally) # {}
          /\ stats.mostActive = stats.shown[Top(stats.tally)]
      BY DEF SInv, TypeOK, LayersOrderly, StatsStage
    <2> QED
      BY <2>1, TopSpokeMost
  <1> QED
    BY <1>1, SummarisationInvariant, PTL

(* A detection of speakers that fails leaves the report with what the      *)
(* diarisation measured, under its labels: the transcript's own segments,  *)
(* which detect_speakers_from_text returns, add no voice and no name.      *)
THEOREM FailedDetectionIsHarmless == Spec => []FailedDetectionHarmless
  <1>1. DetectionInv => FailedDetectionHarmless
    BY DEF DetectionInv
  <1> QED
    BY <1>1, InitDetection, DetectionStep, SummarisationInvariant, PTL DEF Spec

-----------------------------------------------------------------------------
(* TallyAddsUp.  The sum is a recursive function, so that it is what its   *)
(* equation says has to be shown first, by induction on how far it goes.   *)

(* Induction over the numbers, for a set of them. *)
LEMMA NatSetInduction ==
  ASSUME NEW S, 0 \in S, \A n \in Nat : n \in S => n + 1 \in S
  PROVE  Nat \subseteq S
  <1> DEFINE less == OpToRel(<, Nat)
             rest == Nat \ S
  <1> SUFFICES ASSUME rest # {} PROVE FALSE
    OBVIOUS
  <1>1. PICK n \in rest : \A k \in rest : ~(<<k, n>> \in less)
    <2>1. IsWellFoundedOn(less, Nat)
      BY NatLessThanWellFounded DEF less
    <2>2. rest \subseteq Nat /\ rest # {}
      OBVIOUS
    <2> HIDE DEF less, rest
    <2> QED
      BY <2>1, <2>2, WFMin
  <1>2. n \in Nat /\ n # 0 /\ n \notin S
    OBVIOUS
  <1>3. n - 1 \in Nat /\ n = (n - 1) + 1 /\ n - 1 < n
    BY <1>2
  <1>4. n - 1 \in S
    BY <1>1, <1>3 DEF OpToRel
  <1> QED
    BY <1>2, <1>3, <1>4

(* The running sum of a list satisfies its equation. *)
LEMMA RunningSumStep ==
  ASSUME NEW w \in Seq(Int)
  PROVE  /\ RunningSum(w)[0] = 0
         /\ \A k \in 1 .. Len(w) : RunningSum(w)[k] = RunningSum(w)[k - 1] + w[k]
  <1> DEFINE Sums(g, n) == /\ g \in [0 .. n -> Int]
                           /\ g[0] = 0
                           /\ \A k \in 1 .. n : g[k] = g[k - 1] + w[k]
             S == {n \in Nat : n <= Len(w) => \E g : Sums(g, n)}
  <1>0. Len(w) \in Nat /\ \A k \in 1 .. Len(w) : w[k] \in Int
    OBVIOUS
  <1>1. 0 \in S
    <2>1. Sums([k \in 0 .. 0 |-> 0], 0)
      OBVIOUS
    <2> QED
      BY <2>1
  <1>2. ASSUME NEW n \in Nat, NEW g, n + 1 <= Len(w), Sums(g, n)
        PROVE  \E h : Sums(h, n + 1)
    <2> DEFINE h == [k \in 0 .. n + 1 |-> IF k = n + 1 THEN g[n] + w[n + 1] ELSE g[k]]
    <2>1. w[n + 1] \in Int /\ g[n] \in Int
      BY <1>0, <1>2
    <2>2. h \in [0 .. n + 1 -> Int] /\ h[0] = 0
      BY <1>2, <2>1
    <2>3. ASSUME NEW k \in 1 .. n + 1 PROVE h[k] = h[k - 1] + w[k]
      BY <1>2, <2>1
    <2>4. Sums(h, n + 1)
      BY <2>2, <2>3
    <2> QED
      BY <2>4
  <1>3. \E g : Sums(g, Len(w))
    <2> HIDE DEF Sums
    <2>1. \A n \in Nat : n \in S => n + 1 \in S
      BY <1>0, <1>2
    <2>2. Nat \subseteq S
      <3> HIDE DEF S
      <3> QED BY <1>1, <2>1, NatSetInduction
    <2> QED
      BY <1>0, <2>2
  <1>4. PICK g : Sums(g, Len(w))
    BY <1>3
  <1>5. g = [k \in 0 .. Len(w) |-> IF k = 0 THEN 0 ELSE g[k - 1] + w[k]]
    BY <1>0, <1>4
  <1>6. RunningSum(w) = [k \in 0 .. Len(w) |-> IF k = 0 THEN 0 ELSE RunningSum(w)[k - 1] + w[k]]
    BY <1>5 DEF RunningSum
  <1> HIDE DEF Sums
  <1> QED
    BY <1>0, <1>6

LEMMA SharesType ==
  ASSUME NEW u \in Seq(SegmentType), NEW p
  PROVE  Shares(u, p) \in Seq(Int) /\ Len(Shares(u, p)) = Len(u)
  <1>1. \A k \in 1 .. Len(u) : u[k].length \in Int
    <2> SUFFICES ASSUME NEW k \in 1 .. Len(u) PROVE u[k].length \in Int
      OBVIOUS
    <2>1. u[k] \in SegmentType
      OBVIOUS
    <2> QED
      BY <2>1 DEF SegmentType
  <1>2. Len(u) \in Nat
    OBVIOUS
  <1>3. Shares(u, p) \in [1 .. Len(u) -> Int]
    BY <1>1 DEF Shares
  <1> QED
    BY <1>2, <1>3

(* A list that has just been handed to analyse_participation. *)
LEMMA NothingCounted ==
  ASSUME NEW u \in Seq(SegmentType), NEW p \in People
  PROVE  /\ Empty.turns[p] = Cardinality({k \in 1 .. 0 : u[k].speaker = p})
         /\ Empty.time[p] = RunningSum(Shares(u, p))[0]
  <1>1. {k \in 1 .. 0 : u[k].speaker = p} = {}
    OBVIOUS
  <1>2. RunningSum(Shares(u, p))[0] = 0
    BY SharesType, RunningSumStep
  <1> QED
    BY <1>1, <1>2, FS_EmptySet DEF Empty

(* One more segment: one more turn, and its length, for its speaker.       *)
LEMMA AddAddsUp ==
  ASSUME TypeOK, TallyAddsUp, position < Len(input), NEW p \in People
  PROVE  LET t == Add(tally, position + 1, input[position + 1]) IN
           /\ t.turns[p] = Cardinality({k \in 1 .. position + 1 : input[k].speaker = p})
           /\ t.time[p] = RunningSum(Shares(input, p))[position + 1]
  <1> DEFINE n == position + 1
             t == Add(tally, n, input[n])
             before == {k \in 1 .. position : input[k].speaker = p}
             after == {k \in 1 .. n : input[k].speaker = p}
  <1>0. /\ tally \in Tallies /\ position \in Nat /\ n \in 1 .. Len(input)
        /\ input \in Seq(SegmentType) /\ input[n] \in SegmentType
    BY DEF TypeOK
  <1>1. /\ tally.turns[p] = Cardinality(before)
        /\ tally.time[p] = RunningSum(Shares(input, p))[position]
    BY DEF TallyAddsUp
  <1>2. IsFiniteSet(before) /\ n \notin before
    <2>1. before \in SUBSET (1 .. position) /\ IsFiniteSet(1 .. position)
      BY <1>0, FS_Interval
    <2> QED
      BY <1>0, <2>1, FS_Subset
  <1>3. after = IF input[n].speaker = p THEN before \cup {n} ELSE before
    BY <1>0
  <1>4. Cardinality(after) = tally.turns[p] + (IF input[n].speaker = p THEN 1 ELSE 0)
    <2>1. Cardinality(before) \in Nat
      BY <1>2, FS_CardinalityType
    <2>2. Cardinality(before \cup {n}) = Cardinality(before) + 1
      BY <1>2, FS_AddElement
    <2> HIDE DEF before, after
    <2> QED
      BY <1>1, <1>3, <2>1, <2>2
  <1>5. Shares(input, p)[n] = IF input[n].speaker = p THEN Spoken(input[n].length) ELSE 0
    BY <1>0 DEF Shares, Spoken
  <1>6. RunningSum(Shares(input, p))[n] = tally.time[p] + Shares(input, p)[n]
    <2>1. n \in 1 .. Len(Shares(input, p)) /\ n - 1 = position
      BY <1>0, SharesType
    <2> QED
      BY <1>0, <1>1, <2>1, SharesType, RunningSumStep
  <1>7. /\ t.turns[p] = tally.turns[p] + (IF input[n].speaker = p THEN 1 ELSE 0)
        /\ t.time[p] = tally.time[p] + (IF input[n].speaker = p THEN Spoken(input[n].length) ELSE 0)
    <2>1. /\ tally.turns \in [People -> Nat] /\ tally.time \in [People -> Nat]
          /\ p # NoSpeaker
      BY <1>0, PeopleAssumption DEF Tallies
    <2> QED
      BY <2>1 DEF Add
  <1> HIDE DEF t, after
  <1>8. t.turns[p] = Cardinality(after) /\ t.time[p] = RunningSum(Shares(input, p))[n]
    BY <1>4, <1>5, <1>6, <1>7
  <1> QED
    BY <1>8 DEF t, after

LEMMA TallyInit == Init => TallyAddsUp
  <1> SUFFICES ASSUME Init PROVE TallyAddsUp
    OBVIOUS
  <1>1. input = << >> /\ input \in Seq(SegmentType) /\ position = 0 /\ tally = Empty
    BY DEF Init
  <1> QED
    BY <1>1, NothingCounted DEF TallyAddsUp

LEMMA AnalyseAddsUp ==
  ASSUME NEW u \in Seq(SegmentType), Analyse(u)
  PROVE  TallyAddsUp'
  BY NothingCounted DEF Analyse, TallyAddsUp

LEMMA TallyStep == SInv /\ TallyAddsUp /\ [Next]_vars => TallyAddsUp'
  <1> SUFFICES ASSUME SInv, TallyAddsUp, [Next]_vars PROVE TallyAddsUp'
    OBVIOUS
  <1>0. TypeOK /\ transcript.segments \in Seq(SegmentType)
    BY DEF SInv, TypeOK
  <1>1. CASE UNCHANGED <<input, position, tally>>
    BY <1>1 DEF TallyAddsUp
  <1>2. CASE GenerateSummary /\ ~UNCHANGED <<input, position, tally>>
    BY <1>0, <1>2, AnalyseAddsUp DEF GenerateSummary
  <1>3. CASE CountSegment
    BY <1>0, <1>3, AddAddsUp DEF CountSegment, TallyAddsUp
  <1>4. CASE DetectSpeakers
    <2>1. PICK u \in Seq(SegmentType) : Analyse(u)
      BY <1>0, <1>4, TurnsType DEF DetectSpeakers
    <2> QED
      BY <2>1, AnalyseAddsUp
  <1> QED
    BY <1>1, <1>2, <1>3, <1>4
    DEF Next, vars, CheckText, EndLayer1, EndLayer2, MergeLayers, VerifyMapping

(* The times and turns of an analysis are the sums over the segments it    *)
(* was given, at every moment of the loop: a negative length, which the    *)
(* services do send, costs nobody time and is still a turn.                *)
THEOREM TalliesAddUp == Spec => []TallyAddsUp
  BY TallyInit, TallyStep, SummarisationInvariant, PTL DEF Spec
=============================================================================
