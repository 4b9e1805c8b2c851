---------------------------- MODULE Summarisation ----------------------------
(***************************************************************************)
(* Summarisation.generate_report of backend/modules/_summarisation: one    *)
(* transcript, a summary written by an LLM, and the statistics of who      *)
(* spoke how long.  The speech-to-text service (layer 1) measures times    *)
(* under generic labels, the LLM (layer 2) guesses names from the text;    *)
(* the two rankings are matched, then the LLM is asked to verify the       *)
(* names.  What the LLM answers is not under the program's control.        *)
(*                                                                         *)
(* The order of a list of statistics is given by Rank: analyse_participa-  *)
(* tion sorts by time, and Python's sort keeps the order in which the      *)
(* speakers were first heard among equals.                                 *)
(***************************************************************************)
EXTENDS Integers, Sequences, FiniteSets

CONSTANTS
  Labels,       \* "Speaker 1", ...: what the service, or the LLM, may call a voice
  Names,        \* every other speaker the LLM may name
  NoSpeaker,    \* a segment without a speaker
  Lengths,      \* end - start of a segment
  None,         \* no analysis, no statistics, no outcome yet
  MaxSegments,  \* bound: segments of a transcript
  MaxTurns      \* bound: turns the LLM splits the text into

People == Labels \cup Names

ASSUME PeopleAssumption == IsFiniteSet(People) /\ Labels \cap Names = {}
                           /\ NoSpeaker \notin People
ASSUME LengthsAssumption == Lengths \subseteq Int
ASSUME BoundsAssumption == MaxSegments \in Nat /\ MaxTurns \in Nat

VARIABLES
  pc,          \* where generate_report is
  transcript,  \* [diarised, segments]: what transcribe() returned
  input,       \* the segments analyse_participation is working on
  position,    \* the segments of them it has seen
  tally,       \* speaker_time and speaker_turns, with the first segment of each
  stt,         \* the analysis of layer 1, or None
  text,        \* the analysis of layer 2, or None
  detected,    \* the LLM's turns were used in layer 2
  stats,       \* speaker_stats, or None
  mapping,     \* name_mapping, as merge_speaker_names made it
  verified,    \* the corrections that were applied, by label
  outcome      \* how generate_report ended

vars == <<pc, transcript, input, position, tally, stt, text, detected, stats, mapping,
          verified, outcome>>

-----------------------------------------------------------------------------
(* analyse_participation *)

Segments(who, lengths, n) ==
  UNION {[1 .. k -> [speaker : who, length : lengths]] : k \in 0 .. n}

(* Mutant: a negative length is not clamped. *)
Spoken_Raw(n) == n

(* max(duration, 0.0) *)
Spoken(n) == IF n > 0 THEN n ELSE 0

(* What normalise_deepgram, normalise_assemblyai and normalise_whisper     *)
(* return: each segment has a label, or none has.                          *)
Transcripts ==
  [diarised : {TRUE}, segments : Segments(Labels, Lengths, MaxSegments)] \cup
  [diarised : {FALSE}, segments : Segments({NoSpeaker}, Lengths, MaxSegments)]

(* The turns the LLM may split the text into: anyone, or nobody, speaks    *)
(* each of them, and its words give it a share of the duration.            *)
Turns == Segments(People \cup {NoSpeaker}, {Spoken(n) : n \in Lengths}, MaxTurns)

Tallies == [time : [People -> Nat], turns : [People -> Nat], first : [People -> Nat]]

Empty == LET zero == [p \in People |-> 0]
         IN [time |-> zero, turns |-> zero, first |-> zero]

(* One round of the loop over the diarised segments: the k-th segment.     *)
Add(t, k, seg) ==
  LET p == seg.speaker IN
    IF p = NoSpeaker THEN t
    ELSE [time  |-> [t.time EXCEPT ![p] = @ + Spoken(seg.length)],
          turns |-> [t.turns EXCEPT ![p] = @ + 1],
          first |-> [t.first EXCEPT ![p] = IF t.turns[p] = 0 THEN k ELSE @]]

Heard(t) == {p \in People : t.turns[p] > 0}

(* The sort: more time first, among equals who was heard first. *)
Ahead(t, p, q) == \/ t.time[p] > t.time[q]
                  \/ t.time[p] = t.time[q] /\ t.first[p] < t.first[q]

Rank(t, p) == Cardinality({q \in Heard(t) : Ahead(t, q, p)})

(* No segments, no labels, or no time at all: no analysis. *)
Analysis(t) == IF \A p \in People : t.time[p] = 0 THEN None ELSE t

Top(t) == CHOOSE p \in Heard(t) : Rank(t, p) = 0

(* The list of an analysis, each speaker under a name. *)
Stats(t, shown, method) ==
  [tally |-> t, shown |-> shown, mostActive |-> shown[Top(t)], method |-> method]

Unnamed(t, method) == Stats(t, [p \in People |-> p], method)

-----------------------------------------------------------------------------
(* merge_speaker_names *)

(* Mutant: a generic label of the LLM is taken for a name. *)
NameFor_Generic(s, t, p) == {q \in Heard(t) : Rank(t, q) = Rank(s, p)}

(* The name at the same place of the LLM's list, if it is a real one. *)
NameFor(s, t, p) == {q \in Heard(t) \ Labels : Rank(t, q) = Rank(s, p)}

NameMap(s, t) ==
  [p \in {p \in Heard(s) : NameFor(s, t, p) # {}} |-> CHOOSE q \in NameFor(s, t, p) : TRUE]

Rename(m) == [p \in People |-> IF p \in DOMAIN m THEN m[p] ELSE p]

(* Mutant: the most active speaker keeps the generic label. *)
Merged_OldTop(s, m) ==
  [Stats(s, Rename(m), "merged") EXCEPT !.mostActive = Top(s)]

Merged(s, m) == Stats(s, Rename(m), "merged")

-----------------------------------------------------------------------------
(* _verify_speaker_mapping *)

(* The reverse lookup {name: label}, where of two labels with the same     *)
(* name the last one wins; an unknown name is its own label.               *)
OriginalLabel(s, m, name) ==
  LET labels == {p \in DOMAIN m : m[p] = name} IN
    IF labels = {} THEN name
    ELSE CHOOSE p \in labels : \A q \in labels : Rank(s, q) <= Rank(s, p)

(* Mutant: corrections are looked up by the merged name. *)
Corrected_ByName(st, m, v) ==
  LET shown == [p \in People |-> LET now == st.shown[p]
                                 IN IF now \in DOMAIN v THEN v[now] ELSE now]
  IN Stats(st.tally, shown, "verified")

Corrected(st, m, v) ==
  LET shown == [p \in People |->
                  LET label == OriginalLabel(st.tally, m, st.shown[p])
                  IN IF label \in DOMAIN v THEN v[label] ELSE st.shown[p]]
  IN Stats(st.tally, shown, "verified")

(* verified_mapping: any JSON object. *)
Mappings == UNION {[D -> People] : D \in SUBSET Labels}

NoMapping == [p \in {} |-> p]

-----------------------------------------------------------------------------
Methods == {"stt", "llm", "merged", "verified"}

StatsType == [tally : Tallies, shown : [People -> People], mostActive : People,
              method : Methods]

SegmentType == [speaker : People \cup {NoSpeaker}, length : Int]

Outcomes == {None, "report", "empty", "timeout", "api", "parse", "other"}

ASSUME NoneAssumption == None \notin Tallies /\ None # "report"

TypeOK ==
  /\ pc \in {"start", "summary", "layer1", "detect", "layer2", "merge", "verify", "done"}
  /\ transcript \in [diarised : BOOLEAN, segments : Seq(SegmentType)]
  /\ input \in Seq(SegmentType)
  /\ position \in 0 .. Len(input)
  /\ tally \in Tallies
  /\ stt = None \/ stt \in Tallies
  /\ text = None \/ text \in Tallies
  /\ detected \in BOOLEAN
  /\ stats = None \/ stats \in StatsType
  /\ mapping \in Mappings
  /\ verified \in Mappings
  /\ outcome \in Outcomes

Init ==
  /\ pc = "start"
  /\ transcript \in Transcripts
  /\ input = << >>
  /\ position = 0
  /\ tally = Empty
  /\ stt = None
  /\ text = None
  /\ detected = FALSE
  /\ stats = None
  /\ mapping = NoMapping
  /\ verified = NoMapping
  /\ outcome = None

-----------------------------------------------------------------------------
Finish(o) == pc' = "done" /\ outcome' = o

GoTo(to) == pc' = to /\ UNCHANGED outcome

(* analyse_participation is called for these segments. *)
Analyse(segments) == /\ input' = segments
                     /\ position' = 0
                     /\ tally' = Empty

(* EmptyTranscriptError: no call of the LLM for a transcript without text. *)
CheckText ==
  /\ pc = "start"
  /\ Finish("empty") \/ GoTo("summary")
  /\ UNCHANGED <<transcript, input, position, tally, stt, text, detected, stats, mapping,
                 verified>>

(* What a step without layer 1 goes on with: layer 2, if there are any     *)
(* segments, else the merge of nothing.                                    *)
AfterLayer1 == IF transcript.segments # << >> THEN "detect" ELSE "merge"

(* _generate_summary: the one call whose failure fails the report.         *)
GenerateSummary ==
  /\ pc = "summary"
  /\ \/ /\ Finish("timeout") \/ Finish("api") \/ Finish("parse") \/ Finish("other")
        /\ UNCHANGED <<input, position, tally>>
     \/ /\ transcript.diarised /\ transcript.segments # << >>
        /\ GoTo("layer1")
        /\ Analyse(transcript.segments)
     \/ /\ ~(transcript.diarised /\ transcript.segments # << >>)
        /\ GoTo(AfterLayer1)
        /\ UNCHANGED <<input, position, tally>>
  /\ UNCHANGED <<transcript, stt, text, detected, stats, mapping, verified>>

CountSegment ==
  /\ pc \in {"layer1", "layer2"}
  /\ position < Len(input)
  /\ position' = position + 1
  /\ tally' = Add(tally, position + 1, input[position + 1])
  /\ UNCHANGED <<pc, transcript, input, stt, text, detected, stats, mapping, verified,
                 outcome>>

EndLayer1 ==
  /\ pc = "layer1"
  /\ position = Len(input)
  /\ stt' = Analysis(tally)
  /\ GoTo(AfterLayer1)
  /\ UNCHANGED <<transcript, input, position, tally, text, detected, stats, mapping,
                 verified>>

(* detect_speakers_from_text: the LLM's turns, with times by their words,  *)
(* or the transcript's own segments when the text was not split or         *)
(* anything went wrong.                                                    *)
DetectSpeakers ==
  /\ pc = "detect"
  /\ \/ \E turns \in Turns \ {<< >>} :
          Analyse(turns) /\ detected' = TRUE
     \/ Analyse(transcript.segments) /\ UNCHANGED detected
  /\ GoTo("layer2")
  /\ UNCHANGED <<transcript, stt, text, stats, mapping, verified>>

EndLayer2 ==
  /\ pc = "layer2"
  /\ position = Len(input)
  /\ text' = Analysis(tally)
  /\ GoTo("merge")
  /\ UNCHANGED <<transcript, input, position, tally, stt, detected, stats, mapping,
                 verified>>

(* Diarisation found one voice where the text has several. *)
SttFailed == Cardinality(Heard(stt)) = 1 /\ Cardinality(Heard(text)) > 1

(* The names of layer 2 for the times of layer 1, or the one there is.     *)
MergeLayers ==
  /\ pc = "merge"
  /\ \/ /\ stt = None
        /\ stats' = IF text = None THEN None ELSE Unnamed(text, "llm")
        /\ UNCHANGED mapping
        /\ Finish("report")
     \/ /\ stt # None /\ text = None
        /\ stats' = Unnamed(stt, "stt")
        /\ UNCHANGED mapping
        /\ Finish("report")
     \/ /\ stt # None /\ text # None /\ SttFailed
        /\ stats' = Unnamed(text, "llm")
        /\ UNCHANGED mapping
        /\ Finish("report")
     \/ /\ stt # None /\ text # None /\ ~SttFailed
        /\ mapping' = NameMap(stt, text)
        /\ IF DOMAIN mapping' = {}
           THEN stats' = Unnamed(stt, "stt") /\ Finish("report")
           ELSE stats' = Merged(stt, mapping') /\ GoTo("verify")
  /\ UNCHANGED <<transcript, input, position, tally, stt, text, detected, verified>>

(* The LLM's second opinion.  No answer, no JSON, low confidence or an     *)
(* empty mapping leave the merged names alone.                             *)
VerifyMapping ==
  /\ pc = "verify"
  /\ \/ UNCHANGED <<stats, verified>>
     \/ /\ stats' = [stats EXCEPT !.method = "verified"]
        /\ UNCHANGED verified
     \/ \E v \in Mappings \ {NoMapping} :
          /\ verified' = v
          /\ stats' = Corrected(stats, mapping, v)
  /\ Finish("report")
  /\ UNCHANGED <<transcript, input, position, tally, stt, text, detected, mapping>>

Next == \/ CheckText \/ GenerateSummary \/ CountSegment \/ EndLayer1
        \/ DetectSpeakers \/ EndLayer2 \/ MergeLayers \/ VerifyMapping

Spec == Init /\ [][Next]_vars
-----------------------------------------------------------------------------
(* What the statistics promise *)

(* What the first k of a list of numbers add up to. *)
RunningSum(w) ==
  LET sum[k \in 0 .. Len(w)] == IF k = 0 THEN 0 ELSE sum[k - 1] + w[k]
  IN sum

(* What each segment of a list u gives to the time of p. *)
Shares(u, p) ==
  [k \in 1 .. Len(u) |-> IF u[k].speaker = p /\ u[k].length > 0 THEN u[k].length ELSE 0]

(* What the loop has counted is what the segments say: the turns of each   *)
(* speaker, and their lengths, of which a negative one counts as nothing.  *)
TallyAddsUp ==
  \A p \in People :
    /\ tally.turns[p] = Cardinality({k \in 1 .. position : input[k].speaker = p})
    /\ tally.time[p] = RunningSum(Shares(input, p))[position]

(* Two voices are never shown under one name, whatever mixture of names    *)
(* and generic labels the LLM found, unless its verification says so.      *)
SpeakersApart ==
  stats # None /\ verified = NoMapping =>
    \A p, q \in Heard(stats.tally) : stats.shown[p] = stats.shown[q] => p = q

(* A correction reaches the voice whose label it names, and no other: the  *)
(* lookup back from the merged names to the labels finds the right one.    *)
CorrectionsHitTheirSpeaker ==
  verified # NoMapping =>
    \A p \in Heard(stats.tally) :
      stats.shown[p] = IF p \in DOMAIN verified THEN verified[p]
                       ELSE IF p \in DOMAIN mapping THEN mapping[p] ELSE p

(* The most active speaker of the report is a name on its list, and nobody *)
(* on the list has spoken longer, through merge and verification.          *)
MostActiveSpokeMost ==
  stats # None =>
    \E p \in Heard(stats.tally) :
      /\ stats.mostActive = stats.shown[p]
      /\ \A q \in Heard(stats.tally) : stats.tally.time[q] <= stats.tally.time[p]

(* A detection that fails leaves the report with the statistics of the     *)
(* diarisation, untouched, or without any: the transcript's own segments   *)
(* in its place give nobody a name.                                        *)
FailedDetectionHarmless ==
  outcome = "report" /\ ~detected =>
    stats = IF stt = None THEN None ELSE Unnamed(stt, "stt")

-----------------------------------------------------------------------------
(* The inductive invariant.                                                *)

(* Whoever is on the list of a tally has an entry in the segments, and no  *)
(* two of them the same: so the sort has no ties left.                     *)
Orderly(t) ==
  /\ \A p \in People : t.turns[p] = 0 => t.time[p] = 0
  /\ \A p, q \in Heard(t) : t.first[p] = t.first[q] => p = q

Counted ==
  /\ \A p \in People : tally.turns[p] = 0 => tally.time[p] = 0
  /\ \A p \in Heard(tally) :
       /\ tally.first[p] \in 1 .. position
       /\ input[tally.first[p]].speaker = p

GenericTranscript ==
  \A k \in 1 .. Len(transcript.segments) :
    transcript.segments[k].speaker \in Labels \cup {NoSpeaker}

LayersOrderly ==
  /\ pc = "layer1" => input = transcript.segments
  /\ stt # None => Orderly(stt) /\ Heard(stt) # {} /\ Heard(stt) \subseteq Labels
  /\ text # None => Orderly(text) /\ Heard(text) # {}

(* The stages of speaker_stats. *)
StatsStage ==
  /\ verified # NoMapping => pc = "done"
  /\ pc \notin {"verify", "done"} => stats = None
  /\ mapping # NoMapping => /\ pc \in {"verify", "done"}
                            /\ stt # None /\ text # None
                            /\ mapping = NameMap(stt, text)
  /\ pc = "verify" => /\ mapping # NoMapping
                      /\ stats = Merged(stt, mapping)
  /\ verified # NoMapping => /\ mapping # NoMapping
                             /\ stats = Corrected(Merged(stt, mapping), mapping, verified)
  /\ verified = NoMapping /\ stats # None =>
       \/ stats.shown = [p \in People |-> p]
       \/ mapping # NoMapping /\ stats.tally = stt /\ stats.shown = Rename(mapping)
  /\ stats # None => /\ \/ stt # None /\ stats.tally = stt
                        \/ text # None /\ stats.tally = text
                     /\ stats.mostActive = stats.shown[Top(stats.tally)]

(* TypeOK with what makes SpeakersApart, CorrectionsHitTheirSpeaker and    *)
(* MostActiveSpokeMost inductive: where the tallies and the mapping come   *)
(* from.                                                                   *)
SInv == TypeOK /\ Counted /\ GenericTranscript /\ LayersOrderly /\ StatsStage

(* What FailedDetectionHarmless needs besides SInv: nobody who has spoken  *)
(* is left out of a tally, and all its time is somebody's, ...             *)
Complete ==
  /\ \A k \in 1 .. position :
       input[k].speaker \in People =>
         /\ tally.turns[input[k].speaker] > 0
         /\ input[k].length > 0 => tally.time[input[k].speaker] > 0
  /\ \A p \in People :
       tally.time[p] > 0 => \E k \in 1 .. position : input[k].speaker = p /\ input[k].length > 0

(* ... and the same segments give layer 2 nothing that layer 1 has not.    *)
Voices == {transcript.segments[k].speaker : k \in 1 .. Len(transcript.segments)} \ {NoSpeaker}

Silent == \A k \in 1 .. Len(transcript.segments) :
            transcript.segments[k].speaker # NoSpeaker => transcript.segments[k].length <= 0

SameSegments ==
  /\ ~transcript.diarised => Voices = {}
  /\ pc \in {"start", "summary", "layer1"} => stt = None
  /\ pc \in {"start", "summary", "layer1", "detect", "layer2"} => text = None
  /\ pc = "layer2" /\ ~detected => input = transcript.segments
  /\ pc \in {"detect", "layer2", "merge"} => IF stt = None THEN Silent ELSE Voices \subseteq Heard(stt)
  /\ pc = "merge" /\ ~detected /\ text # None => stt # None /\ Heard(text) \subseteq Heard(stt)
  /\ pc = "verify" => detected
  /\ pc # "done" => outcome = None

DetectionInv == Complete /\ SameSegments /\ FailedDetectionHarmless
=============================================================================
