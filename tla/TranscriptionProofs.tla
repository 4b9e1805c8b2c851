------------------------- MODULE TranscriptionProofs -------------------------
(***************************************************************************)
(* The retry router of Transcription, for any number of attempts: the      *)
(* provider only moves forward along whisper, deepgram, assemblyai, and    *)
(* the size limits only grow along that way.                               *)
(***************************************************************************)
EXTENDS Transcription, TLAPS

Records == [provider : SupportedProviders, answer : Answers]

(* A rate limit is only recognised where a fallback lies ahead. *)
LEMMA FallbackAdvances ==
  ASSUME NEW p \in SupportedProviders, NEW a \in Answers, Raises(p, a) = "rateLimit"
  PROVE  /\ Fallback(p) \in SupportedProviders
         /\ Rank(Fallback(p)) = Rank(p) + 1
         /\ \A z \in Sizes : z \in Accepts(p) => z \in Accepts(Fallback(p))
  BY DEF SupportedProviders, Answers, Raises, Fallback, Rank, Sizes, Accepts

(* What an exception can be. *)
LEMMA RaisesType ==
  ASSUME NEW p \in SupportedProviders, NEW a \in Answers
  PROVE  Raises(p, a) \in {"transcript", "normalisation", "timeout", "rateLimit", "provider"}
  BY DEF SupportedProviders, Answers, Raises

LEMMA RankType == \A p \in SupportedProviders : Rank(p) \in 0 .. 2
  BY DEF SupportedProviders, Rank

(* The history after one more call: the old calls and the new one. *)
LEMMA OneMoreCall ==
  ASSUME TypeOK, NEW a \in Answers,
         calls' = Append(calls, [provider |-> provider, answer |-> a])
  PROVE  /\ calls' \in Seq(Records)
         /\ Len(calls) \in Nat
         /\ Len(calls') = Len(calls) + 1
         /\ calls' # << >>
         /\ \A i \in 1 .. Len(calls) : calls[i] \in Records /\ calls'[i] = calls[i]
         /\ calls'[Len(calls) + 1] = [provider |-> provider, answer |-> a]
         /\ \A i \in 1 .. Len(calls) : Result(i)' = Result(i)
         /\ \A n \in Nat : n = Len(calls) + 1 => Result(n)' = Raises(provider, a)
  <1>1. calls \in Seq(Records) /\ [provider |-> provider, answer |-> a] \in Records
    BY DEF TypeOK, Records
  <1>2. /\ calls' \in Seq(Records)
        /\ Len(calls) \in Nat
        /\ Len(calls') = Len(calls) + 1
        /\ calls' # << >>
        /\ \A i \in 1 .. Len(calls) : calls[i] \in Records /\ calls'[i] = calls[i]
        /\ calls'[Len(calls) + 1] = [provider |-> provider, answer |-> a]
    BY <1>1
  <1>3. /\ \A i \in 1 .. Len(calls) : Result(i)' = Result(i)
        /\ \A n \in Nat : n = Len(calls) + 1 => Result(n)' = Raises(provider, a)
    BY <1>2 DEF Result
  <1> QED BY <1>2, <1>3

LEMMA InitInv == Init => TInv
  <1> SUFFICES ASSUME Init PROVE TInv
    OBVIOUS
  <1>1. TypeOK /\ Len(calls) = 0
    BY AttemptsAssumption DEF Init, TypeOK, Outcomes
  <1> QED
    BY <1>1, AttemptsAssumption
    DEF Init, TInv, LoopInv, CallsFollowPolicy, UploadsFit, NoReturnToLimited, BudgetUsed

(* A step that makes no call leaves the history and what is said of it. *)
LEMMA QuietStep ==
  ASSUME TInv, UNCHANGED <<calls, size>>
  PROVE  /\ \A i \in 1 .. Len(calls) : Result(i)' = Result(i)
         /\ (CallsFollowPolicy /\ UploadsFit /\ NoReturnToLimited)'
  BY DEF TInv, Result, CallsFollowPolicy, UploadsFit, NoReturnToLimited

(* The properties of the history survive one more call, whatever the loop  *)
(* does with the answer.                                                   *)
LEMMA HistoryStep ==
  ASSUME TInv, pc = "call", UNCHANGED size, NEW a \in Answers,
         calls' = Append(calls, [provider |-> provider, answer |-> a])
  PROVE  (CallsFollowPolicy /\ UploadsFit /\ NoReturnToLimited)'
  <1> USE DEF TInv
  <1>1. TypeOK /\ LoopInv
    OBVIOUS
  <1>2. UploadsFit'
    BY OneMoreCall DEF UploadsFit, LoopInv
  <1>3. CallsFollowPolicy'
    BY OneMoreCall DEF CallsFollowPolicy, LoopInv
  <1>4. NoReturnToLimited'
    <2> SUFFICES ASSUME NEW i \in 1 .. Len(calls'), NEW j \in 1 .. Len(calls'),
                        i < j, Result(i)' = "rateLimit"
                 PROVE  calls'[j].provider # calls'[i].provider
      BY DEF NoReturnToLimited
    <2>1. i \in 1 .. Len(calls) /\ Result(i) = "rateLimit" /\ calls'[i] = calls[i]
      BY OneMoreCall
    <2>2. CASE j \in 1 .. Len(calls)
      BY <2>1, <2>2, OneMoreCall DEF NoReturnToLimited
    <2>3. CASE j = Len(calls) + 1
      <3>1. Rank(calls[i].provider) < Rank(provider)
        BY <2>1 DEF LoopInv
      <3>2. Rank(provider) \in Nat /\ calls'[j].provider = provider
        BY <2>3, OneMoreCall, RankType DEF TypeOK
      <3> QED BY <2>1, <3>1, <3>2
    <2> QED BY <2>2, <2>3, OneMoreCall
  <1> QED BY <1>2, <1>3, <1>4

LEMMA CheckSizeInv == TInv /\ CheckSize => TInv'
  <1> SUFFICES ASSUME TInv, CheckSize PROVE TInv'
    OBVIOUS
  <1> USE DEF CheckSize
  <1>1. TypeOK' /\ Len(calls) = 0
    BY AttemptsAssumption DEF TInv, TypeOK, LoopInv, Finish, Outcomes
  <1>2. LoopInv'
    BY <1>1, AttemptsAssumption DEF TInv, TypeOK, LoopInv, Finish
  <1>3. BudgetUsed'
    BY <1>1, AttemptsAssumption DEF TInv, LoopInv, BudgetUsed
  <1> QED BY <1>1, <1>2, <1>3, QuietStep DEF TInv

LEMMA WakeInv == TInv /\ Wake => TInv'
  <1> SUFFICES ASSUME TInv, Wake PROVE TInv'
    OBVIOUS
  <1> USE DEF Wake, NextAttempt
  <1>0. Len(calls) \in Nat /\ attempt \in Nat /\ attempt + 1 < RetryAttempts
        /\ RetryAttempts \in Nat
    BY AttemptsAssumption DEF TInv, TypeOK, LoopInv
  <1>1. TypeOK'
    BY <1>0 DEF TInv, TypeOK, Finish, Outcomes
  <1>2. \A i \in 1 .. Len(calls) : Result(i)' = Result(i)
    BY QuietStep
  <1>3. LoopInv'
    BY <1>0, <1>2 DEF TInv, TypeOK, LoopInv, Result
  <1>4. BudgetUsed'
    BY <1>0 DEF TInv, TypeOK, LoopInv, BudgetUsed
  <1> QED BY <1>1, <1>3, <1>4, QuietStep DEF TInv

LEMMA CallInv == TInv /\ Call => TInv'
  <1> SUFFICES ASSUME TInv, pc = "call", UNCHANGED size, NEW a \in Answers,
                      calls' = Append(calls, [provider |-> provider, answer |-> a]),
                      \/ Returns(Raises(provider, a))
                      \/ SwitchProvider(Raises(provider, a))
                      \/ BackOff(Raises(provider, a))
               PROVE  TInv'
    BY DEF Call
  <1> DEFINE last == Len(calls) + 1
  <1>0. /\ TypeOK /\ provider \in SupportedProviders /\ size \in Sizes
        /\ attempt \in Nat /\ RetryAttempts \in Nat /\ attempt < RetryAttempts
        /\ Len(calls) = attempt /\ size \in Accepts(provider)
    BY AttemptsAssumption DEF TInv, TypeOK, LoopInv
  <1>1. /\ Len(calls') = last /\ last \in Nat /\ calls' \in Seq(Records) /\ calls' # << >>
        /\ calls'[last] = [provider |-> provider, answer |-> a]
        /\ \A n \in Nat : n = last => Result(n)' = Raises(provider, a)
        /\ \A i \in 1 .. Len(calls) : calls'[i] = calls[i] /\ calls[i] \in Records
                                      /\ Result(i)' = Result(i)
    BY <1>0, OneMoreCall
  <1>2. \A i \in 1 .. Len(calls) :
          /\ Rank(calls[i].provider) \in Nat
          /\ Rank(calls[i].provider) <= Rank(provider)
          /\ Result(i) = "rateLimit" => Rank(calls[i].provider) < Rank(provider)
    <2>1. \A i \in 1 .. Len(calls) : Rank(calls[i].provider) \in Nat
      BY <1>1, RankType DEF Records
    <2> QED BY <2>1, <1>0, RankType DEF TInv, LoopInv
  <1>3. Rank(provider) \in Nat
    BY <1>0, RankType
  <1>4. (CallsFollowPolicy /\ UploadsFit /\ NoReturnToLimited)'
    BY HistoryStep
  <1>5. CASE Returns(Raises(provider, a))
    <2> USE <1>5 DEF Returns, Finish
    <2>1. TypeOK'
      BY <1>0, <1>1 DEF TypeOK, Outcomes, Records
    <2>2. LoopInv'
      BY <1>0, <1>1, <1>2, <1>3 DEF LoopInv
    <2>3. BudgetUsed'
      BY <1>0, <1>1 DEF BudgetUsed
    <2> QED BY <2>1, <2>2, <2>3, <1>4 DEF TInv
  <1>6. CASE SwitchProvider(Raises(provider, a))
    <2> USE <1>6 DEF SwitchProvider, NextAttempt, Finish
    <2>0. /\ Fallback(provider) \in SupportedProviders
          /\ Rank(provider') = Rank(provider) + 1
          /\ size \in Accepts(provider')
      BY <1>0, FallbackAdvances
    <2>1. TypeOK'
      BY <1>0, <1>1, <2>0 DEF TypeOK, Outcomes, Records
    <2>2. LoopInv'
      BY <1>0, <1>1, <1>2, <1>3, <2>0 DEF LoopInv
    <2>3. BudgetUsed'
      BY <1>0, <1>1 DEF BudgetUsed
    <2> QED BY <2>1, <2>2, <2>3, <1>4 DEF TInv
  <1>7. CASE BackOff(Raises(provider, a))
    <2> USE <1>7 DEF BackOff, Finish
    <2>1. TypeOK'
      BY <1>0, <1>1 DEF TypeOK, Outcomes, Records, Backoff
    <2>2. LoopInv'
      BY <1>0, <1>1, <1>2, <1>3 DEF LoopInv
    <2>3. BudgetUsed'
      BY <1>0, <1>1 DEF BudgetUsed
    <2> QED BY <2>1, <2>2, <2>3, <1>4 DEF TInv
  <1> QED BY <1>5, <1>6, <1>7

(* No run of transcribe(), for any number of attempts, leaves the          *)
(* inductive invariant of the router.                                      *)
THEOREM RouterInvariant == Spec => []TInv
  <1>1. TInv /\ [Next]_vars => TInv'
    <2> SUFFICES ASSUME TInv, [Next]_vars PROVE TInv'
      OBVIOUS
    <2>1. CASE UNCHANGED vars
      BY <2>1 DEF vars, TInv, TypeOK, LoopInv, CallsFollowPolicy, UploadsFit,
                  NoReturnToLimited, BudgetUsed, Result
    <2> QED BY <2>1, CheckSizeInv, CallInv, WakeInv DEF Next
  <1> QED BY <1>1, InitInv, PTL DEF Spec

(* The size is checked once, against the first provider's limit, and still *)
(* no upload exceeds the limit of the provider that gets it.               *)
THEOREM UploadsAlwaysFit == Spec => []UploadsFit
  <1>1. TInv => UploadsFit
    BY DEF TInv
  <1> QED BY <1>1, RouterInvariant, PTL

(* The fallback cycle is never closed: a provider left for its rate limit  *)
(* is not called again.                                                    *)
THEOREM LimitedProvidersStayLeft == Spec => []NoReturnToLimited
  <1>1. TInv => NoReturnToLimited
    BY DEF TInv
  <1> QED BY <1>1, RouterInvariant, PTL

(* Calls go on only after a 408, where they were, or after a 429, on the   *)
(* fallback; the budget is never exceeded nor given up early.              *)
THEOREM RetriesFollowPolicy == Spec => [](CallsFollowPolicy /\ BudgetUsed)
  <1>1. TInv => CallsFollowPolicy /\ BudgetUsed
    BY DEF TInv
  <1> QED BY <1>1, RouterInvariant, PTL
=============================================================================
