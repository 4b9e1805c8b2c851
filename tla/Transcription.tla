---------------------------- MODULE Transcription ----------------------------
(***************************************************************************)
(* Transcription.transcribe of backend/modules/_transcription/service.py:  *)
(* one audio file, at most RetryAttempts calls of a speech-to-text         *)
(* service, a back-off after HTTP 408, a switch of provider after HTTP     *)
(* 429.  The object lives for one call and is not shared.                  *)
(***************************************************************************)
EXTENDS Naturals, Sequences

CONSTANT RetryAttempts

ASSUME AttemptsAssumption == RetryAttempts \in Nat \ {0}

VARIABLES
  pc,        \* where transcribe() is
  provider,  \* self.provider
  size,      \* the class of the file's size
  attempt,   \* the loop counter
  calls,     \* history: the services called and what they answered
  pause,     \* seconds of the back-off the call is in
  outcome    \* what transcribe() returned or raised

vars == <<pc, provider, size, attempt, calls, pause, outcome>>

-----------------------------------------------------------------------------
SupportedProviders == {"whisper", "deepgram", "assemblyai"}

(* "small" is at most 25 MB, "medium" at most 500 MB, "huge" is more. *)
Sizes == {"small", "medium", "huge"}

(* MAX_AUDIO_BYTES *)
Accepts(p) == IF p = "whisper" THEN {"small"} ELSE {"small", "medium"}

(* FALLBACK_ORDER *)
Fallback(p) == CASE p = "whisper"    -> "deepgram"
                 [] p = "deepgram"   -> "assemblyai"
                 [] p = "assemblyai" -> "whisper"

(* What comes back from the service: a result, a result that does not have *)
(* the expected structure, an HTTP error, or no answer in time.            *)
Answers == {"ok", "malformed", "http408", "http429", "http5xx", "noAnswer"}

(* Mutant: the AssemblyAI call recognises rate limits too. *)
Raises_AllProviders(p, a) ==
  CASE a = "http408" -> "timeout"
    [] a = "http429" -> "rateLimit"
    [] a = "ok"      -> "transcript"
    [] a = "malformed" -> "normalisation"
    [] OTHER         -> "provider"

(* The exception the provider function or the normaliser makes of it.  The *)
(* AssemblyAI SDK reports every error alike, and a connection that times   *)
(* out is not an HTTP status: both become STTProviderError.                *)
Raises(p, a) ==
  CASE a = "ok"                             -> "transcript"
    [] a = "malformed"                      -> "normalisation"
    [] a = "http408" /\ p # "assemblyai"    -> "timeout"
    [] a = "http429" /\ p # "assemblyai"    -> "rateLimit"
    [] OTHER                                -> "provider"

Outcomes == {"none", "transcript", "tooLarge", "timeout", "provider",
             "normalisation", "noFile"}

(* min(2**attempt * 5, 20) *)
Backoff(n) == IF n = 0 THEN 5 ELSE IF n = 1 THEN 10 ELSE 20

TypeOK ==
  /\ pc \in {"start", "call", "sleep", "done"}
  /\ provider \in SupportedProviders
  /\ size \in Sizes
  /\ attempt \in 0 .. RetryAttempts
  /\ calls \in Seq([provider : SupportedProviders, answer : Answers])
  /\ pause \in {0, 5, 10, 20}
  /\ outcome \in Outcomes

Init ==
  /\ pc = "start"
  /\ provider \in SupportedProviders
  /\ size \in Sizes
  /\ attempt = 0
  /\ calls = << >>
  /\ pause = 0
  /\ outcome = "none"

-----------------------------------------------------------------------------
Finish(o) == /\ pc' = "done"
             /\ outcome' = o

(* The size of the file against the limit of the configured provider. *)
CheckSize ==
  /\ pc = "start"
  /\ \/ Finish("noFile")
     \/ IF size \in Accepts(provider)
        THEN pc' = "call" /\ UNCHANGED outcome
        ELSE Finish("tooLarge")
  /\ UNCHANGED <<provider, size, attempt, calls, pause>>

(* The for loop takes its next value, or the retries are used up. *)
NextAttempt ==
  /\ attempt' = attempt + 1
  /\ IF attempt + 1 < RetryAttempts
     THEN pc' = "call" /\ UNCHANGED outcome
     ELSE Finish("provider")

Returns(result) ==
  /\ result \in {"transcript", "normalisation", "provider"}
  /\ Finish(result)
  /\ UNCHANGED <<provider, attempt, pause>>

(* Mutant: the switch goes on to call the provider that refused. *)
SwitchProvider_Stay(result) ==
  /\ result = "rateLimit"
  /\ NextAttempt
  /\ UNCHANGED <<provider, pause>>

(* except STTRateLimitError: the assignment attempt = 0 there does not     *)
(* reach the loop, whose iterator goes on.                                 *)
SwitchProvider(result) ==
  /\ result = "rateLimit"
  /\ provider' = Fallback(provider)
  /\ NextAttempt
  /\ UNCHANGED pause

(* Mutant: a timeout on the last attempt sleeps and starts over. *)
BackOff_StartOver(result) ==
  /\ result = "timeout"
  /\ pc' = "sleep"
  /\ pause' = Backoff(attempt)
  /\ attempt' = IF attempt = RetryAttempts - 1 THEN 0 ELSE attempt
  /\ UNCHANGED <<provider, outcome>>

(* except STTTimeoutError: sleep, unless this was the last attempt. *)
BackOff(result) ==
  /\ result = "timeout"
  /\ IF attempt = RetryAttempts - 1
     THEN Finish("timeout") /\ UNCHANGED pause
     ELSE pc' = "sleep" /\ pause' = Backoff(attempt) /\ UNCHANGED outcome
  /\ UNCHANGED <<provider, attempt>>

(* One round of the loop: call the current provider, normalise the answer. *)
Call ==
  /\ pc = "call"
  /\ \E a \in Answers :
       /\ calls' = Append(calls, [provider |-> provider, answer |-> a])
       /\ LET result == Raises(provider, a) IN
            Returns(result) \/ SwitchProvider(result) \/ BackOff(result)
  /\ UNCHANGED size

(* The sleep of the back-off is over. *)
Wake ==
  /\ pc = "sleep"
  /\ pause' = 0
  /\ NextAttempt
  /\ UNCHANGED <<provider, size, calls>>

Next == CheckSize \/ Call \/ Wake

Spec == Init /\ [][Next]_vars

-----------------------------------------------------------------------------
Result(i) == Raises(calls[i].provider, calls[i].answer)

(* The size was compared with the limit of the configured provider only,   *)
(* but no upload exceeds the limit of the provider it goes to, after any   *)
(* number of fallbacks.                                                    *)
UploadsFit ==
  \A i \in 1 .. Len(calls) : size \in Accepts(calls[i].provider)

(* A provider that was left because of its rate limit is not called again, *)
(* although FALLBACK_ORDER is a cycle.                                     *)
NoReturnToLimited ==
  \A i, j \in 1 .. Len(calls) :
    i < j /\ Result(i) = "rateLimit" => calls[j].provider # calls[i].provider

(* The loop goes on after a 408, on the same provider, and after a 429, on *)
(* the fallback, and after nothing else.                                   *)
CallsFollowPolicy ==
  \A i, j \in 1 .. Len(calls) : j = i + 1 =>
    \/ Result(i) = "timeout" /\ calls[j].provider = calls[i].provider
    \/ Result(i) = "rateLimit" /\ calls[j].provider = Fallback(calls[i].provider)

(* The budget of calls is never exceeded, and a call whose last answer can *)
(* be retried gives up only when the budget is used.                       *)
BudgetUsed ==
  /\ Len(calls) <= RetryAttempts
  /\ pc = "done" /\ calls # << >> /\ Result(Len(calls)) \in {"timeout", "rateLimit"}
       => Len(calls) = RetryAttempts

(* The position of a provider on the way from whisper through FALLBACK_ORDER. *)
Rank(p) == CASE p = "whisper" -> 0 [] p = "deepgram" -> 1 [] p = "assemblyai" -> 2

(* How the loop counter, the provider and the history fit together: with   *)
(* it the properties above are inductive.                                  *)
LoopInv ==
  /\ pc = "start" => attempt = 0 /\ calls = << >>
  /\ Len(calls) <= RetryAttempts
  /\ pc \in {"call", "sleep"} => attempt < RetryAttempts /\ size \in Accepts(provider)
  /\ pc = "call" => Len(calls) = attempt
  /\ pc = "sleep" => Len(calls) = attempt + 1 /\ Result(Len(calls)) = "timeout"
                     /\ calls[Len(calls)].provider = provider
                     /\ attempt + 1 < RetryAttempts
  /\ pc = "call" /\ calls # << >> =>
       \/ Result(Len(calls)) = "timeout" /\ calls[Len(calls)].provider = provider
       \/ Result(Len(calls)) = "rateLimit"
          /\ provider = Fallback(calls[Len(calls)].provider)
  /\ \A i \in 1 .. Len(calls) :
       IF Result(i) = "rateLimit" THEN Rank(calls[i].provider) < Rank(provider)
                                  ELSE Rank(calls[i].provider) <= Rank(provider)

(* The inductive invariant. *)
TInv ==
  /\ TypeOK
  /\ LoopInv
  /\ CallsFollowPolicy
  /\ UploadsFit
  /\ NoReturnToLimited
  /\ BudgetUsed

=============================================================================
