------------------------------- MODULE Retries -------------------------------
(***************************************************************************)
(* What is tried again, when and how often: the errors of the platforms     *)
(* (internal/driver/{telegram,discord}/outbound_error_mapper.go), the last  *)
(* edit of an answer (modules/llmchat/edit_retry.go), the failures of the   *)
(* providers (pkg/llm/providers/gemini/failure.go and retry.go,             *)
(* openai/failure.go, pkg/otogi/ai/llm_failure.go) and the requests of      *)
(* modules/llmchat and modules/memory that failed so (llm_retry.go).        *)
(*                                                                         *)
(* Times are in tenths of a second.  An optional value is a set with at     *)
(* most one element.  The text of an error is what is found in it: a wait   *)
(* ("flood wait 3", "retry after 2s"), words about limits, words about a    *)
(* passing failure.                                                         *)
(***************************************************************************)
EXTENDS Integers, Sequences, SequencesExt, FiniteSets

Clamp(value, min, max) == IF value < min THEN min ELSE IF value > max THEN max ELSE value
Only(option) == CHOOSE x \in option : TRUE
Or(option, default) == IF option = {} THEN default ELSE Only(option)

\* parseRetryAfterHint: amounts of zero are no hint
Hint(text) == {w \in text.wait : w > 0}

-----------------------------------------------------------------------------
(* Errors of a platform: [invalid, rpc, wait, text].                        *)

TelegramKind(rpc) ==
  IF rpc.code \in {420, 429} \/ rpc.flood THEN "rate_limited"
  ELSE IF rpc.code \in {400, 401, 403, 404, 405, 406} THEN "permanent"
  ELSE IF rpc.code = 303 \/ rpc.code >= 500 THEN "temporary"
  ELSE "unknown"
DiscordKind(rpc) ==
  IF rpc.code = 429 THEN "rate_limited"
  ELSE IF rpc.code \in 400..499 THEN "permanent"
  ELSE IF rpc.code >= 500 THEN "temporary"
  ELSE "unknown"
DiscordDefaultWait == 50

\* the error a module sees: a flood wait, a code, or neither
Mapped(platform, err) ==
  IF err.wait # {} THEN [kind |-> "rate_limited", after |-> Only(err.wait)]
  ELSE IF err.rpc = {} THEN [kind |-> "unknown", after |-> 0]
  ELSE IF platform = "telegram" THEN [kind |-> TelegramKind(Only(err.rpc)), after |-> 0]
  ELSE LET kind == DiscordKind(Only(err.rpc))
       IN [kind |-> kind, after |-> IF kind = "rate_limited" THEN DiscordDefaultWait ELSE 0]

-----------------------------------------------------------------------------
(* The last edit of an answer.                                              *)

EditMin == 2
EditBase == 5
EditLimitedBase == 20
MaxEditInterval == 100
EditMaxAttempts == 12

ExponentialBackoff(base, attempt) ==
  LET delay[n \in 0..(attempt - 1)] ==
        IF n = 0 THEN base ELSE Clamp(2 * delay[n - 1], 0, MaxEditInterval)
  IN delay[attempt - 1]

\* for the runs: a retry that goes by its own pace whatever the platform said
OwnPace(platform, attempt, err) == ExponentialBackoff(EditBase, attempt)

NextRetryDelay(platform, attempt, err) ==
  LET mapped == Mapped(platform, err)
  IN IF mapped.kind = "rate_limited"
     THEN IF mapped.after > 0 THEN Clamp(mapped.after, EditMin, MaxEditInterval)
          ELSE ExponentialBackoff(EditLimitedBase, attempt)
     ELSE IF Hint(err.text) # {} THEN Clamp(Only(Hint(err.text)), EditMin, MaxEditInterval)
     ELSE ExponentialBackoff(IF err.text.limits THEN EditLimitedBase ELSE EditBase, attempt)

\* One more attempt, which meets err.
TryEdit(platform, last, err) ==
  LET n == last.attempts + 1
      tried(state) == [last EXCEPT !.state = state, !.attempts = n]
      delay == NextRetryDelay(platform, n, err)
  IN IF last.state # "trying" THEN last
     ELSE IF err.invalid THEN tried("refused")
     ELSE IF n = EditMaxAttempts \/ delay > last.left THEN tried("exhausted")
     ELSE [tried("trying") EXCEPT !.waits = Append(@, delay), !.left = @ - delay]

\* retryEditMessage: errs[n] is what the nth attempt meets, after the last one an attempt
\* succeeds; `left` is the time the handler has, of which a wait may not have enough
RetryEdit(platform, errs, left) ==
  LET start == [state |-> IF left = 0 THEN "exhausted" ELSE "trying", attempts |-> 0,
                waits |-> <<>>, left |-> left]
      met == FoldLeft(LAMBDA last, err : TryEdit(platform, last, err), start, errs)
  IN IF met.state = "trying" THEN [met EXCEPT !.state = "edited", !.attempts = @ + 1] ELSE met

-----------------------------------------------------------------------------
(* Failures of a provider: [caller, typed, api, network, text].  `caller` has *)
(* "canceled" or "timeout" if the context of the request ended.             *)

Failure(class, retryable, after) == [class |-> class, retryable |-> retryable, after |-> after]
DefaultDelay == 10
MaxProviderDelay == 50

GeminiAPIFailure(api) ==
  IF api.code \in {401, 403} \/ api.status \in {"UNAUTHENTICATED", "PERMISSION_DENIED"}
  THEN Failure("authentication", FALSE, 0)
  ELSE IF api.code = 429 \/ api.status = "RESOURCE_EXHAUSTED" THEN Failure("rate_limited", TRUE, 0)
  ELSE IF api.code \in {408, 504} \/ api.status = "DEADLINE_EXCEEDED"
  THEN Failure("timeout", TRUE, 0)
  ELSE IF api.code >= 500 \/ api.status \in {"UNAVAILABLE", "INTERNAL"}
  THEN Failure("provider_unavailable", TRUE, 0)
  ELSE IF api.code \in 400..499 \/ api.status \in {"INVALID_ARGUMENT", "FAILED_PRECONDITION"}
  THEN Failure("invalid_request", FALSE, 0)
  ELSE Failure("internal", FALSE, 0)

GeminiClamped(delay) == IF delay <= 0 THEN DefaultDelay ELSE Clamp(delay, 0, MaxProviderDelay)
GeminiDelay(api) == GeminiClamped(Or(api.after, 0))

OpenAIStatusFailure(code) ==
  IF code \in {401, 403} THEN Failure("authentication", FALSE, 0)
  ELSE IF code = 429 THEN Failure("rate_limited", TRUE, 0)
  ELSE IF code \in {408, 504} THEN Failure("timeout", TRUE, 0)
  ELSE IF code \in {409, 425} \/ code >= 500 THEN Failure("provider_unavailable", TRUE, 0)
  ELSE IF code \in 400..499 THEN Failure("invalid_request", FALSE, 0)
  ELSE Failure("internal", FALSE, 0)

\* the code of a failed or error event of a stream, by the words in it
OpenAIStreamFailure(word) ==
  CASE word = "safety" -> Failure("safety_refusal", FALSE, 0)
    [] word \in {"rate_limit", "quota"} -> Failure("rate_limited", TRUE, DefaultDelay)
    [] word \in {"auth", "api_key"} -> Failure("authentication", FALSE, 0)
    [] word = "invalid" -> Failure("invalid_request", FALSE, 0)
    [] word \in {"server", "overload"} -> Failure("provider_unavailable", TRUE, DefaultDelay)
    [] OTHER -> Failure("internal", FALSE, 0)

ByCaller(caller) == Failure(caller, FALSE, 0)

\* classifyGeminiFailure, classifyOpenAIFailure
Classified(provider, f) ==
  IF f.typed # {} THEN Only(f.typed)
  ELSE IF f.caller # {} THEN ByCaller(Only(f.caller))
  ELSE IF f.api # {}
  THEN LET api == Only(f.api)
           gemini == GeminiAPIFailure(api)
           openai == OpenAIStatusFailure(api.code)
       IN IF provider = "gemini"
          THEN Failure(gemini.class, gemini.retryable, IF gemini.retryable THEN GeminiDelay(api) ELSE 0)
          ELSE IF api.safety THEN Failure("safety_refusal", FALSE, 0)
          ELSE Failure(openai.class, openai.retryable, Or({d \in api.after : d > 0}, DefaultDelay))
  ELSE IF provider = "openai" /\ f.network # {}
  THEN Failure(IF Only(f.network) = "timeout" THEN "timeout" ELSE "provider_unavailable", TRUE, DefaultDelay)
  ELSE Failure("internal", FALSE, 0)

\* Gemini's own view of an error, asked when its class says no
TransientStatus == {"RESOURCE_EXHAUSTED", "UNAVAILABLE", "INTERNAL", "DEADLINE_EXCEEDED"}
IsTransientAPIError(api) == api.code \in {429, 500, 502, 503, 504} \/ api.status \in TransientStatus

ProviderDelay(provider, f) ==
  LET failure == Classified(provider, f)
  IN IF provider = "openai" THEN {failure.after : x \in {TRUE} \cap {failure.retryable}}
     ELSE IF f.caller # {} THEN {}
     ELSE IF failure.retryable THEN {GeminiClamped(failure.after)}
     ELSE {GeminiDelay(api) : api \in {a \in f.api : IsTransientAPIError(a)}}

-----------------------------------------------------------------------------
(* Requests that are tried again: the delay, or {} if they are not.         *)

LlmMin == 2
LlmMax == 50
LlmBase == 10
LlmMaxAttempts == 3
Bounded(delays) == {Clamp(d, LlmMin, LlmMax) : d \in delays}

ChatDelay(provider, f) ==
  LET failure == Classified(provider, f)
  IN IF f.caller # {} THEN {}
     ELSE IF failure.retryable THEN Bounded({failure.after})
     ELSE Bounded(ProviderDelay(provider, f))

\* modules/memory goes by the text of the error as well
MemoryDelay(provider, f) ==
  IF f.caller # {} THEN {}
  ELSE IF ProviderDelay(provider, f) # {} THEN Bounded(ProviderDelay(provider, f))
  ELSE IF Hint(f.text) # {} THEN Bounded(Hint(f.text))
  ELSE IF f.text.passing THEN {LlmBase} ELSE {}

\* retryLLMOperation: delays[n] is what follows the failure of the nth attempt
Attempts(delays) ==
  LET stops == {n \in DOMAIN delays : n = LlmMaxAttempts \/ delays[n] = {}}
  IN IF stops = {} THEN Len(delays) + 1 ELSE CHOOSE n \in stops : \A m \in stops : n <= m

-----------------------------------------------------------------------------
(* What must hold.                                                          *)

\* the codes by which a platform says that there were too many requests
Limits(platform) == IF platform = "telegram" THEN {420, 429} ELSE {429}

Waited(waits) == FoldLeft(+, 0, waits)

\* The last edit of an answer is tried at most twelve times and within the time the handler
\* has; it waits as long as the platform asked, up to ten seconds, at least two if it was
\* limited without being told for how long, and no less than after the same error before; an
\* edit the driver refuses is not tried again, and one that fails otherwise is given up only
\* for the want of time or attempts.
EditsHold(platform, errs, left) ==
  LET done == RetryEdit(platform, errs, left)
  IN /\ done.attempts <= EditMaxAttempts
     /\ Waited(done.waits) = left - done.left /\ done.left >= 0
     /\ \A n \in DOMAIN done.waits :
          /\ done.waits[n] \in EditMin..MaxEditInterval
          /\ \A w \in errs[n].wait : done.waits[n] >= w \/ done.waits[n] = MaxEditInterval
          /\ \A r \in errs[n].rpc : r.code \in Limits(platform) /\ errs[n].wait = {} =>
               done.waits[n] >= EditLimitedBase
          /\ n > 1 /\ errs[n] = errs[n - 1] => done.waits[n] >= done.waits[n - 1]
          /\ ~errs[n].invalid
     /\ done.state = "exhausted" =>
          \/ left = 0 \/ done.attempts = EditMaxAttempts
          \/ done.left < MaxEditInterval
     /\ done.state = "edited" => done.attempts = Len(errs) + 1

Transient == {"rate_limited", "timeout", "provider_unavailable"}

\* A request is tried again exactly if the provider's answer was of a passing kind, never
\* when its caller has given up, no sooner than the provider asked, up to five seconds; the
\* memory tries again whatever the chat does, after the same delay, and what it tries again
\* beyond that has a text that speaks of a passing failure; and a failure keeps its class
\* whichever of the two ways Gemini's errors are judged.
LlmRetriesHold(provider, f) ==
  LET chat == ChatDelay(provider, f)
      failure == Classified(provider, f)
  IN /\ chat # {} <=> f.caller = {} /\ failure.class \in Transient
     /\ \A a \in f.api :
          /\ a.code \in {400, 401, 403, 404} \/ (provider = "openai" /\ a.safety) => chat = {}
          /\ a.code \in {429, 500, 503} /\ f.caller = {} /\ ~a.safety => chat # {}
     /\ \A d \in chat :
          /\ d \in LlmMin..LlmMax
          /\ \A a \in f.api : \A asked \in a.after : d >= asked \/ d = LlmMax
          /\ MemoryDelay(provider, f) = {d}
     /\ chat = {} /\ MemoryDelay(provider, f) # {} =>
          f.caller = {} /\ (f.text.passing \/ Hint(f.text) # {})
     /\ \A n \in 1..4 :
          Attempts([k \in 1..n |-> chat]) =
            IF chat = {} THEN 1 ELSE IF n < LlmMaxAttempts THEN n + 1 ELSE LlmMaxAttempts
=============================================================================
