------------------------------ MODULE ChatReply ------------------------------
(***************************************************************************)
(* One chat request, from the placeholder message to the answer that        *)
(* replaces it: modules/llmchat (module.go, streaming.go, llm_retry.go,     *)
(* edit_retry.go, lifecycle.go).                                            *)
(*                                                                         *)
(* The provider streams chunks, fails or stays silent; every edit is        *)
(* acknowledged, refused, or applied although the call fails (Lost).  The    *)
(* request context ends before the handler context.  A text is the kind of   *)
(* thing it shows and a number that tells two texts apart: how much of the   *)
(* answer or of the thinking it holds, or which tool call it announces.      *)
(***************************************************************************)
EXTENDS Integers, Sequences

CONSTANTS
  MaxAttempts,      \* llmRetryMaxAttempts
  MaxEditAttempts,  \* editRetryMaxAttempts
  MaxIterations,    \* maxToolIterations
  MaxChunks,        \* bound: chunks a provider sends in one attempt
  HasTools          \* whether the agent has sub-agents

ASSUME BoundsAssumption ==
  /\ MaxAttempts \in Nat \ {0} /\ MaxEditAttempts \in Nat \ {0}
  /\ MaxIterations \in Nat \ {0} /\ MaxChunks \in Nat \ {0}
  /\ HasTools \in BOOLEAN

VARIABLES
  pc,
  iter, attempt,        \* tool round, and the provider's attempt in it
  thinking, output,     \* chunks of either kind in this attempt
  visible,              \* whether the output is more than white space
  calls, malformed,     \* tool calls of the attempt, and whether one is unusable
  paced,                \* the pacer has seen an edit: the next may have to wait
  shown,                \* what the conversation sees
  delivered,            \* result.lastDeliveredPayload
  base,                 \* lastDeliveredPayload of the loop over rounds
  answerDelivered,      \* result.answerDelivered
  pending,              \* the payload of the edit under way
  edits,                \* attempts of retryEditMessage
  reqDone, ctxDone,     \* the two contexts
  life,                 \* chatLifecycle.state
  err,                  \* failure class, "none", or "nil" once served
  answeredIn            \* attempt whose visible answer was acknowledged, 0 if none

progress == <<iter, attempt, thinking, output, visible, calls, malformed, paced>>
payloads == <<delivered, base, answerDelivered, pending, answeredIn>>
contexts == <<reqDone, ctxDone>>
vars == <<pc, progress, shown, payloads, edits, contexts, life, err>>

Nothing    == [what |-> "none", n |-> 0]
Thinking(i, n) == [what |-> "thinking", n |-> <<i, n>>]
Answer(n)      == [what |-> "answer", n |-> <<iter, attempt, n>>]
Tool(i, k)     == [what |-> "tool", n |-> <<i, k>>]
Failure        == [what |-> "failure", n |-> 0]
DefaultThinking == Thinking(1, 0)

Running == pc # "done"

Init ==
  /\ pc = "placeholder" /\ life = "accepted" /\ err = "none"
  /\ iter = 1 /\ attempt = 1 /\ thinking = 0 /\ output = 0
  /\ visible = FALSE /\ calls = 0 /\ malformed = FALSE /\ paced = FALSE
  /\ shown = Nothing /\ delivered = DefaultThinking /\ base = DefaultThinking
  /\ answerDelivered = FALSE /\ pending = Nothing /\ answeredIn = 0
  /\ edits = 0 /\ reqDone = FALSE /\ ctxDone = FALSE

-----------------------------------------------------------------------------
(* How a request ends.                                                       *)

\* finishChatRequest, deferred in handleArticle
TerminalState(e) ==
  CASE e = "nil" -> "completed" [] e = "canceled" -> "canceled" [] OTHER -> "failed"

End(e) == pc' = "done" /\ err' = e /\ life' = TerminalState(e)

\* finalizePlaceholderFailure: an answer that was seen, a handler that has no
\* time left and a failed delivery leave the placeholder as it is.
FinalizeInRequest(class, answered) ==
  IF answered \/ reqDone \/ class = "delivery"
  THEN End(class) /\ UNCHANGED edits
  ELSE pc' = "explain" /\ err' = class /\ life' = "delivering" /\ edits' = 0
Finalize(class, answered) ==
  IF answered \/ ctxDone \/ class = "delivery"
  THEN End(class) /\ UNCHANGED edits
  ELSE pc' = "explain" /\ err' = class /\ life' = "delivering" /\ edits' = 0

\* What a call that ends with its context reports.
ContextClass == {"timeout", "canceled"}

-----------------------------------------------------------------------------
(* handleArticle                                                            *)

\* The placeholder is sent: it arrives, it does not, or it arrives and the
\* handler is told that it did not.
SendPlaceholder ==
  /\ pc = "placeholder"
  /\ \/ shown' = DefaultThinking /\ pc' = "prepare" /\ UNCHANGED <<life, err>>
     \/ shown' \in {Nothing, DefaultThinking} /\ End("delivery")
  /\ UNCHANGED <<progress, payloads, edits, contexts>>

\* validateHandlerDeadlineBudget, buildToolRegistry and
\* buildGenerateRequestWithTools
PrepareFails ==
  /\ pc = "prepare"
  /\ \E class \in {"timeout", "internal"} : Finalize(class, FALSE)
  /\ UNCHANGED <<progress, shown, payloads, contexts>>

Prepare ==
  /\ pc = "prepare"
  /\ pc' = "open" /\ life' = "generating"
  /\ UNCHANGED <<progress, shown, payloads, edits, contexts, err>>

-----------------------------------------------------------------------------
(* streamProviderReplyIteration, and retryLLMOperationWhen around it.       *)

\* One attempt returned an error; known is the answerDelivered of the result
\* it returned with.
RetriesAnyway(class, retryable, known) ==
  IF attempt < MaxAttempts /\ retryable
  THEN pc' = "backoff" /\ UNCHANGED <<edits, life, err>>
  ELSE Finalize(class, known)
AttemptFails(class, retryable, known) ==
  IF attempt < MaxAttempts /\ retryable /\ ~known
  THEN pc' = "backoff" /\ UNCHANGED <<edits, life, err>>
  ELSE Finalize(class, known)

OpenStream ==
  /\ pc = "open"
  /\ pc' = "receive"
  /\ thinking' = 0 /\ output' = 0 /\ visible' = FALSE
  /\ calls' = 0 /\ malformed' = FALSE /\ paced' = FALSE
  /\ delivered' = base /\ answerDelivered' = FALSE
  /\ UNCHANGED <<iter, attempt, shown, base, pending, answeredIn, edits, contexts, life, err>>

OpenFails ==
  /\ pc = "open"
  /\ \/ \E retryable \in BOOLEAN : AttemptFails("provider", retryable, FALSE)
     \/ reqDone /\ \E class \in ContextClass : AttemptFails(class, FALSE, FALSE)
  /\ UNCHANGED <<progress, shown, payloads, contexts>>

\* nextLLMRetryDelay and the wait: a context that ends stops it, and then the
\* result is the zero value.
Retry ==
  /\ pc = "backoff"
  /\ IF reqDone
     THEN /\ \E class \in ContextClass \cup {"provider"} : Finalize(class, FALSE)
          /\ UNCHANGED attempt
     ELSE pc' = "open" /\ attempt' = attempt + 1 /\ UNCHANGED <<edits, life, err>>
  /\ UNCHANGED <<iter, thinking, output, visible, calls, malformed, paced,
                 shown, payloads, contexts>>

\* The text an intermediate edit would show.
NextText ==
  IF output' > 0 THEN Answer(output') ELSE Thinking(iter, thinking')

\* ShouldAttemptEdit: the first edit is due at once, a later one when the
\* pacer's interval has passed, which any two chunks may or may not do.
\* A payload that is already there is not sent again.
EditOrGoOn ==
  \/ /\ NextText # delivered
     /\ pc' = "edit" /\ pending' = NextText
  \/ /\ paced \/ NextText = delivered
     /\ UNCHANGED <<pc, pending>>

ReceiveText ==
  /\ pc = "receive"
  /\ thinking + output + calls < MaxChunks
  /\ \/ thinking' = thinking + 1 /\ UNCHANGED <<output, visible>>
     \/ output' = output + 1 /\ visible' \in {visible, TRUE} /\ UNCHANGED thinking
  /\ EditOrGoOn
  /\ UNCHANGED <<iter, attempt, calls, malformed, paced, shown, delivered, base,
                 answerDelivered, answeredIn, edits, contexts, life, err>>

\* RecordEditSuccess or RecordEditFailure; an edit that was not acknowledged
\* leaves lastDeliveredPayload alone.
IntermediateEdit ==
  /\ pc = "edit"
  /\ pc' = "receive" /\ paced' = TRUE /\ pending' = Nothing
  /\ \/ /\ shown' = pending /\ delivered' = pending
        /\ answerDelivered' = (answerDelivered \/ output > 0)
        /\ answeredIn' = IF visible THEN attempt ELSE answeredIn
     \/ shown' \in {shown, pending} /\ UNCHANGED <<delivered, answerDelivered, answeredIn>>
  /\ UNCHANGED <<iter, attempt, thinking, output, visible, calls, malformed, base,
                 edits, contexts, life, err>>

\* accumulateToolCallChunk: a chunk with no id ends the attempt at once, with
\* an empty result.  A call that proves unusable does so at the end.
ReceiveToolCall ==
  /\ pc = "receive"
  /\ thinking + output + calls < MaxChunks
  /\ calls' = calls + 1 /\ malformed' \in {malformed, TRUE}
  /\ \/ UNCHANGED <<pc, edits, life, err>>
     \/ malformed' /\ AttemptFails("internal", FALSE, FALSE)
  /\ UNCHANGED <<iter, attempt, thinking, output, visible, paced, shown, payloads, contexts>>

\* stream.Recv fails, by itself or because the request context ended
ReceiveFails ==
  /\ pc = "receive"
  /\ \/ \E retryable \in BOOLEAN : AttemptFails("provider", retryable, answerDelivered)
     \/ reqDone /\ \E class \in ContextClass : AttemptFails(class, FALSE, answerDelivered)
  /\ UNCHANGED <<progress, shown, payloads, contexts>>

\* io.EOF: finalizeAccumulatedToolCalls returns an empty result with its
\* error, a stream that does not close the result with its own.  A provider's
\* Close returns the plain error of a transport, which classifies as internal,
\* or as the context it ended with, and is never retried.
EndOfStreamFails ==
  /\ pc = "receive"
  /\ \E class \in {"internal"} \cup (IF reqDone THEN ContextClass ELSE {}) :
       AttemptFails(class, FALSE, ~malformed /\ answerDelivered)
  /\ UNCHANGED <<progress, shown, payloads, contexts>>

FinalText == Answer(output)

EndOfStream ==
  /\ pc = "receive" /\ ~malformed
  /\ base' = delivered
  /\ \/ /\ visible /\ FinalText = delivered /\ End("nil")
        /\ UNCHANGED <<edits, pending>>
     \/ /\ visible /\ FinalText # delivered
        /\ pc' = "final" /\ pending' = FinalText /\ edits' = 0 /\ life' = "delivering"
        /\ UNCHANGED err
     \/ /\ ~visible /\ calls = 0
        /\ \/ reqDone /\ \E class \in ContextClass : Finalize(class, FALSE)
           \/ ~reqDone /\ Finalize("empty", FALSE)
        /\ UNCHANGED pending
     \/ /\ ~visible /\ calls > 0 /\ (~HasTools \/ iter = MaxIterations)
        /\ Finalize("internal", FALSE) /\ UNCHANGED pending
     \/ /\ ~visible /\ calls > 0 /\ HasTools /\ iter < MaxIterations
        /\ pc' = "announce" /\ pending' = Tool(iter, 1) /\ life' = "executing_tools"
        /\ UNCHANGED <<edits, err>>
  /\ UNCHANGED <<progress, shown, delivered, answerDelivered, answeredIn, contexts>>

-----------------------------------------------------------------------------
(* executeToolCalls: each call is announced in the placeholder, then made.   *)

AnnounceTool ==
  /\ pc = "announce"
  /\ pc' = "execute"
  /\ \/ shown' = pending /\ base' = pending
     \/ shown' \in {shown, pending} /\ UNCHANGED base
  /\ UNCHANGED <<progress, delivered, answerDelivered, pending, answeredIn, edits,
                 contexts, life, err>>

\* The call of number k is the one announced last.
ExecuteTool ==
  /\ pc = "execute"
  /\ LET k == pending.n[2]
     IN \/ /\ k < calls
           /\ pc' = "announce" /\ pending' = Tool(iter, k + 1)
           /\ UNCHANGED <<iter, attempt, life>>
        \/ /\ k = calls
           /\ pc' = "open" /\ pending' = Nothing /\ iter' = iter + 1 /\ attempt' = 1
           /\ life' = "generating"
  /\ UNCHANGED <<thinking, output, visible, calls, malformed, paced, shown, delivered,
                 base, answerDelivered, answeredIn, edits, contexts, err>>

\* An unknown tool, an error and an empty result end the request.
ToolFails ==
  /\ pc = "execute"
  /\ Finalize("tool", FALSE)
  /\ UNCHANGED <<progress, shown, payloads, contexts>>

-----------------------------------------------------------------------------
(* retryEditMessage, for the answer and for the explanation of a failure.    *)

Text == IF pc = "final" THEN pending ELSE Failure

\* One attempt that is acknowledged.
EditDone ==
  /\ pc \in {"final", "explain"}
  /\ edits = 0 => ~ctxDone
  /\ shown' = Text
  /\ End(IF pc = "final" THEN "nil" ELSE err)
  /\ answeredIn' = IF pc = "final" THEN attempt ELSE answeredIn
  /\ UNCHANGED <<progress, delivered, base, answerDelivered, pending, edits, contexts>>

\* One that is not: the next follows a delay, unless the handler's time ends.
EditAgain ==
  /\ pc \in {"final", "explain"}
  /\ ~ctxDone /\ edits + 1 < MaxEditAttempts
  /\ shown' \in {shown, Text}
  /\ edits' = edits + 1
  /\ UNCHANGED <<pc, progress, payloads, contexts, life, err>>

\* Too many of them, a request the driver calls invalid, or no time left.
EditGivesUp ==
  /\ pc \in {"final", "explain"}
  /\ shown' \in IF edits = 0 /\ ctxDone THEN {shown} ELSE {shown, Text}
  /\ ctxDone \/ edits + 1 = MaxEditAttempts \/ shown' = shown
  /\ End("delivery")
  /\ UNCHANGED <<progress, payloads, edits, contexts>>

-----------------------------------------------------------------------------
(* agent.RequestTimeout ends the request context; the handler's deadline,    *)
(* or the kernel's shutdown, ends both.                                      *)

NoTimeout ==
  /\ pc = "done" /\ ~reqDone /\ reqDone' = TRUE
  /\ UNCHANGED <<pc, progress, shown, payloads, edits, ctxDone, life, err>>
RequestTimeout ==
  /\ Running /\ pc # "placeholder" /\ ~reqDone
  /\ reqDone' = TRUE
  /\ UNCHANGED <<pc, progress, shown, payloads, edits, ctxDone, life, err>>

HandlerDone ==
  /\ Running /\ ~ctxDone
  /\ ctxDone' = TRUE /\ reqDone' = TRUE
  /\ UNCHANGED <<pc, progress, shown, payloads, edits, life, err>>

-----------------------------------------------------------------------------

\* What the handler does by itself or because a call of the dispatcher, of a
\* tool or of the provider returns; each of them is given a context, and a
\* stream fails at the latest when its own has ended.
HandlerStep ==
  \/ SendPlaceholder \/ Prepare \/ PrepareFails \/ Retry
  \/ IntermediateEdit \/ AnnounceTool \/ ExecuteTool \/ ToolFails
  \/ EditDone \/ EditAgain \/ EditGivesUp
  \/ reqDone /\ (OpenFails \/ ReceiveFails)

ProviderStep ==
  \/ OpenStream \/ OpenFails \/ ReceiveText \/ ReceiveToolCall \/ ReceiveFails
  \/ EndOfStream \/ EndOfStreamFails

Next == HandlerStep \/ ProviderStep \/ RequestTimeout \/ HandlerDone

Spec == Init /\ [][Next]_vars

\* The provider may stay silent for ever; the timer does not.
FairSpec == Spec /\ WF_vars(HandlerStep) /\ WF_vars(RequestTimeout)

-----------------------------------------------------------------------------

TypeOK ==
  /\ iter \in 1..MaxIterations /\ attempt \in 1..MaxAttempts
  /\ thinking + output + calls \in 0..MaxChunks /\ edits \in 0..MaxEditAttempts
  /\ visible => output > 0
  /\ malformed => calls > 0
  /\ answerDelivered => output > 0
  /\ ctxDone => reqDone
  /\ pc = "done" <=> err \notin {"none"} /\ life \in {"completed", "failed", "canceled"}

\* What the conversation has seen of an answer stays: it is not generated
\* again (canRetry holds across rounds, paced edits and edits of unknown
\* outcome), and it is not overwritten by the text of a retry, of a tool or
\* of a failure, as long as the provider's tool calls are well-formed.
AnswerStays ==
  answeredIn # 0 => attempt = answeredIn /\ (~malformed => shown.what = "answer")

\* What the tests say of every partial answer (reliability_test.go): it is
\* not overwritten.
PartialAnswerKept == answeredIn # 0 => shown.what = "answer"

\* Nobody is left looking at a placeholder.  A handler that reports success
\* has shown the whole answer of the attempt that succeeded; one that ends
\* with time to spare, and whose edits are not all refused, has replaced the
\* placeholder by an answer or by an explanation.
PlaceholderIsReplaced ==
  /\ err = "nil" => shown = FinalText
  /\ pc = "done" /\ ~ctxDone /\ err # "delivery" => shown.what \in {"answer", "failure"}

\* Every request ends: the provider's silence by the request's timeout, the
\* rest by the bounds on rounds, attempts and edits.
HandlerEnds == <>(pc = "done")
=============================================================================
