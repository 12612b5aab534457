---------------------------- MODULE ProviderTurns ----------------------------
(***************************************************************************)
(* One conversation between an agent and its model: what a provider sends   *)
(* (pkg/llm/providers/gemini/stream.go, openai/stream.go), the calls that   *)
(* modules/llmchat collects from it and runs (streaming.go, tools.go), and  *)
(* the next request, as each provider is given it (gemini/provider.go,      *)
(* openai/provider.go) under the contract of pkg/otogi/ai/llm.go.           *)
(*                                                                         *)
(* A text is a sequence of tokens, " " is a blank one; an id is <<>> if     *)
(* missing or blank; an optional value is a set with at most one element.   *)
(***************************************************************************)
EXTENDS Integers, Sequences, SequencesExt, FiniteSets

CONSTANT ToolNames    \* the identifiers a tool may have

IsBlank(text) == ToSet(text) \subseteq {" "}
Joined(texts) == FlattenSeq(texts)
FirstOf(set) == CHOOSE n \in set : \A m \in set : n <= m
LastOf(set) == CHOOSE n \in set : \A m \in set : m <= n

\* valid JSON that is an object: one pair of braces around anything without braces
JsonObject(text) ==
  /\ Len(text) >= 2 /\ text[1] = "{" /\ text[Len(text)] = "}"
  /\ \A n \in 2..(Len(text) - 1) : text[n] \notin {"{", "}", "null"}

ValidToolCall(c) == c.id # <<>> /\ c.name \in ToolNames /\ JsonObject(c.args)

-----------------------------------------------------------------------------
(* What a stream delivers: its chunks and how it ends, "" for its end.      *)

TextChunk(kind, delta) ==
  [kind |-> kind, delta |-> delta, id |-> <<>>, name |-> "", args |-> <<>>, signature |-> ""]
CallChunk(id, name, args, signature) ==
  [kind |-> "tool_call", delta |-> <<>>, id |-> id, name |-> name, args |-> args,
   signature |-> signature]

\* Gemini: a response is blocked, or has parts and perhaps a reason to finish
FinishFailure(reason) ==
  IF reason \in {"", "STOP"} THEN ""
  ELSE IF reason \in {"SAFETY", "RECITATION", "BLOCKLIST", "PROHIBITED_CONTENT", "SPII"}
       THEN "safety_refusal" ELSE "internal"
ResponseFailure(r) ==
  IF r.blocked THEN "safety_refusal" ELSE IF r.parts = <<>> THEN "" ELSE FinishFailure(r.finish)

\* arguments that are missing altogether are written as "null"
GeminiChunk(part, includeThoughts) ==
  IF part.call # {}
  THEN LET c == CHOOSE x \in part.call : TRUE
       IN <<CallChunk(c.id, c.name, IF c.args = {} THEN <<"null">> ELSE CHOOSE a \in c.args : TRUE,
                      c.signature)>>
  ELSE IF part.text = <<>> \/ (part.thought /\ ~includeThoughts) THEN <<>>
  ELSE <<TextChunk(IF part.thought THEN "thinking_summary" ELSE "output_text", part.text)>>

MapResponse(r, includeThoughts) ==
  Joined([n \in DOMAIN r.parts |-> GeminiChunk(r.parts[n], includeThoughts)])

\* a call without an id gets one, numbered within its stream
Synthetic(n) == <<"gemini.synthetic.call-", n>>
IsSynthetic(id) == Len(id) = 2
EnsureToolCallIDs(chunks) ==
  LET nameless(n) == chunks[n].kind = "tool_call" /\ chunks[n].id = <<>>
  IN [n \in DOMAIN chunks |->
        IF nameless(n)
        THEN [chunks[n] EXCEPT !.id = Synthetic(Cardinality({m \in 1..n : nameless(m)}))]
        ELSE chunks[n]]

GeminiStream(responses, includeThoughts) ==
  LET failing == {n \in DOMAIN responses : ResponseFailure(responses[n]) # ""}
      read == IF failing = {} THEN Len(responses) ELSE FirstOf(failing) - 1
  IN [chunks  |-> EnsureToolCallIDs(
                    Joined([n \in 1..read |-> MapResponse(responses[n], includeThoughts)])),
      failure |-> IF failing = {} THEN "" ELSE ResponseFailure(responses[FirstOf(failing)])]

\* OpenAI: an event that lacks what its type requires, and one that reports a failure, end it
EventFailure(e) ==
  IF e.type = "" \/ ~e.complete THEN "internal"
  ELSE IF e.type \in {"failed", "error"} THEN e.class ELSE ""

\* deltas carry the id of their item only; the call was announced with the item
Announced(events, n) ==
  {m \in 1..(n - 1) : /\ events[m].type = "item_added" /\ events[m].function
                      /\ events[m].item = events[n].item
                      /\ events[m].item # <<>> /\ events[m].call # <<>>}
OpenAIChunk(events, n) ==
  LET e == events[n]
  IN CASE e.type = "text" -> TextChunk("output_text", e.delta)
       [] e.type = "summary" -> TextChunk("thinking_summary", e.delta)
       [] e.type = "item_added" /\ e.function -> CallChunk(e.call, e.name, <<>>, "")
       [] e.type = "arguments" ->
            IF Announced(events, n) = {} THEN CallChunk(<<>>, "", e.delta, "")
            ELSE LET m == LastOf(Announced(events, n))
                 IN CallChunk(events[m].call, events[m].name, e.delta, "")
       [] OTHER -> TextChunk("output_text", <<>>)

\* events after the completion are not read; text chunks without text are not delivered
OpenAIStream(events) ==
  LET ends == {n \in DOMAIN events : events[n].type = "completed" \/ EventFailure(events[n]) # ""}
      read == IF ends = {} THEN Len(events) ELSE FirstOf(ends) - 1
  IN [chunks  |-> SelectSeq([n \in 1..read |-> OpenAIChunk(events, n)],
                            LAMBDA c : c.kind = "tool_call" \/ c.delta # <<>>),
      failure |-> IF ends = {} THEN "" ELSE EventFailure(events[FirstOf(ends)])]

-----------------------------------------------------------------------------
(* What llmchat makes of a stream.                                          *)

Of(chunks, kind) == SelectSeq(chunks, LAMBDA c : c.kind = kind)
Deltas(chunks) == [n \in DOMAIN chunks |-> chunks[n].delta]

\* accumulateToolCallChunk over all chunks: calls in the order of their first chunks
Accumulated(chunks) ==
  LET calls == Of(chunks, "tool_call")
      firsts == {n \in DOMAIN calls : \A m \in 1..(n - 1) : calls[m].id # calls[n].id}
      mine(id) == SelectSeq(calls, LAMBDA c : c.id = id)
      named(cs) == {n \in DOMAIN cs : cs[n].name # ""}
      signed(cs) == {n \in DOMAIN cs : cs[n].signature # ""}
      call(id) ==
        LET cs == mine(id)
        IN [id |-> id,
            name |-> IF named(cs) = {} THEN "" ELSE cs[LastOf(named(cs))].name,
            args |-> Joined([n \in DOMAIN cs |-> cs[n].args]),
            signature |-> IF signed(cs) = {} THEN "" ELSE cs[FirstOf(signed(cs))].signature]
      order == SetToSortSeq(firsts, <)
  IN [k \in DOMAIN order |-> call(calls[order[k]].id)]

Turn(stream) ==
  LET calls == Accumulated(stream.chunks)
      failure == IF \E n \in DOMAIN calls : calls[n].id = <<>> THEN "internal"
                 ELSE IF stream.failure # "" THEN stream.failure
                 ELSE IF \E n \in DOMAIN calls : ~ValidToolCall(calls[n]) THEN "internal" ELSE ""
  IN [failure |-> failure, text |-> Joined(Deltas(Of(stream.chunks, "output_text"))),
      calls |-> calls]

\* the text a sub-agent answers with: its calls and thoughts are skipped
SubAgentAnswer(stream) ==
  IF stream.failure # "" THEN <<>> ELSE Joined(Deltas(Of(stream.chunks, "output_text")))

-----------------------------------------------------------------------------
(* Tools and the messages of a request.                                     *)

\* NewToolRegistry keeps the first handler of each name
Registry(handlers) ==
  [name \in {h.name : h \in ToSet(handlers)} \ {""} |->
     handlers[FirstOf({n \in DOMAIN handlers : handlers[n].name = name})]]

Spoken(role, content) ==
  [role |-> role, content |-> content, parts |-> <<>>, toolCallID |-> <<>>, toolCalls |-> <<>>]

ValidPart(p) ==
  CASE p.type = "text" -> ~IsBlank(p.text) /\ p.image = {}
    [] p.type = "image" -> IsBlank(p.text) /\ p.image # {} /\ \A i \in p.image : i.mime # "" /\ i.data # <<>>
    [] OTHER -> FALSE
ValidMessage(m) ==
  /\ m.role \in {"system", "user", "assistant", "tool"}
  /\ IF m.role = "tool"
     THEN m.toolCalls = <<>> /\ m.toolCallID # <<>> /\ ~IsBlank(m.content) /\ m.parts = <<>>
     ELSE /\ m.toolCallID = <<>>
          /\ m.toolCalls # <<>> => m.role = "assistant"
          /\ \A c \in ToSet(m.toolCalls) : ValidToolCall(c)
          /\ m.parts # <<>> => IsBlank(m.content) /\ \A p \in ToSet(m.parts) : ValidPart(p)
          /\ IsBlank(m.content) => m.parts # <<>> \/ m.toolCalls # <<>>
ValidRequest(messages) == messages # <<>> /\ \A m \in ToSet(messages) : ValidMessage(m)

ContentParts(m) ==
  IF m.parts # <<>> THEN m.parts
  ELSE IF IsBlank(m.content) THEN <<>>
  ELSE <<[type |-> "text", text |-> m.content, image |-> {}]>>

\* executeToolCalls: in order, and all of it fails with the first one that has no result
Executes(tools, calls) ==
  \A c \in ToSet(calls) : c.name \in DOMAIN tools /\ ~IsBlank(tools[c.name].result)
ToolMessages(tools, calls) ==
  [n \in DOMAIN calls |->
     [Spoken("tool", tools[calls[n].name].result) EXCEPT !.toolCallID = calls[n].id]]

\* streamProviderReply after a turn: the answer, a failure, or the next request
AfterTurn(messages, turn, tools) ==
  LET next == messages \o <<[Spoken("assistant", <<>>) EXCEPT !.toolCalls = turn.calls]>>
                       \o ToolMessages(tools, turn.calls)
  IN IF turn.failure # "" THEN [state |-> turn.failure, messages |-> messages]
     ELSE IF ~IsBlank(turn.text) THEN [state |-> "answered", messages |-> messages]
     ELSE IF turn.calls = <<>> THEN [state |-> "empty_response", messages |-> messages]
     ELSE IF DOMAIN tools = {} THEN [state |-> "internal", messages |-> messages]
     ELSE IF ~Executes(tools, turn.calls) THEN [state |-> "tool_failure", messages |-> messages]
     ELSE [state |-> IF ValidRequest(next) THEN "asking" ELSE "internal", messages |-> next]

-----------------------------------------------------------------------------
(* The next request as a provider is given it.                              *)

GeminiSystem(messages) ==
  Joined([n \in DOMAIN messages |->
            IF messages[n].role = "system" THEN ContentParts(messages[n]) ELSE <<>>])

SentID(id) == IF IsSynthetic(id) THEN <<>> ELSE id
FunctionCall(c) ==
  [call |-> SentID(c.id), name |-> c.name, args |-> c.args, signature |-> c.signature]
FunctionResponse(id, name, result) ==
  [answers |-> SentID(id), name |-> name,
   result |-> IF JsonObject(result) THEN result ELSE <<"{", "result">> \o result \o <<"}">>]

\* toolCallNames: the name of the call a result belongs to, the last before it with its id
CallsBefore(messages, n) ==
  {<<k, c>> \in (1..(n - 1)) \X UNION {ToSet(messages[k].toolCalls) : k \in 1..(n - 1)} :
     c \in ToSet(messages[k].toolCalls) /\ c.id = messages[n].toolCallID}
NameOf(messages, n) ==
  LET before == CallsBefore(messages, n)
      last == LastOf({b[1] : b \in before})
  IN IF before = {} THEN "" ELSE (CHOOSE b \in before : b[1] = last)[2].name

GeminiContent(messages, n) ==
  LET m == messages[n]
  IN CASE m.role = "system" -> <<>>
       [] m.role = "user" -> <<[role |-> "user", parts |-> ContentParts(m)]>>
       [] m.role = "assistant" ->
            <<[role |-> "model", parts |-> ContentParts(m) \o
                 [k \in DOMAIN m.toolCalls |-> FunctionCall(m.toolCalls[k])]]>>
       [] m.role = "tool" ->
            <<[role |-> "user",
               parts |-> <<FunctionResponse(m.toolCallID, NameOf(messages, n), m.content)>>]>>
GeminiContents(messages) == Joined([n \in DOMAIN messages |-> GeminiContent(messages, n)])
GeminiMaps(messages) ==
  /\ \A n \in DOMAIN messages : messages[n].role = "tool" => NameOf(messages, n) # ""
  /\ \A p \in ToSet(GeminiSystem(messages)) : p.image = {} /\ ~IsBlank(p.text)
  /\ GeminiContents(messages) # <<>>

OpenAIItem(m) ==
  LET said == <<[role |-> m.role, parts |-> ContentParts(m)]>>
  IN CASE m.role = "tool" -> <<[output |-> m.toolCallID, result |-> m.content]>>
       [] m.role = "assistant" ->
            (IF ContentParts(m) = <<>> THEN <<>> ELSE said) \o
            [k \in DOMAIN m.toolCalls |->
               [call |-> m.toolCalls[k].id, name |-> m.toolCalls[k].name, args |-> m.toolCalls[k].args]]
       [] OTHER -> said
OpenAIItems(messages) == Joined([n \in DOMAIN messages |-> OpenAIItem(messages[n])])

-----------------------------------------------------------------------------
(* What must hold.                                                          *)

\* the calls a provider made in one stream, as it made them
GeminiCalls(responses) ==
  LET parts == Joined([n \in DOMAIN responses |-> responses[n].parts])
      made == SelectSeq(parts, LAMBDA p : p.call # {})
  IN [n \in DOMAIN made |-> CHOOSE c \in made[n].call : TRUE]
OpenAICalls(events) ==
  LET made == SelectSeq(events, LAMBDA e : e.type = "item_added" /\ e.function)
      pieces(item) == SelectSeq(events, LAMBDA e : e.type = "arguments" /\ e.item = item)
  IN [n \in DOMAIN made |-> [id |-> made[n].call, name |-> made[n].name, signature |-> "",
                             args |-> {Joined(Deltas(pieces(made[n].item)))}]]

StreamOf(provider, turn) ==
  IF provider = "gemini" THEN GeminiStream(turn, TRUE) ELSE OpenAIStream(turn)
CallsOf(provider, turn) == IF provider = "gemini" THEN GeminiCalls(turn) ELSE OpenAICalls(turn)

\* the conversation after each of the provider's turns, as long as it goes on
Conversation(provider, first, turns, tools) ==
  LET after[k \in 0..Len(turns)] ==
        IF k = 0 THEN [state |-> "asking", messages |-> first]
        ELSE IF after[k - 1].state # "asking" THEN after[k - 1]
        ELSE AfterTurn(after[k - 1].messages, Turn(StreamOf(provider, turns[k])), tools)
  IN after

\* the model's calls and our results as the model would have them repeated
Repeated(provider, calls, tools) ==
  IF provider = "gemini"
  THEN <<[role |-> "model", parts |->
            [n \in DOMAIN calls |->
               [call |-> calls[n].id, name |-> calls[n].name, args |-> CHOOSE a \in calls[n].args : TRUE,
                signature |-> calls[n].signature]]]>>
       \o [n \in DOMAIN calls |->
             [role |-> "user",
              parts |-> <<FunctionResponse(calls[n].id, calls[n].name, tools[calls[n].name].result)>>]]
  ELSE [n \in DOMAIN calls |-> [call |-> calls[n].id, name |-> calls[n].name,
                                args |-> CHOOSE a \in calls[n].args : TRUE]]
       \o [n \in DOMAIN calls |-> [output |-> calls[n].id, result |-> tools[calls[n].name].result]]
Asked(provider, messages) ==
  IF provider = "gemini" THEN GeminiContents(messages) ELSE OpenAIItems(messages)

\* a turn without a failure whose calls are whole and differ, announced before their arguments
Readable(provider, turn) ==
  /\ StreamOf(provider, turn).failure = ""
  /\ LET made == CallsOf(provider, turn)
     IN \A m, n \in DOMAIN made :
          /\ made[m].name \in ToolNames /\ made[m].args # {} /\ \A a \in made[m].args : JsonObject(a)
          /\ made[m].id = made[n].id => m = n \/ (provider = "gemini" /\ made[m].id = <<>>)
  /\ provider = "openai" => \A n \in DOMAIN turn :
       /\ turn[n].type = "arguments" => Announced(turn, n) # {}
       /\ turn[n].type = "completed" => n = Len(turn)

\* The tools that run are the ones the model called, with its arguments and in its order, or
\* none at all; and each further request is accepted and tells the model its own calls with
\* its own ids, each followed by its result under its name, though ids the provider left out
\* are numbered anew in every turn.  A turn that is in order is never refused.
TurnsHold(provider, first, turns, handlers) ==
  LET tools == Registry(handlers)
      after == Conversation(provider, first, turns, tools)
      asking == {k \in DOMAIN turns : after[k].state = "asking"}
      repeats == Joined([n \in DOMAIN turns |->
                           IF n \in asking
                           THEN Repeated(provider, CallsOf(provider, turns[n]), tools) ELSE <<>>])
  IN /\ \A k \in asking :
          LET made == CallsOf(provider, turns[k])
              ran == Turn(StreamOf(provider, turns[k])).calls
          IN /\ [n \in DOMAIN made |-> made[n].name] = [n \in DOMAIN ran |-> ran[n].name]
             /\ \A n \in DOMAIN made : made[n].args = {ran[n].args}
             /\ Cardinality({c.id : c \in ToSet(ran)}) = Len(ran)
             /\ provider = "gemini" => GeminiMaps(after[k].messages)
     /\ \A k \in DOMAIN turns : Readable(provider, turns[k]) /\ DOMAIN tools # {} =>
          after[k].state # "internal" \/ \E j \in 1..(k - 1) : after[j].state = "internal"
     /\ Asked(provider, after[Len(turns)].messages) = Asked(provider, first) \o repeats
=============================================================================
