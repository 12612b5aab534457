-------------------------- MODULE MCTransformations --------------------------
(***************************************************************************)
(* What is decided from one input alone, for TLC.  A behaviour either is a  *)
(* module's registration and what it is then given (Negotiation), or it     *)
(* takes one input of one of the pure modules, of which the invariants      *)
(* speak.                                                                   *)
(***************************************************************************)
EXTENDS MCNegotiation, Decisions

X == INSTANCE ChatContext WITH Marks <- {","}
T == INSTANCE ProviderTurns WITH ToolNames <- {"find", "draw", "lost"}

CapitalNames == [n \in {"Mute"} |-> "mute"]
LowerNames == [n \in {"Ada"} |-> "ada"]
PaddedKeys == [k \in {" pad "} |-> "gemini.thinking_level"]
NumberTexts == [n \in {"7"} |-> 7]

-----------------------------------------------------------------------------
\* Raw updates: people 1 and 2, group 5, channel 7, message 9; 0 is a missing id.

Peer(k, n) == [kind |-> k, id |-> n]
Peers == {Peer("user", 1), Peer("chat", 5), Peer("channel", 7), Peer("none", 0)}
Envs == {<<>>, [n \in {7} |-> "group"]}
UTexts == {<<>>, <<1>>, <<2, 1>>, <<1, 2, 2>>}
Marks == [type : {"bold", "text_url"}, off : 0..4, len : 1..5, attr : {3}]
Marked(text) == {<<>>} \cup {<<e>> : e \in {x \in Marks : U!WellFormed(text, x)}}

Posts ==
  UNION {[class : {"message", "edit"}, peer : Peers, from : Peers, env : Envs, msg : {9},
          date : {0, 4}, envDate : {6}, text : {t}, entities : Marked(t)] : t \in UTexts}
Services ==
  [class : {"service"}, act : {"addUser", "deleteUser", "joinedByLink", "joinedByRequest",
     "migrateTo", "migrateFrom", "pinned"}, peer : Peers \ {Peer("none", 0)}, from : Peers,
   env : Envs, users : {<<1>>, <<2, 2>>, <<1, 2, 0>>}, chat : {7}, date : {0, 4}, envDate : {6}]
Removals ==
  [class : {"delete", "deleteChannel"}, msg : {8, 9}, chat : {7},
   env : Envs, envDate : {6}]
ChosenReactions ==
  [class : {"reaction"}, action : {"reaction_add", "reaction_remove"}, peer : Peers, from : Peers,
   env : Envs, msg : {9}, envDate : {6}]
Memberships ==
  [class : {"participantAdd", "participantDelete", "participantAdmin"}, chat : {5, 7}, env : Envs,
   actor : {0, 1}, user : {0, 2}, isAdmin : BOOLEAN, date : {0, 4}, envDate : {6}]
  \cup
  [class : {"chatParticipant"}, prev : {"", "member", "admin"}, new : {"", "member", "admin"},
   chat : {5}, env : Envs, actor : {0, 1}, user : {2}, date : {4}, envDate : {6}]
  \cup
  [class : {"channelParticipant"}, prev : {"", "member", "admin", "left", "banned"},
   new : {"", "member", "admin", "left", "banned"}, chat : {7}, env : Envs, actor : {0, 1},
   user : {2}, date : {4}, envDate : {6}]
Gateway ==
  [class : {"create", "update", "delete", "reaction_add", "reaction_remove", "join", "leave"},
   chat : {5}, guild : {7}, msg : {9}, user : {1}, date : {0, 4}, text : UTexts]

PlatformUpdates == Posts \cup Services \cup Removals \cup ChosenReactions \cup Memberships

-----------------------------------------------------------------------------
\* Configuration files: drivers of both platforms, also of the same one, good and bad.

Account(login) == [settings |-> {}, app |-> TRUE, login |-> login]
Defined(name, type, enabled, config) ==
  [name |-> name, type |-> type, enabled |-> enabled, config |-> {config}]
Definitions ==
  {Defined("tg", "telegram", {}, Account({"bot"})),
   Defined("tg", "telegram", {TRUE}, Account({"bot", "phone"})),
   Defined("tg2", "telegram", {TRUE}, Account({"phone"})),
   Defined("dc", "discord", {TRUE}, [Account({"bot"}) EXCEPT !.settings = {5}]),
   Defined("dc", "discord", {FALSE}, Account({"bot"})),
   Defined("dc", "unknown", {TRUE}, Account({"bot"})),
   Defined("", "discord", {}, Account({"bot"})),
   [Defined("dc", "discord", {}, {}) EXCEPT !.config = {}]}
RouteRecords ==
  {[sources |-> {A!Ref("", "tg")}, sink |-> {A!Ref("", "tg")}],
   [sources |-> {A!Ref("telegram", ""), A!Ref("", "dc")}, sink |-> {A!Ref("discord", "dc")}],
   [sources |-> {A!Ref("", "dc")}, sink |-> {A!Ref("telegram", "dc")}],
   [sources |-> {A!Ref("discord", "")}, sink |-> {A!Ref("telegram", "")}],
   [sources |-> {}, sink |-> {A!Ref("", "tg")}]}
SomeFiles ==
  [settings : {[s \in DOMAIN A!Defaults |-> {}], [s \in DOMAIN A!Defaults |-> {0}]},
   drivers  : ({<<d>> : d \in Definitions} \cup (Definitions \X Definitions)),
   default  : {{}} \cup {{r} : r \in RouteRecords},
   routes   : UNION {[ms -> RouteRecords] : ms \in {{}, {"duel"}, {"nobody"}}}
              \cup {[m \in A!ModuleNames |-> r] : r \in RouteRecords},
   configs  : {{}, {"memory"}}, managed : {{}, {TRUE}}, token : {"", "secret"},
   allowed  : {{}}, bypass : {{""}}]

\* Agent files: two profiles, of which one is varied, and two agents, of which one is;
\* a third variation is in the memory.

Profile(type) ==
  [type |-> type, apiKey |-> TRUE, url |-> "", model |-> "m", dims |-> {3}, openai |-> {},
   gemini |-> {}]
GeminiOptions == [L!PlainGemini EXCEPT !.version = ""]
Profiles ==
  {[Profile("gemini") EXCEPT !.gemini = g] :
     g \in {{}, {[GeminiOptions EXCEPT !.search = {TRUE}]}}
          \cup {{[GeminiOptions EXCEPT !.budget = b, !.level = l]} :
                   b \in {{}, {-1}, {7}, {200}}, l \in {"", "low", "odd"}}}
  \cup {Profile("openai"), Profile("other"),
        [Profile("openai") EXCEPT !.openai = {[retries |-> {-1}]}],
        [Profile("openai") EXCEPT !.gemini = {GeminiOptions}],
        [Profile("openai") EXCEPT !.url = "absolute", !.dims = {}],
        [Profile("gemini") EXCEPT !.model = "", !.url = "relative"],
        [Profile("gemini") EXCEPT !.model = ""], [Profile("gemini") EXCEPT !.apiKey = FALSE]}
Given(replies, total, each, depth) ==
  {[f \in L!ContextFields |->
      CASE f = "replies" -> replies [] f = "maxContext" -> total [] f = "maxMessage" -> each
        [] f = "quoteDepth" -> depth [] OTHER -> {}]}
SubAgent(name, provider) ==
  [name |-> name, provider |-> provider, lacks |-> {}, maxTokens |-> 0, temperature |-> 0,
   metadata |-> <<>>]
Agent(name, provider) ==
  [name |-> name, aliases |-> <<>>, provider |-> provider, lacks |-> {}, maxTokens |-> 0,
   temperature |-> 0, timeout |-> {30}, context |-> {}, images |-> {}, metadata |-> <<>>,
   subs |-> <<>>, remembers |-> FALSE]
AgentVariants ==
  {[Agent("ada", "p") EXCEPT !.metadata = m] :
     m \in [{L!Budget} -> {"7", "many"}] \cup [{L!Level, L!Search} -> {"low", "true"}]
          \cup [{L!Budget, L!Level} -> {"7", "low"}] \cup [{" pad ", "agent"} -> {"low"}]
          \cup [{" pad "} -> {"low"}]}
  \cup {[Agent("ada", "p") EXCEPT !.context = c] :
          c \in {Given({0}, {}, {}, {0}), Given({}, {1000}, {}, {}), Given({3}, {900}, {900}, {-1}),
                 Given({3}, {900}, {800}, {3})}}
  \cup {[Agent("ada", "p") EXCEPT !.images = {[enabled |-> e, max |-> {}, each |-> x, total |-> y,
                                               detail |-> d]}] :
          e \in BOOLEAN, x \in {{}, {15}}, y \in {{}, {12}}, d \in {"", "low", "odd"}}
  \cup {[Agent("ada", "p") EXCEPT !.subs = s, !.remembers = r] :
          s \in {<<SubAgent("dig", "q")>>, <<SubAgent("Ada", "p"), SubAgent("ada", "q")>>,
                 <<SubAgent("dig", "nowhere")>>}, r \in BOOLEAN}
  \cup {[Agent("ada", "p") EXCEPT !.timeout = t, !.aliases = a] :
          t \in {{}, {30}, {120}}, a \in {<<"Ada">>, <<"dr">>, <<"sir">>}}
Remembered(extraction, embedding) ==
  [extraction |-> extraction, embedding |-> embedding, lacks |-> {}]
SomeAgentFiles ==
  [timeout : {{}, {30}, {20}},
   providers : {<<[key |-> "q", profile |-> Profile("openai")], [key |-> k, profile |-> p]>> :
                  k \in {"p", "q"}, p \in Profiles},
   agents : {<<a>> : a \in AgentVariants}
            \cup {<<Agent(n, "q"), a>> : n \in {"Ada", "dr"}, a \in AgentVariants},
   memory : {{}, {Remembered("q", "p")}, {[Remembered("p", "q") EXCEPT !.lacks = {"database_file"}]},
             {Remembered("p", "z")}, {Remembered("z", "q")}}]

-----------------------------------------------------------------------------
\* Commands: /mute and ~mute with options by name, by alias and by both; every text of up to
\* four tokens for /mute, shorter ones in listed and unlisted conversations.

Option(name, alias, hasValue, required) ==
  [name |-> name, alias |-> alias, hasValue |-> hasValue, required |-> required]
Token(kind, name) == [kind |-> kind, name |-> name]
SomeSpecs ==
  <<[prefix |-> "/", name |-> "mute",
     options |-> <<Option("for", "f", TRUE, TRUE), Option("quiet", "", FALSE, FALSE),
                   Option("", "x", TRUE, FALSE)>>],
    [prefix |-> "~", name |-> "mute", options |-> <<Option("", "f", FALSE, TRUE)>>],
    [prefix |-> "~", name |-> "who", options |-> <<>>]>>
Tokens == {Token("long", "for"), Token("short", "f"), Token("long", "quiet"), Token("short", "x"),
           Token("word", "1h"), Token("assign", "for"), Token("short", "q")}
Headers == {C!HeaderOf("/", "Mute", "bot"), C!HeaderOf("~", "mute", ""), C!HeaderOf("~", "who", ""),
            C!HeaderOf("/", "nobody", ""), C!HeaderOf("/", "", ""), C!HeaderOf("none", "hello", "")}
SomeInvocations == UNION {{C!HeaderOf("/", "mute", "") \o t : t \in [1..n -> Tokens]} : n \in 0..4}
SomeSaid ==
  [text : {<<>>} \cup Headers \cup {h \o <<t>> : h \in Headers, t \in Tokens},
   kind : {"article.created", "article.edited"}, conversation : {<<"c">>, <<"d">>},
   conversations : {{}, {<<"tg", "c">>}}, bypass : {{"Mute"}, {"who", ""}},
   accepts : {{"article.created", "article.edited", "command", "system_command"},
              {"article.edited", "command", "system_command"}, {"article.created"}}]

-----------------------------------------------------------------------------
\* Requests to an agent: short threads of blank, short and long messages, and one of
\* fourteen, over a background as short or as long; messages 100 and 101 answer each other.

Sizes(max, sizes) == UNION {[1..n -> sizes] : n \in 0..max}
Threads == (Sizes(3, {0, 1, 4}) \ {<<>>}) \cup {[n \in 1..14 |-> 1]}
Backgrounds == Sizes(2, {0, 2}) \cup {[n \in 1..12 |-> 1]}
Picture(n) == <<[id |-> n, size |-> n % 4], [id |-> 1, size |-> 1]>>
Message(n, text, parent, at) ==
  [id |-> n, text |-> text, parent |-> parent, images |-> Picture(n), at |-> at]
Requests ==
  [thread : Threads, background : Backgrounds, root : {0, 100},
   policy : [maxContext : {8, 14, 30}, maxMessage : {3}, replies : {1, 2, 6}, maxAge : {2},
             quoteDepth : {0, 2}, images : BOOLEAN, maxImages : {2}, maxImageBytes : {2},
             maxBytes : {3}]]
Asked ==
  LET chain == [n \in DOMAIN input.thread |->
                  Message(n, input.thread[n], IF n = 1 THEN input.root ELSE n - 1, 20)]
      listed == [n \in DOMAIN input.background |->
                  Message(50 + n, input.background[n], IF n % 2 = 0 THEN 101 ELSE 0,
                          IF n % 3 = 1 THEN 17 ELSE 19)]
      quoted == {Message(100, 2, 101, 3), Message(101, 1, 100, 4)}
      known == {chain[n] : n \in DOMAIN chain} \cup quoted
  IN [chain |-> chain, listed |-> listed, at |-> 20, policy |-> input.policy,
      cache |-> [i \in {m.id : m \in known} |-> CHOOSE m \in known : m.id = i]]

Agents == <<[name |-> "ada", names |-> {<<"ada">>, <<"dr", "ada">>}],
            [name |-> "dr", names |-> {<<"dr">>}]>>
Greetings == UNION {[1..n -> {"dr", "ada", ",", "hi"}] : n \in 0..4}

-----------------------------------------------------------------------------
\* Turns of a model: Gemini's as one or two responses, OpenAI's as events of two items in
\* every order, each followed by a second turn, with a tool that has no result.

Call(id, name, args, signature) == {[id |-> id, name |-> name, args |-> args, signature |-> signature]}
Part(text, thought, call) == [text |-> text, thought |-> thought, call |-> call]
Parts ==
  {Part(<<"hi">>, FALSE, {}), Part(<<"hm">>, TRUE, {}),
   Part(<<>>, FALSE, Call(<<>>, "find", {<<"{", "x", "}">>}, "s")),
   Part(<<>>, FALSE, Call(<<>>, "draw", {<<"{", "}">>}, "")),
   Part(<<>>, FALSE, Call(<<"a">>, "find", {<<"{", "y", "}">>}, "")),
   Part(<<>>, FALSE, Call(<<"a">>, "draw", {}, "t")),
   Part(<<>>, FALSE, Call(<<"b">>, "lost", {<<"{", "}">>}, ""))}
Response(parts, finish) == [blocked |-> finish = "blocked", parts |-> parts, finish |-> finish]
Responses ==
  {Response(ps, "") : ps \in UNION {[1..n -> Parts] : n \in 0..2}}
  \cup {Response(<<p>>, f) : p \in Parts, f \in {"STOP", "SAFETY", "MAX_TOKENS", "blocked"}}
LaterResponses == {Response(<<p>>, "STOP") : p \in Parts} \cup {Response(<<>>, "")}
GeminiTurns ==
  {<<<<r>>, <<l, m>>>> : r \in Responses, l \in LaterResponses, m \in LaterResponses}
  \cup {<<<<l, r>>, <<m>>>> : r \in Responses, l \in LaterResponses, m \in LaterResponses}

StreamEvent(type, item, call, name, delta) ==
  [type |-> type, complete |-> TRUE, function |-> call # <<>>, class |-> "", item |-> item,
   call |-> call, name |-> name, delta |-> delta]
Item(item, call, name) == StreamEvent("item_added", item, call, name, <<>>)
Delta(item, delta) == StreamEvent("arguments", item, <<>>, "", delta)
TwoCalls ==
  <<Item(<<"i">>, <<"a">>, "find"), Item(<<"j">>, <<"b">>, "draw"), Delta(<<"i">>, <<"{", "x">>),
    Delta(<<"i">>, <<"}">>), Delta(<<"j">>, <<"{">>), Delta(<<"j">>, <<"}">>)>>
Orders == {f \in [1..6 -> 1..6] : \A m, n \in 1..6 : f[m] = f[n] => m = n}
StreamEvents ==
  {TwoCalls[1], TwoCalls[2], Delta(<<"i">>, <<"{", "}">>), Delta(<<"j">>, <<"{", "}">>),
   StreamEvent("text", <<>>, <<>>, "", <<"hi">>), StreamEvent("completed", <<>>, <<>>, "", <<>>),
   [StreamEvent("error", <<>>, <<>>, "", <<>>) EXCEPT !.class = "rate_limited"]}
LaterTurns ==
  {<<Item(<<"k">>, <<"c">>, "draw"), Delta(<<"k">>, <<"{", "z", "}">>)>>,
   <<StreamEvent("summary", <<>>, <<>>, "", <<"hm">>), StreamEvent("text", <<>>, <<>>, "", <<"ho">>)>>,
   <<[StreamEvent("text", <<>>, <<>>, "", <<>>) EXCEPT !.complete = FALSE]>>}
\* an item is announced once and nothing follows the end
Protocol(es) ==
  \A m, n \in DOMAIN es : /\ es[m].type = "item_added" /\ es[m] = es[n] => m = n
                          /\ es[m].type \in {"completed", "error"} => n <= m
OpenAITurns ==
  {<<es, later>> : es \in {x \in UNION {[1..n -> StreamEvents] : n \in 0..4} : Protocol(x)},
                   later \in LaterTurns}
  \cup {<<[n \in 1..6 |-> TwoCalls[f[n]]], later>> : f \in Orders, later \in LaterTurns}

AgentTool(name, result) == [name |-> name, result |-> result]
AgentTools ==
  <<AgentTool("find", <<"{", "found", "}">>), AgentTool("draw", <<"drawn">>), AgentTool("find", <<"no">>),
    AgentTool("lost", <<" ">>)>>
Opening == <<T!Spoken("system", <<"be", "brief">>), T!Spoken("user", <<"hi">>)>>

-----------------------------------------------------------------------------
\* Errors of a platform, three in a row or the same one thirteen times, with much and little
\* time left; failures of a provider, with the codes and statuses that go together.

Text(wait, limits, passing) == [wait |-> wait, limits |-> limits, passing |-> passing]
Silent == Text({}, FALSE, FALSE)
Error(rpc, wait, text) == [invalid |-> FALSE, rpc |-> rpc, wait |-> wait, text |-> text]
Rpc(code, flood) == {[code |-> code, flood |-> flood]}
PlatformErrors ==
  {[Error({}, {}, Silent) EXCEPT !.invalid = TRUE], Error({}, {}, Text({30}, FALSE, FALSE)),
   Error({}, {}, Text({0}, TRUE, FALSE)), Error(Rpc(420, TRUE), {}, Silent)}
  \cup {Error(Rpc(c, FALSE), {}, Silent) : c \in {303, 403, 429, 503}}
  \cup {Error(Rpc(420, TRUE), {w}, Silent) : w \in {0, 1, 30, 300}}
SomeEdits ==
  [platform : {"telegram", "discord"}, left : {0, 60, 2000},
   errs : UNION {[1..n -> PlatformErrors] : n \in 0..2}
          \cup {[n \in 1..k |-> e] : k \in {11, 12, 13}, e \in PlatformErrors}]

Statuses ==
  {<<400, "INVALID_ARGUMENT">>, <<400, "FAILED_PRECONDITION">>, <<401, "UNAUTHENTICATED">>,
   <<403, "PERMISSION_DENIED">>, <<404, "NOT_FOUND">>, <<408, "">>, <<409, "ABORTED">>, <<425, "">>,
   <<429, "RESOURCE_EXHAUSTED">>, <<499, "CANCELLED">>, <<500, "INTERNAL">>, <<500, "UNKNOWN">>,
   <<501, "UNIMPLEMENTED">>, <<502, "">>, <<503, "UNAVAILABLE">>, <<504, "DEADLINE_EXCEEDED">>,
   <<0, "UNAVAILABLE">>, <<200, "">>}
ApiErrors ==
  UNION {[code : {s[1]}, status : {s[2]}, safety : BOOLEAN, after : {{}, {0}, {1}, {20}, {90}}] :
           s \in Statuses}
SomeFailures ==
  [provider : {"gemini", "openai"}, caller : {{}, {"canceled"}, {"timeout"}}, typed : {{}},
   api : {{}} \cup {{a} : a \in ApiErrors}, network : {{}, {"timeout"}, {"refused"}},
   text : {Silent, Text({30}, FALSE, FALSE), Text({0}, TRUE, TRUE)}]
  \cup
  [provider : {"gemini", "openai"}, caller : {{}, {"timeout"}},
   typed : {{R!OpenAIStreamFailure(w)} : w \in {"safety", "quota", "auth", "invalid", "server", "other"}},
   api : {{}}, network : {{}}, text : {Silent, Text({}, FALSE, TRUE)}]

-----------------------------------------------------------------------------
TInit ==
  /\ GateInit
  /\ \/ scene = "gate" /\ input = "none"
     \/ /\ module = CHOOSE m \in Modules : TRUE
        /\ \/ Looked
           \/ scene = "request" /\ input \in Requests
           \/ scene = "gemini" /\ input \in GeminiTurns
           \/ scene = "openai" /\ input \in OpenAITurns
           \/ scene = "greeting" /\ input \in Greetings
TNext == scene = "gate" /\ GateNext /\ UNCHANGED <<scene, input>>
TSpec == TInit /\ [][TNext]_<<gateVars, scene, input>>

-----------------------------------------------------------------------------
\* A request to an agent keeps to its budget, tells truly what was left out, prefers what is
\* newer, quotes what an answer refers to and takes the images that fit; a text that names
\* two agents is for one of them, in whatever order they are configured; and through turns of
\* tool calls the model is told its own calls with their results.
RequestsHold ==
  /\ scene = "request" => X!RequestHolds(Asked)
  /\ scene \in {"gemini", "openai"} => T!TurnsHold(scene, Opening, input, AgentTools)
  /\ scene = "greeting" => X!AgentIsClear(Agents, input)

=============================================================================
