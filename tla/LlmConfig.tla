----------------------------- MODULE LlmConfig ------------------------------
(***************************************************************************)
(* The configuration of the agents: what pkg/llm/config/config.go reads and *)
(* accepts, the providers modules/llmruntime builds from it, what           *)
(* modules/semanticstore and modules/memory take of it, what                *)
(* modules/llmchat checks again, and which options a request to a Gemini    *)
(* provider ends up with (pkg/llm/providers/gemini/provider.go).            *)
(*                                                                         *)
(* An optional value is a set with at most one element.  A text is one      *)
(* spelling without spaces around it and "" if missing or blank; `lacks`    *)
(* names the required texts of an entry that are missing or do not parse.   *)
(***************************************************************************)
EXTENDS Integers, Sequences, SequencesExt, FiniteSets

CONSTANTS
  Lower,      \* spelling -> spelling in lower case, where they differ
  Trimmed,    \* a metadata key with spaces around it -> the key
  Numerals,   \* the texts that are numbers -> the number
  MaxInt32    \* the largest thinking budget a Gemini request can carry

LowerCased(text) == IF text \in DOMAIN Lower THEN Lower[text] ELSE text
Trim(key) == IF key \in DOMAIN Trimmed THEN Trimmed[key] ELSE key
Only(option) == CHOOSE x \in option : TRUE
Or(option, default) == IF option = {} THEN default ELSE Only(option)

Budget == "gemini.thinking_budget"
Level == "gemini.thinking_level"
Search == "gemini.google_search"
Reserved == {"agent", "provider", "conversation_id"}
Levels == {"low", "medium", "high"}

-----------------------------------------------------------------------------
(* Providers: a profile is [type, apiKey, url, model, dims, openai, gemini]. *)

PlainGemini == [version |-> "v1beta", search |-> {}, budget |-> {}, level |-> "", mime |-> ""]

ParseGemini(raw) ==
  [Or(raw, PlainGemini) EXCEPT !.version = IF @ = "" THEN PlainGemini.version ELSE @]
ParseProvider(raw) ==
  [raw EXCEPT !.dims = Or(@, 0),
              !.gemini = IF raw.type = "gemini" THEN {ParseGemini(@)} ELSE @]

ValidVersion(version) == version \notin {"", "v1/beta"}
Exclusive(options) == options.budget = {} \/ options.level = ""

ValidGemini(g) ==
  /\ ValidVersion(g.version)
  /\ \A b \in g.budget : b >= 0
  /\ g.level \in Levels \cup {""}
  /\ Exclusive(g)
  /\ g.mime \in {"", "text/plain", "application/json"}

ValidProvider(p) ==
  /\ p.type \in {"openai", "gemini"} /\ p.apiKey
  /\ p.type = "openai" => /\ p.gemini = {}
                          /\ \A o \in p.openai : \A r \in o.retries : r >= 0
  /\ p.type = "gemini" => p.openai = {} /\ \A g \in p.gemini : ValidGemini(g)
  /\ p.url \in {"", "absolute"}
  /\ p.dims >= 0

\* buildProviderRegistry: openai.New and gemini.New check once more what they are given
ProviderBuilds(p) ==
  /\ p.apiKey /\ p.url \in {"", "absolute"}
  /\ p.type = "gemini" => \A g \in p.gemini : /\ ValidGemini(g)
                                              /\ \A b \in g.budget : b <= MaxInt32

\* buildEmbeddingProviderRegistry, with the defaults of requests that name no model
EmbeddingBuilds(p) ==
  /\ p.apiKey /\ p.url \in {"", "absolute"} /\ p.dims >= 0
  /\ p.type = "openai" => \A o \in p.openai : \A r \in o.retries : r >= 0
  /\ p.type = "gemini" => \A g \in p.gemini : ValidVersion(g.version)
EmbeddingDefaults(p) ==
  [model |-> IF p.model = "" THEN "default" ELSE p.model,
   dims  |-> IF p.dims = 0 THEN 512 ELSE p.dims]

-----------------------------------------------------------------------------
(* What an agent reads: zero stands for "not given".                        *)

ContextDefaults ==
  [replies |-> 12, leading |-> 4, maxAge |-> 15, maxContext |-> 12000, maxMessage |-> 1600]
DefaultQuoteDepth == 2
ContextFields == DOMAIN ContextDefaults \cup {"quoteDepth"}

ResolveContext(p) ==
  [f \in ContextFields |->
     IF f \in DOMAIN ContextDefaults /\ p[f] = 0 THEN ContextDefaults[f] ELSE p[f]]

ParseContext(raw) ==
  LET given == IF raw = {} THEN [f \in ContextFields |-> {}] ELSE Only(raw)
  IN ResolveContext([f \in ContextFields |->
       IF f = "quoteDepth" THEN Or(given[f], DefaultQuoteDepth) ELSE Or(given[f], 0)])

ValidContext(p) ==
  /\ \A f \in {"replies", "maxAge", "maxContext", "maxMessage"} : p[f] > 0
  /\ p.leading >= 0 /\ p.quoteDepth >= 0
  /\ p.maxMessage <= p.maxContext

NoImages == [enabled |-> FALSE, max |-> 0, each |-> 0, total |-> 0, detail |-> ""]
ResolveImages(p) ==
  IF ~p.enabled THEN p
  ELSE [p EXCEPT !.max = IF @ = 0 THEN 3 ELSE @, !.each = IF @ = 0 THEN 10 ELSE @,
                 !.total = IF @ = 0 THEN 20 ELSE @, !.detail = IF @ = "" THEN "auto" ELSE @]
ParseImages(raw) ==
  IF raw = {} THEN NoImages
  ELSE LET r == Only(raw)
       IN ResolveImages([r EXCEPT !.max = Or(@, 0), !.each = Or(@, 0), !.total = Or(@, 0)])
ValidImages(p) ==
  IF ~p.enabled THEN p = NoImages
  ELSE /\ p.max > 0 /\ p.each > 0 /\ p.total >= p.each
       /\ p.detail \in {"", "auto", "low", "high"}

-----------------------------------------------------------------------------
(* Agents and their sub-agents.                                             *)

ValidMetadata(metadata) ==
  \A key \in DOMAIN metadata :
    /\ Trim(key) # "" /\ metadata[key] # ""
    /\ LowerCased(Trim(key)) \notin Reserved

ValidSubAgent(s) ==
  /\ s.name # "" /\ s.provider # "" /\ s.lacks = {}
  /\ s.maxTokens >= 0 /\ s.temperature >= 0
  /\ ValidMetadata(s.metadata)

\* parseSubAgents: names differ without regard to case
SubAgentsParse(subs) ==
  /\ \A n \in DOMAIN subs : ValidSubAgent(subs[n])
  /\ \A m, n \in DOMAIN subs : LowerCased(subs[m].name) = LowerCased(subs[n].name) => m = n

AllNames(a) == <<a.name>> \o a.aliases

ValidAgent(a) ==
  /\ "" \notin ToSet(AllNames(a))
  /\ \A m, n \in DOMAIN AllNames(a) :
       LowerCased(AllNames(a)[m]) = LowerCased(AllNames(a)[n]) => m = n
  /\ a.provider # "" /\ a.lacks = {}
  /\ a.maxTokens >= 0 /\ a.temperature >= 0 /\ a.timeout > 0
  /\ ValidContext(ResolveContext(a.context)) /\ ValidImages(ResolveImages(a.images))
  /\ ValidMetadata(a.metadata)

ParseAgent(raw) ==
  [raw EXCEPT !.timeout = Or(@, 0), !.context = ParseContext(@), !.images = ParseImages(@)]

-----------------------------------------------------------------------------
(* LoadFile: the file parses entry by entry, then Validate looks at all.     *)

DefaultTimeout == 90

Load(raw) ==
  [timeout   |-> Or(raw.timeout, DefaultTimeout),
   providers |-> [k \in {p.key : p \in ToSet(raw.providers)} |->
                    ParseProvider((CHOOSE p \in ToSet(raw.providers) : p.key = k).profile)],
   agents    |-> [n \in DOMAIN raw.agents |-> ParseAgent(raw.agents[n])],
   memory    |-> raw.memory]

\* the global timeout and each agent's, of which the latter is required
FileParses(raw) ==
  /\ \A t \in raw.timeout : t > 0
  /\ \A n \in DOMAIN raw.agents :
       raw.agents[n].timeout # {} /\ SubAgentsParse(raw.agents[n].subs)
  /\ \A m, n \in DOMAIN raw.providers :
       raw.providers[m].key = raw.providers[n].key => m = n

\* names of all agents differ: every name in the order of the file, with its agent
NamesAreUnique(agents) ==
  \A m, n \in DOMAIN agents :
    m # n => {LowerCased(x) : x \in ToSet(AllNames(agents[m]))}
             \cap {LowerCased(x) : x \in ToSet(AllNames(agents[n]))} = {}

\* validateGeminiAgentThinkingOptions: over the profile's defaults and the agent's metadata
ThinkingIsClear(p, a) ==
  LET budget == Budget \in DOMAIN a.metadata \/ \E g \in p.gemini : g.budget # {}
      level == Level \in DOMAIN a.metadata \/ \E g \in p.gemini : g.level # ""
  IN ~(budget /\ level)

ValidMemory(m, providers) ==
  /\ m.lacks = {}
  /\ m.extraction \in DOMAIN providers /\ m.embedding \in DOMAIN providers

Validates(cfg) ==
  /\ cfg.timeout > 0 /\ cfg.agents # <<>>
  /\ DOMAIN cfg.providers # {} /\ "" \notin DOMAIN cfg.providers
  /\ \A k \in DOMAIN cfg.providers : ValidProvider(cfg.providers[k])
  /\ NamesAreUnique(cfg.agents)
  /\ \A a \in ToSet(cfg.agents) :
       /\ ValidAgent(a) /\ a.timeout <= cfg.timeout
       /\ a.provider \in DOMAIN cfg.providers
       /\ cfg.providers[a.provider].type = "gemini" => ThinkingIsClear(cfg.providers[a.provider], a)
       /\ \A s \in ToSet(a.subs) : s.provider \in DOMAIN cfg.providers
       /\ a.remembers => cfg.memory # {}
  /\ \A m \in cfg.memory : ValidMemory(m, cfg.providers)

FileAccepted(raw) == FileParses(raw) /\ Validates(Load(raw))

-----------------------------------------------------------------------------
(* What the modules make of it when they register.                          *)

\* semanticstore and memory: both take the vector space of the embedding provider
VectorSpace(cfg, m) ==
  [model |-> cfg.providers[m.embedding].model, dims |-> cfg.providers[m.embedding].dims]
StoreLoads(cfg) ==
  \A m \in cfg.memory : /\ "database_file" \notin m.lacks /\ m.embedding \in DOMAIN cfg.providers
                        /\ VectorSpace(cfg, m).model # "" /\ VectorSpace(cfg, m).dims > 0
MemoryLoads(cfg) ==
  \A m \in cfg.memory : /\ "extraction_model" \notin m.lacks
                        /\ {m.extraction, m.embedding} \subseteq DOMAIN cfg.providers
                        /\ VectorSpace(cfg, m).model # "" /\ VectorSpace(cfg, m).dims > 0

\* llmchat: toLLMChatConfig, its own Validate, and the services OnRegister needs
ChatConfig(cfg) == [timeout |-> cfg.timeout, agents |-> cfg.agents]
ChatValidates(chat) ==
  /\ chat.timeout > 0 /\ chat.agents # <<>> /\ NamesAreUnique(chat.agents)
  /\ \A a \in ToSet(chat.agents) : ValidAgent(a) /\ a.timeout <= chat.timeout
ChatRegisters(cfg) ==
  /\ ChatValidates(ChatConfig(cfg))
  /\ \A a \in ToSet(cfg.agents) :
       /\ {a.provider} \cup {s.provider : s \in ToSet(a.subs)} \subseteq DOMAIN cfg.providers
       /\ a.remembers => cfg.memory # {}

-----------------------------------------------------------------------------
(* The options of one request to a Gemini provider.  The other switches     *)
(* are handled as Search is.                                                *)

\* mergeRequestMetadata writes an agent's metadata under trimmed keys
RequestMetadata(metadata) ==
  [key \in {Trim(k) : k \in DOMAIN metadata} |->
     metadata[CHOOSE k \in DOMAIN metadata : Trim(k) = key]]

Overrides(metadata) ==
  [search |-> IF Search \in DOMAIN metadata THEN {metadata[Search] = "true"} ELSE {},
   budget |-> IF Budget \in DOMAIN metadata THEN {Numerals[metadata[Budget]]} ELSE {},
   level  |-> IF Level \in DOMAIN metadata THEN metadata[Level] ELSE ""]
OverridesParse(metadata) ==
  /\ Search \in DOMAIN metadata => metadata[Search] \in {"true", "false"}
  /\ Budget \in DOMAIN metadata =>
       metadata[Budget] \in DOMAIN Numerals /\ Numerals[metadata[Budget]] \in 0..MaxInt32
  /\ Level \in DOMAIN metadata => metadata[Level] \in Levels
  /\ ~({Budget, Level} \subseteq DOMAIN metadata)

Effective(defaults, overrides) ==
  [search |-> IF overrides.search # {} THEN overrides.search ELSE defaults.search,
   budget |-> IF overrides.budget # {} THEN overrides.budget ELSE defaults.budget,
   level  |-> IF overrides.level # "" THEN overrides.level ELSE defaults.level]

-----------------------------------------------------------------------------
(* What must hold.                                                          *)

\* The request of an agent whose metadata is well spelled reaches its provider: its
\* options read, and a budget never meets a level.
AgentCanAsk(p, a) ==
  LET metadata == RequestMetadata(a.metadata)
      defaults == Only(p.gemini)
  IN (\A k \in DOMAIN a.metadata : Trim(k) = k)
     /\ (\A k \in DOMAIN a.metadata \cap {Search, Budget, Level} :
           OverridesParse([x \in {k} |-> metadata[x]]))
     => OverridesParse(metadata) /\ Exclusive(Effective(defaults, Overrides(metadata)))

\* Whatever the file's reader accepts, the modules that read it afterwards accept: every
\* provider that is named exists and is built, unless its budget is too large for a request;
\* the store and the memory start or fail together, over one vector space that embeddings
\* are asked for as well; defaults are settled once; and an agent can ask its provider.
LlmConfigHolds(raw) ==
  LET cfg == Load(raw)
      profiles == {cfg.providers[k] : k \in DOMAIN cfg.providers}
  IN FileAccepted(raw) =>
       /\ ChatRegisters(cfg)
       /\ \A p \in profiles :
            /\ EmbeddingBuilds(p)
            /\ ProviderBuilds(p) \/ \E g \in p.gemini : \E b \in g.budget : b > MaxInt32
       /\ StoreLoads(cfg) <=> MemoryLoads(cfg)
       /\ StoreLoads(cfg) => \A m \in cfg.memory :
            VectorSpace(cfg, m) = EmbeddingDefaults(cfg.providers[m.embedding])
       /\ \A a \in ToSet(cfg.agents) :
            /\ a.context = ResolveContext(a.context) /\ a.images = ResolveImages(a.images)
            /\ cfg.providers[a.provider].type = "gemini" => AgentCanAsk(cfg.providers[a.provider], a)
=============================================================================
