------------------------------ MODULE Decisions ------------------------------
(***************************************************************************)
(* What is decided from one input alone: an update of a platform becomes    *)
(* events, a configuration file routes and services, an agents' file        *)
(* registered agents, a written text a command, an error of a platform or a *)
(* provider another attempt.  The code keeps no state between two inputs of *)
(* a kind, so a behaviour takes one input after another, and the invariants *)
(* speak of the one that is being looked at.                                *)
(***************************************************************************)
EXTENDS Integers, Sequences, FiniteSets

CONSTANTS
  TelegramUpdates, DiscordUpdates,  \* what the platforms may send
  Files,                            \* configuration files, good and bad
  AgentFiles,                       \* the agents' files, good and bad
  CommandSpecs, Invocations, Said,  \* registered commands, texts, texts with their place
  LastEdits,                        \* an answer's last edit and the errors it meets
  Failures,                         \* a request to a provider that failed
  Capitals, Lowercase, Padded, Numbers, MaxBudget   \* spellings, see the instances

U == INSTANCE UpdateMapping
A == INSTANCE Assembly
C == INSTANCE Commands WITH Upper <- Capitals
L == INSTANCE LlmConfig WITH
       Lower <- Lowercase, Trimmed <- Padded, Numerals <- Numbers, MaxInt32 <- MaxBudget
R == INSTANCE Retries

VARIABLES scene, input

-----------------------------------------------------------------------------
(* The inputs there are.  Of a text that somebody wrote and of a file only  *)
(* the form is given: what is optional, a list, a number.                   *)

Optional(option) == \A x, y \in option : x = y
List(s) == s \in Seq({s[n] : n \in DOMAIN s})

\* What Telegram sends: chats, channels and messages have identifiers, and an entity
\* lies in its text, around whole runes of one or two UTF-16 units.
HasPeer(r) == r.peer.kind \in {"chat", "channel"} => r.peer.id # 0
HasText(r) ==
  /\ r.text \in Seq({1, 2}) /\ List(r.entities)
  /\ \A n \in DOMAIN r.entities :
       LET e == r.entities[n]
       IN e.off \in Nat /\ e.len \in Nat /\ e.type # U!None /\ U!WellFormed(r.text, e)

TelegramSends(r) ==
  CASE r.class \in {"message", "edit"} -> r.msg # 0 /\ HasPeer(r) /\ HasText(r)
    [] r.class = "service" -> HasPeer(r) /\ List(r.users)
    [] r.class \in {"delete", "deleteChannel"} ->
         /\ r.msg # 0
         /\ r.class = "deleteChannel" => r.chat # 0
    [] r.class = "reaction" ->
         r.msg # 0 /\ HasPeer(r) /\ r.action \in {"reaction_add", "reaction_remove"}
    [] OTHER -> r.chat # 0

DiscordSends(r) ==
  IF r.class \in {"join", "leave"} THEN r.guild # 0 ELSE r.msg # 0 /\ r.chat # 0

\* Files: a route has one sink at most, an agent one window for its context.
FileForm(f) ==
  /\ List(f.drivers) /\ Optional(f.default)
  /\ \A r \in f.default \cup {f.routes[m] : m \in DOMAIN f.routes} : Optional(r.sink)

ImagesForm ==
  [enabled : BOOLEAN, max : SUBSET Int, each : SUBSET Int, total : SUBSET Int, detail : STRING]
GeminiForm(g) == DOMAIN g = DOMAIN L!PlainGemini /\ g.budget \subseteq Int
AgentFileForm(f) ==
  /\ List(f.providers) /\ List(f.agents)
  /\ \A n \in DOMAIN f.providers :
       LET p == f.providers[n].profile
       IN /\ {"type", "dims", "gemini"} \subseteq DOMAIN p
          /\ Optional(p.gemini) /\ \A g \in p.gemini : GeminiForm(g)
  /\ \A n \in DOMAIN f.agents :
       LET a == f.agents[n]
       IN {"timeout", "context", "images", "metadata"} \subseteq DOMAIN a /\ a.images \subseteq ImagesForm

\* Errors: what a platform or a provider may answer.  A status goes with its code: nothing
\* that passes comes with a refusal, nor a lack of rights with a code that passes.
TextForm(text) == Optional(text.wait) /\ text.wait \subseteq Nat
EditForm(e) ==
  /\ e.platform \in {"telegram", "discord"} /\ e.left \in Nat /\ List(e.errs)
  /\ \A n \in DOMAIN e.errs :
       LET err == e.errs[n]
       IN /\ Optional(err.wait) /\ err.wait \subseteq Nat
          /\ Optional(err.rpc) /\ (\A r \in err.rpc : r.code \in Nat)
          /\ TextForm(err.text)

StreamWords ==
  {"safety", "rate_limit", "quota", "auth", "api_key", "invalid", "server", "overload", "other"}
ApiForm(api) ==
  /\ api.code \in Nat /\ Optional(api.after) /\ api.after \subseteq Nat
  /\ api.code \in {400, 401, 403, 404} => api.status \notin R!TransientStatus
  /\ api.status \in {"UNAUTHENTICATED", "PERMISSION_DENIED"} => ~R!IsTransientAPIError(api)
FailureForm(f) ==
  /\ f.provider \in {"gemini", "openai"} /\ TextForm(f.text)
  /\ Optional(f.caller)
  /\ Optional(f.typed) /\ f.typed \subseteq {R!OpenAIStreamFailure(w) : w \in StreamWords}
  /\ f.typed # {} => f.api = {}
  /\ Optional(f.api) /\ (\A api \in f.api : ApiForm(api))
  /\ Optional(f.network)

\* The registry refuses any other declaration; a normalized spelling stays as it is, and
\* only a blank one is normalized to a blank one.
SpecForm(s) ==
  /\ List(s.options)
  /\ \A n \in DOMAIN s.options : {s.options[n].hasValue, s.options[n].required} \subseteq BOOLEAN
ASSUME CommandsAssumption ==
  /\ List(CommandSpecs) /\ C!Declares(CommandSpecs)
  /\ \A n \in DOMAIN CommandSpecs : SpecForm(CommandSpecs[n])
ASSUME SpellingsAssumption ==
  \A n \in DOMAIN Capitals : n # C!Unnamed /\ Capitals[n] \notin DOMAIN Capitals \cup {C!Unnamed}
ASSUME InputsAssumption ==
  /\ \A r \in TelegramUpdates : TelegramSends(r)
  /\ \A r \in DiscordUpdates : DiscordSends(r)
  /\ \A f \in Files : FileForm(f)
  /\ \A f \in AgentFiles : AgentFileForm(f)
  /\ \A text \in Invocations : List(text) /\ text # <<>>
  /\ \A e \in LastEdits : EditForm(e)
  /\ \A f \in Failures : FailureForm(f)
  /\ MaxBudget \in Int

-----------------------------------------------------------------------------
Looked ==
  \/ scene = "telegram" /\ input \in TelegramUpdates
  \/ scene = "discord" /\ input \in DiscordUpdates
  \/ scene = "config" /\ input \in {f \in Files : A!Accepted(f)}
  \/ scene = "agents" /\ input \in {f \in AgentFiles : L!FileAccepted(f)}
  \/ scene = "invocation" /\ input \in Invocations
  \/ scene = "said" /\ input \in Said
  \/ scene = "edit" /\ input \in LastEdits
  \/ scene = "failure" /\ input \in Failures

\* One input after another.
DecisionSpec == Looked /\ [][Looked']_<<scene, input>>

-----------------------------------------------------------------------------
\* Where and how a text was written.
SaidEvent ==
  [kind |-> input.kind, source |-> <<"tg">>, conversation |-> input.conversation, actor |-> 1,
   article |-> [id |-> 9, text |-> input.text]]

\* Every update a platform may send decodes to valid events with ids of their own, each
\* entity marks the same runes as on the platform, and who comes or goes is noticed
\* (an update that does not decode would end the driver).
UpdatesDecode ==
  /\ scene = "telegram" =>
       /\ U!Sound(U!MapBatch(input)) /\ U!Noticed(input)
       /\ input.class \in {"message", "edit"} =>
            \A n \in DOMAIN input.entities : U!EntityKeepsItsRunes(input.text, input.entities[n])
  /\ scene = "discord" => LET us == U!DiscordMap(input) IN \A i \in DOMAIN us : U!DiscordDecodes(us[i])

\* Whatever configuration the bot accepts, its modules find every service they ask for and
\* have one route each; once its drivers are built, what a module answers goes back to the
\* driver the event came from and what it says unasked follows its route.
ConfigHolds ==
  /\ scene = "config" =>
       LET cfg == A!LoadConfig(input)
       IN /\ A!ModulesRegister(cfg) /\ A!ModulesAreRouted(cfg)
          /\ A!Starts(cfg) => A!AnswersGoHome(cfg) /\ A!RoutesResolve(cfg)
  /\ scene = "agents" => L!LlmConfigHolds(input)

\* A command is understood without losing or moving a word, the usage in an error reply is a
\* command that binds, and the allowlist lets nothing through but the bypass commands.
CommandsHold ==
  /\ scene = "invocation" => \A n \in DOMAIN CommandSpecs : C!BindingIsStable(input, CommandSpecs[n])
  /\ scene = "said" =>
       /\ C!AllowlistConfines(C!Allowlist(input.conversations, input.bypass), CommandSpecs,
                              SaidEvent, input.accepts)
       /\ \A n \in DOMAIN CommandSpecs : C!UsageBinds(CommandSpecs[n])

\* What fails is tried again if it may pass: an edit within its attempts and the time of its
\* handler, as late as the platform asked; a request to a provider if the answer was of a
\* passing kind, alike in the chat and in the memory, but not when its caller gave up.
RetriesHold ==
  /\ scene = "edit" => R!EditsHold(input.platform, input.errs, input.left)
  /\ scene = "failure" => R!LlmRetriesHold(input.provider, input)
=============================================================================
