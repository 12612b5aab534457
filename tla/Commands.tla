------------------------------ MODULE Commands ------------------------------
(***************************************************************************)
(* How a written command becomes an event: the dispatcher that drivers      *)
(* publish to (internal/kernel/command_sink.go), with the chat allowlist,   *)
(* and the syntax and binding of commands (pkg/otogi/platform/command.go).  *)
(*                                                                         *)
(* A text is the sequence of its words.  The first one is a header [prefix, *)
(* name, mention], prefix "none" when it introduces no command.  The others *)
(* are tokens [kind, name]: "long" is --name, "short" is -n, "assign" is    *)
(* --name=..., "word" is anything else, "--" and "-name" included.  An      *)
(* option of a command spec is [name, alias, hasValue, required], its name  *)
(* or alias perhaps Unnamed.  An option kept on one side is a set with at   *)
(* most one element.  Upper maps a capital spelling to its lower-case one.  *)
(***************************************************************************)
EXTENDS Naturals, Sequences, SequencesExt, FiniteSets

Unnamed == ""
Ordinary == "/"
System == "~"
The(option) == CHOOSE x \in option : TRUE

CONSTANTS Upper    \* a function from capital spellings to normalized ones

Normal(name) == IF name \in DOMAIN Upper THEN Upper[name] ELSE name

-----------------------------------------------------------------------------
(* CommandSpec.Validate and Register.                                       *)

OptionValid(o) == o.name # Unnamed \/ o.alias # Unnamed

SpecValid(spec) ==
  /\ spec.prefix \in {Ordinary, System} /\ spec.name # Unnamed
  /\ \A i \in DOMAIN spec.options :
       LET o == spec.options[i]
       IN /\ OptionValid(o)
          /\ \A j \in 1..(i - 1) :
               LET p == spec.options[j]
               IN /\ o.name = Unnamed \/ Normal(o.name) # Normal(p.name)
                  /\ o.alias = Unnamed \/ Normal(o.alias) # Normal(p.alias)

\* commandRegistryKey, and registerModuleCommands of a whole declaration
Key(spec) == <<spec.prefix, Normal(spec.name)>>
Declares(specs) ==
  /\ \A s \in ToSet(specs) : SpecValid(s)
  /\ \A i, j \in DOMAIN specs : i < j => Key(specs[i]) # Key(specs[j])

Lookup(specs, prefix, name) == {s \in ToSet(specs) : Key(s) = <<prefix, Normal(name)>>}

-----------------------------------------------------------------------------
(* ParseCommandCandidate and BindCommand.                                   *)

Matched(text) == text # <<>> /\ Head(text).prefix # "none"
CandidateName(text) == Normal(Head(text).name)
SyntaxError(text) ==
  \/ Head(text).name = Unnamed
  \/ \E n \in 2..Len(text) : text[n].kind = "assign"

LooksLikeOption(token) == token.kind \in {"long", "short"}
OptionOf(spec, token) ==
  {o \in ToSet(spec.options) :
     IF token.kind = "long" THEN o.name # Unnamed /\ Normal(o.name) = Normal(token.name)
                            ELSE o.alias # Unnamed /\ Normal(o.alias) = Normal(token.name)}

\* requiredOptionKey
RequiredKey(o) == IF o.name # Unnamed THEN <<"name", Normal(o.name)>> ELSE <<"alias", Normal(o.alias)>>

Bound(o, value) == [name |-> Normal(o.name), alias |-> Normal(o.alias), value |-> value]

\* The tokens from the left; waiting is the option that still lacks its value.
ReadToken(spec, state, token) ==
  LET bind(o, value) == [options |-> Append(state.options, Bound(o, value)), value |-> state.value,
                         seen |-> state.seen \cup {RequiredKey(o)}, waiting |-> {}, error |-> FALSE]
      option == OptionOf(spec, token)
  IN IF state.error THEN state
     ELSE IF state.waiting # {} THEN
       IF LooksLikeOption(token) THEN [state EXCEPT !.error = TRUE]
       ELSE bind(The(state.waiting), {token})
     ELSE IF ~LooksLikeOption(token) THEN [state EXCEPT !.value = Append(@, token)]
     ELSE IF option = {} THEN [state EXCEPT !.error = TRUE]
     ELSE IF The(option).hasValue THEN [state EXCEPT !.waiting = option]
     ELSE bind(The(option), {})

Nothing == [options |-> <<>>, value |-> <<>>, seen |-> {}, waiting |-> {}, error |-> FALSE]

\* the invocation, or none when the binding fails
BindCommand(text, spec) ==
  LET read == FoldLeft(LAMBDA state, token : ReadToken(spec, state, token), Nothing, Tail(text))
      bound == /\ ~read.error /\ read.waiting = {}
               /\ \A o \in ToSet(spec.options) : o.required => RequiredKey(o) \in read.seen
  IN IF SpecValid(spec) /\ bound
     THEN {[name |-> Normal(spec.name), mention |-> Head(text).mention, options |-> read.options,
            value |-> read.value]}
     ELSE {}

-----------------------------------------------------------------------------
(* The dispatcher.  An allowlist is [conversations, bypass]; an id is the   *)
(* sequence of its parts between slashes.  An event is [kind, source,       *)
(* conversation, actor, article], an article [id, text]; its deliveries are *)
(* what the bus and the sink dispatcher are given, in order, up to the      *)
(* first event that the bus refuses.                                        *)

\* WithChatAllowlist
Allowlist(conversations, bypass) ==
  [conversations |-> conversations \ {<<>>}, bypass |-> {Normal(b) : b \in bypass} \ {Unnamed}]

QualifiedConversationKey(source, conversation) == source \o conversation
IsAllowed(list, event) ==
  \/ list.conversations = {}
  \/ QualifiedConversationKey(event.source, event.conversation) \in list.conversations

Published(event) == [to |-> "bus", event |-> event]

\* replyCommandError: in the conversation of the event, to the article with the command
ErrorReply(event, spec) ==
  [to |-> "sink", source |-> event.source, conversation |-> event.conversation,
   replyTo |-> event.article.id, spec |-> spec]

\* derivedCommandEvent
DerivedKind(prefix) == IF prefix = System THEN "system_command" ELSE "command"
DerivedCommand(event, invocation, prefix) ==
  [kind |-> DerivedKind(prefix), source |-> event.source, conversation |-> event.conversation,
   actor |-> event.actor, article |-> event.article, command |-> invocation]

\* what is made of a text, for the registered command that it names
CommandOf(specs, event) ==
  LET text == event.article.text
      spec == Lookup(specs, Head(text).prefix, Head(text).name)
      bound == BindCommand(text, The(spec))
  IN IF spec = {} THEN <<>>
     ELSE IF SyntaxError(text) \/ bound = {} THEN <<ErrorReply(event, The(spec))>>
     ELSE <<Published(DerivedCommand(event, The(bound), Head(text).prefix))>>

Commanding(event) == event.kind = "article.created" /\ Matched(event.article.text)

DeriveCommand(specs, event) == IF Commanding(event) THEN CommandOf(specs, event) ELSE <<>>

\* Mutant: every system command is let through.
PublishSystemOnly(list, specs, event) ==
  IF Commanding(event) /\ Head(event.article.text).prefix = System
  THEN CommandOf(specs, event) ELSE <<>>

PublishBypassOnly(list, specs, event) ==
  IF /\ Commanding(event) /\ Head(event.article.text).prefix = System
     /\ CandidateName(event.article.text) \in list.bypass
  THEN CommandOf(specs, event) ELSE <<>>

\* Publish; accepts tells which kinds of event the bus takes now
Publish(list, specs, event, accepts) ==
  LET deliver(all) ==
        IF all # <<>> /\ Head(all).to = "bus" /\ Head(all).event.kind \notin accepts THEN <<>> ELSE all
  IN IF ~IsAllowed(list, event) THEN deliver(PublishBypassOnly(list, specs, event))
     ELSE IF event.kind \notin accepts THEN <<>>
     ELSE <<Published(event)>> \o deliver(DeriveCommand(specs, event))

-----------------------------------------------------------------------------
(* formatCommandErrorReply: the usage that the sender of a bad command is   *)
(* shown.  Each option is written by name or, if it has one, by alias, with *)
(* a value if it takes one; those in brackets may be left out.              *)

Spellings(o) ==
  LET value == IF o.hasValue THEN <<[kind |-> "word", name |-> "value"]>> ELSE <<>>
      long == IF o.name = Unnamed THEN {} ELSE {<<[kind |-> "long", name |-> o.name]>>}
      short == IF o.alias = Unnamed THEN {} ELSE {<<[kind |-> "short", name |-> o.alias]>>}
  IN {w \o value : w \in long \cup short} \cup (IF o.required THEN {} ELSE {<<>>})

HeaderOf(prefix, name, mention) == <<[prefix |-> prefix, name |-> name, mention |-> mention]>>

\* every way to follow the usage
Usages(spec) ==
  LET follow(texts, o) == {t \o w : t \in texts, w \in Spellings(o)}
  IN FoldLeft(follow, {HeaderOf(spec.prefix, spec.name, Unnamed)}, spec.options)

-----------------------------------------------------------------------------
(* What a written command may never lead to.                                *)

\* an invocation written down again: its options in order, then its value
Rewritten(o) ==
  LET spelled == IF o.name = Unnamed THEN [kind |-> "short", name |-> o.alias]
                                   ELSE [kind |-> "long", name |-> o.name]
  IN IF o.value = {} THEN <<spelled>> ELSE <<spelled, The(o.value)>>
Written(prefix, inv) ==
  HeaderOf(prefix, inv.name, inv.mention)
    \o (FoldLeft(LAMBDA words, o : words \o Rewritten(o), <<>>, inv.options) \o inv.value)

\* A command says the same when it is written again from what was understood, so no word
\* was lost, moved to another option or read twice; and the usage shown is accepted.
BindingIsStable(text, spec) ==
  \A inv \in BindCommand(text, spec) :
    /\ BindCommand(Written(spec.prefix, inv), spec) = {inv}
    /\ Len(text) = 1 + Len(inv.value) + Len(inv.options)
         + Cardinality({n \in DOMAIN inv.options : inv.options[n].value # {}})
UsageBinds(spec) == \A text \in Usages(spec) : ~SyntaxError(text) /\ BindCommand(text, spec) # {}

\* Of an unlisted conversation modules see nothing but bypass commands, and nothing is said in
\* it but about these; a command comes after the article that holds it, from the same place.
AllowlistConfines(list, specs, event, accepts) ==
  \E out \in {Publish(list, specs, event, accepts)} :
     /\ ~IsAllowed(list, event) => \A n \in DOMAIN out :
          IF out[n].to = "bus"
          THEN out[n].event.kind = "system_command" /\ out[n].event.command.name \in list.bypass
          ELSE out[n].spec.prefix = System /\ Normal(out[n].spec.name) \in list.bypass
     /\ \A n \in DOMAIN out :
          LET told == IF out[n].to = "bus" THEN out[n].event ELSE out[n]
          IN told.source = event.source /\ told.conversation = event.conversation
     /\ \A m, n \in DOMAIN out : out[m] = Published(event) /\ out[n] = Published(event) => m = n
     /\ IsAllowed(list, event) /\ out # <<>> => Head(out) = Published(event)
=============================================================================
