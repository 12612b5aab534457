---------------------------- MODULE MCNegotiation ----------------------------
(***************************************************************************)
(* Modules for TLC: capabilities that restrict each dimension, a route     *)
(* from the module or from the default, handlers and calls of their own.   *)
(***************************************************************************)
EXTENDS Negotiation

CONSTANTS telegram, discord, main, alt, Ping, ping, pong, photo, video

Spellings == [n \in {Blank, Ping, ping, pong} |-> IF n = Ping THEN ping ELSE n]

Src(p, id) == [platform |-> p, id |-> id]
Telegram == Src(telegram, Blank)

Anything == [kinds |-> {}, sources |-> {}, commandNames |-> {}, mediaTypes |-> {}, require |-> {}]
Articles == [Anything EXCEPT !.kinds = {"article.created"}, !.require = {"article"}]
Edits == [Anything EXCEPT !.kinds = {"article.edited"}]
Changes == [Anything EXCEPT !.kinds = {"article.created", "article.edited"}]
Photos == [Changes EXCEPT !.mediaTypes = {photo, video}]
Pings == [Anything EXCEPT !.kinds = {"command.received"}, !.require = {"command"}, !.commandNames = {Ping}]
From(i, sources) == [i EXCEPT !.sources = sources]

Ev(k, s, p, c, m, a) ==
  [kind |-> k, source |-> s, payloads |-> p, command |-> c, media |-> m, snapshot |-> a]
AllEvents == {
  Ev("article.created", Src(telegram, main), {"article"}, Blank, {photo}, {}),
  Ev("article.created", Src(discord, main), {"article"}, Blank, {}, {}),
  Ev("article.edited", Src(telegram, alt), {"mutation"}, Blank, {}, {video}),
  Ev("article.edited", Src(telegram, main), {"article"}, Blank, {}, {}),
  Ev("command.received", Src(telegram, main), {"command", "article"}, ping, {}, {}),
  Ev("command.received", Src(discord, alt), {"command", "article"}, pong, {}, {}),
  Ev("member.joined", Src(telegram, alt), {"state_change"}, Blank, {}, {}) }

Mod(h, add, asks, own, default) ==
  [handlers |-> h, additional |-> add, asks |-> asks, route |-> own, defaultRoute |-> default]

Handlers == {<<>>, <<Articles>>, <<Edits, Articles>>, <<From(Articles, {Telegram}), Pings>>, <<Photos>>}
Routes == {NoRoute, {Src(telegram, main)}, {Telegram, Src(discord, alt)}}

\* Handlers on every route, with additional capabilities and a named filter, some refused.
NamedModules ==
  {Mod(h, {Photos, Pings, From(Changes, {Telegram})}, {f}, own, default) :
     h \in Handlers, own \in Routes, default \in Routes,
     f \in {[Photos EXCEPT !.mediaTypes = {photo}], [Pings EXCEPT !.commandNames = {ping}], Articles,
            From([Photos EXCEPT !.kinds = {"article.edited"}], {Src(telegram, alt)})}}
  \cup {Mod(<<>>, {From(Changes, {Telegram})}, {From(Changes, {s})}, NoRoute, NoRoute) :
          s \in {Src(telegram, alt), Src(discord, main), Src(Blank, main)}}

\* A module with one capability that asks for all there is.
BlankModules == {Mod(<<>>, {Photos}, {Anything}, NoRoute, NoRoute)}

\* A routed module that subscribes in OnRegister, as llmchat does.
RoutedModules == {Mod(<<>>, {Articles}, {Articles}, {Src(telegram, main)}, NoRoute)}
=============================================================================
