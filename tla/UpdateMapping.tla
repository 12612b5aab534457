---------------------------- MODULE UpdateMapping ----------------------------
(***************************************************************************)
(* What one platform update becomes, from the raw update to the validated   *)
(* event: internal/driver/telegram (gotd_adapter.go, gotd_mapper.go,        *)
(* decoder.go), internal/driver/discord (discordgo_mapper.go, decoder.go)   *)
(* and the validators of pkg/otogi/platform/event.go.  An update that does  *)
(* not decode ends the driver (DriverIngest), so every update the platform  *)
(* may send has to.                                                         *)
(*                                                                         *)
(* Identifiers are numbers, 0 for a missing one and -1 for the word          *)
(* "unknown"; a text is the sequence of the UTF-16 lengths of its runes.    *)
(* What the mapper remembers between updates is TelegramReactions'.         *)
(***************************************************************************)
EXTENDS Integers, Sequences, FiniteSets, SequencesExt, Functions, FiniteSetsExt

Unknown == -1
None == ""

-----------------------------------------------------------------------------
(* Text entities: Telegram counts UTF-16 units, the platform counts runes.  *)

\* buildRuneFromUTF16: the rune at each UTF-16 offset, and the end
RuneFromUTF16(text) ==
  FoldLeftDomain(LAMBDA m, i : m \o [k \in 1..text[i] |-> i - 1], <<>>, text)
    \o <<Len(text)>>

\* utf16ToRuneIndex
RuneIndex(mapping, off) ==
  IF off <= 0 THEN 0
  ELSE IF off >= Len(mapping) THEN mapping[Len(mapping)] ELSE mapping[off + 1]

\* mapTextEntities: attr stands for the URL, user or emoji a type requires
MapEntity(text, e) ==
  LET m    == RuneFromUTF16(text)
      from == RuneIndex(m, e.off)
  IN [type |-> e.type, off |-> from, len |-> RuneIndex(m, e.off + e.len) - from,
      attr |-> e.attr]

NeedsAttr == {"text_url", "mention_name", "custom_emoji"}

\* ValidateTextEntities, for the types that come from a platform
EntitiesValid(text, entities) ==
  \A e \in ToSet(entities) :
    /\ e.type # None /\ e.off >= 0 /\ e.len > 0
    /\ e.off + e.len <= Len(text)
    /\ e.type \in NeedsAttr => e.attr # 0

-----------------------------------------------------------------------------
(* Who and where.  env is what came with the update: the kinds of the chats *)
(* it describes.                                                            *)

ResolveActorByUserID(n) == IF n = 0 THEN Unknown ELSE n

ResolveChatBy(n, default, env) ==
  [id |-> n, type |-> IF n \in DOMAIN env THEN env[n] ELSE default]

ResolveChat(peer, env) ==
  CASE peer.kind = "user"    -> [id |-> ResolveActorByUserID(peer.id), type |-> "private"]
    [] peer.kind = "chat"    -> ResolveChatBy(peer.id, "group", env)
    [] peer.kind = "channel" -> ResolveChatBy(peer.id, "channel", env)
    [] OTHER                 -> [id |-> Unknown, type |-> "private"]

ResolveActor(peer) ==
  CASE peer.kind = "user"              -> ResolveActorByUserID(peer.id)
    [] peer.kind \in {"chat", "channel"} -> peer.id
    [] OTHER                           -> Unknown

\* An anonymous sender is the conversation itself.
Sender(from, peer) ==
  IF ResolveActor(from) = Unknown THEN ResolveActor(peer) ELSE ResolveActor(from)

Inviter(actor) == IF actor \in {0, Unknown} THEN 0 ELSE actor

\* composeUpdateID: type, conversation, subject and time, the missing ones
\* replaced by a fixed word; ~n is the suffix ensureUniqueBatchUpdateIDs adds.
Update(type, chat, actor, subject, at, payload) ==
  [id |-> <<type, chat.id, subject, at, 0>>, type |-> type, chat |-> chat,
   actor |-> actor, at |-> at, payload |-> payload]

\* Mutant: the ids stay as they were composed.
KeepIds(us) == us

Suffixed(id, n) == [id EXCEPT ![5] = n]
EnsureUnique(us) ==
  FoldLeft(LAMBDA done, u :
             LET taken == {d.id : d \in ToSet(done)}
                 n == Min({k \in 0..Len(us) : Suffixed(u.id, k) \notin taken})
             IN Append(done, [u EXCEPT !.id = Suffixed(u.id, n)]),
           <<>>, us)

-----------------------------------------------------------------------------
(* Telegram: gotd_mapper.go, one operator per handler of MapBatch.  r is one  *)
(* envelope: flattenSingleGotdUpdate has made one of each deleted message.    *)

At(r) == IF r.date > 0 THEN r.date ELSE r.envDate

Member(type, chat, actor, member, inviter, r) ==
  Update(type, chat, actor, member, At(r), [member |-> member, inviter |-> inviter])

Role(chat, member, by, old, new, r) ==
  Update("role", chat, by, member, At(r), [member |-> member, old |-> old, new |-> new])

MapMessage(r) ==
  <<Update("message", ResolveChat(r.peer, r.env), Sender(r.from, r.peer), r.msg, At(r),
           [article |-> r.msg, text |-> r.text,
            entities |-> [i \in DOMAIN r.entities |-> MapEntity(r.text, r.entities[i])]])>>

\* the edit event of mapEditMessageBatch
MapEdit(r) ==
  <<Update("edit", ResolveChat(r.peer, r.env), Sender(r.from, r.peer), r.msg, At(r),
           [article |-> r.msg, text |-> r.text,
            entities |-> [i \in DOMAIN r.entities |-> MapEntity(r.text, r.entities[i])]])>>

\* Outside channels Telegram does not say where the message was.
MapDelete(r) ==
  <<Update("delete",
           IF r.class = "deleteChannel" THEN ResolveChatBy(r.chat, "channel", r.env)
           ELSE [id |-> Unknown, type |-> "private"],
           Unknown, r.msg, r.envDate, [article |-> r.msg])>>

MapReaction(r) ==
  <<Update(r.action, ResolveChat(r.peer, r.env), ResolveActor(r.from), r.msg, r.envDate,
           [article |-> r.msg])>>

MapService(r) ==
  LET chat  == ResolveChat(r.peer, r.env)
      actor == ResolveActor(r.from)
  IN CASE r.act = "addUser" ->
            [i \in DOMAIN r.users |->
               LET m == ResolveActorByUserID(r.users[i])
               IN Member("join", chat, actor, m, Inviter(actor), r)]
       [] r.act = "deleteUser" ->
            <<Member("leave", chat, actor, ResolveActorByUserID(r.users[1]), 0, r)>>
       [] r.act = "joinedByLink" ->
            <<Member("join", chat, actor, actor, Inviter(ResolveActorByUserID(r.users[1])), r)>>
       [] r.act = "joinedByRequest" -> <<Member("join", chat, actor, actor, 0, r)>>
       [] r.act = "migrateTo" ->
            <<Update("migration", chat, actor, r.chat, At(r), [from |-> chat.id, to |-> r.chat])>>
       [] r.act = "migrateFrom" ->
            <<Update("migration", chat, actor, chat.id, At(r), [from |-> r.chat, to |-> chat.id])>>
       [] OTHER -> <<>>

\* updateChatParticipantAdd, Delete and Admin
MapParticipantAdd(r) ==
  LET by == ResolveActorByUserID(r.actor)
  IN <<Member("join", ResolveChatBy(r.chat, "group", r.env), by,
              ResolveActorByUserID(r.user), Inviter(by), r)>>

MapParticipantDelete(r) ==
  LET m == ResolveActorByUserID(r.user)
  IN <<Member("leave", ResolveChatBy(r.chat, "group", r.env), m, m, 0, r)>>

MapParticipantAdmin(r) ==
  LET m == ResolveActorByUserID(r.user)
  IN <<Role(ResolveChatBy(r.chat, "group", r.env), m, m,
            IF r.isAdmin THEN "member" ELSE "admin", IF r.isAdmin THEN "admin" ELSE "member", r)>>

\* The participant before and after, if there was one.
MapChatParticipant(r) ==
  LET chat == ResolveChatBy(r.chat, "group", r.env)
      by   == ResolveActorByUserID(r.actor)
      m    == ResolveActorByUserID(r.user)
  IN IF r.prev = None /\ r.new # None THEN <<Member("join", chat, by, m, Inviter(by), r)>>
     ELSE IF r.prev # None /\ r.new = None THEN <<Member("leave", chat, by, m, 0, r)>>
     ELSE IF r.prev # r.new THEN <<Role(chat, m, by, r.prev, r.new, r)>> ELSE <<>>

\* isChannelRoleActive
Active(role) == role \notin {None, "left", "banned"}

MapChannelParticipant(r) ==
  LET chat == ResolveChatBy(r.chat, "channel", r.env)
      by   == ResolveActorByUserID(r.actor)
      m    == ResolveActorByUserID(r.user)
  IN IF r.prev = None /\ Active(r.new) THEN <<Member("join", chat, by, m, Inviter(by), r)>>
     ELSE IF Active(r.prev) /\ ~Active(r.new) THEN <<Member("leave", chat, by, m, 0, r)>>
     ELSE IF r.prev # None /\ r.new # None /\ r.prev # r.new
          THEN <<Role(chat, m, by, r.prev, r.new, r)>>
     ELSE <<>>

MapBatch(r) ==
  EnsureUnique(
    CASE r.class = "message"  -> MapMessage(r)
      [] r.class = "service"  -> MapService(r)
      [] r.class = "edit"     -> MapEdit(r)
      [] r.class \in {"delete", "deleteChannel"} -> MapDelete(r)
      [] r.class = "reaction" -> MapReaction(r)
      [] r.class = "participantAdd"     -> MapParticipantAdd(r)
      [] r.class = "participantDelete"  -> MapParticipantDelete(r)
      [] r.class = "participantAdmin"   -> MapParticipantAdmin(r)
      [] r.class = "chatParticipant"    -> MapChatParticipant(r)
      [] r.class = "channelParticipant" -> MapChannelParticipant(r)
      [] OTHER -> <<>>)

-----------------------------------------------------------------------------
(* Discord: discordgo_mapper.go.  A guild of 0 is a direct message, a user  *)
(* of 0 one the gateway left out.                                           *)

DiscordChat(r) ==
  [id |-> r.chat, type |-> IF r.guild = 0 THEN "private" ELSE "group"]
GuildChat(r) == [id |-> r.guild, type |-> "group"]

\* Discord's updates take their id from the message, whatever their type.
DiscordUpdate(id, type, chat, actor, at, payload) ==
  [id |-> id, type |-> type, chat |-> chat, actor |-> actor, at |-> at, payload |-> payload]

DiscordMap(r) ==
  CASE r.class = "create" ->
         <<DiscordUpdate(<<r.msg>>, "message", DiscordChat(r), r.user, r.date,
                         [article |-> r.msg, text |-> r.text, entities |-> <<>>])>>
    [] r.class = "update" ->
         <<DiscordUpdate(<<r.msg>>, "edit", DiscordChat(r), r.user, r.date,
                         [article |-> r.msg, text |-> r.text, entities |-> <<>>])>>
    [] r.class = "delete" ->
         <<DiscordUpdate(<<r.msg>>, "delete", DiscordChat(r), 0, r.date, [article |-> r.msg])>>
    [] r.class \in {"reaction_add", "reaction_remove"} ->
         <<DiscordUpdate(<<r.class, r.chat, r.msg, r.user>>, r.class, DiscordChat(r), r.user,
                         r.date, [article |-> r.msg])>>
    [] r.class \in {"join", "leave"} ->
         <<DiscordUpdate(<<r.class, r.guild, r.user>>, r.class, GuildChat(r), r.user, r.date,
                         [member |-> r.user, inviter |-> 0])>>
    [] OTHER -> <<>>

-----------------------------------------------------------------------------
(* decoder.go of both drivers, and Event.Validate.                          *)

EventKind == [message |-> "article.created", edit |-> "article.edited",
              delete |-> "article.retracted", reaction_add |-> "article.reaction.added",
              reaction_remove |-> "article.reaction.removed", join |-> "member.joined",
              leave |-> "member.left", role |-> "role.updated", migration |-> "chat.migrated"]

NewBaseEvent(u, now) ==
  [id |-> u.id, kind |-> EventKind[u.type], conversation |-> u.chat.id,
   at |-> IF u.at = 0 THEN now ELSE u.at, payload |-> u.payload]

\* validatePayloadByKind
PayloadValid(ev) ==
  /\ ev.kind \in {"article.created", "article.edited"} =>
       /\ ev.payload.article # 0
       /\ EntitiesValid(ev.payload.text, ev.payload.entities)
  /\ ev.kind \in {"article.retracted", "article.reaction.added", "article.reaction.removed"} =>
       ev.payload.article # 0

EventValid(ev) == ev.id # <<>> /\ ev.at # 0 /\ ev.conversation # 0 /\ PayloadValid(ev)

Decodes(u) == u.type \in DOMAIN EventKind /\ EventValid(NewBaseEvent(u, 1))

DiscordDecodes(u) == u.type \notin {"migration"} /\ Decodes(u)

-----------------------------------------------------------------------------
(* What the mapping promises, for one raw update r of a platform.           *)

\* An entity Telegram may send: of some length, within the text, and not
\* through the middle of a surrogate pair.
UnitsBefore(text, i) == FoldLeft(+, 0, SubSeq(text, 1, i))
WellFormed(text, e) ==
  /\ e.len > 0 /\ (e.type \in NeedsAttr => e.attr # 0)
  /\ \E i, j \in 0..Len(text) :
        i < j /\ UnitsBefore(text, i) = e.off /\ UnitsBefore(text, j) = e.off + e.len

RunesIn(text, e) ==
  {i \in 1..Len(text) : UnitsBefore(text, i - 1) >= e.off /\ UnitsBefore(text, i) <= e.off + e.len}

\* An entity marks the runes it marked on the platform.
EntityKeepsItsRunes(text, e) ==
  LET m == MapEntity(text, e) IN RunesIn(text, e) = (m.off + 1)..(m.off + m.len)

\* Every update of a batch decodes, and no two of them share an id.
Sound(us) ==
  /\ \A i \in DOMAIN us : Decodes(us[i])
  /\ IsInjective([i \in DOMAIN us |-> us[i].id])

\* Somebody who comes or goes is noticed, by a membership or a role event, and
\* nothing is reported of a role that stays.
Noticed(r) ==
  r.class \in {"chatParticipant", "channelParticipant"} =>
    /\ (Active(r.prev) # Active(r.new)) => MapBatch(r) # <<>>
    /\ r.prev = r.new => MapBatch(r) = <<>>
=============================================================================
