------------------------------- MODULE Outbound -------------------------------
(***************************************************************************)
(* How a module's message gets out and comes back:                          *)
(* internal/driver/article_tag_bridge.go around the Telegram and Discord    *)
(* dispatchers (telegram/outbound.go, discord/outbound.go), and what the    *)
(* event cache (modules/eventcache/projection.go) is left with.  The bridge *)
(* remembers the framework tags of a sent message by the id the platform    *)
(* gave it, publishes events of its own for platforms that do not echo the  *)
(* bot's messages, and puts the tags back on those that are echoed.         *)
(*                                                                         *)
(* One tagged message per sender, edited some times; a version stands for a *)
(* text.  Parts is how many Discord messages the text is split into; the    *)
(* first one's id is the message's.  The platform keeps the order of its    *)
(* echoes, the bus is first in first out, the cache has one worker.         *)
(*                                                                         *)
(* The cache takes an event for a redelivery when its id is that of the     *)
(* last one in the article's history (eventcache/storage.go).  The bridge's *)
(* events have ids of their own.  The echoes of a Discord message all have  *)
(* the message's id; Telegram's name the kind of the update and its second, *)
(* so two edits of one second have the same.                                *)
(***************************************************************************)
EXTENDS Integers, Sequences, FiniteSetsExt, SequencesExt

CONSTANTS
  Senders,     \* modules' handlers, each with one message of its own
  Parts,       \* Parts[s]: messages the text of s is split into
  MaxEdits,    \* bound on the edits of each message
  MaxEntries,  \* articleTagBridge.maxEntries
  Absent

Ids == UNION {{s} \X (1..Parts[s]) : s \in Senders}
First(s) == <<s, 1>>

Versions    == UNION {0..MaxEdits[s] : s \in Senders}
Sorts       == {"created", "edited"}
Events      == [kind : Sorts, id : Ids, version : Versions, tags : BOOLEAN, own : BOOLEAN]
Projections == [version : Versions, tags : BOOLEAN, last : Sorts \cup {"own"}]

ASSUME OutboundAssumption ==
  /\ Parts \in [Senders -> Nat \ {0}]
  /\ MaxEdits \in [Senders -> Nat] /\ MaxEntries \in Nat \ {0}
  /\ Absent \notin Nat \cup Events \cup Projections

VARIABLES
  echo,       \* whether the platform sends the bot's own messages back
  oneId,      \* whether all echoes of a message have one id, as Discord's have
  posted,     \* the platform: version of each part, Absent before it exists
  echoes,     \* updates on their way to the driver
  hand,       \* the event in the driver's hand, its tags decided
  entries,    \* articleTagBridge.entries, oldest first
  opc,        \* where each sender's call is
  version,    \* the last version each sender sent
  busq,       \* events of the bus for the cache's handler
  cached,     \* the cache: Absent, or version, whether it has the tags, and what
              \* kind of echo ended the article's history, or "own" for the bridge's
  ended,      \* the driver met an error of the bus and ended
  forgotten,  \* ghost: messages whose entry was pruned or evicted
  unsaid      \* ghost: messages with an event that never reached the bus

outVars == <<echo, oneId, posted, echoes, hand, entries, opc, version, busq, cached,
             ended, forgotten, unsaid>>

OutInit ==
  /\ echo \in BOOLEAN /\ oneId \in BOOLEAN
  /\ posted = [id \in Ids |-> Absent] /\ cached = [id \in Ids |-> Absent]
  /\ echoes = <<>> /\ hand = Absent /\ entries = <<>> /\ busq = <<>>
  /\ opc = [s \in Senders |-> "send"] /\ version = [s \in Senders |-> 0]
  /\ ended = FALSE /\ forgotten = {} /\ unsaid = {}

\* An update of the platform, without tags, and an event of the bridge.
Echo(kind, id, v) == [kind |-> kind, id |-> id, version |-> v, tags |-> FALSE, own |-> FALSE]
Synthetic(kind, id, v) == [kind |-> kind, id |-> id, version |-> v, tags |-> TRUE, own |-> TRUE]

Go(s, where) == opc' = [opc EXCEPT ![s] = where]

-----------------------------------------------------------------------------
(* The platform carries a call out, and may echo it.                        *)

Apply(kind, id, v) ==
  /\ posted' = [posted EXCEPT ![id] = v]
  /\ echoes' = IF echo THEN Append(echoes, Echo(kind, id, v)) ELSE echoes

\* The part SendMessage is at: one for Telegram.
Part(s) == Cardinality({i \in 1..Parts[s] : posted[<<s, i>>] # Absent}) + 1

\* SendMessage: the next part is accepted; after the last one the id of the
\* first is returned to the bridge.
SendPart(s) ==
  /\ opc[s] = "send"
  /\ Apply("created", <<s, Part(s)>>, 0)
  /\ Go(s, IF Part(s) = Parts[s] THEN "remember" ELSE "send")
  /\ UNCHANGED <<echo, oneId, hand, entries, version, busq, cached, ended, forgotten, unsaid>>

\* It fails: the request is not valid, the peer is not known, or the call is
\* refused; or it is carried out and its answer is lost.  What was sent of
\* it stays.
SendFails(s) ==
  /\ opc[s] = "send" /\ Go(s, "failed")
  /\ \/ UNCHANGED <<posted, echoes>>
     \/ Apply("created", <<s, Part(s)>>, 0)
  /\ UNCHANGED <<echo, oneId, hand, entries, version, busq, cached, ended, forgotten, unsaid>>

-----------------------------------------------------------------------------
(* articleTagBridge                                                         *)

Deleted(es, id) ==
  IF id \in Range(es) THEN RemoveAt(es, CHOOSE i \in DOMAIN es : es[i] = id) ELSE es

Gone(es) == Range(entries) \ Range(es)

\* remember, with evictOldestLocked
Kept(id) ==
  IF id \in Range(entries) \/ Len(entries) < MaxEntries THEN entries ELSE Tail(entries)

Remember(s) ==
  /\ opc[s] = "remember" /\ Go(s, "announce")
  /\ entries' = Append(Deleted(Kept(First(s)), First(s)), First(s))
  /\ forgotten' = forgotten \cup Gone(Kept(First(s)))
  /\ UNCHANGED <<echo, oneId, posted, echoes, hand, version, busq, cached, ended, unsaid>>

\* pruneLocked: the oldest entry has outlived the ttl.
Prune ==
  /\ entries # <<>>
  /\ entries' = Tail(entries) /\ forgotten' = forgotten \cup {Head(entries)}
  /\ UNCHANGED <<echo, oneId, posted, echoes, hand, opc, version, busq, cached, ended, unsaid>>

\* publishSynthetic: an error of the bus is only logged.
PublishSynthetic(s, kind) ==
  /\ Go(s, "ready")
  /\ \/ busq' = Append(busq, Synthetic(kind, First(s), version[s])) /\ UNCHANGED unsaid
     \/ unsaid' = unsaid \cup {First(s)} /\ UNCHANGED busq
  /\ UNCHANGED <<echo, oneId, posted, echoes, hand, entries, version, cached, ended, forgotten>>

AnnounceSent(s) == opc[s] = "announce" /\ PublishSynthetic(s, "created")
AnnounceEdit(s) == opc[s] = "reannounce" /\ PublishSynthetic(s, "edited")

-----------------------------------------------------------------------------
(* EditMessage of the dispatchers: one call, on the first part.             *)

Edit(s) ==
  /\ opc[s] = "ready" /\ version[s] < MaxEdits[s]
  /\ version' = [version EXCEPT ![s] = @ + 1]
  /\ Apply("edited", First(s), version[s] + 1)
  /\ \/ Go(s, "peek") /\ UNCHANGED unsaid
     \/ Go(s, "ready") /\ unsaid' = unsaid \cup {First(s)}  \* the answer is lost
  /\ UNCHANGED <<echo, oneId, hand, entries, busq, cached, ended, forgotten>>

PeekTakes(s) ==
  /\ opc[s] = "peek"
  /\ Go(s, IF First(s) \in Range(entries) THEN "reannounce" ELSE "ready")
  /\ entries' = Deleted(entries, First(s))
  /\ UNCHANGED <<echo, oneId, posted, echoes, hand, version, busq, cached, ended, forgotten, unsaid>>
Peek(s) ==
  /\ opc[s] = "peek"
  /\ Go(s, IF First(s) \in Range(entries) THEN "reannounce" ELSE "ready")
  /\ UNCHANGED <<echo, oneId, posted, echoes, hand, entries, version, busq, cached, ended, forgotten, unsaid>>

-----------------------------------------------------------------------------
(* articleTagEventDispatcher.Publish: the driver's echo gets its tags, and  *)
(* then goes to the bus.                                                    *)

\* take uses the entry up, peek leaves it.
Tagged(ev) == ev.id \in Range(entries)
Used(ev) ==
  IF ev.kind = "created" THEN Deleted(entries, ev.id) ELSE entries

TakeEcho ==
  /\ ~ended /\ hand = Absent /\ echoes # <<>>
  /\ LET ev == Head(echoes)
     IN /\ hand' = [ev EXCEPT !.tags = Tagged(ev)]
        /\ entries' = Used(ev)
  /\ echoes' = Tail(echoes)
  /\ UNCHANGED <<echo, oneId, posted, opc, version, busq, cached, ended, forgotten, unsaid>>

PublishEcho ==
  /\ hand # Absent
  /\ busq' = Append(busq, hand) /\ hand' = Absent
  /\ UNCHANGED <<echo, oneId, posted, echoes, entries, opc, version, cached, ended, forgotten, unsaid>>

\* The bus's error ends the driver; the cache may have got the event even so.
PublishEchoFails ==
  /\ hand # Absent
  /\ busq' \in {busq, Append(busq, hand)} /\ hand' = Absent /\ ended' = TRUE
  /\ UNCHANGED <<echo, oneId, posted, echoes, entries, opc, version, cached, forgotten, unsaid>>

-----------------------------------------------------------------------------
(* The event cache's projection: a creation replaces what is there, an edit *)
(* adds its tags.  Both leave an event that seems to be redelivered alone.  *)

Source(ev) == IF ev.own THEN "own" ELSE ev.kind

RememberCreated(ev) == [version |-> ev.version, tags |-> ev.tags, last |-> Source(ev)]
EditWithoutTags(ev, old) == [version |-> ev.version, tags |-> ev.tags, last |-> Source(ev)]
RememberEdit(ev, old) ==
  [version |-> ev.version, tags |-> ev.tags \/ (old # Absent /\ old.tags), last |-> Source(ev)]

\* isDuplicateEventLocked: whether ev may have the id of what was recorded last.
MayRepeat(ev, old) ==
  /\ ~ev.own /\ old # Absent /\ old.last # "own"
  /\ oneId \/ old.last = ev.kind
\* Whether it must have.
Repeats(ev, old) == oneId /\ MayRepeat(ev, old)

Project ==
  /\ busq # <<>>
  /\ LET ev  == Head(busq)
         old == cached[ev.id]
     IN \/ MayRepeat(ev, old) /\ UNCHANGED cached
        \/ /\ ~Repeats(ev, old)
           /\ cached' = [cached EXCEPT ![ev.id] = IF ev.kind = "created" THEN RememberCreated(ev)
                                                  ELSE RememberEdit(ev, old)]
  /\ busq' = Tail(busq)
  /\ UNCHANGED <<echo, oneId, posted, echoes, hand, entries, opc, version, ended, forgotten, unsaid>>

OutNext ==
  \/ \E s \in Senders :
       \/ SendPart(s) \/ SendFails(s) \/ Remember(s) \/ AnnounceSent(s)
       \/ Edit(s) \/ Peek(s) \/ AnnounceEdit(s)
  \/ Prune \/ TakeEcho \/ PublishEcho \/ PublishEchoFails \/ Project

OutSpec == OutInit /\ [][OutNext]_outVars

-----------------------------------------------------------------------------
\* Every variable keeps its type; the bridge has one entry per message at most.
OutTypeOK ==
  /\ posted \in [Ids -> Versions \cup {Absent}] /\ version \in [Senders -> Versions]
  /\ ToSet(echoes) \cup ToSet(busq) \subseteq Events /\ hand \in Events \cup {Absent}
  /\ cached \in [Ids -> Projections \cup {Absent}]
  /\ Len(entries) <= MaxEntries /\ IsInjective(entries)
  /\ ToSet(entries) \cup forgotten \cup unsaid \subseteq {First(s) : s \in Senders}

(* When nothing is under way between the platform and the cache.            *)
Settled(s) ==
  /\ opc[s] \in {"ready", "failed"}
  /\ echoes = <<>> /\ hand = Absent /\ busq = <<>> /\ ~ended

\* However the echo of a message races with the call that sent it: the tags
\* of an accepted message are in the cache, or the bridge still has them for
\* the next edit - unless it forgot them before.
TagsAreKept ==
  \A s \in Senders :
     Settled(s) /\ opc[s] = "ready" /\ First(s) \notin forgotten =>
       \/ First(s) \in Range(entries)
       \/ cached[First(s)] # Absent /\ cached[First(s)].tags

\* The last event in the article's history is an echo whose id the message's
\* next edit would have too: such an edit is taken for a redelivery.
EditsLookAlike(id) ==
  echo /\ cached[id] # Absent /\ cached[id].last \in (IF oneId THEN Sorts ELSE {"edited"})

\* The cache ends up with the last version of every message: from the echoes
\* where the platform sends them, otherwise from the bridge as long as no
\* event of it went missing.  It may be left with an older one only of a
\* message that was edited, and whose edits have ids that look alike.
CacheCatchesUp ==
  \A s \in Senders : Settled(s) =>
    \A id \in Ids : id[1] = s /\ posted[id] # Absent =>
      \/ cached[id] # Absent /\ cached[id].version = posted[id]
      \/ posted[id] > 0 /\ EditsLookAlike(id)
      \/ ~echo /\ (id # First(s) \/ id \in unsaid \cup forgotten \/ opc[s] = "failed")

\* What a reader of the cache would expect of a platform that echoes.  It does
\* not hold: an edit right after another echo of its message is dropped.
EditsReachCache ==
  echo => \A s \in Senders : Settled(s) =>
    \A id \in Ids : id[1] = s /\ posted[id] # Absent =>
      cached[id] # Absent /\ cached[id].version = posted[id]
=============================================================================
