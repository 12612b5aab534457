------------------------------- MODULE EventCache -------------------------------
(***************************************************************************)
(* The event cache (modules/eventcache): an LRU of bounded size with a     *)
(* deadline per record, holding for every article its event history and    *)
(* its projected state, and one ordered stream of articles per thread for  *)
(* context queries.                                                        *)
(*                                                                         *)
(* The workers of the "memory-writer" subscription take events from one    *)
(* queue (the feed).  An edit, a retraction or a reaction is two critical  *)
(* sections (append to the history, then project), so two workers          *)
(* interleave between them.  A read is two critical sections as well: it   *)
(* reads under the read lock and only later, under the write lock, touches *)
(* what it found and removes what it saw expired.  Both read the clock     *)
(* before they wait for the lock.                                          *)
(*                                                                         *)
(* One tenant, platform and conversation; a text is named by the event     *)
(* that set it; tags, media, entities and the Before of an edit are left   *)
(* out.  A created event carries no reactions of its own.                  *)
(***************************************************************************)
EXTENDS Integers, SequencesExt, FiniteSets

CONSTANTS
  Articles, Threads, Emojis,
  Main,        \* the thread of an article without one
  None,
  Feeds,       \* the event sequences the queue may deliver
  Workers, Readers,
  Pools,       \* the workers that may be configured for the subscription
  Batches,     \* the lookups readers ask for: sequences of articles
  Queries,     \* the context queries readers ask
  MaxEntries, TTL,
  Lag,         \* how long a reader may wait for the lock after reading the clock
  MaxTime      \* bound on the clock

\* What the queue delivers.  An id is a name, a time is a moment.
Events ==
  [id : Nat, kind : {"created"}, art : Articles, thread : Threads, at : Nat] \cup
  [id : Nat, kind : {"edited"}, art : Articles, at : Nat] \cup
  [id : Nat, kind : {"retracted"}, art : Articles] \cup
  [id : Nat, kind : {"added", "removed"}, art : Articles, emoji : Emojis]

ASSUME CacheAssumption ==
  /\ MaxEntries \in Nat \ {0} /\ TTL \in Nat \ {0} /\ Lag \in Nat /\ MaxTime \in Nat
  /\ Main \in Threads /\ IsFiniteSet(Workers) /\ Pools \subseteq SUBSET Workers
  /\ \A f \in Feeds : f \in Seq(Events)
  /\ \A b \in Batches : b \in Seq(Articles)
  /\ \A q \in Queries : q.thread \in Threads /\ q.limit \in Nat /\ q.at \in Nat \cup {None}

VARIABLES
  now, feed, next,
  cache,       \* everything mu guards
  worker,      \* [pc, ev, at] of every worker: its step, its event, when it got there
  reader,      \* what every reader still has to reconcile
  stopped      \* OnShutdown ran

cacheVars == <<now, feed, next, cache, worker, reader, stopped>>

Empty == [x \in {} |-> x]

EmptyCache ==
  [expires |-> Empty, ent |-> Empty, hist |-> Empty, loc |-> Empty,
   streams |-> [th \in Threads |-> <<>>], lru |-> <<>>, seq |-> 0]

Idle == [pc |-> "idle", ev |-> None, at |-> 0]
NotConfigured == [Idle EXCEPT !.pc = "none"]
NothingRead == [at |-> None, touched |-> <<>>, expired |-> {}]

-----------------------------------------------------------------------------
(* The streams.                                                            *)

Put(f, k, v) == [x \in DOMAIN f \cup {k} |-> IF x = k THEN v ELSE f[x]]
Without(f, k) == Restrict(f, DOMAIN f \ {k})

\* The order of a stream: by creation, then by arrival.
ByArrival(e, d) == e.seq < d.seq
Less(e, d) == e.created < d.created \/ (e.created = d.created /\ e.seq < d.seq)

\* Where the search in a stream ends: before the first entry that is not less.
Place(s, e) == Min({i \in 1..(Len(s) + 1) : i = Len(s) + 1 \/ ~Less(s[i], e)})

Insert(s, e) == InsertAt(s, Place(s, e), e)
Locates(s, e) == Place(s, e) <= Len(s) /\ s[Place(s, e)] = e
TakeOut(s, e) == IF Locates(s, e) THEN RemoveAt(s, Place(s, e)) ELSE s

Entry(k, l) == [art |-> k, created |-> l.created, seq |-> l.seq]

\* An article leaves the stream its location names.
Unstream(c, k) ==
  IF k \notin DOMAIN c.loc THEN c.streams
  ELSE [c.streams EXCEPT ![c.loc[k].thread] = TakeOut(@, Entry(k, c.loc[k]))]

\* A known article keeps its number, whatever stream it moves to.
StoreEntity(c, k, e) ==
  LET known == k \in DOMAIN c.loc
      l == [thread |-> e.thread, created |-> e.created,
            seq |-> IF known THEN c.loc[k].seq ELSE c.seq + 1]
  IN [c EXCEPT !.ent = Put(@, k, e), !.loc = Put(@, k, l),
               !.streams = [Unstream(c, k) EXCEPT ![e.thread] = Insert(@, Entry(k, l))],
               !.seq = IF known THEN @ ELSE @ + 1]

-----------------------------------------------------------------------------
(* Records, deadlines and the LRU list.                                    *)

IsExpired(c, k, t) == k \in DOMAIN c.expires /\ t >= c.expires[k]
IsLive(c, k, t) == k \in DOMAIN c.expires /\ t < c.expires[k]

Delete(c, k) ==
  [c EXCEPT !.expires = Without(@, k), !.ent = Without(@, k), !.hist = Without(@, k),
            !.loc = Without(@, k), !.lru = RemoveFirst(@, k), !.streams = Unstream(c, k)]

EnsureNotExpired(c, k, t) == IF IsExpired(c, k, t) THEN Delete(c, k) ELSE c

ToFront(lru, k) == <<k>> \o RemoveFirst(lru, k)

TouchAnyway(c, k) == [c EXCEPT !.lru = ToFront(@, k)]
Touch(c, k) == IF k \in DOMAIN c.expires THEN [c EXCEPT !.lru = ToFront(@, k)] ELSE c

UpsertKey(c, k, t) ==
  LET d == EnsureNotExpired(c, k, t)
  IN [d EXCEPT !.expires = Put(@, k, t + TTL), !.lru = ToFront(@, k)]

\* The least recently used go until the capacity holds.
Trim(c) == FoldLeft(Delete, c, Reverse(SubSeq(c.lru, MaxEntries + 1, Len(c.lru))))

UpsertEntity(c, k, e, t) == Trim(StoreEntity(UpsertKey(c, k, t), k, e))

History(c, k) == IF k \in DOMAIN c.hist THEN c.hist[k] ELSE <<>>

\* Only the last event of the history is compared.
IsDuplicate(c, ev) ==
  LET h == History(c, ev.art) IN h # <<>> /\ Last(h).id = ev.id

AppendHistory(c, ev) ==
  IF IsDuplicate(c, ev) THEN c
  ELSE [c EXCEPT !.hist = Put(@, ev.art, Append(History(c, ev.art), ev))]

-----------------------------------------------------------------------------
(* Reactions.                                                              *)

NoReactions == [em \in Emojis |-> 0]

ApplyReaction(counts, ev) ==
  CASE ev.kind = "added"   -> [counts EXCEPT ![ev.emoji] = @ + 1]
    [] ev.kind = "removed" -> [counts EXCEPT ![ev.emoji] = IF @ = 0 THEN 0 ELSE @ - 1]
    [] OTHER -> counts

\* The counts a history amounts to.
FromHistory(h) == FoldLeft(ApplyReaction, NoReactions, h)

NoBackfill(c, k, counts) == counts
KeptReactions(c, k, counts) == IF counts = NoReactions THEN FromHistory(History(c, k)) ELSE counts

-----------------------------------------------------------------------------
(* Writers.                                                                *)

CacheInit ==
  /\ now = 0 /\ next = 1 /\ feed \in Feeds
  /\ cache = EmptyCache
  /\ \E P \in Pools : worker = [w \in Workers |-> IF w \in P THEN Idle ELSE NotConfigured]
  /\ reader = [r \in Readers |-> NothingRead]
  /\ stopped = FALSE

\* What the clock may have shown when the section asked for the lock.
ClockOf(w) == worker[w].at..now

Take(w) ==
  /\ worker[w] = Idle
  /\ next <= Len(feed)
  /\ ~stopped
  /\ worker' = [worker EXCEPT ![w] =
       [pc |-> IF feed[next].kind = "created" THEN "created" ELSE "append",
        ev |-> feed[next], at |-> now]]
  /\ next' = next + 1
  /\ UNCHANGED <<now, feed, cache, reader, stopped>>

Write(w, c, pc) ==
  /\ cache' = c
  /\ worker' = [worker EXCEPT ![w] = IF pc = "idle" THEN Idle ELSE [@ EXCEPT !.pc = pc, !.at = now]]
  /\ UNCHANGED <<now, feed, next, reader, stopped>>

\* What rememberCreated stores over the projection it finds.
CreatedOver(c, ev) ==
  LET fresh == [thread |-> ev.thread, text |-> ev.id, created |-> ev.at,
                updated |-> ev.at, reacts |-> KeptReactions(c, ev.art, NoReactions)]
  IN IF ev.art \notin DOMAIN c.ent THEN fresh
     ELSE LET old == c.ent[ev.art]
          IN [fresh EXCEPT !.created = old.created,
                           !.updated = IF @ < old.updated THEN old.updated ELSE @,
                           !.reacts = KeptReactions(c, ev.art, old.reacts)]

RememberCreated(w) ==
  /\ worker[w].pc = "created"
  /\ \E t \in ClockOf(w) :
       LET ev == worker[w].ev
           c == EnsureNotExpired(cache, ev.art, t)
           d == AppendHistory(UpsertKey(c, ev.art, t), ev)
       IN Write(w, IF IsDuplicate(c, ev) THEN c
                   ELSE Trim(StoreEntity(d, ev.art, CreatedOver(d, ev))), "idle")

\* A duplicate ends the handler; its record is not even looked at.
AppendEvent(w) ==
  /\ worker[w].pc = "append"
  /\ \E t \in ClockOf(w) :
       LET ev == worker[w].ev
       IN IF IsDuplicate(cache, ev) THEN Write(w, cache, "idle")
          ELSE Write(w, Trim(AppendHistory(UpsertKey(cache, ev.art, t), ev)), "remember")

\* An edit of an unknown article invents it, in the main thread.
EditedOver(c, ev) ==
  LET old == IF ev.art \in DOMAIN c.ent THEN c.ent[ev.art]
             ELSE [thread |-> Main, text |-> None, created |-> ev.at,
                   updated |-> ev.at, reacts |-> NoReactions]
  IN [old EXCEPT !.text = ev.id, !.updated = ev.at,
                 !.reacts = KeptReactions(c, ev.art, @)]

RememberEdit(w) ==
  /\ worker[w].pc = "remember"
  /\ worker[w].ev.kind = "edited"
  /\ \E t \in ClockOf(w) :
       LET ev == worker[w].ev
           c == EnsureNotExpired(cache, ev.art, t)
       IN Write(w, UpsertEntity(c, ev.art, EditedOver(c, ev), t), "idle")

ForgetRetracted(w) ==
  /\ worker[w].pc = "remember"
  /\ worker[w].ev.kind = "retracted"
  /\ Write(w, Delete(cache, worker[w].ev.art), "idle")

RememberReaction(w) ==
  /\ worker[w].pc = "remember"
  /\ worker[w].ev.kind \in {"added", "removed"}
  /\ \E t \in ClockOf(w) :
       LET ev == worker[w].ev
           c == EnsureNotExpired(cache, ev.art, t)
       IN Write(w, IF ev.art \notin DOMAIN c.ent THEN c
                   ELSE UpsertEntity(c, ev.art,
                          [c.ent[ev.art] EXCEPT !.reacts = ApplyReaction(@, ev)], t), "idle")

-----------------------------------------------------------------------------
(* Readers.                                                                *)

\* A reader enters at any moment.
ClockRead == {t \in (now - Lag)..now : t >= 0}

\* One step of a read: what it finds live, and what it sees expired.
Visit(c, t, limit, skipped, acc, k) ==
  CASE Len(acc.found) >= limit \/ k \in skipped -> acc
    [] ~(Len(acc.found) >= limit \/ k \in skipped) /\ IsExpired(c, k, t) ->
         [acc EXCEPT !.expired = @ \cup {k}]
    [] ~(Len(acc.found) >= limit \/ k \in skipped) /\ IsLive(c, k, t) /\ k \in DOMAIN c.ent ->
         [acc EXCEPT !.found = Append(@, k)]
    [] OTHER -> acc

NothingFound == [found |-> <<>>, expired |-> {}]

\* Walk along the keys until the limit is reached.
Collect(c, t, limit, skipped, keys) ==
  FoldLeft(LAMBDA acc, k : Visit(c, t, limit, skipped, acc, k), NothingFound, keys)

\* The articles of a stream's first n entries, the latest first.
Newest(s, n) == [i \in 1..n |-> s[n + 1 - i].art]

\* The anchor article places the query when it is live and in the thread.
Anchored(c, q, t) ==
  /\ IsLive(c, q.anchor, t)
  /\ q.anchor \in DOMAIN c.loc
  /\ q.thread \in {Main, c.loc[q.anchor].thread}

\* Before the anchor, or else before the moment the query names.
Before(c, q, t) ==
  LET place == Entry(q.anchor, c.loc[q.anchor])
      stream == c.streams[c.loc[q.anchor].thread]
  IN Collect(c, t, q.limit, q.exclude, Newest(stream, Place(stream, place) - 1))

Until(c, q, t) ==
  LET later == {k \in DOMAIN c.loc : c.loc[k].created > q.at}
      stream == c.streams[q.thread]
  IN Collect(c, t, q.limit, q.exclude \cup {q.anchor} \cup later, Newest(stream, Len(stream)))

Context(c, q, t) ==
  CASE q.limit > 0 /\ Anchored(c, q, t) -> Before(c, q, t)
    [] q.limit > 0 /\ ~Anchored(c, q, t) /\ q.at # None -> Until(c, q, t)
    [] OTHER -> NothingFound

\* A read keeps its clock, what it found and what it saw expired.
Reads(r, t, touched, expired) ==
  /\ reader[r] = NothingRead
  /\ touched # <<>> \/ expired # {}
  /\ reader' = [reader EXCEPT ![r] = [at |-> t, touched |-> touched, expired |-> expired]]
  /\ UNCHANGED <<now, feed, next, cache, worker, stopped>>

\* Get, GetBatch, GetReplied and every hop of GetReplyChain.
Get(r) == \E t \in ClockRead : \E b \in Batches :
  LET answer == Collect(cache, t, Len(b), {}, b) IN Reads(r, t, answer.found, answer.expired)

GetHistory(r) == \E t \in ClockRead : \E k \in Articles :
  Reads(r, t, IF IsLive(cache, k, t) /\ k \in DOMAIN cache.hist THEN <<k>> ELSE <<>>,
        {k} \cap {a \in Articles : IsExpired(cache, a, t)})

ListConversationContextBefore(r) == \E t \in ClockRead : \E q \in Queries :
  LET answer == Context(cache, q, t) IN Reads(r, t, answer.found, answer.expired)

\* The second half of a read, on a cache that may have changed since.
DropSeen(c, read) ==
  FoldLeft(Touch, FoldLeft(Delete, c, SetToSeq(read.expired)), read.touched)
Reconciled(c, read) ==
  LET Drop(d, k) == EnsureNotExpired(d, k, read.at)
      Found(d, k) == Touch(EnsureNotExpired(d, k, read.at), k)
  IN FoldLeft(Found, FoldLeft(Drop, c, SetToSeq(read.expired)), read.touched)

ReconcileReadKeys(r) ==
  /\ reader[r] # NothingRead
  /\ cache' = Reconciled(cache, reader[r])
  /\ reader' = [reader EXCEPT ![r] = NothingRead]
  /\ UNCHANGED <<now, feed, next, worker, stopped>>

Tick ==
  /\ now < MaxTime
  /\ now' = now + 1
  /\ UNCHANGED <<feed, next, cache, worker, reader, stopped>>

\* The kernel has closed the subscription; a late handler may go on.
OnShutdown ==
  /\ ~stopped
  /\ stopped' = TRUE
  /\ cache' = EmptyCache
  /\ UNCHANGED <<now, feed, next, worker, reader>>

CacheNext ==
  \/ Tick \/ OnShutdown
  \/ \E w \in Workers : \/ Take(w) \/ RememberCreated(w) \/ AppendEvent(w)
                        \/ RememberEdit(w) \/ ForgetRetracted(w) \/ RememberReaction(w)
  \/ \E r \in Readers : \/ Get(r) \/ GetHistory(r) \/ ListConversationContextBefore(r)
                        \/ ReconcileReadKeys(r)

CacheSpec == CacheInit /\ [][CacheNext]_cacheVars

-----------------------------------------------------------------------------
(* Properties.                                                             *)

\* Every variable keeps its type; a reaction count is never negative.
CacheTypeOK ==
  /\ now \in 0..MaxTime /\ feed \in Feeds /\ next \in 1..(Len(feed) + 1) /\ stopped \in BOOLEAN
  /\ \A w \in Workers : worker[w].pc \in {"none", "idle", "created", "append", "remember"}
  /\ \A r \in Readers : reader[r].at \in (0..MaxTime) \cup {None} /\ ToSet(reader[r].touched) \subseteq Articles
  /\ \A k \in DOMAIN cache.expires : k \in Articles /\ cache.expires[k] \in Nat
  /\ \A k \in DOMAIN cache.ent : cache.ent[k].thread \in Threads /\ cache.ent[k].reacts \in [Emojis -> Nat]

(* The list, the index and the four maps (storage.go) stay one cache: the  *)
(* list names every record once, nothing is kept without a record, every   *)
(* projected article has a place in the streams, and when a section ends   *)
(* the capacity holds, whatever was deleted between the halves of a read.  *)
ListIsCache ==
  /\ ToSet(cache.lru) = DOMAIN cache.expires
  /\ Len(cache.lru) = Cardinality(DOMAIN cache.expires)
  /\ Cardinality(DOMAIN cache.expires) <= MaxEntries
  /\ DOMAIN cache.ent \cup DOMAIN cache.hist \subseteq DOMAIN cache.expires
  /\ DOMAIN cache.loc = DOMAIN cache.ent

\* The entries of a thread, from the projections alone.
EntriesOf(th) ==
  {[art |-> k, created |-> cache.ent[k].created, seq |-> cache.loc[k].seq] :
     k \in {a \in DOMAIN cache.ent : cache.ent[a].thread = th}}

(* The streams (conversation_index.go) are exactly the projected articles, *)
(* each in the thread its projection names and in no other, although an    *)
(* edit may invent an article in the main thread that its creation moves.  *)
StreamsMirror ==
  \A th \in Threads : /\ ToSet(cache.streams[th]) = EntriesOf(th)
                      /\ Len(cache.streams[th]) = Cardinality(EntriesOf(th))

\* The list, the maps and the streams describe one cache, whatever interleaves.
OneCache == ListIsCache /\ StreamsMirror

Earlier(a, b) ==
  LET x == cache.ent[a].created  y == cache.ent[b].created
  IN x < y \/ (x = y /\ cache.loc[a].seq < cache.loc[b].seq)

\* The articles a query asks for, chosen from all live projections at once.
Asked(q) ==
  LET shown == {k \in DOMAIN cache.ent : now < cache.expires[k] /\ k \notin q.exclude \cup {q.anchor}}
      placed == q.anchor \in DOMAIN cache.ent /\ now < cache.expires[q.anchor]
                /\ q.thread \in {Main, cache.ent[q.anchor].thread}
      pool == IF placed
              THEN {k \in shown : cache.ent[k].thread = cache.ent[q.anchor].thread /\ Earlier(k, q.anchor)}
              ELSE {k \in shown : q.at # None /\ cache.ent[k].thread = q.thread /\ cache.ent[k].created <= q.at}
  IN {k \in pool : Cardinality({j \in pool : Earlier(k, j)}) < q.limit}

(* ListConversationContextBefore (service.go:196) answers with the latest  *)
(* live articles before the anchor, newest first before the final reverse, *)
(* none of them excluded or expired, in every cache that can arise.        *)
ContextIsRight ==
  \A q \in Queries :
    LET found == Context(cache, q, now).found
    IN /\ ToSet(found) = Asked(q)
       /\ \A i, j \in DOMAIN found : i < j => Earlier(found[j], found[i])

(* A read decides under the read lock and acts later under the write lock  *)
(* (service.go:514): however late, it removes no record that has been      *)
(* refreshed since and is live.                                            *)
ReadersSpareLive ==
  [][\A r \in Readers : ReconcileReadKeys(r) =>
       \A k \in DOMAIN cache.expires \ DOMAIN cache'.expires : now >= cache.expires[k]]_cacheVars

\* No worker holds an event of the article.
Settled(k) == \A w \in Workers : worker[w].pc \in {"none", "idle"} \/ worker[w].ev.art # k

Kinds == {"created", "edited", "retracted", "added", "removed"}

\* Event i is the latest of the article's events of these kinds among the first n.
IsLatest(i, k, kinds, n) ==
  /\ i \in 1..n /\ feed[i].art = k /\ feed[i].kind \in kinds
  /\ \A j \in (i + 1)..n : ~(feed[j].art = k /\ feed[j].kind \in kinds)

OneWorker == Cardinality({w \in Workers : worker[w] # NotConfigured}) = 1

(* The id of an event tells what kind of event it is: Telegram's ids and   *)
(* the synthetic ones do (gotd_mapper.go:2568, article_tag_bridge.go:477); *)
(* Discord gives a message, its edits and its deletion one id              *)
(* (discordgo_mapper.go:67), and then the cache takes them for duplicates. *)
IdsNameKinds ==
  \A i \in DOMAIN feed : \A j \in DOMAIN feed :
    feed[i].art = feed[j].art /\ feed[i].id = feed[j].id => feed[i].kind = feed[j].kind

(* The reactions a projection shows are those its history amounts to       *)
(* (clone.go:153): no reaction counts twice or gets lost on the way from   *)
(* the history to the projection, redelivered or early ones included.      *)
ReactionsCountOnce ==
  \A k \in DOMAIN cache.ent : Settled(k) => cache.ent[k].reacts = FromHistory(History(cache, k))

\* The same of a cache whose subscription has one worker.
ReactionsAreHistory == OneWorker => ReactionsCountOnce

(* With one worker, once the retraction of an article has been handled as  *)
(* the latest of its events, nothing of the article is left (handler.go:33).*)
RetractedStaysGone ==
  OneWorker /\ IdsNameKinds =>
    \A k \in Articles : Settled(k) =>
      \A i \in 1..(next - 1) :
        IsLatest(i, k, Kinds, next - 1) /\ feed[i].kind = "retracted" => k \notin DOMAIN cache.ent

(* With one worker, a projection that has handled all its events shows the *)
(* text of the latest creation or edit (projection.go:100).                *)
TextIsLatest ==
  OneWorker /\ IdsNameKinds =>
    \A k \in DOMAIN cache.ent : Settled(k) =>
      \E i \in 1..(next - 1) :
        IsLatest(i, k, {"created", "edited"}, next - 1) /\ cache.ent[k].text = feed[i].id

\* With one worker the projection is what the events of an article amount to.
ProjectionFollows == ReactionsAreHistory /\ RetractedStaysGone /\ TextIsLatest
=============================================================================
