-------------------------- MODULE ConversationProofs --------------------------
(***************************************************************************)
(* What the bot remembers of a conversation and how it answers in one.      *)
(*                                                                         *)
(* The event cache, for any articles, threads, workers, readers, capacity   *)
(* and lifetime: the list, the maps and the streams stay one cache, a read  *)
(* spares what is live, a context query is answered as if all projections   *)
(* were sorted at once, and with one worker a projection is what the events *)
(* of its article amount to.                                                *)
(*                                                                         *)
(* A chat request, for any bounds on rounds, attempts, edits and chunks:    *)
(* the answer somebody has seen stays, and the placeholder is replaced.     *)
(***************************************************************************)
EXTENDS EventCache, ChatReply, SequenceTheorems, FiniteSetTheorems, TLAPS

-----------------------------------------------------------------------------
(* What makes a cache well formed.                                         *)

Distinct(s) == \A i \in DOMAIN s : \A j \in DOMAIN s : s[i] = s[j] => i = j
Sorted(s) == \A i \in DOMAIN s : \A j \in DOMAIN s : i < j => Less(s[i], s[j])

Entries == [art : Articles, created : Nat, seq : Nat]

Locations == [thread : Threads, created : Nat, seq : Nat]
Projections ==
  [thread : Threads, text : Nat \cup {None}, created : Nat, updated : Nat, reacts : [Emojis -> Nat]]

HasFields(c) ==
  c = [expires |-> c.expires, ent |-> c.ent, hist |-> c.hist, loc |-> c.loc,
       streams |-> c.streams, lru |-> c.lru, seq |-> c.seq]

\* Deadlines and the LRU list speak of the same records.
ListOK(c) ==
  /\ DOMAIN c.expires \subseteq Articles
  /\ \A k \in DOMAIN c.expires : c.expires[k] \in Nat
  /\ c.lru \in Seq(Articles) /\ Distinct(c.lru)
  /\ ToSet(c.lru) = DOMAIN c.expires

\* Nothing is kept without a record.
MapsOK(c) ==
  /\ DOMAIN c.ent \subseteq DOMAIN c.expires /\ DOMAIN c.hist \subseteq DOMAIN c.expires
  /\ \A k \in DOMAIN c.ent : c.ent[k] \in Projections
  /\ \A k \in DOMAIN c.hist : c.hist[k] \in Seq(Events)

\* Every projection has a place, and no two the same number.
PlacesOK(c) ==
  /\ c.seq \in Nat
  /\ DOMAIN c.loc = DOMAIN c.ent
  /\ \A k \in DOMAIN c.loc :
       /\ c.loc[k] \in Locations /\ c.loc[k].seq <= c.seq
       /\ c.loc[k].thread = c.ent[k].thread /\ c.loc[k].created = c.ent[k].created
  /\ \A k \in DOMAIN c.loc : \A j \in DOMAIN c.loc : c.loc[k].seq = c.loc[j].seq => k = j

Placed(c, th) == {Entry(k, c.loc[k]) : k \in {a \in DOMAIN c.loc : c.loc[a].thread = th}}

\* Every stream holds the entries placed in it, in order.
StreamsOK(c) ==
  /\ c.streams \in [Threads -> Seq(Entries)]
  /\ \A th \in Threads : Sorted(c.streams[th]) /\ ToSet(c.streams[th]) = Placed(c, th)

WellFormed(c) == HasFields(c) /\ ListOK(c) /\ MapsOK(c) /\ PlacesOK(c) /\ StreamsOK(c)

Busy == {"created", "append", "remember"}

WorkerOK(w) ==
  /\ worker[w] = [pc |-> worker[w].pc, ev |-> worker[w].ev, at |-> worker[w].at]
  /\ worker[w].pc \in {"none", "idle"} \cup Busy
  /\ worker[w].at \in Nat /\ worker[w].at <= now
  /\ worker[w].pc \in Busy => worker[w].ev \in Events
  /\ worker[w].pc = "created" => worker[w].ev.kind = "created"
  /\ worker[w].pc \in {"append", "remember"} => worker[w].ev.kind # "created"

ReaderOK(r) ==
  reader[r] = NothingRead \/
  /\ reader[r].at \in Nat /\ reader[r].at <= now
  /\ reader[r].touched \in Seq(Articles)
  /\ IsFiniteSet(reader[r].expired)

CacheInv ==
  /\ now \in Nat /\ now <= MaxTime /\ feed \in Feeds /\ next \in 1..(Len(feed) + 1) /\ stopped \in BOOLEAN
  /\ WellFormed(cache) /\ Len(cache.lru) <= MaxEntries
  /\ DOMAIN worker = Workers /\ \A w \in Workers : WorkerOK(w)
  /\ DOMAIN reader = Readers /\ \A r \in Readers : ReaderOK(r)

\* What a record holds is the same in both caches.
SameRecord(c, d, k) ==
  /\ k \in DOMAIN d.ent <=> k \in DOMAIN c.ent
  /\ k \in DOMAIN d.ent => d.ent[k] = c.ent[k]
  /\ k \in DOMAIN d.hist <=> k \in DOMAIN c.hist
  /\ k \in DOMAIN d.hist => d.hist[k] = c.hist[k]

\* Some records are gone, the others are as they were.
Shrunk(c, d) ==
  /\ DOMAIN d.expires \subseteq DOMAIN c.expires
  /\ \A k \in DOMAIN d.expires : d.expires[k] = c.expires[k] /\ SameRecord(c, d, k)

\* When an article leaves, its stream loses its entry and the others nothing.
PlacedBut(c, k, th) == {Entry(a, c.loc[a]) : a \in {b \in DOMAIN c.loc \ {k} : c.loc[b].thread = th}}

-----------------------------------------------------------------------------
(* The folds, and what they keep at every element.                         *)

\* What a read may leave of a cache, having seen the clock at t.
Left(c, t, d) ==
  /\ WellFormed(d) /\ Shrunk(c, d) /\ Len(d.lru) <= Len(c.lru)
  /\ \A k \in DOMAIN c.expires \ DOMAIN d.expires : t >= c.expires[k]

Dropping(t, c, k) == EnsureNotExpired(c, k, t)
Finding(t, c, k) == Touch(EnsureNotExpired(c, k, t), k)
Evicting(p, c, k) == Delete(c, k)

StillLeft(q, i, d) == Left(q.cache, q.at, d)

\* The first i keys of a list of records have been evicted.
Evicted(q, i, d) ==
  /\ WellFormed(d) /\ Shrunk(q.cache, d)
  /\ Len(d.lru) = Len(q.cache.lru) - i
  /\ DOMAIN d.expires = DOMAIN q.cache.expires \ {q.keys[j] : j \in 1..i}

Counting(p, counts, ev) == ApplyReaction(counts, ev)
Counted(q, i, counts) == counts \in [Emojis -> Nat]

\* What a read is to answer with.
Shown(c, t, skipped, k) == k \notin skipped /\ IsLive(c, k, t) /\ k \in DOMAIN c.ent

\* What a read has gathered from its first i keys, in their order.
Gathers(c, t, limit, skipped, keys, i, acc) ==
  /\ acc = [found |-> acc.found, expired |-> acc.expired]
  /\ acc.found \in Seq(Articles) /\ Len(acc.found) <= limit /\ IsFiniteSet(acc.expired)
  /\ \A m \in 1..Len(acc.found) :
       Shown(c, t, skipped, acc.found[m]) /\ \E a \in 1..i : acc.found[m] = keys[a]
  /\ \A n \in 1..Len(acc.found) : \A m \in 1..(n - 1) :
       \E b \in 1..i : \E a \in 1..(b - 1) : acc.found[m] = keys[a] /\ acc.found[n] = keys[b]
  /\ \A j \in 1..i : Shown(c, t, skipped, keys[j]) =>
       \/ \E m \in 1..Len(acc.found) : acc.found[m] = keys[j]
       \/ /\ Len(acc.found) = limit
          /\ \A m \in 1..Len(acc.found) : \E a \in 1..(j - 1) : acc.found[m] = keys[a]

Visiting(p, acc, k) == Visit(p.cache, p.at, p.limit, p.skipped, acc, k)
Gathered(p, i, acc) == Gathers(p.cache, p.at, p.limit, p.skipped, p.keys, i, acc)

Drops == INSTANCE FoldLaws WITH Op <- Dropping, Inv <- StillLeft
Finds == INSTANCE FoldLaws WITH Op <- Finding, Inv <- StillLeft
Evicts == INSTANCE FoldLaws WITH Op <- Evicting, Inv <- Evicted
Visits == INSTANCE FoldLaws WITH Op <- Visiting, Inv <- Gathered
Tally == INSTANCE FoldLaws WITH Op <- Counting, Inv <- Counted

-----------------------------------------------------------------------------
(* Sequences.                                                              *)

\* The least element of a set of natural numbers.
LEMMA MinIn ==
  ASSUME NEW T \in SUBSET Nat, T # {}
  PROVE  Min(T) \in T /\ \A m \in T : Min(T) <= m
<1>1. \E n \in T : \A m \in T : n <= m
  BY Drops!Least
<1> QED  BY <1>1 DEF Min

\* Two sequences, one after the other.
LEMMA Joined ==
  ASSUME NEW S, NEW a \in Seq(S), NEW b \in Seq(S)
  PROVE  /\ a \o b \in Seq(S)
         /\ Len(a \o b) = Len(a) + Len(b)
         /\ \A j \in 1..(Len(a) + Len(b)) : (a \o b)[j] = IF j <= Len(a) THEN a[j] ELSE b[j - Len(a)]
BY ConcatProperties

\* A sequence without its i-th element.
LEMMA RemoveAtIs ==
  ASSUME NEW S, NEW s \in Seq(S), NEW i \in 1..Len(s)
  PROVE  /\ RemoveAt(s, i) \in Seq(S)
         /\ Len(RemoveAt(s, i)) = Len(s) - 1
         /\ \A j \in 1..(Len(s) - 1) : RemoveAt(s, i)[j] = IF j < i THEN s[j] ELSE s[j + 1]
<1> DEFINE a == SubSeq(s, 1, i - 1)  b == SubSeq(s, i + 1, Len(s))
<1>1. /\ a \in Seq(S) /\ Len(a) = i - 1
      /\ \A j \in 1..(i - 1) : a[j] = s[j]
  OBVIOUS
<1>2. /\ b \in Seq(S) /\ Len(b) = Len(s) - i
      /\ \A j \in 1..(Len(s) - i) : b[j] = s[i + j]
  OBVIOUS
<1>3. RemoveAt(s, i) = a \o b
  BY DEF RemoveAt
<1> HIDE DEF a, b
<1>4. /\ a \o b \in Seq(S) /\ Len(a \o b) = Len(s) - 1
      /\ \A j \in 1..(Len(s) - 1) : (a \o b)[j] = IF j <= i - 1 THEN a[j] ELSE b[j - (i - 1)]
  <2> DEFINE m == i - 1  n == Len(s) - 1
  <2>1. m = Len(a) /\ n = Len(a) + Len(b)
    BY <1>1, <1>2
  <2> HIDE DEF m, n
  <2>2. /\ a \o b \in Seq(S) /\ Len(a \o b) = n
        /\ \A j \in 1..n : (a \o b)[j] = IF j <= m THEN a[j] ELSE b[j - m]
    BY <1>1, <1>2, <2>1, Joined
  <2> QED  BY <2>2 DEF m, n
<1>5. \A j \in 1..(Len(s) - 1) : ~(j < i) => (a \o b)[j] = s[j + 1]
  <2> SUFFICES ASSUME NEW j \in 1..(Len(s) - 1), ~(j < i) PROVE (a \o b)[j] = s[j + 1]
    OBVIOUS
  <2>1. j - (i - 1) \in 1..(Len(s) - i) /\ i + (j - (i - 1)) = j + 1
    OBVIOUS
  <2> QED  BY <1>2, <1>4, <2>1
<1> QED  BY <1>1, <1>3, <1>4, <1>5

\* A sequence with e before its i-th element.
LEMMA InsertAtIs ==
  ASSUME NEW S, NEW s \in Seq(S), NEW i \in 1..(Len(s) + 1), NEW e \in S
  PROVE  /\ InsertAt(s, i, e) \in Seq(S)
         /\ Len(InsertAt(s, i, e)) = Len(s) + 1
         /\ \A j \in 1..(Len(s) + 1) :
              InsertAt(s, i, e)[j] = IF j < i THEN s[j] ELSE IF j = i THEN e ELSE s[j - 1]
<1> DEFINE a == SubSeq(s, 1, i - 1)  b == SubSeq(s, i, Len(s))
<1>1. /\ a \in Seq(S) /\ Len(a) = i - 1
      /\ \A j \in 1..(i - 1) : a[j] = s[j]
  OBVIOUS
<1>2. /\ b \in Seq(S) /\ Len(b) = Len(s) - i + 1
      /\ \A j \in 1..(Len(s) - i + 1) : b[j] = s[i + j - 1]
  OBVIOUS
<1>3. InsertAt(s, i, e) = (a \o <<e>>) \o b
  BY DEF InsertAt
<1> HIDE DEF a, b
<1>4. /\ a \o <<e>> \in Seq(S) /\ Len(a \o <<e>>) = i
      /\ \A j \in 1..i : (a \o <<e>>)[j] = IF j < i THEN s[j] ELSE e
  BY <1>1
<1> DEFINE ae == a \o <<e>>
<1>5. ae \in Seq(S) /\ Len(ae) = i /\ \A j \in 1..i : ae[j] = IF j < i THEN s[j] ELSE e
  BY <1>4
<1> HIDE DEF ae
<1>6. /\ ae \o b \in Seq(S) /\ Len(ae \o b) = Len(s) + 1
      /\ \A j \in 1..(Len(s) + 1) : (ae \o b)[j] = IF j <= i THEN ae[j] ELSE b[j - i]
  BY <1>2, <1>5, Joined
<1>7. \A j \in 1..(Len(s) + 1) : j > i => (ae \o b)[j] = s[j - 1]
  <2> SUFFICES ASSUME NEW j \in 1..(Len(s) + 1), j > i PROVE (ae \o b)[j] = s[j - 1]
    OBVIOUS
  <2>1. j - i \in 1..(Len(s) - i + 1) /\ i + (j - i) - 1 = j - 1
    OBVIOUS
  <2> QED  BY <1>2, <1>6, <2>1
<1>8. InsertAt(s, i, e) = ae \o b
  BY <1>3 DEF ae
<1> QED  BY <1>5, <1>6, <1>7, <1>8

\* Taking a key out of a list of distinct keys.
LEMMA RemoveFirstIs ==
  ASSUME NEW S, NEW s \in Seq(S), Distinct(s), NEW e
  PROVE  /\ RemoveFirst(s, e) \in Seq(S)
         /\ Distinct(RemoveFirst(s, e))
         /\ ToSet(RemoveFirst(s, e)) = ToSet(s) \ {e}
         /\ Len(RemoveFirst(s, e)) = IF e \in ToSet(s) THEN Len(s) - 1 ELSE Len(s)
<1>1. CASE ~\E i \in 1..Len(s) : s[i] = e
  BY <1>1 DEF RemoveFirst, ToSet
<1>2. CASE \E i \in 1..Len(s) : s[i] = e
  <2> DEFINE I == {i \in 1..Len(s) : s[i] = e}
  <2>1. Min(I) \in I
    <3>1. I \in SUBSET Nat /\ I # {}
      BY <1>2
    <3> QED  BY <3>1, MinIn
  <2>2. PICK i \in 1..Len(s) : s[i] = e /\ RemoveFirst(s, e) = RemoveAt(s, i)
    <3>1. RemoveFirst(s, e) = RemoveAt(s, Min(I))
      BY <1>2 DEF RemoveFirst, SelectInSeq
    <3> QED  BY <2>1, <3>1
  <2> DEFINE r == RemoveAt(s, i)
  <2>3. /\ r \in Seq(S) /\ Len(r) = Len(s) - 1
        /\ \A j \in 1..(Len(s) - 1) : r[j] = IF j < i THEN s[j] ELSE s[j + 1]
    BY RemoveAtIs
  <2> HIDE DEF r
  <2>4. Distinct(r)
    <3> SUFFICES ASSUME NEW j \in 1..(Len(s) - 1), NEW l \in 1..(Len(s) - 1), r[j] = r[l]
                 PROVE  j = l
      BY <2>3 DEF Distinct
    <3> DEFINE g(x) == IF x < i THEN x ELSE x + 1
    <3>1. g(j) \in 1..Len(s) /\ g(l) \in 1..Len(s) /\ r[j] = s[g(j)] /\ r[l] = s[g(l)]
      BY <2>3
    <3>2. g(j) = g(l)
      <4> HIDE DEF g
      <4>1. DOMAIN s = 1..Len(s)
        OBVIOUS
      <4> QED  BY <3>1, <4>1 DEF Distinct
    <3> QED  BY <3>2
  <2>5. ToSet(r) = ToSet(s) \ {e}
    <3>1. ASSUME NEW x \in ToSet(r) PROVE x \in ToSet(s) \ {e}
      BY <2>2, <2>3 DEF ToSet, Distinct
    <3>2. ASSUME NEW x \in ToSet(s), x # e PROVE x \in ToSet(r)
      <4>1. PICK j \in 1..Len(s) : s[j] = x
        BY DEF ToSet
      <4>2. CASE j < i
        <5>1. j \in 1..(Len(s) - 1) /\ r[j] = x
          BY <2>3, <4>1, <4>2
        <5> QED  BY <5>1, <2>3 DEF ToSet
      <4>3. CASE j > i
        <5>1. j - 1 \in 1..(Len(s) - 1) /\ ~(j - 1 < i) /\ j - 1 + 1 = j
          BY <4>3
        <5>2. r[j - 1] = x
          BY <2>3, <4>1, <5>1
        <5> QED  BY <5>1, <5>2, <2>3 DEF ToSet
      <4>4. j # i
        BY <2>2, <4>1, <3>2
      <4> QED  BY <4>2, <4>3, <4>4
    <3> QED  BY <3>1, <3>2
  <2>6. e \in ToSet(s)
    BY <2>2 DEF ToSet
  <2> QED  BY <2>2, <2>3, <2>4, <2>5, <2>6 DEF r
<1> QED  BY <1>1, <1>2

\* Moving a key to the front of a list of distinct keys.
LEMMA ToFrontIs ==
  ASSUME NEW S, NEW s \in Seq(S), Distinct(s), NEW e \in S
  PROVE  /\ ToFront(s, e) \in Seq(S)
         /\ Distinct(ToFront(s, e))
         /\ ToSet(ToFront(s, e)) = ToSet(s) \cup {e}
         /\ Len(ToFront(s, e)) = IF e \in ToSet(s) THEN Len(s) ELSE Len(s) + 1
         /\ ToFront(s, e)[1] = e
<1> DEFINE r == RemoveFirst(s, e)
<1>1. /\ r \in Seq(S) /\ Distinct(r) /\ ToSet(r) = ToSet(s) \ {e}
      /\ Len(r) = IF e \in ToSet(s) THEN Len(s) - 1 ELSE Len(s)
  BY RemoveFirstIs
<1>2. ToFront(s, e) = <<e>> \o r
  BY DEF ToFront
<1> HIDE DEF r
<1> DEFINE f == <<e>> \o r
<1>3. /\ f \in Seq(S) /\ Len(f) = Len(r) + 1 /\ f[1] = e
      /\ \A j \in 2..(Len(r) + 1) : f[j] = r[j - 1]
  BY <1>1
<1> HIDE DEF f
<1>4. \A j \in 2..(Len(r) + 1) : f[j] \in ToSet(r)
  <2> SUFFICES ASSUME NEW j \in 2..(Len(r) + 1) PROVE f[j] \in ToSet(r)
    OBVIOUS
  <2>1. j - 1 \in 1..Len(r) /\ f[j] = r[j - 1]
    BY <1>1, <1>3
  <2> QED  BY <1>1, <2>1 DEF ToSet
<1>5. Distinct(f)
  <2> SUFFICES ASSUME NEW i \in 1..(Len(r) + 1), NEW j \in 1..(Len(r) + 1), f[i] = f[j]
               PROVE  i = j
    BY <1>3 DEF Distinct
  <2>1. CASE i = 1 \/ j = 1
    BY <1>1, <1>3, <1>4, <2>1
  <2>2. CASE i # 1 /\ j # 1
    <3>1. i - 1 \in 1..Len(r) /\ j - 1 \in 1..Len(r) /\ r[i - 1] = r[j - 1]
      BY <1>1, <1>3, <2>2
    <3>2. i - 1 = j - 1
      BY <1>1, <3>1 DEF Distinct
    <3> QED  BY <3>2
  <2> QED  BY <2>1, <2>2
<1>6. ToSet(f) = ToSet(s) \cup {e}
  <2>1. ASSUME NEW x \in ToSet(f) PROVE x \in ToSet(s) \cup {e}
    <3>1. PICK j \in 1..(Len(r) + 1) : f[j] = x
      BY <1>3 DEF ToSet
    <3> QED  BY <1>1, <1>3, <1>4, <3>1
  <2>2. ASSUME NEW x \in ToSet(r) PROVE x \in ToSet(f)
    <3>1. PICK j \in 1..Len(r) : r[j] = x
      BY <1>1 DEF ToSet
    <3>2. j + 1 \in 2..(Len(r) + 1) /\ (j + 1) - 1 = j
      BY <1>1
    <3>3. f[j + 1] = x
      BY <1>3, <3>1, <3>2
    <3> QED  BY <1>1, <1>3, <3>2, <3>3 DEF ToSet
  <2>3. e \in ToSet(f)
    BY <1>1, <1>3 DEF ToSet
  <2> QED  BY <1>1, <2>1, <2>2, <2>3
<1>7. Len(f) = IF e \in ToSet(s) THEN Len(s) ELSE Len(s) + 1
  BY <1>1, <1>3
<1> QED  BY <1>2, <1>3, <1>5, <1>6, <1>7 DEF f

-----------------------------------------------------------------------------
(* The streams.                                                            *)

\* Where the search ends: what is before is less, what is after is not.
LEMMA PlaceIs ==
  ASSUME NEW s \in Seq(Entries), Sorted(s), NEW e \in Entries
  PROVE  /\ Place(s, e) \in 1..(Len(s) + 1)
         /\ \A j \in 1..Len(s) : Less(s[j], e) <=> j < Place(s, e)
<1> DEFINE T == {i \in 1..(Len(s) + 1) : i = Len(s) + 1 \/ ~Less(s[i], e)}
           p == Min(T)
<1>1. p \in T /\ \A m \in T : p <= m
  <2>1. T \in SUBSET Nat /\ Len(s) + 1 \in T
    OBVIOUS
  <2> QED  BY <2>1, MinIn
<1>2. Place(s, e) = p
  BY DEF Place
<1> HIDE DEF p
<1>3. p \in 1..(Len(s) + 1)
  BY <1>1
<1>4. ASSUME NEW j \in 1..Len(s), j < p PROVE Less(s[j], e)
  BY <1>1, <1>3, <1>4
<1>5. ASSUME NEW j \in 1..Len(s), j >= p PROVE ~Less(s[j], e)
  <2>1. p \in 1..Len(s) /\ ~Less(s[p], e)
    BY <1>1, <1>3, <1>5
  <2>2. CASE j = p
    BY <2>1, <2>2
  <2>3. CASE j > p
    <3>1. Less(s[p], s[j])
      <4>1. p \in DOMAIN s /\ j \in DOMAIN s
        BY <2>1
      <4> QED  BY <2>1, <2>3, <4>1 DEF Sorted
    <3>2. s[p] \in Entries /\ s[j] \in Entries
      BY <2>1
    <3> QED  BY <2>1, <3>1, <3>2 DEF Less, Entries
  <2> QED  BY <1>3, <1>5, <2>2, <2>3
<1> QED  BY <1>2, <1>3, <1>4, <1>5

\* A new entry takes its place in a stream.
LEMMA InsertIs ==
  ASSUME NEW s \in Seq(Entries), Sorted(s), NEW e \in Entries,
         \A i \in 1..Len(s) : s[i].seq # e.seq
  PROVE  /\ Insert(s, e) \in Seq(Entries)
         /\ Sorted(Insert(s, e))
         /\ ToSet(Insert(s, e)) = ToSet(s) \cup {e}
<1> DEFINE p == Place(s, e)
<1>1. /\ p \in 1..(Len(s) + 1)
      /\ \A j \in 1..Len(s) : Less(s[j], e) <=> j < p
  BY PlaceIs
<1>3. Insert(s, e) = InsertAt(s, p, e)
  BY DEF Insert
<1> HIDE DEF p
<1> DEFINE r == InsertAt(s, p, e)
<1>2. /\ r \in Seq(Entries) /\ Len(r) = Len(s) + 1
      /\ \A j \in 1..(Len(s) + 1) : r[j] = IF j < p THEN s[j] ELSE IF j = p THEN e ELSE s[j - 1]
  BY <1>1, InsertAtIs
<1> HIDE DEF r
<1>4. \A j \in 1..Len(s) : j >= p => Less(e, s[j])
  <2> SUFFICES ASSUME NEW j \in 1..Len(s), j >= p PROVE Less(e, s[j])
    OBVIOUS
  <2>1. ~Less(s[j], e) /\ s[j] \in Entries /\ s[j].seq # e.seq
    BY <1>1
  <2> QED  BY <2>1 DEF Less, Entries
<1>5. ASSUME NEW i \in 1..(Len(s) + 1), NEW j \in 1..(Len(s) + 1), i < j PROVE Less(r[i], r[j])
  <2>1. CASE j < p
    <3>1. i \in 1..Len(s) /\ j \in 1..Len(s) /\ r[i] = s[i] /\ r[j] = s[j]
      BY <1>1, <1>2, <1>5, <2>1
    <3> QED  BY <1>5, <3>1 DEF Sorted
  <2>2. CASE j = p
    BY <1>1, <1>2, <1>5, <2>2
  <2>3. CASE i < p /\ j > p
    <3>1. i \in 1..Len(s) /\ j - 1 \in 1..Len(s) /\ r[i] = s[i] /\ r[j] = s[j - 1] /\ i < j - 1
      BY <1>1, <1>2, <2>3
    <3> QED  BY <3>1 DEF Sorted
  <2>4. CASE i = p
    <3>1. j - 1 \in 1..Len(s) /\ j - 1 >= p /\ r[i] = e /\ r[j] = s[j - 1]
      BY <1>1, <1>2, <1>5, <2>4
    <3> QED  BY <1>4, <3>1
  <2>5. CASE i > p
    <3>1. i - 1 \in 1..Len(s) /\ j - 1 \in 1..Len(s) /\ r[i] = s[i - 1] /\ r[j] = s[j - 1] /\ i - 1 < j - 1
      BY <1>1, <1>2, <1>5, <2>5
    <3> QED  BY <3>1 DEF Sorted
  <2> QED  BY <1>1, <2>1, <2>2, <2>3, <2>4, <2>5
<1>6. Sorted(r)
  BY <1>2, <1>5 DEF Sorted
<1>7. ToSet(r) = ToSet(s) \cup {e}
  <2>1. ASSUME NEW x \in ToSet(r) PROVE x \in ToSet(s) \cup {e}
    <3>1. PICK j \in 1..(Len(s) + 1) : r[j] = x
      BY <1>2 DEF ToSet
    <3>2. CASE j < p
      <4>1. j \in 1..Len(s) /\ s[j] = x
        BY <1>1, <1>2, <3>1, <3>2
      <4> QED  BY <4>1 DEF ToSet
    <3>3. CASE j > p
      <4>1. j - 1 \in 1..Len(s) /\ s[j - 1] = x
        BY <1>1, <1>2, <3>1, <3>3
      <4> QED  BY <4>1 DEF ToSet
    <3> QED  BY <1>1, <1>2, <3>1, <3>2, <3>3
  <2>2. ASSUME NEW x \in ToSet(s) PROVE x \in ToSet(r)
    <3>1. PICK j \in 1..Len(s) : s[j] = x
      BY DEF ToSet
    <3>2. CASE j < p
      <4>1. j \in 1..(Len(s) + 1) /\ r[j] = x
        BY <1>1, <1>2, <3>1, <3>2
      <4> QED  BY <1>2, <4>1 DEF ToSet
    <3>3. CASE j >= p
      <4>1. j + 1 \in 1..(Len(s) + 1) /\ r[j + 1] = x
        BY <1>1, <1>2, <3>1, <3>3
      <4> QED  BY <1>2, <4>1 DEF ToSet
    <3> QED  BY <1>1, <3>2, <3>3
  <2>3. e \in ToSet(r)
    <3>1. r[p] = e /\ p \in 1..(Len(s) + 1)
      BY <1>1, <1>2
    <3> QED  BY <1>2, <3>1 DEF ToSet
  <2> QED  BY <2>1, <2>2, <2>3
<1> QED  BY <1>2, <1>3, <1>6, <1>7 DEF r

\* The entries of a stream are all different.
LEMMA SortedDistinct ==
  ASSUME NEW s \in Seq(Entries), Sorted(s)
  PROVE  Distinct(s)
<1> SUFFICES ASSUME NEW i \in DOMAIN s, NEW j \in DOMAIN s, s[i] = s[j], i # j PROVE FALSE
  BY DEF Distinct
<1>1. Less(s[i], s[j]) \/ Less(s[j], s[i])
  BY DEF Sorted
<1>2. s[i] \in Entries
  OBVIOUS
<1> QED  BY <1>1, <1>2 DEF Less, Entries

\* An entry leaves the stream it is in, and no other.
LEMMA TakeOutIs ==
  ASSUME NEW s \in Seq(Entries), Sorted(s), NEW e \in Entries
  PROVE  /\ TakeOut(s, e) \in Seq(Entries)
         /\ Sorted(TakeOut(s, e))
         /\ ToSet(TakeOut(s, e)) = ToSet(s) \ {e}
<1> DEFINE p == Place(s, e)
<1>1. /\ p \in 1..(Len(s) + 1)
      /\ \A j \in 1..Len(s) : Less(s[j], e) <=> j < p
  BY PlaceIs
<1>2. Locates(s, e) <=> p <= Len(s) /\ s[p] = e
  BY DEF Locates
<1>3. Locates(s, e) => TakeOut(s, e) = RemoveAt(s, p)
  BY DEF TakeOut
<1> HIDE DEF p
<1>4. CASE ~Locates(s, e)
  <2>1. ASSUME NEW j \in 1..Len(s), s[j] = e PROVE FALSE
    <3>1. ~Less(s[j], e)
      BY <2>1 DEF Less, Entries
    <3>2. p <= j /\ p \in DOMAIN s /\ j \in DOMAIN s
      BY <1>1, <3>1
    <3>3. p < j
      BY <1>1, <1>2, <1>4, <2>1, <3>2
    <3>4. Less(s[p], e)
      BY <2>1, <3>2, <3>3 DEF Sorted
    <3> QED  BY <1>1, <3>2, <3>4
  <2>2. TakeOut(s, e) = s
    BY <1>4 DEF TakeOut
  <2> QED  BY <2>1, <2>2 DEF ToSet
<1>5. CASE Locates(s, e)
  <2> DEFINE r == RemoveAt(s, p)
  <2>1. p \in 1..Len(s) /\ s[p] = e
    BY <1>1, <1>2, <1>5
  <2>2. /\ r \in Seq(Entries) /\ Len(r) = Len(s) - 1
        /\ \A j \in 1..(Len(s) - 1) : r[j] = IF j < p THEN s[j] ELSE s[j + 1]
    BY <2>1, RemoveAtIs
  <2> HIDE DEF r
  <2> DEFINE g(x) == IF x < p THEN x ELSE x + 1
  <2>3. \A j \in 1..(Len(s) - 1) : g(j) \in 1..Len(s) /\ g(j) # p /\ r[j] = s[g(j)]
    BY <2>1, <2>2
  <2>4. \A j \in 1..Len(s) : j # p => \E i \in 1..(Len(s) - 1) : g(i) = j
    <3> SUFFICES ASSUME NEW j \in 1..Len(s), j # p PROVE \E i \in 1..(Len(s) - 1) : g(i) = j
      OBVIOUS
    <3>1. CASE j < p
      <4>1. j \in 1..(Len(s) - 1) /\ g(j) = j
        BY <2>1, <3>1
      <4> QED  BY <4>1
    <3>2. CASE j > p
      <4>1. j - 1 \in 1..(Len(s) - 1) /\ g(j - 1) = j
        BY <2>1, <3>2
      <4> QED  BY <4>1
    <3> QED  BY <2>1, <3>1, <3>2
  <2>5. \A i \in 1..(Len(s) - 1) : \A j \in 1..(Len(s) - 1) : i < j => g(i) < g(j)
    BY <2>1
  <2> HIDE DEF g
  <2>6. DOMAIN s = 1..Len(s) /\ DOMAIN r = 1..(Len(s) - 1)
    BY <2>2
  <2>7. Sorted(r)
    <3> SUFFICES ASSUME NEW i \in 1..(Len(s) - 1), NEW j \in 1..(Len(s) - 1), i < j
                 PROVE  Less(r[i], r[j])
      BY <2>6 DEF Sorted
    <3>1. g(i) < g(j) /\ g(i) \in DOMAIN s /\ g(j) \in DOMAIN s
      BY <2>3, <2>5, <2>6
    <3> QED  BY <2>3, <3>1 DEF Sorted
  <2>8. ToSet(r) = ToSet(s) \ {e}
    <3>1. Distinct(s)
      BY SortedDistinct
    <3>2. ASSUME NEW x \in ToSet(r) PROVE x \in ToSet(s) \ {e}
      <4>1. PICK j \in 1..(Len(s) - 1) : r[j] = x
        BY <2>6 DEF ToSet
      <4>2. x = s[g(j)] /\ g(j) \in DOMAIN s /\ g(j) # p
        BY <2>3, <2>6, <4>1
      <4> QED  BY <2>1, <2>6, <3>1, <4>2 DEF ToSet, Distinct
    <3>3. ASSUME NEW x \in ToSet(s), x # e PROVE x \in ToSet(r)
      <4>1. PICK j \in 1..Len(s) : s[j] = x
        BY <2>6 DEF ToSet
      <4>2. PICK i \in 1..(Len(s) - 1) : g(i) = j
        BY <2>1, <2>4, <3>3, <4>1
      <4>3. r[i] = x
        BY <2>3, <4>1, <4>2
      <4> QED  BY <2>6, <4>3 DEF ToSet
    <3> QED  BY <3>2, <3>3
  <2> QED  BY <1>3, <1>5, <2>2, <2>7, <2>8 DEF r
<1> QED  BY <1>4, <1>5

-----------------------------------------------------------------------------
(* The maps.                                                               *)

LEMMA WithoutDomain ==
  ASSUME NEW f, NEW k
  PROVE  DOMAIN Without(f, k) = DOMAIN f \ {k}
BY DEF Without, Restrict

LEMMA WithoutValue ==
  ASSUME NEW f, NEW k, NEW x \in DOMAIN f \ {k}
  PROVE  Without(f, k)[x] = f[x]
BY DEF Without, Restrict

LEMMA PutDomain ==
  ASSUME NEW f, NEW k, NEW v
  PROVE  DOMAIN Put(f, k, v) = DOMAIN f \cup {k}
BY DEF Put

LEMMA PutValue ==
  ASSUME NEW f, NEW k, NEW v, NEW x \in DOMAIN f \cup {k}
  PROVE  Put(f, k, v)[x] = IF x = k THEN v ELSE f[x]
BY DEF Put

LEMMA UnstreamIs ==
  ASSUME NEW c, WellFormed(c), NEW k
  PROVE  /\ Unstream(c, k) \in [Threads -> Seq(Entries)]
         /\ \A th \in Threads :
              /\ Sorted(Unstream(c, k)[th])
              /\ ToSet(Unstream(c, k)[th]) = PlacedBut(c, k, th)
<1> DEFINE u == Unstream(c, k)
           Rest(th) == PlacedBut(c, k, th)
<1>1. /\ c.streams \in [Threads -> Seq(Entries)]
      /\ \A th \in Threads : Sorted(c.streams[th]) /\ ToSet(c.streams[th]) = Placed(c, th)
  BY DEF WellFormed, StreamsOK
<1>2. CASE k \notin DOMAIN c.loc
  <2>1. u = c.streams
    BY <1>2 DEF Unstream
  <2>2. \A th \in Threads : Placed(c, th) = Rest(th)
    <3>1. DOMAIN c.loc \ {k} = DOMAIN c.loc
      BY <1>2
    <3> QED  BY <3>1 DEF Placed, PlacedBut
  <2> QED  BY <1>1, <2>1, <2>2
<1>3. CASE k \in DOMAIN c.loc
  <2> DEFINE e == Entry(k, c.loc[k])  t == c.loc[k].thread
  <2>1. /\ c.loc[k] \in Locations /\ t \in Threads /\ k \in Articles
    BY <1>3 DEF WellFormed, PlacesOK, MapsOK, ListOK, Locations
  <2>2. e \in Entries
    BY <2>1 DEF Entry, Entries, Locations
  <2>3. u = [c.streams EXCEPT ![t] = TakeOut(c.streams[t], e)]
    BY <1>3 DEF Unstream
  <2>4. /\ TakeOut(c.streams[t], e) \in Seq(Entries)
        /\ Sorted(TakeOut(c.streams[t], e))
        /\ ToSet(TakeOut(c.streams[t], e)) = ToSet(c.streams[t]) \ {e}
    BY <1>1, <2>1, <2>2, TakeOutIs
  <2>6. Placed(c, t) \ {e} = Rest(t)
    <3>1. ASSUME NEW x \in Placed(c, t), x # e PROVE x \in Rest(t)
      <4>1. PICK a \in DOMAIN c.loc : c.loc[a].thread = t /\ x = Entry(a, c.loc[a])
        BY DEF Placed
      <4>2. a # k
        BY <3>1, <4>1
      <4> QED  BY <4>1, <4>2 DEF PlacedBut
    <3>2. ASSUME NEW x \in Rest(t) PROVE x \in Placed(c, t) /\ x # e
      <4>1. PICK a \in DOMAIN c.loc : a # k /\ c.loc[a].thread = t /\ x = Entry(a, c.loc[a])
        BY DEF PlacedBut
      <4>2. x.art = a /\ e.art = k
        BY <4>1 DEF Entry
      <4> QED  BY <4>1, <4>2 DEF Placed
    <3> QED  BY <3>1, <3>2
  <2>7. ASSUME NEW th \in Threads, th # t PROVE Placed(c, th) = Rest(th)
    <3>1. {b \in DOMAIN c.loc \ {k} : c.loc[b].thread = th} = {b \in DOMAIN c.loc : c.loc[b].thread = th}
      BY <2>7
    <3> QED  BY <3>1 DEF Placed, PlacedBut
  <2> HIDE DEF e, t, u, Rest
  <2>8. u \in [Threads -> Seq(Entries)]
    BY <1>1, <2>1, <2>3, <2>4
  <2>9. ASSUME NEW th \in Threads PROVE Sorted(u[th]) /\ ToSet(u[th]) = Rest(th)
    <3>1. CASE th = t
      BY <1>1, <2>1, <2>3, <2>4, <2>6, <3>1
    <3>2. CASE th # t
      BY <1>1, <2>1, <2>3, <2>7, <3>2
    <3> QED  BY <3>1, <3>2
  <2> QED  BY <2>8, <2>9 DEF u, Rest
<1> QED  BY <1>2, <1>3

\* A cache as the record of its fields.
LEMMA FieldsAre ==
  ASSUME NEW c, HasFields(c)
  PROVE  \E e, n, h, l, s, r, q :
           c = [expires |-> e, ent |-> n, hist |-> h, loc |-> l, streams |-> s, lru |-> r, seq |-> q]
BY DEF HasFields

\* What a retraction writes.
LEMMA DeleteWrites ==
  ASSUME NEW c, HasFields(c), NEW k
  PROVE  Delete(c, k) =
           [expires |-> Without(c.expires, k), ent |-> Without(c.ent, k), hist |-> Without(c.hist, k),
            loc |-> Without(c.loc, k), streams |-> Unstream(c, k), lru |-> RemoveFirst(c.lru, k),
            seq |-> c.seq]
<1> DEFINE u == Unstream(c, k)
<1>1. Delete(c, k) =
        [c EXCEPT !.expires = Without(c.expires, k), !.ent = Without(c.ent, k), !.hist = Without(c.hist, k),
                  !.loc = Without(c.loc, k), !.lru = RemoveFirst(c.lru, k), !.streams = u]
  BY DEF Delete
<1> HIDE DEF u
<1>2. PICK e, n, h, l, s, r, q :
        c = [expires |-> e, ent |-> n, hist |-> h, loc |-> l, streams |-> s, lru |-> r, seq |-> q]
  BY FieldsAre
<1>3. Delete(c, k) =
        [expires |-> Without(c.expires, k), ent |-> Without(c.ent, k), hist |-> Without(c.hist, k),
         loc |-> Without(c.loc, k), streams |-> u, lru |-> RemoveFirst(c.lru, k), seq |-> c.seq]
  BY <1>1, <1>2
<1> QED  BY <1>3 DEF u

(* Retraction, expiry and eviction take a key out of the list, the maps    *)
(* and its stream together, and touch no other.                            *)
LEMMA DeleteIs ==
  ASSUME NEW c, WellFormed(c), NEW k
  PROVE  /\ WellFormed(Delete(c, k))
         /\ DOMAIN Delete(c, k).expires = DOMAIN c.expires \ {k}
         /\ Shrunk(c, Delete(c, k))
         /\ Len(Delete(c, k).lru) = IF k \in DOMAIN c.expires THEN Len(c.lru) - 1 ELSE Len(c.lru)
<1> DEFINE d == Delete(c, k)
<1>1. HasFields(d)
  BY DeleteWrites DEF WellFormed, HasFields
<1>2. d.expires = Without(c.expires, k)
  BY DeleteWrites DEF WellFormed
<1>3. d.ent = Without(c.ent, k)
  BY DeleteWrites DEF WellFormed
<1>4. d.hist = Without(c.hist, k)
  BY DeleteWrites DEF WellFormed
<1>5. d.loc = Without(c.loc, k)
  BY DeleteWrites DEF WellFormed
<1>6. d.streams = Unstream(c, k)
  BY DeleteWrites DEF WellFormed
<1>7. d.lru = RemoveFirst(c.lru, k)
  BY DeleteWrites DEF WellFormed
<1>8. d.seq = c.seq
  BY DeleteWrites DEF WellFormed
<1> HIDE DEF d
<1>9. /\ DOMAIN d.expires = DOMAIN c.expires \ {k}
      /\ \A x \in DOMAIN c.expires \ {k} : d.expires[x] = c.expires[x]
  <2>1. DOMAIN d.expires = DOMAIN c.expires \ {k}
    BY <1>2, WithoutDomain
  <2>2. \A x \in DOMAIN c.expires \ {k} : d.expires[x] = c.expires[x]
    BY <1>2, WithoutValue
  <2> QED  BY <2>1, <2>2
<1>10. /\ DOMAIN d.ent = DOMAIN c.ent \ {k}
       /\ \A x \in DOMAIN c.ent \ {k} : d.ent[x] = c.ent[x]
  <2>1. DOMAIN d.ent = DOMAIN c.ent \ {k}
    BY <1>3, WithoutDomain
  <2>2. \A x \in DOMAIN c.ent \ {k} : d.ent[x] = c.ent[x]
    BY <1>3, WithoutValue
  <2> QED  BY <2>1, <2>2
<1>11. /\ DOMAIN d.hist = DOMAIN c.hist \ {k}
       /\ \A x \in DOMAIN c.hist \ {k} : d.hist[x] = c.hist[x]
  <2>1. DOMAIN d.hist = DOMAIN c.hist \ {k}
    BY <1>4, WithoutDomain
  <2>2. \A x \in DOMAIN c.hist \ {k} : d.hist[x] = c.hist[x]
    BY <1>4, WithoutValue
  <2> QED  BY <2>1, <2>2
<1>12. /\ DOMAIN d.loc = DOMAIN c.loc \ {k}
       /\ \A x \in DOMAIN c.loc \ {k} : d.loc[x] = c.loc[x]
  <2>1. DOMAIN d.loc = DOMAIN c.loc \ {k}
    BY <1>5, WithoutDomain
  <2>2. \A x \in DOMAIN c.loc \ {k} : d.loc[x] = c.loc[x]
    BY <1>5, WithoutValue
  <2> QED  BY <2>1, <2>2
<1>13. /\ d.lru \in Seq(Articles) /\ Distinct(d.lru) /\ ToSet(d.lru) = ToSet(c.lru) \ {k}
       /\ Len(d.lru) = IF k \in ToSet(c.lru) THEN Len(c.lru) - 1 ELSE Len(c.lru)
  BY <1>7, RemoveFirstIs DEF WellFormed, ListOK
<1>14. ListOK(d)
  BY <1>9, <1>13 DEF WellFormed, ListOK
<1>15. MapsOK(d)
  BY <1>9, <1>10, <1>11 DEF WellFormed, MapsOK
<1>16. PlacesOK(d)
  BY <1>8, <1>10, <1>12 DEF WellFormed, PlacesOK
<1>17. StreamsOK(d)
  <2>1. \A th \in Threads : Placed(d, th) = PlacedBut(c, k, th)
    <3> SUFFICES ASSUME NEW th \in Threads PROVE Placed(d, th) = PlacedBut(c, k, th)
      OBVIOUS
    <3>1. {b \in DOMAIN d.loc : d.loc[b].thread = th} = {b \in DOMAIN c.loc \ {k} : c.loc[b].thread = th}
      BY <1>12
    <3>2. \A a \in DOMAIN c.loc \ {k} : Entry(a, d.loc[a]) = Entry(a, c.loc[a])
      BY <1>12
    <3> QED  BY <3>1, <3>2 DEF Placed, PlacedBut
  <2> QED  BY <1>6, <2>1, UnstreamIs DEF StreamsOK
<1>18. Shrunk(c, d)
  BY <1>9, <1>10, <1>11 DEF Shrunk, SameRecord
<1>19. Len(d.lru) = IF k \in DOMAIN c.expires THEN Len(c.lru) - 1 ELSE Len(c.lru)
  BY <1>13 DEF WellFormed, ListOK
<1>20. WellFormed(d)
  BY <1>1, <1>14, <1>15, <1>16, <1>17 DEF WellFormed
<1> QED  BY <1>9, <1>18, <1>19, <1>20 DEF d

\* The streams depend on the places alone.
LEMMA SameStreams ==
  ASSUME NEW c, NEW d, d.loc = c.loc, d.streams = c.streams, StreamsOK(c)
  PROVE  StreamsOK(d)
<1>1. \A th \in Threads : Placed(d, th) = Placed(c, th)
  BY DEF Placed
<1> QED  BY <1>1 DEF StreamsOK

\* A record that is expired leaves, any other stays.
LEMMA EnsureNotExpiredIs ==
  ASSUME NEW c, WellFormed(c), NEW k, NEW t
  PROVE  /\ WellFormed(EnsureNotExpired(c, k, t))
         /\ Shrunk(c, EnsureNotExpired(c, k, t))
         /\ Len(EnsureNotExpired(c, k, t).lru) <= Len(c.lru)
         /\ \A j \in DOMAIN c.expires \ DOMAIN EnsureNotExpired(c, k, t).expires : j = k /\ t >= c.expires[j]
<1>1. Len(c.lru) \in Nat
  BY DEF WellFormed, ListOK
<1>2. CASE IsExpired(c, k, t)
  <2>1. EnsureNotExpired(c, k, t) = Delete(c, k)
    BY <1>2 DEF EnsureNotExpired
  <2>2. k \in DOMAIN c.expires /\ t >= c.expires[k]
    BY <1>2 DEF IsExpired
  <2> QED  BY <1>1, <2>1, <2>2, DeleteIs
<1>3. CASE ~IsExpired(c, k, t)
  <2>1. EnsureNotExpired(c, k, t) = c
    BY <1>3 DEF EnsureNotExpired
  <2> QED  BY <1>1, <2>1 DEF Shrunk, SameRecord
<1> QED  BY <1>2, <1>3

\* A write to the list alone keeps the cache well formed.
LEMMA ListWrite ==
  ASSUME NEW c, WellFormed(c), NEW lru \in Seq(Articles), Distinct(lru), ToSet(lru) = DOMAIN c.expires
  PROVE  /\ WellFormed([c EXCEPT !.lru = lru])
         /\ [c EXCEPT !.lru = lru].expires = c.expires /\ [c EXCEPT !.lru = lru].lru = lru
         /\ [c EXCEPT !.lru = lru].ent = c.ent /\ [c EXCEPT !.lru = lru].hist = c.hist
<1> DEFINE d == [c EXCEPT !.lru = lru]
<1>1. PICK e, n, h, l, s, r, q :
        c = [expires |-> e, ent |-> n, hist |-> h, loc |-> l, streams |-> s, lru |-> r, seq |-> q]
  BY FieldsAre DEF WellFormed
<1>2. d = [expires |-> e, ent |-> n, hist |-> h, loc |-> l, streams |-> s, lru |-> lru, seq |-> q]
  BY <1>1
<1>3. HasFields(d) /\ d.lru = lru
  BY <1>2 DEF HasFields
<1>4. d.expires = c.expires /\ d.ent = c.ent /\ d.hist = c.hist
  BY <1>1, <1>2
<1>5. d.loc = c.loc /\ d.streams = c.streams /\ d.seq = c.seq
  BY <1>1, <1>2
<1> HIDE DEF d
<1>6. ListOK(d)
  BY <1>3, <1>4 DEF WellFormed, ListOK
<1>7. MapsOK(d)
  BY <1>4 DEF WellFormed, MapsOK
<1>8. PlacesOK(d)
  BY <1>4, <1>5 DEF WellFormed, PlacesOK
<1>9. StreamsOK(d)
  BY <1>5, SameStreams DEF WellFormed
<1>10. WellFormed(d)
  BY <1>3, <1>6, <1>7, <1>8, <1>9 DEF WellFormed
<1> QED  BY <1>3, <1>4, <1>10 DEF d

\* A touch moves a record in the list and changes nothing else.
LEMMA TouchIs ==
  ASSUME NEW c, WellFormed(c), NEW k
  PROVE  /\ WellFormed(Touch(c, k))
         /\ Touch(c, k).expires = c.expires
         /\ Shrunk(c, Touch(c, k))
         /\ Len(Touch(c, k).lru) = Len(c.lru)
<1>1. CASE k \notin DOMAIN c.expires
  <2>1. Touch(c, k) = c
    BY <1>1 DEF Touch
  <2> QED  BY <2>1 DEF Shrunk, SameRecord
<1>2. CASE k \in DOMAIN c.expires
  <2> DEFINE l == ToFront(c.lru, k)
  <2>1. Touch(c, k) = [c EXCEPT !.lru = l]
    BY <1>2 DEF Touch
  <2>2. /\ c.lru \in Seq(Articles) /\ Distinct(c.lru) /\ ToSet(c.lru) = DOMAIN c.expires
        /\ k \in Articles
    BY <1>2 DEF WellFormed, ListOK
  <2>3. /\ l \in Seq(Articles) /\ Distinct(l) /\ ToSet(l) = ToSet(c.lru) \cup {k}
        /\ Len(l) = IF k \in ToSet(c.lru) THEN Len(c.lru) ELSE Len(c.lru) + 1
    BY <2>2, ToFrontIs
  <2>4. ToSet(l) = DOMAIN c.expires /\ Len(l) = Len(c.lru)
    BY <1>2, <2>2, <2>3
  <2> HIDE DEF l
  <2> DEFINE d == [c EXCEPT !.lru = l]
  <2>5. WellFormed(d) /\ d.expires = c.expires /\ d.lru = l /\ d.ent = c.ent /\ d.hist = c.hist
    BY <2>3, <2>4, ListWrite
  <2> HIDE DEF d
  <2>6. Shrunk(c, d)
    BY <2>5 DEF Shrunk, SameRecord
  <2> QED  BY <2>1, <2>4, <2>5, <2>6 DEF d
<1> QED  BY <1>1, <1>2

LEMMA RecordWrite ==
  ASSUME NEW b, HasFields(b), NEW x, NEW y
  PROVE  [b EXCEPT !.expires = x, !.lru = y] =
           [expires |-> x, ent |-> b.ent, hist |-> b.hist, loc |-> b.loc, streams |-> b.streams,
            lru |-> y, seq |-> b.seq]
<1>1. PICK e, n, h, p, s, r, q :
        b = [expires |-> e, ent |-> n, hist |-> h, loc |-> p, streams |-> s, lru |-> r, seq |-> q]
  BY FieldsAre
<1> DEFINE f == [b EXCEPT !.expires = x]
<1>2. [b EXCEPT !.expires = x, !.lru = y] = [f EXCEPT !.lru = y]
  BY <1>1
<1>3. f = [expires |-> x, ent |-> n, hist |-> h, loc |-> p, streams |-> s, lru |-> r, seq |-> q]
  BY <1>1
<1> HIDE DEF f
<1>4. [f EXCEPT !.lru = y] =
        [expires |-> x, ent |-> n, hist |-> h, loc |-> p, streams |-> s, lru |-> y, seq |-> q]
  BY <1>3
<1> QED  BY <1>1, <1>2, <1>4

\* A refreshed or a new record, at the head of the list.
LEMMA UpsertKeyIs ==
  ASSUME NEW c, WellFormed(c), NEW k \in Articles, NEW t \in Nat
  PROVE  /\ WellFormed(UpsertKey(c, k, t))
         /\ DOMAIN UpsertKey(c, k, t).expires = DOMAIN EnsureNotExpired(c, k, t).expires \cup {k}
         /\ UpsertKey(c, k, t).ent = EnsureNotExpired(c, k, t).ent
         /\ UpsertKey(c, k, t).hist = EnsureNotExpired(c, k, t).hist
         /\ UpsertKey(c, k, t).lru[1] = k
         /\ Len(UpsertKey(c, k, t).lru) <= Len(c.lru) + 1
<1> DEFINE b == EnsureNotExpired(c, k, t)
           l == ToFront(b.lru, k)
           x == Put(b.expires, k, t + TTL)
           d == [b EXCEPT !.expires = x, !.lru = l]
<1>1. WellFormed(b) /\ Len(b.lru) <= Len(c.lru)
  BY EnsureNotExpiredIs
<1>2. UpsertKey(c, k, t) = d
  BY DEF UpsertKey
<1> HIDE DEF b
<1>3. /\ DOMAIN x = DOMAIN b.expires \cup {k}
      /\ \A j \in DOMAIN x : x[j] = IF j = k THEN t + TTL ELSE b.expires[j]
  <2>1. DOMAIN x = DOMAIN b.expires \cup {k}
    BY PutDomain
  <2>2. \A j \in DOMAIN b.expires \cup {k} : x[j] = IF j = k THEN t + TTL ELSE b.expires[j]
    BY PutValue
  <2> QED  BY <2>1, <2>2
<1>4. /\ b.lru \in Seq(Articles) /\ Distinct(b.lru) /\ ToSet(b.lru) = DOMAIN b.expires
  BY <1>1 DEF WellFormed, ListOK
<1>5. /\ l \in Seq(Articles) /\ Distinct(l) /\ ToSet(l) = ToSet(b.lru) \cup {k} /\ l[1] = k
      /\ Len(l) = IF k \in ToSet(b.lru) THEN Len(b.lru) ELSE Len(b.lru) + 1
  BY <1>4, ToFrontIs
<1> HIDE DEF l, x
<1>7. d = [expires |-> x, ent |-> b.ent, hist |-> b.hist, loc |-> b.loc, streams |-> b.streams,
           lru |-> l, seq |-> b.seq]
  BY <1>1, RecordWrite DEF WellFormed
<1>8. HasFields(d) /\ d.lru = l /\ d.expires = x
  BY <1>7 DEF HasFields
<1>9. d.ent = b.ent /\ d.hist = b.hist
  BY <1>7
<1>10. d.loc = b.loc /\ d.streams = b.streams /\ d.seq = b.seq
  BY <1>7
<1> HIDE DEF d
<1>11. ListOK(d)
  <2>1. t + TTL \in Nat
    BY CacheAssumption
  <2> QED  BY <1>1, <1>3, <1>4, <1>5, <1>8, <2>1 DEF WellFormed, ListOK
<1>12. MapsOK(d)
  BY <1>1, <1>3, <1>8, <1>9 DEF WellFormed, MapsOK
<1>13. PlacesOK(d)
  BY <1>1, <1>9, <1>10 DEF WellFormed, PlacesOK
<1>14. StreamsOK(d)
  BY <1>1, <1>10, SameStreams DEF WellFormed
<1>15. WellFormed(d)
  BY <1>8, <1>11, <1>12, <1>13, <1>14 DEF WellFormed
<1>16. Len(d.lru) <= Len(c.lru) + 1
  <2>1. Len(c.lru) \in Nat /\ Len(b.lru) \in Nat
    BY <1>4 DEF WellFormed, ListOK
  <2> QED  BY <1>1, <1>5, <1>8, <2>1
<1> QED  BY <1>2, <1>3, <1>5, <1>8, <1>9, <1>15, <1>16 DEF b

\* The history of an article that has a record grows by the event, if at all.
LEMMA AppendHistoryIs ==
  ASSUME NEW c, WellFormed(c), NEW ev \in Events, ev.art \in DOMAIN c.expires
  PROVE  /\ WellFormed(AppendHistory(c, ev))
         /\ AppendHistory(c, ev).expires = c.expires
         /\ AppendHistory(c, ev).ent = c.ent
         /\ AppendHistory(c, ev).lru = c.lru
         /\ IF IsDuplicate(c, ev) THEN AppendHistory(c, ev).hist = c.hist
            ELSE AppendHistory(c, ev).hist = Put(c.hist, ev.art, Append(History(c, ev.art), ev))
<1>1. CASE IsDuplicate(c, ev)
  BY <1>1 DEF AppendHistory
<1>2. CASE ~IsDuplicate(c, ev)
  <2> DEFINE y == Append(History(c, ev.art), ev)
             x == Put(c.hist, ev.art, y)
             d == [c EXCEPT !.hist = x]
  <2>1. AppendHistory(c, ev) = d
    BY <1>2 DEF AppendHistory
  <2>2. y \in Seq(Events)
    <3>1. History(c, ev.art) \in Seq(Events)
      BY DEF History, WellFormed, MapsOK
    <3> QED  BY <3>1
  <2> HIDE DEF y
  <2>3. /\ DOMAIN x = DOMAIN c.hist \cup {ev.art}
        /\ \A j \in DOMAIN x : x[j] = IF j = ev.art THEN y ELSE c.hist[j]
    <3>1. DOMAIN x = DOMAIN c.hist \cup {ev.art}
      BY PutDomain
    <3>2. \A j \in DOMAIN c.hist \cup {ev.art} : x[j] = IF j = ev.art THEN y ELSE c.hist[j]
      BY PutValue
    <3> QED  BY <3>1, <3>2
  <2> HIDE DEF x
  <2>4. PICK e, n, h, p, s, r, q :
          c = [expires |-> e, ent |-> n, hist |-> h, loc |-> p, streams |-> s, lru |-> r, seq |-> q]
    BY FieldsAre DEF WellFormed
  <2>5. d = [expires |-> e, ent |-> n, hist |-> x, loc |-> p, streams |-> s, lru |-> r, seq |-> q]
    BY <2>4
  <2>6. HasFields(d) /\ d.hist = x
    BY <2>5 DEF HasFields
  <2>7. d.ent = c.ent /\ d.expires = c.expires /\ d.lru = c.lru
    BY <2>4, <2>5
  <2>8. d.loc = c.loc /\ d.streams = c.streams /\ d.seq = c.seq
    BY <2>4, <2>5
  <2> HIDE DEF d
  <2>9. ListOK(d)
    BY <2>7 DEF WellFormed, ListOK
  <2>10. MapsOK(d)
    BY <2>2, <2>3, <2>6, <2>7 DEF WellFormed, MapsOK
  <2>11. PlacesOK(d)
    BY <2>7, <2>8 DEF WellFormed, PlacesOK
  <2>12. StreamsOK(d)
    BY <2>8, SameStreams DEF WellFormed
  <2>13. WellFormed(d)
    BY <2>6, <2>9, <2>10, <2>11, <2>12 DEF WellFormed
  <2> QED  BY <1>2, <2>1, <2>6, <2>7, <2>13 DEF x, y
<1> QED  BY <1>1, <1>2

\* The four fields a projection is stored in.
Stored(c, x, y, z, m) == [c EXCEPT !.ent = x, !.loc = y, !.streams = z, !.seq = m]

LEMMA EntityWrite ==
  ASSUME NEW c, HasFields(c), NEW x, NEW y, NEW z, NEW m
  PROVE  Stored(c, x, y, z, m) =
           [expires |-> c.expires, ent |-> x, hist |-> c.hist, loc |-> y, streams |-> z,
            lru |-> c.lru, seq |-> m]
<1>1. PICK e, n, h, p, s, r, q :
        c = [expires |-> e, ent |-> n, hist |-> h, loc |-> p, streams |-> s, lru |-> r, seq |-> q]
  BY FieldsAre
<1> DEFINE b == [c EXCEPT !.ent = x]
           f == [b EXCEPT !.loc = y]
           g == [f EXCEPT !.streams = z]
<1>2. Stored(c, x, y, z, m) = [g EXCEPT !.seq = m]
  BY <1>1 DEF Stored
<1>6. b = [expires |-> e, ent |-> x, hist |-> h, loc |-> p, streams |-> s, lru |-> r, seq |-> q]
  BY <1>1
<1> HIDE DEF b
<1>3. f = [expires |-> e, ent |-> x, hist |-> h, loc |-> y, streams |-> s, lru |-> r, seq |-> q]
  BY <1>6
<1> HIDE DEF f
<1>4. g = [expires |-> e, ent |-> x, hist |-> h, loc |-> y, streams |-> z, lru |-> r, seq |-> q]
  BY <1>3
<1> HIDE DEF g
<1>5. [g EXCEPT !.seq = m] =
        [expires |-> e, ent |-> x, hist |-> h, loc |-> y, streams |-> z, lru |-> r, seq |-> m]
  BY <1>4
<1> QED  BY <1>1, <1>2, <1>5

(* A projection is stored with its place, and the article's entry moves    *)
(* from wherever it was to that place.                                     *)
LEMMA StoreEntityIs ==
  ASSUME NEW c, WellFormed(c), NEW k \in DOMAIN c.expires, NEW e \in Projections
  PROVE  /\ WellFormed(StoreEntity(c, k, e))
         /\ StoreEntity(c, k, e).expires = c.expires
         /\ StoreEntity(c, k, e).lru = c.lru
         /\ StoreEntity(c, k, e).hist = c.hist
         /\ StoreEntity(c, k, e).ent = Put(c.ent, k, e)
<1> DEFINE known == k \in DOMAIN c.loc
           n == IF known THEN c.loc[k].seq ELSE c.seq + 1
           m == IF known THEN c.seq ELSE c.seq + 1
           l == [thread |-> e.thread, created |-> e.created, seq |-> n]
           u == Unstream(c, k)
           th == e.thread
           x == Put(c.ent, k, e)
           y == Put(c.loc, k, l)
           z == [u EXCEPT ![th] = Insert(u[th], Entry(k, l))]
           d == Stored(c, x, y, z, m)
<1>1. StoreEntity(c, k, e) = d
  BY DEF StoreEntity, Stored
<1>2. k \in Articles /\ th \in Threads /\ e.created \in Nat
  BY DEF WellFormed, ListOK, Projections
<1>3. /\ c.seq \in Nat /\ DOMAIN c.loc = DOMAIN c.ent
      /\ \A j \in DOMAIN c.loc :
           /\ c.loc[j] \in Locations /\ c.loc[j].seq <= c.seq
           /\ c.loc[j].thread = c.ent[j].thread /\ c.loc[j].created = c.ent[j].created
      /\ \A j \in DOMAIN c.loc : \A i \in DOMAIN c.loc : c.loc[j].seq = c.loc[i].seq => j = i
  BY DEF WellFormed, PlacesOK
<1>4. /\ n \in Nat /\ m \in Nat /\ n <= m /\ c.seq <= m
      /\ \A j \in DOMAIN c.loc \ {k} : c.loc[j].seq # n
  BY <1>3 DEF Locations
<1>5. /\ DOMAIN x = DOMAIN c.ent \cup {k}
      /\ \A j \in DOMAIN c.ent \cup {k} : x[j] = IF j = k THEN e ELSE c.ent[j]
  <2>1. DOMAIN x = DOMAIN c.ent \cup {k}
    BY PutDomain
  <2>2. \A j \in DOMAIN c.ent \cup {k} : x[j] = IF j = k THEN e ELSE c.ent[j]
    BY PutValue
  <2> QED  BY <2>1, <2>2
<1> HIDE DEF n, m
<1>6. l \in Locations /\ l.thread = th /\ l.created = e.created /\ l.seq = n
  BY <1>2, <1>4 DEF Locations
<1>7. Entry(k, l) \in Entries /\ Entry(k, l).seq = n /\ Entry(k, l).art = k
  BY <1>2, <1>6 DEF Entry, Entries, Locations
<1> HIDE DEF l
<1>8. /\ DOMAIN y = DOMAIN c.loc \cup {k}
      /\ \A j \in DOMAIN c.loc \cup {k} : y[j] = IF j = k THEN l ELSE c.loc[j]
  <2>1. DOMAIN y = DOMAIN c.loc \cup {k}
    BY PutDomain
  <2>2. \A j \in DOMAIN c.loc \cup {k} : y[j] = IF j = k THEN l ELSE c.loc[j]
    BY PutValue
  <2> QED  BY <2>1, <2>2
<1>9. /\ u \in [Threads -> Seq(Entries)]
      /\ \A t \in Threads : Sorted(u[t]) /\ ToSet(u[t]) = PlacedBut(c, k, t)
  BY UnstreamIs
<1> HIDE DEF x, y, u
<1>10. /\ Insert(u[th], Entry(k, l)) \in Seq(Entries)
       /\ Sorted(Insert(u[th], Entry(k, l)))
       /\ ToSet(Insert(u[th], Entry(k, l))) = ToSet(u[th]) \cup {Entry(k, l)}
  <2>1. u[th] \in Seq(Entries) /\ Sorted(u[th]) /\ ToSet(u[th]) = PlacedBut(c, k, th)
    BY <1>2, <1>9
  <2>2. \A i \in 1..Len(u[th]) : u[th][i].seq # n
    <3> SUFFICES ASSUME NEW i \in 1..Len(u[th]) PROVE u[th][i].seq # n
      OBVIOUS
    <3>1. u[th][i] \in PlacedBut(c, k, th)
      BY <2>1 DEF ToSet
    <3>2. PICK a \in DOMAIN c.loc \ {k} : u[th][i] = Entry(a, c.loc[a])
      BY <3>1 DEF PlacedBut
    <3>3. u[th][i].seq = c.loc[a].seq
      BY <3>2 DEF Entry
    <3> QED  BY <1>4, <3>3
  <2>3. \A i \in 1..Len(u[th]) : u[th][i].seq # Entry(k, l).seq
    BY <1>7, <2>2
  <2> QED  BY <1>7, <2>1, <2>3, InsertIs
<1>11. /\ z \in [Threads -> Seq(Entries)]
       /\ z[th] = Insert(u[th], Entry(k, l))
       /\ \A t \in Threads : t # th => z[t] = u[t]
  BY <1>2, <1>9, <1>10
<1> HIDE DEF z
<1>12. d = [expires |-> c.expires, ent |-> x, hist |-> c.hist, loc |-> y, streams |-> z,
            lru |-> c.lru, seq |-> m]
  <2>1. HasFields(c)
    BY DEF WellFormed
  <2> QED  BY <2>1, EntityWrite
<1>13. HasFields(d) /\ d.expires = c.expires /\ d.hist = c.hist /\ d.lru = c.lru /\ d.ent = x
  BY <1>12 DEF HasFields
<1>14. d.loc = y /\ d.streams = z /\ d.seq = m
  BY <1>12
<1> HIDE DEF d
<1>15. ListOK(d)
  BY <1>13 DEF WellFormed, ListOK
<1>16. MapsOK(d)
  BY <1>5, <1>13 DEF WellFormed, MapsOK
<1>17. PlacesOK(d)
  <2>1. d.seq \in Nat /\ DOMAIN d.loc = DOMAIN d.ent
    BY <1>3, <1>4, <1>5, <1>8, <1>13, <1>14
  <2>2. ASSUME NEW j \in DOMAIN d.loc
        PROVE  /\ d.loc[j] \in Locations /\ d.loc[j].seq <= d.seq
               /\ d.loc[j].thread = d.ent[j].thread /\ d.loc[j].created = d.ent[j].created
    <3>1. CASE j = k
      BY <1>4, <1>5, <1>6, <1>8, <1>13, <1>14, <3>1
    <3>2. CASE j # k
      <4>1. j \in DOMAIN c.loc /\ d.loc[j] = c.loc[j] /\ d.ent[j] = c.ent[j]
        BY <1>3, <1>5, <1>8, <1>13, <1>14, <2>2, <3>2
      <4>2. c.loc[j].seq \in Nat
        BY <1>3, <4>1 DEF Locations
      <4> QED  BY <1>3, <1>4, <1>14, <4>1, <4>2
    <3> QED  BY <3>1, <3>2
  <2>3. ASSUME NEW i \in DOMAIN d.loc, NEW j \in DOMAIN d.loc, d.loc[i].seq = d.loc[j].seq
        PROVE  i = j
    <3>1. CASE i = k \/ j = k
      BY <1>4, <1>6, <1>8, <1>14, <2>3, <3>1
    <3>2. CASE i # k /\ j # k
      BY <1>3, <1>8, <1>14, <2>3, <3>2
    <3> QED  BY <3>1, <3>2
  <2> QED  BY <2>1, <2>2, <2>3 DEF PlacesOK
<1>18. StreamsOK(d)
  <2>1. ASSUME NEW t \in Threads, t # th PROVE Placed(d, t) = PlacedBut(c, k, t)
    <3>1. {b \in DOMAIN d.loc : d.loc[b].thread = t} = {b \in DOMAIN c.loc \ {k} : c.loc[b].thread = t}
      BY <1>6, <1>8, <1>14, <2>1
    <3>2. \A a \in DOMAIN c.loc \ {k} : Entry(a, d.loc[a]) = Entry(a, c.loc[a])
      BY <1>8, <1>14
    <3> QED  BY <3>1, <3>2 DEF Placed, PlacedBut
  <2>2. Placed(d, th) = PlacedBut(c, k, th) \cup {Entry(k, l)}
    <3>1. ASSUME NEW v \in Placed(d, th) PROVE v \in PlacedBut(c, k, th) \cup {Entry(k, l)}
      <4>1. PICK a \in DOMAIN d.loc : d.loc[a].thread = th /\ v = Entry(a, d.loc[a])
        BY DEF Placed
      <4>2. CASE a = k
        BY <1>8, <1>14, <4>1, <4>2
      <4>3. CASE a # k
        <5>1. a \in DOMAIN c.loc \ {k} /\ c.loc[a] = d.loc[a]
          BY <1>8, <1>14, <4>1, <4>3
        <5> QED  BY <4>1, <5>1 DEF PlacedBut
      <4> QED  BY <4>2, <4>3
    <3>2. ASSUME NEW v \in PlacedBut(c, k, th) PROVE v \in Placed(d, th)
      <4>1. PICK a \in DOMAIN c.loc \ {k} : c.loc[a].thread = th /\ v = Entry(a, c.loc[a])
        BY DEF PlacedBut
      <4>2. a \in DOMAIN d.loc /\ d.loc[a] = c.loc[a]
        BY <1>8, <1>14, <4>1
      <4> QED  BY <4>1, <4>2 DEF Placed
    <3>3. Entry(k, l) \in Placed(d, th)
      <4>1. k \in DOMAIN d.loc /\ d.loc[k] = l
        BY <1>8, <1>14
      <4> QED  BY <1>6, <4>1 DEF Placed
    <3> QED  BY <3>1, <3>2, <3>3
  <2>3. ASSUME NEW t \in Threads PROVE Sorted(d.streams[t]) /\ ToSet(d.streams[t]) = Placed(d, t)
    <3>1. CASE t = th
      BY <1>9, <1>10, <1>11, <1>14, <2>2, <3>1
    <3>2. CASE t # th
      BY <1>9, <1>11, <1>14, <2>1, <3>2
    <3> QED  BY <3>1, <3>2
  <2> QED  BY <1>11, <1>14, <2>3 DEF StreamsOK
<1>19. WellFormed(d)
  BY <1>13, <1>15, <1>16, <1>17, <1>18 DEF WellFormed
<1> QED  BY <1>1, <1>13, <1>19 DEF x

\* What shrinks twice has shrunk.
LEMMA Shrinks ==
  ASSUME NEW b, NEW c, NEW d, Shrunk(b, c), Shrunk(c, d)
  PROVE  Shrunk(b, d)
BY DEF Shrunk, SameRecord

\* The keys a trim evicts, the last of the list first.
Surplus(c) == Reverse(SubSeq(c.lru, MaxEntries + 1, Len(c.lru)))

\* The trim as a fold the laws speak of.
LEMMA TrimFolds ==
  ASSUME NEW c
  PROVE  Trim(c) = Evicts!Fold(None, c, Surplus(c))
BY DEF Trim, Surplus, Evicting, Evicts!Fold, Evicts!FoldLeft, Evicts!MapThenFoldSet, FoldLeft, MapThenFoldSet,
       Evicts!Max, Max

\* The surplus keys are different records.
LEMMA SurplusIs ==
  ASSUME NEW c, WellFormed(c), NEW n \in Nat, Len(c.lru) = MaxEntries + n
  PROVE  /\ Surplus(c) \in Seq(Articles) /\ Len(Surplus(c)) = n
         /\ ToSet(Surplus(c)) \subseteq DOMAIN c.expires
         /\ Distinct(Surplus(c))
<1> DEFINE l == SubSeq(c.lru, MaxEntries + 1, Len(c.lru))
           h == Reverse(l)
<1>1. MaxEntries \in Nat /\ c.lru \in Seq(Articles) /\ Distinct(c.lru) /\ ToSet(c.lru) = DOMAIN c.expires
  BY CacheAssumption DEF WellFormed, ListOK
<1>2. l \in Seq(Articles) /\ Len(l) = n /\ \A i \in 1..n : l[i] = c.lru[MaxEntries + i]
  BY <1>1
<1> HIDE DEF l
<1>3. h \in Seq(Articles) /\ Len(h) = n /\ \A i \in 1..n : h[i] = l[n - i + 1]
  <2>1. h = [i \in 1..n |-> l[n - i + 1]]
    BY <1>2 DEF Reverse
  <2>2. \A i \in 1..n : l[n - i + 1] \in Articles
    BY <1>2
  <2> HIDE DEF h
  <2> QED  BY <2>1, <2>2
<1>4. Surplus(c) = h
  BY DEF Surplus, l
<1> HIDE DEF h
<1> DEFINE g(i) == MaxEntries + (n - i + 1)
<1>5. ASSUME NEW i \in 1..n PROVE g(i) \in DOMAIN c.lru /\ h[i] = c.lru[g(i)]
  <2> DEFINE m == n - i + 1
  <2>1. m \in 1..n /\ h[i] = l[m]
    BY <1>3
  <2>2. g(i) = MaxEntries + m
    OBVIOUS
  <2> HIDE DEF m, g
  <2>3. h[i] = c.lru[MaxEntries + m]
    BY <1>2, <2>1
  <2>4. MaxEntries + m \in DOMAIN c.lru
    BY <1>1, <2>1
  <2> QED  BY <2>2, <2>3, <2>4
<1>6. \A i \in 1..n : \A j \in 1..n : g(i) = g(j) => i = j
  BY <1>1
<1> HIDE DEF g
<1>7. ToSet(h) \subseteq DOMAIN c.expires
  BY <1>1, <1>3, <1>5 DEF ToSet
<1>8. Distinct(h)
  BY <1>1, <1>3, <1>5, <1>6 DEF Distinct
<1> QED  BY <1>3, <1>4, <1>7, <1>8

\* A trim evicts what exceeds the capacity and changes no record that stays.
LEMMA TrimIs ==
  ASSUME NEW c, WellFormed(c)
  PROVE  /\ WellFormed(Trim(c)) /\ Shrunk(c, Trim(c)) /\ Len(Trim(c).lru) <= MaxEntries
<1>1. MaxEntries \in Nat /\ Len(c.lru) \in Nat
  BY CacheAssumption DEF WellFormed, ListOK
<1>2. CASE Len(c.lru) <= MaxEntries
  <2>1. DOMAIN Surplus(c) = 1..0
    <3>1. SubSeq(c.lru, MaxEntries + 1, Len(c.lru)) = <<>>
      BY <1>1, <1>2 DEF WellFormed, ListOK
    <3> QED  BY <3>1 DEF Surplus, Reverse
  <2>2. PICK f : Evicts!IsRun(f, None, c, Surplus(c), 0)
    BY <2>1, Evicts!FoldRuns
  <2>3. Trim(c) = c
    BY <2>2, TrimFolds DEF Evicts!IsRun
  <2> QED  BY <1>2, <2>3 DEF Shrunk, SameRecord
<1>3. CASE Len(c.lru) > MaxEntries
  <2> DEFINE n == Len(c.lru) - MaxEntries  h == Surplus(c)  q == [cache |-> c, keys |-> h]
  <2>1. n \in Nat /\ Len(c.lru) = MaxEntries + n
    BY <1>1, <1>3
  <2> HIDE DEF n
  <2>2. /\ h \in Seq(Articles) /\ Len(h) = n
        /\ ToSet(h) \subseteq DOMAIN c.expires /\ Distinct(h)
    BY <2>1, SurplusIs
  <2>3. Trim(c) = Evicts!Fold(None, c, h)
    BY TrimFolds
  <2> HIDE DEF h
  <2>4. DOMAIN h = 1..n /\ q.cache = c /\ q.keys = h
    BY <2>2
  <2> HIDE DEF q
  <2>5. Evicted(q, 0, c)
    <3>1. {q.keys[j] : j \in 1..0} = {}
      OBVIOUS
    <3> QED  BY <1>1, <2>4, <3>1 DEF Evicted, Shrunk, SameRecord
  <2>6. ASSUME NEW i \in 1..n, NEW d, Evicted(q, i - 1, d)
        PROVE  Evicted(q, i, Evicting(None, d, h[i]))
    <3> DEFINE b == Delete(d, h[i])
    <3>1. WellFormed(d) /\ Shrunk(c, d) /\ Len(d.lru) = Len(c.lru) - (i - 1)
          /\ DOMAIN d.expires = DOMAIN c.expires \ {h[j] : j \in 1..(i - 1)}
      BY <2>4, <2>6 DEF Evicted
    <3>2. h[i] \in DOMAIN d.expires
      <4>1. h[i] \in DOMAIN c.expires
        BY <2>2, <2>4 DEF ToSet
      <4>2. \A j \in 1..(i - 1) : h[j] # h[i]
        BY <2>1, <2>2, <2>4 DEF Distinct
      <4> QED  BY <3>1, <4>1, <4>2
    <3>3. /\ WellFormed(b) /\ DOMAIN b.expires = DOMAIN d.expires \ {h[i]} /\ Shrunk(d, b)
          /\ Len(b.lru) = Len(d.lru) - 1
      BY <3>1, <3>2, DeleteIs
    <3> HIDE DEF b
    <3>4. {h[j] : j \in 1..i} = {h[j] : j \in 1..(i - 1)} \cup {h[i]}
      <4>1. 1..i = (1..(i - 1)) \cup {i}
        BY <2>1
      <4> QED  BY <4>1
    <3>5. DOMAIN b.expires = DOMAIN c.expires \ {h[j] : j \in 1..i}
      BY <3>1, <3>3, <3>4
    <3>6. Len(b.lru) = Len(c.lru) - i
      BY <1>1, <2>1, <3>1, <3>3
    <3>7. Shrunk(c, b)
      BY <3>1, <3>3, Shrinks
    <3> QED  BY <2>4, <3>3, <3>5, <3>6, <3>7 DEF Evicted, Evicting, b
  <2>7. Evicted(q, n, Evicts!Fold(None, c, h))
    BY <2>1, <2>4, <2>5, <2>6, Evicts!FoldKeeps
  <2>8. WellFormed(Trim(c)) /\ Shrunk(c, Trim(c)) /\ Len(Trim(c).lru) = Len(c.lru) - n
    BY <2>3, <2>4, <2>7 DEF Evicted
  <2> QED  BY <1>1, <2>1, <2>8
<1> QED  BY <1>1, <1>2, <1>3

-----------------------------------------------------------------------------
(* The second half of a read.                                              *)

LEMMA ReconcileFolds ==
  ASSUME NEW c, NEW read
  PROVE  Reconciled(c, read) =
           Finds!Fold(read.at, Drops!Fold(read.at, c, SetToSeq(read.expired)), read.touched)
BY DEF Reconciled, Dropping, Finding, Finds!Fold, Finds!FoldLeft, Finds!MapThenFoldSet, Finds!Max,
       Drops!Fold, Drops!FoldLeft, Drops!MapThenFoldSet, Drops!Max, FoldLeft, MapThenFoldSet, Max

\* A finite set in some order.
LEMMA OrderedSet ==
  ASSUME NEW S, IsFiniteSet(S)
  PROVE  \E n \in Nat : DOMAIN SetToSeq(S) = 1..n
<1>1. Cardinality(S) \in Nat /\ ExistsBijection(1..Cardinality(S), S)
  BY FS_CardinalityType
<1>2. \E f \in [1..Cardinality(S) -> S] : IsInjective(f)
  BY <1>1 DEF ExistsBijection, Bijection, Injection, IsInjective
<1>3. SetToSeq(S) \in [1..Cardinality(S) -> S]
  BY <1>2 DEF SetToSeq
<1> QED  BY <1>1, <1>3

\* A record that a read drops was expired when it looked at the clock.
LEMMA LeftOnce ==
  ASSUME NEW c, NEW t, NEW d, Left(c, t, d), NEW k, c.lru \in Seq(Articles)
  PROVE  Left(c, t, EnsureNotExpired(d, k, t))
<1> DEFINE b == EnsureNotExpired(d, k, t)
<1>1. /\ WellFormed(d) /\ Shrunk(c, d) /\ Len(d.lru) <= Len(c.lru)
      /\ \A j \in DOMAIN c.expires \ DOMAIN d.expires : t >= c.expires[j]
  BY DEF Left
<1>2. /\ WellFormed(b) /\ Shrunk(d, b) /\ Len(b.lru) <= Len(d.lru)
      /\ \A j \in DOMAIN d.expires \ DOMAIN b.expires : t >= d.expires[j]
  BY <1>1, EnsureNotExpiredIs
<1> HIDE DEF b
<1>3. Len(b.lru) <= Len(c.lru)
  <2>1. Len(b.lru) \in Nat /\ Len(d.lru) \in Nat /\ Len(c.lru) \in Nat
    BY <1>1, <1>2 DEF WellFormed, ListOK
  <2> QED  BY <1>1, <1>2, <2>1
<1>4. Shrunk(c, b)
  BY <1>1, <1>2, Shrinks
<1>5. ASSUME NEW j \in DOMAIN c.expires \ DOMAIN b.expires PROVE t >= c.expires[j]
  <2>1. CASE j \in DOMAIN d.expires
    <3>1. d.expires[j] = c.expires[j]
      BY <1>1, <2>1 DEF Shrunk
    <3> QED  BY <1>2, <2>1, <3>1
  <2> QED  BY <1>1, <2>1
<1> QED  BY <1>2, <1>3, <1>4, <1>5 DEF Left, b

LEMMA LeftTouched ==
  ASSUME NEW c, NEW t, NEW d, Left(c, t, d), NEW k
  PROVE  Left(c, t, Touch(d, k))
<1> DEFINE b == Touch(d, k)
<1>1. /\ WellFormed(d) /\ Shrunk(c, d) /\ Len(d.lru) <= Len(c.lru)
      /\ \A j \in DOMAIN c.expires \ DOMAIN d.expires : t >= c.expires[j]
  BY DEF Left
<1>2. WellFormed(b) /\ b.expires = d.expires /\ Shrunk(d, b) /\ Len(b.lru) = Len(d.lru)
  BY <1>1, TouchIs
<1> HIDE DEF b
<1>3. Shrunk(c, b)
  BY <1>1, <1>2, Shrinks
<1> QED  BY <1>1, <1>2, <1>3 DEF Left, b

(* Whatever happened since, the second half of a read drops only records   *)
(* that were expired at the moment the read looked at the clock.           *)
LEMMA ReconciledIs ==
  ASSUME NEW c, WellFormed(c), NEW read, read.touched \in Seq(Articles), IsFiniteSet(read.expired)
  PROVE  Left(c, read.at, Reconciled(c, read))
<1> DEFINE t == read.at  q == [cache |-> c, at |-> t]
           h == SetToSeq(read.expired)  g == read.touched
           d == Drops!Fold(t, c, h)
<1>1. c.lru \in Seq(Articles)
  BY DEF WellFormed, ListOK
<1>2. Left(c, t, c)
  BY <1>1 DEF Left, Shrunk, SameRecord
<1>3. q.cache = c /\ q.at = t
  OBVIOUS
<1> HIDE DEF q
<1>4. PICK n \in Nat : DOMAIN h = 1..n
  BY OrderedSet
<1>5. StillLeft(q, n, d)
  <2>1. StillLeft(q, 0, c)
    BY <1>2, <1>3 DEF StillLeft
  <2>2. ASSUME NEW i \in 1..n, NEW a, StillLeft(q, i - 1, a)
        PROVE  StillLeft(q, i, Dropping(t, a, h[i]))
    <3>1. Left(c, t, a)
      BY <1>3, <2>2 DEF StillLeft
    <3>2. Left(c, t, EnsureNotExpired(a, h[i], t))
      BY <1>1, <3>1, LeftOnce
    <3> QED  BY <1>3, <3>2 DEF StillLeft, Dropping
  <2> HIDE DEF h, t
  <2> QED  BY <1>4, <2>1, <2>2, Drops!FoldKeeps
<1>6. Reconciled(c, read) = Finds!Fold(t, d, g)
  BY ReconcileFolds
<1> HIDE DEF d
<1>7. Len(g) \in Nat /\ DOMAIN g = 1..Len(g)
  OBVIOUS
<1>8. StillLeft(q, Len(g), Finds!Fold(t, d, g))
  <2>1. StillLeft(q, 0, d)
    BY <1>5 DEF StillLeft
  <2>2. ASSUME NEW i \in 1..Len(g), NEW a, StillLeft(q, i - 1, a)
        PROVE  StillLeft(q, i, Finding(t, a, g[i]))
    <3>1. Left(c, t, a)
      BY <1>3, <2>2 DEF StillLeft
    <3>2. Left(c, t, EnsureNotExpired(a, g[i], t))
      BY <1>1, <3>1, LeftOnce
    <3>3. Left(c, t, Touch(EnsureNotExpired(a, g[i], t), g[i]))
      BY <3>2, LeftTouched
    <3> QED  BY <1>3, <3>3 DEF StillLeft, Finding
  <2> HIDE DEF g, t
  <2> QED  BY <1>7, <2>1, <2>2, Finds!FoldKeeps
<1> QED  BY <1>3, <1>6, <1>8 DEF StillLeft

-----------------------------------------------------------------------------
(* What the writers store.                                                 *)

LEMMA FromHistoryFolds ==
  ASSUME NEW h
  PROVE  FromHistory(h) = Tally!Fold(None, NoReactions, h)
BY DEF FromHistory, Counting, Tally!Fold, Tally!FoldLeft, Tally!MapThenFoldSet, Tally!Max,
       FoldLeft, MapThenFoldSet, Max

LEMMA ApplyReactionIs ==
  ASSUME NEW counts \in [Emojis -> Nat], NEW ev \in Events
  PROVE  ApplyReaction(counts, ev) \in [Emojis -> Nat]
<1>1. CASE ev.kind = "added"
  <2>1. ev.emoji \in Emojis
    BY <1>1 DEF Events
  <2>2. ApplyReaction(counts, ev) = [counts EXCEPT ![ev.emoji] = @ + 1]
    BY <1>1 DEF ApplyReaction
  <2> QED  BY <2>1, <2>2
<1>2. CASE ev.kind = "removed"
  <2>1. ev.emoji \in Emojis
    BY <1>2 DEF Events
  <2>2. ApplyReaction(counts, ev) = [counts EXCEPT ![ev.emoji] = IF @ = 0 THEN 0 ELSE @ - 1]
    BY <1>2 DEF ApplyReaction
  <2>3. (IF counts[ev.emoji] = 0 THEN 0 ELSE counts[ev.emoji] - 1) \in Nat
    BY <2>1
  <2> QED  BY <2>2, <2>3
<1>3. CASE ev.kind \notin {"added", "removed"}
  BY <1>3 DEF ApplyReaction
<1> QED  BY <1>1, <1>2, <1>3

\* The counts of a history are counts.
LEMMA FromHistoryIs ==
  ASSUME NEW h \in Seq(Events)
  PROVE  FromHistory(h) \in [Emojis -> Nat]
<1>1. Len(h) \in Nat /\ DOMAIN h = 1..Len(h) /\ \A i \in 1..Len(h) : h[i] \in Events
  OBVIOUS
<1>2. Counted(None, 0, NoReactions)
  BY DEF Counted, NoReactions
<1>3. \A i \in 1..Len(h) : \A a : Counted(None, i - 1, a) => Counted(None, i, Counting(None, a, h[i]))
  BY <1>1, ApplyReactionIs DEF Counted, Counting
<1>4. Counted(None, Len(h), Tally!Fold(None, NoReactions, h))
  BY <1>1, <1>2, <1>3, Tally!FoldKeeps
<1> QED  BY <1>4, FromHistoryFolds DEF Counted

LEMMA KeptReactionsIs ==
  ASSUME NEW c, WellFormed(c), NEW k, NEW counts \in [Emojis -> Nat]
  PROVE  KeptReactions(c, k, counts) \in [Emojis -> Nat]
<1>1. History(c, k) \in Seq(Events)
  BY DEF History, WellFormed, MapsOK
<1>2. FromHistory(History(c, k)) \in [Emojis -> Nat]
  BY <1>1, FromHistoryIs
<1> QED  BY <1>2 DEF KeptReactions

\* What a creation stores is a projection.
LEMMA CreatedOverIs ==
  ASSUME NEW c, WellFormed(c), NEW ev \in Events, ev.kind = "created"
  PROVE  CreatedOver(c, ev) \in Projections
<1>1. ev.id \in Nat /\ ev.thread \in Threads /\ ev.at \in Nat
  BY DEF Events
<1>2. NoReactions \in [Emojis -> Nat]
  BY DEF NoReactions
<1>3. KeptReactions(c, ev.art, NoReactions) \in [Emojis -> Nat]
  BY <1>2, KeptReactionsIs
<1> DEFINE fresh == [thread |-> ev.thread, text |-> ev.id, created |-> ev.at,
                     updated |-> ev.at, reacts |-> KeptReactions(c, ev.art, NoReactions)]
<1>4. fresh \in Projections
  BY <1>1, <1>3 DEF Projections
<1>5. CASE ev.art \notin DOMAIN c.ent
  BY <1>4, <1>5 DEF CreatedOver
<1>6. CASE ev.art \in DOMAIN c.ent
  <2> DEFINE old == c.ent[ev.art]
             u == IF ev.at < old.updated THEN old.updated ELSE ev.at
             r == KeptReactions(c, ev.art, old.reacts)
  <2>1. old \in Projections
    BY <1>6 DEF WellFormed, MapsOK
  <2>2. old.created \in Nat /\ old.updated \in Nat /\ old.reacts \in [Emojis -> Nat]
    BY <2>1 DEF Projections
  <2>3. u \in Nat /\ r \in [Emojis -> Nat]
    BY <1>1, <2>2, KeptReactionsIs
  <2>4. CreatedOver(c, ev) = [fresh EXCEPT !.created = old.created, !.updated = u, !.reacts = r]
    BY <1>6 DEF CreatedOver
  <2> HIDE DEF u, r, old, fresh
  <2>5. [fresh EXCEPT !.created = old.created, !.updated = u, !.reacts = r] \in Projections
    BY <1>4, <2>2, <2>3 DEF Projections
  <2> QED  BY <2>4, <2>5
<1> QED  BY <1>5, <1>6

\* What an edit stores is a projection.
LEMMA EditedOverIs ==
  ASSUME NEW c, WellFormed(c), NEW ev \in Events, ev.kind = "edited"
  PROVE  EditedOver(c, ev) \in Projections
<1>1. ev.id \in Nat /\ ev.at \in Nat
  BY DEF Events
<1> DEFINE old == IF ev.art \in DOMAIN c.ent THEN c.ent[ev.art]
                  ELSE [thread |-> Main, text |-> None, created |-> ev.at,
                        updated |-> ev.at, reacts |-> NoReactions]
           r == KeptReactions(c, ev.art, old.reacts)
<1>2. old \in Projections
  BY <1>1, CacheAssumption DEF Projections, NoReactions, WellFormed, MapsOK
<1>3. EditedOver(c, ev) = [old EXCEPT !.text = ev.id, !.updated = ev.at, !.reacts = r]
  BY DEF EditedOver
<1> HIDE DEF old
<1>4. old.reacts \in [Emojis -> Nat]
  BY <1>2 DEF Projections
<1>5. r \in [Emojis -> Nat]
  BY <1>4, KeptReactionsIs
<1> HIDE DEF r
<1>6. [old EXCEPT !.text = ev.id, !.updated = ev.at, !.reacts = r] \in Projections
  BY <1>1, <1>2, <1>5 DEF Projections
<1> QED  BY <1>3, <1>6

\* A reaction is counted in a projection.
LEMMA ReactedOverIs ==
  ASSUME NEW old \in Projections, NEW ev \in Events
  PROVE  [old EXCEPT !.reacts = ApplyReaction(@, ev)] \in Projections
<1>1. ApplyReaction(old.reacts, ev) \in [Emojis -> Nat]
  BY ApplyReactionIs DEF Projections
<1> DEFINE r == ApplyReaction(old.reacts, ev)
<1> HIDE DEF r
<1>2. [old EXCEPT !.reacts = r] \in Projections
  BY <1>1 DEF Projections, r
<1> QED  BY <1>2 DEF r

\* A write of a projection leaves a well formed cache that fits.
LEMMA UpsertEntityIs ==
  ASSUME NEW c, WellFormed(c), NEW k \in Articles, NEW e \in Projections, NEW t \in Nat
  PROVE  WellFormed(UpsertEntity(c, k, e, t)) /\ Len(UpsertEntity(c, k, e, t).lru) <= MaxEntries
<1> DEFINE b == UpsertKey(c, k, t)  d == StoreEntity(b, k, e)
<1>1. WellFormed(b) /\ k \in DOMAIN b.expires
  BY UpsertKeyIs
<1> HIDE DEF b
<1>2. WellFormed(d)
  BY <1>1, StoreEntityIs
<1> HIDE DEF d
<1>3. WellFormed(Trim(d)) /\ Len(Trim(d).lru) <= MaxEntries
  BY <1>2, TrimIs
<1> QED  BY <1>3 DEF UpsertEntity, b, d

-----------------------------------------------------------------------------
(* What a read gathers.                                                    *)

LEMMA CollectFolds ==
  ASSUME NEW p, NEW keys
  PROVE  Collect(p.cache, p.at, p.limit, p.skipped, keys) = Visits!Fold(p, NothingFound, keys)
BY DEF Collect, Visiting, Visits!Fold, Visits!FoldLeft, Visits!MapThenFoldSet, Visits!Max,
       FoldLeft, MapThenFoldSet, Max

\* A visit finds what is to be shown, and otherwise at most notes an expired key.
LEMMA VisitIs ==
  ASSUME NEW c, WellFormed(c), NEW t \in Nat, NEW limit \in Nat, NEW skipped, NEW k,
         NEW found \in Seq(Articles), NEW expired, IsFiniteSet(expired), Len(found) <= limit
  PROVE  LET v == Visit(c, t, limit, skipped, [found |-> found, expired |-> expired], k)
         IN IF Len(found) < limit /\ Shown(c, t, skipped, k)
            THEN v = [found |-> Append(found, k), expired |-> expired]
            ELSE v = [found |-> found, expired |-> v.expired] /\ IsFiniteSet(v.expired)
<1> DEFINE acc == [found |-> found, expired |-> expired]
           v == Visit(c, t, limit, skipped, acc, k)
<1>1. acc.found = found /\ acc.expired = expired
  OBVIOUS
<1>2. [acc EXCEPT !.found = Append(acc.found, k)] = [found |-> Append(found, k), expired |-> expired]
  OBVIOUS
<1>3. \A x : [acc EXCEPT !.expired = x] = [found |-> found, expired |-> x]
  OBVIOUS
<1>4. IsFiniteSet(expired \cup {k})
  BY FS_AddElement
<1>5. Len(found) \in Nat
  OBVIOUS
<1>6. k \in DOMAIN c.expires => c.expires[k] \in Nat
  BY DEF WellFormed, ListOK
<1>7. acc = [found |-> found, expired |-> expired]
  OBVIOUS
<1> HIDE DEF acc
<1>8. CASE Len(found) < limit /\ Shown(c, t, skipped, k)
  <2>1. ~(Len(acc.found) >= limit \/ k \in skipped) /\ ~IsExpired(c, k, t) /\ IsLive(c, k, t) /\ k \in DOMAIN c.ent
    BY <1>1, <1>5, <1>6, <1>8 DEF Shown, IsLive, IsExpired
  <2>2. v = [acc EXCEPT !.found = Append(acc.found, k)]
    BY <2>1 DEF Visit
  <2> QED  BY <1>2, <1>8, <2>2 DEF acc
<1>9. CASE ~(Len(found) < limit /\ Shown(c, t, skipped, k))
  <2>1. CASE Len(acc.found) >= limit \/ k \in skipped
    <3>1. v = acc
      BY <2>1 DEF Visit
    <3> QED  BY <1>7, <1>9, <3>1 DEF acc
  <2>2. CASE ~(Len(acc.found) >= limit \/ k \in skipped) /\ IsExpired(c, k, t)
    <3>1. ~IsLive(c, k, t)
      BY <1>6, <2>2 DEF IsLive, IsExpired
    <3>2. v = [acc EXCEPT !.expired = acc.expired \cup {k}]
      BY <2>2, <3>1 DEF Visit
    <3> DEFINE x == expired \cup {k}
    <3>3. v = [acc EXCEPT !.expired = x] /\ IsFiniteSet(x)
      BY <1>1, <1>4, <3>2
    <3> HIDE DEF x, v
    <3>4. v = [found |-> found, expired |-> x]
      BY <1>3, <3>3
    <3> QED  BY <1>9, <3>3, <3>4 DEF acc, v
  <2>3. CASE ~(Len(acc.found) >= limit \/ k \in skipped) /\ ~IsExpired(c, k, t)
    <3>1. ~(IsLive(c, k, t) /\ k \in DOMAIN c.ent)
      BY <1>1, <1>5, <1>9, <2>3 DEF Shown
    <3>2. v = acc
      BY <2>3, <3>1 DEF Visit
    <3> QED  BY <1>7, <1>9, <3>2 DEF acc
  <2> QED  BY <2>1, <2>2, <2>3
<1> QED  BY <1>8, <1>9

\* One more key.
LEMMA GathersNext ==
  ASSUME NEW c, WellFormed(c), NEW t \in Nat, NEW limit \in Nat, NEW skipped,
         NEW keys \in Seq(Articles), NEW i \in 1..Len(keys), NEW acc,
         Gathers(c, t, limit, skipped, keys, i - 1, acc)
  PROVE  Gathers(c, t, limit, skipped, keys, i, Visit(c, t, limit, skipped, acc, keys[i]))
<1> DEFINE k == keys[i]  v == Visit(c, t, limit, skipped, acc, k)  j == i - 1
<1>1. k \in Articles /\ j \in Nat /\ i = j + 1 /\ j < i
  OBVIOUS
<1>2. PICK found, expired : acc = [found |-> found, expired |-> expired]
  BY DEF Gathers
<1>3. /\ found \in Seq(Articles) /\ Len(found) <= limit /\ IsFiniteSet(expired)
      /\ \A m \in 1..Len(found) :
           Shown(c, t, skipped, found[m]) /\ \E a \in 1..j : found[m] = keys[a]
      /\ \A n \in 1..Len(found) : \A m \in 1..(n - 1) :
           \E b \in 1..j : \E a \in 1..(b - 1) : found[m] = keys[a] /\ found[n] = keys[b]
      /\ \A l \in 1..j : Shown(c, t, skipped, keys[l]) =>
           \/ \E m \in 1..Len(found) : found[m] = keys[l]
           \/ /\ Len(found) = limit
              /\ \A m \in 1..Len(found) : \E a \in 1..(l - 1) : found[m] = keys[a]
  BY <1>2 DEF Gathers
<1>4. Len(found) \in Nat
  BY <1>3
<1> HIDE DEF j
<1>5. CASE Len(found) < limit /\ Shown(c, t, skipped, k)
  <2> DEFINE g == Append(found, k)
  <2>1. v = [found |-> g, expired |-> expired]
    BY <1>2, <1>3, <1>5, VisitIs
  <2>2. /\ g \in Seq(Articles) /\ Len(g) = Len(found) + 1 /\ g[Len(found) + 1] = k
        /\ \A m \in 1..Len(found) : g[m] = found[m]
    BY <1>1, <1>3
  <2> HIDE DEF g
  <2>3. ASSUME NEW m \in 1..Len(g)
        PROVE  Shown(c, t, skipped, g[m]) /\ \E a \in 1..i : g[m] = keys[a]
    <3>1. CASE m = Len(found) + 1
      BY <1>5, <2>2, <3>1
    <3>2. CASE m # Len(found) + 1
      <4>1. m \in 1..Len(found) /\ g[m] = found[m]
        BY <1>4, <2>2, <3>2
      <4>2. PICK a \in 1..j : found[m] = keys[a]
        BY <1>3, <4>1
      <4>3. a \in 1..i
        BY <1>1
      <4> QED  BY <1>3, <4>1, <4>2, <4>3
    <3> QED  BY <3>1, <3>2
  <2>4. ASSUME NEW n \in 1..Len(g), NEW m \in 1..(n - 1)
        PROVE  \E b \in 1..i : \E a \in 1..(b - 1) : g[m] = keys[a] /\ g[n] = keys[b]
    <3>1. m \in 1..Len(found) /\ g[m] = found[m]
      BY <1>4, <2>2
    <3>2. CASE n = Len(found) + 1
      <4>1. PICK a \in 1..j : found[m] = keys[a]
        BY <1>3, <3>1
      <4>2. a \in 1..(i - 1) /\ i \in 1..i
        BY <1>1
      <4> QED  BY <2>2, <3>1, <3>2, <4>1, <4>2
    <3>3. CASE n # Len(found) + 1
      <4>1. n \in 1..Len(found) /\ g[n] = found[n]
        BY <1>4, <2>2, <3>3
      <4>2. PICK b \in 1..j : \E a \in 1..(b - 1) : found[m] = keys[a] /\ found[n] = keys[b]
        BY <1>3, <4>1
      <4>3. b \in 1..i
        BY <1>1
      <4> QED  BY <3>1, <4>1, <4>2, <4>3
    <3> QED  BY <3>2, <3>3
  <2>5. ASSUME NEW l \in 1..i, Shown(c, t, skipped, keys[l])
        PROVE  \E m \in 1..Len(g) : g[m] = keys[l]
    <3>1. CASE l = i
      <4>1. Len(g) \in 1..Len(g) /\ g[Len(g)] = k
        BY <1>4, <2>2
      <4> QED  BY <3>1, <4>1
    <3>2. CASE l # i
      <4>1. l \in 1..j
        BY <1>1, <3>2
      <4>2. PICK m \in 1..Len(found) : found[m] = keys[l]
        BY <1>3, <1>4, <1>5, <2>5, <4>1
      <4>3. m \in 1..Len(g) /\ g[m] = keys[l]
        BY <1>4, <2>2, <4>2
      <4> QED  BY <4>3
    <3> QED  BY <3>1, <3>2
  <2>6. Len(g) <= limit
    BY <1>4, <1>5, <2>2
  <2>7. v = [found |-> v.found, expired |-> v.expired] /\ v.found = g /\ v.expired = expired
    BY <2>1
  <2> HIDE DEF v
  <2>8. v.found \in Seq(Articles) /\ IsFiniteSet(v.expired)
    BY <1>3, <2>2, <2>7
  <2>9. \A m \in 1..Len(v.found) :
          Shown(c, t, skipped, v.found[m]) /\ \E a \in 1..i : v.found[m] = keys[a]
    BY <2>3, <2>7
  <2>10. \A n \in 1..Len(v.found) : \A m \in 1..(n - 1) :
           \E b \in 1..i : \E a \in 1..(b - 1) : v.found[m] = keys[a] /\ v.found[n] = keys[b]
    BY <2>4, <2>7
  <2>11. \A l \in 1..i : Shown(c, t, skipped, keys[l]) => \E m \in 1..Len(v.found) : v.found[m] = keys[l]
    BY <2>5, <2>7
  <2>12. v = [found |-> v.found, expired |-> v.expired] /\ Len(v.found) <= limit
    BY <2>6, <2>7
  <2>13. Gathers(c, t, limit, skipped, keys, i, v)
    BY <2>8, <2>9, <2>10, <2>11, <2>12, Zenon DEF Gathers
  <2> QED  BY <2>13 DEF v, k
<1>6. CASE ~(Len(found) < limit /\ Shown(c, t, skipped, k))
  <2> DEFINE w == Visit(c, t, limit, skipped, [found |-> found, expired |-> expired], k)
  <2>0. w = v
    BY <1>2
  <2>1. PICK e : IsFiniteSet(e) /\ v = [found |-> found, expired |-> e]
    <3>1. w = [found |-> found, expired |-> w.expired] /\ IsFiniteSet(w.expired)
      BY <1>3, <1>6, VisitIs
    <3> HIDE DEF w, v
    <3> QED  BY <2>0, <3>1
  <2>2. v = [found |-> v.found, expired |-> v.expired] /\ v.found = found /\ IsFiniteSet(v.expired)
    BY <2>1
  <2>3. \A m \in 1..Len(found) :
          Shown(c, t, skipped, found[m]) /\ \E a \in 1..i : found[m] = keys[a]
    <3>1. 1..j \subseteq 1..i
      BY <1>1
    <3> QED  BY <1>3, <3>1
  <2>4. ASSUME NEW n \in 1..Len(found), NEW m \in 1..(n - 1)
        PROVE  \E b \in 1..i : \E a \in 1..(b - 1) : found[m] = keys[a] /\ found[n] = keys[b]
    <3>1. PICK b \in 1..j : \E a \in 1..(b - 1) : found[m] = keys[a] /\ found[n] = keys[b]
      BY <1>3
    <3>2. b \in 1..i
      BY <1>1
    <3> QED  BY <3>1, <3>2
  <2>5. ASSUME NEW l \in 1..i, Shown(c, t, skipped, keys[l])
        PROVE  \/ \E m \in 1..Len(found) : found[m] = keys[l]
               \/ /\ Len(found) = limit
                  /\ \A m \in 1..Len(found) : \E a \in 1..(l - 1) : found[m] = keys[a]
    <3>1. CASE l = i
      <4>1. Len(found) = limit
        BY <1>3, <1>4, <1>6, <2>5, <3>1
      <4>2. j = l - 1
        BY <1>1, <3>1
      <4> QED  BY <1>3, <4>1, <4>2
    <3>2. CASE l # i
      <4>1. l \in 1..j
        BY <1>1, <3>2
      <4> QED  BY <1>3, <2>5, <4>1
    <3> QED  BY <3>1, <3>2
  <2> HIDE DEF v
  <2>6. Gathers(c, t, limit, skipped, keys, i, v)
    BY <1>3, <2>2, <2>3, <2>4, <2>5 DEF Gathers
  <2> QED  BY <2>6 DEF v, k
<1> QED  BY <1>5, <1>6

(* A read answers with the live articles among its keys, in their order,   *)
(* and leaves one out only once it has found its limit before it.          *)
LEMMA CollectIs ==
  ASSUME NEW c, WellFormed(c), NEW t \in Nat, NEW limit \in Nat, NEW skipped, NEW keys \in Seq(Articles)
  PROVE  Gathers(c, t, limit, skipped, keys, Len(keys), Collect(c, t, limit, skipped, keys))
<1> DEFINE p == [cache |-> c, at |-> t, limit |-> limit, skipped |-> skipped, keys |-> keys]
<1>1. p.cache = c /\ p.at = t /\ p.limit = limit /\ p.skipped = skipped /\ p.keys = keys
  OBVIOUS
<1> HIDE DEF p
<1>2. Collect(p.cache, p.at, p.limit, p.skipped, keys) = Visits!Fold(p, NothingFound, keys)
  BY CollectFolds
<1>3. Len(keys) \in Nat /\ DOMAIN keys = 1..Len(keys)
  OBVIOUS
<1>4. Gathered(p, 0, NothingFound)
  <2> DEFINE acc == NothingFound
  <2>1. /\ acc = [found |-> acc.found, expired |-> acc.expired]
        /\ acc.found = <<>> /\ acc.expired = {}
    BY DEF NothingFound
  <2> HIDE DEF acc
  <2>2. acc.found \in Seq(Articles) /\ Len(acc.found) = 0 /\ 1..Len(acc.found) = {} /\ 1..0 = {}
    BY <2>1
  <2>3. IsFiniteSet(acc.expired)
    BY <2>1, FS_EmptySet
  <2>4. Gathers(c, t, limit, skipped, keys, 0, acc)
    BY <2>1, <2>2, <2>3 DEF Gathers
  <2> QED  BY <1>1, <2>4 DEF acc, Gathered
<1>5. ASSUME NEW i \in 1..Len(keys), NEW a, Gathered(p, i - 1, a)
      PROVE  Gathered(p, i, Visiting(p, a, keys[i]))
  <2>1. Gathers(c, t, limit, skipped, keys, i - 1, a)
    BY <1>1, <1>5 DEF Gathered
  <2>2. Gathers(c, t, limit, skipped, keys, i, Visit(c, t, limit, skipped, a, keys[i]))
    BY <2>1, GathersNext
  <2> QED  BY <1>1, <2>2 DEF Gathered, Visiting
<1>6. Gathered(p, Len(keys), Visits!Fold(p, NothingFound, keys))
  BY <1>3, <1>4, <1>5, Visits!FoldKeeps
<1> QED  BY <1>1, <1>2, <1>6 DEF Gathered

\* The articles of the first entries of a stream, the last of them first.
LEMMA NewestIs ==
  ASSUME NEW s \in Seq(Entries), NEW n \in 0..Len(s)
  PROVE  /\ Newest(s, n) \in Seq(Articles) /\ Len(Newest(s, n)) = n
         /\ \A i \in 1..n : n + 1 - i \in 1..n /\ Newest(s, n)[i] = s[n + 1 - i].art
<1> DEFINE r == Newest(s, n)
<1>1. \A i \in 1..n : n + 1 - i \in 1..n /\ s[n + 1 - i].art \in Articles
  <2> SUFFICES ASSUME NEW i \in 1..n PROVE n + 1 - i \in 1..n /\ s[n + 1 - i].art \in Articles
    OBVIOUS
  <2> DEFINE j == n + 1 - i
  <2>1. j \in 1..n /\ j \in 1..Len(s)
    OBVIOUS
  <2> HIDE DEF j
  <2>2. s[j] \in Entries
    BY <2>1
  <2> QED  BY <2>1, <2>2 DEF Entries, j
<1>2. r = [i \in 1..n |-> s[n + 1 - i].art]
  BY DEF Newest
<1> HIDE DEF r
<1>3. r \in Seq(Articles) /\ Len(r) = n
  BY <1>1, <1>2
<1> QED  BY <1>1, <1>2, <1>3 DEF r

\* What a read may keep for its second half.
Answers(answer) == answer.found \in Seq(Articles) /\ IsFiniteSet(answer.expired)

LEMMA CollectAnswers ==
  ASSUME NEW c, WellFormed(c), NEW t \in Nat, NEW limit \in Nat, NEW skipped, NEW keys \in Seq(Articles)
  PROVE  Answers(Collect(c, t, limit, skipped, keys))
BY CollectIs DEF Gathers, Answers

LEMMA ContextAnswers ==
  ASSUME NEW c, WellFormed(c), NEW t \in Nat, NEW q \in Queries
  PROVE  Answers(Context(c, q, t))
<1>1. q.thread \in Threads /\ q.limit \in Nat
  BY CacheAssumption
<1>2. c.streams \in [Threads -> Seq(Entries)] /\ \A th \in Threads : Sorted(c.streams[th])
  BY DEF WellFormed, StreamsOK
<1>3. CASE q.limit > 0 /\ Anchored(c, q, t)
  <2> DEFINE place == Entry(q.anchor, c.loc[q.anchor])
             stream == c.streams[c.loc[q.anchor].thread]
             n == Place(stream, place) - 1
  <2>1. Context(c, q, t) = Collect(c, t, q.limit, q.exclude, Newest(stream, n))
    BY <1>3 DEF Context, Before
  <2>2. q.anchor \in DOMAIN c.loc
    BY <1>3 DEF Anchored
  <2>3. c.loc[q.anchor] \in Locations /\ q.anchor \in Articles
    BY <2>2 DEF WellFormed, PlacesOK, MapsOK, ListOK
  <2>4. place \in Entries /\ stream \in Seq(Entries) /\ Sorted(stream)
    BY <1>2, <2>3 DEF Entry, Entries, Locations
  <2> HIDE DEF place, stream
  <2>5. n \in 0..Len(stream)
    BY <2>4, PlaceIs
  <2> HIDE DEF n
  <2>6. Newest(stream, n) \in Seq(Articles)
    BY <2>4, <2>5, NewestIs
  <2> QED  BY <1>1, <2>1, <2>6, CollectAnswers
<1>4. CASE q.limit > 0 /\ ~Anchored(c, q, t) /\ q.at # None
  <2> DEFINE later == {k \in DOMAIN c.loc : c.loc[k].created > q.at}
             stream == c.streams[q.thread]
             skipped == q.exclude \cup {q.anchor} \cup later
  <2>1. Context(c, q, t) = Collect(c, t, q.limit, skipped, Newest(stream, Len(stream)))
    BY <1>4 DEF Context, Until
  <2>2. stream \in Seq(Entries)
    BY <1>1, <1>2
  <2> HIDE DEF skipped, stream
  <2>3. Newest(stream, Len(stream)) \in Seq(Articles)
    BY <2>2, NewestIs
  <2> QED  BY <1>1, <2>1, <2>3, CollectAnswers
<1>5. CASE ~(q.limit > 0 /\ Anchored(c, q, t)) /\ ~(q.limit > 0 /\ ~Anchored(c, q, t) /\ q.at # None)
  <2>1. Context(c, q, t) = NothingFound
    BY <1>5 DEF Context
  <2> QED  BY <2>1, FS_EmptySet DEF Answers, NothingFound
<1> QED  BY <1>3, <1>4, <1>5

-----------------------------------------------------------------------------
(* The cache is well formed in every state.                                *)

LEMMA EmptyIs == WellFormed(EmptyCache) /\ Len(EmptyCache.lru) <= MaxEntries
<1> DEFINE c == EmptyCache
<1>1. HasFields(c)
  BY DEF EmptyCache, HasFields
<1>2. /\ DOMAIN c.expires = {} /\ DOMAIN c.ent = {} /\ DOMAIN c.hist = {} /\ DOMAIN c.loc = {}
      /\ c.lru = <<>> /\ c.seq = 0
  BY DEF EmptyCache, Empty
<1>3. c.streams = [th \in Threads |-> <<>>]
  BY DEF EmptyCache
<1> HIDE DEF c
<1>4. ListOK(c)
  BY <1>2 DEF ListOK, Distinct, ToSet
<1>5. MapsOK(c) /\ PlacesOK(c)
  BY <1>2 DEF MapsOK, PlacesOK
<1>6. StreamsOK(c)
  <2>1. c.streams \in [Threads -> Seq(Entries)]
    BY <1>3
  <2>2. \A th \in Threads : Placed(c, th) = {}
    BY <1>2 DEF Placed
  <2>3. \A th \in Threads : Sorted(c.streams[th]) /\ ToSet(c.streams[th]) = {}
    BY <1>3 DEF Sorted, ToSet
  <2> QED  BY <2>1, <2>2, <2>3 DEF StreamsOK
<1>7. Len(EmptyCache.lru) <= MaxEntries
  BY CacheAssumption DEF EmptyCache
<1> QED  BY <1>1, <1>4, <1>5, <1>6, <1>7 DEF WellFormed, c

LEMMA CacheInvInit == CacheInit => CacheInv
<1> SUFFICES ASSUME CacheInit PROVE CacheInv
  OBVIOUS
<1>1. /\ now = 0 /\ next = 1 /\ feed \in Feeds /\ cache = EmptyCache /\ stopped = FALSE
      /\ reader = [r \in Readers |-> NothingRead]
  BY DEF CacheInit
<1>2. PICK P \in Pools : worker = [w \in Workers |-> IF w \in P THEN Idle ELSE NotConfigured]
  BY DEF CacheInit
<1>3. next \in 1..(Len(feed) + 1) /\ now <= MaxTime
  BY <1>1, CacheAssumption
<1>4. WellFormed(cache) /\ Len(cache.lru) <= MaxEntries
  BY <1>1, EmptyIs
<1>6. ASSUME NEW w \in Workers PROVE WorkerOK(w)
  BY <1>1, <1>2 DEF WorkerOK, Idle, NotConfigured, Busy
<1>7. \A r \in Readers : ReaderOK(r)
  BY <1>1 DEF ReaderOK
<1> QED  BY <1>1, <1>2, <1>3, <1>4, <1>6, <1>7 DEF CacheInv

\* A section of a worker that leaves a well formed cache keeps the invariant.
LEMMA WriteKeeps ==
  ASSUME CacheInv, NEW w \in Workers, NEW c, WellFormed(c), Len(c.lru) <= MaxEntries,
         NEW step \in {"idle", "remember"}, Write(w, c, step), worker[w].pc \in Busy,
         step = "remember" => worker[w].pc = "append"
  PROVE  CacheInv'
<1>1. /\ cache' = c
      /\ worker' = [worker EXCEPT ![w] = IF step = "idle" THEN Idle ELSE [@ EXCEPT !.pc = step, !.at = now]]
      /\ now' = now /\ feed' = feed /\ next' = next /\ reader' = reader /\ stopped' = stopped
  BY DEF Write
<1>2. ASSUME NEW v \in Workers PROVE WorkerOK(v)'
  <2>1. CASE v = w /\ step = "idle"
    <3>1. worker'[v] = Idle
      BY <1>1, <2>1 DEF CacheInv
    <3>2. Idle = [pc |-> Idle.pc, ev |-> Idle.ev, at |-> Idle.at] /\ Idle.pc = "idle" /\ Idle.at = 0
      BY DEF Idle
    <3>3. now \in Nat /\ 0 <= now
      BY DEF CacheInv
    <3>4. worker'[v].pc = "idle" /\ worker'[v].at = 0
      BY <3>1, <3>2
    <3>5. worker'[v] = [pc |-> worker'[v].pc, ev |-> worker'[v].ev, at |-> worker'[v].at]
      BY <3>1, <3>2
    <3>6. worker'[v].at \in Nat /\ worker'[v].at <= now'
      BY <1>1, <3>3, <3>4
    <3>7. worker'[v].pc \notin Busy /\ worker'[v].pc \notin {"created", "append", "remember"}
      BY <3>4 DEF Busy
    <3> QED  BY <3>4, <3>5, <3>6, <3>7 DEF WorkerOK
  <2>2. CASE v = w /\ step = "remember"
    <3>1. worker'[v] = [worker[w] EXCEPT !.pc = "remember", !.at = now]
      BY <1>1, <2>2 DEF CacheInv
    <3>2. worker[w] = [pc |-> worker[w].pc, ev |-> worker[w].ev, at |-> worker[w].at]
          /\ worker[w].ev \in Events /\ worker[w].ev.kind # "created" /\ now \in Nat
      BY <2>2 DEF CacheInv, WorkerOK, Busy
    <3>3. worker'[v] = [pc |-> "remember", ev |-> worker[w].ev, at |-> now]
      BY <3>1, <3>2
    <3> QED  BY <1>1, <3>2, <3>3 DEF WorkerOK, Busy
  <2>3. CASE v # w
    <3>1. worker'[v] = worker[v]
      BY <1>1, <2>3 DEF CacheInv
    <3> QED  BY <1>1, <3>1 DEF WorkerOK, CacheInv
  <2> QED  BY <2>1, <2>2, <2>3
<1>3. \A r \in Readers : ReaderOK(r)'
  BY <1>1 DEF CacheInv, ReaderOK
<1>4. DOMAIN worker' = Workers
  BY <1>1 DEF CacheInv
<1> QED  BY <1>1, <1>2, <1>3, <1>4 DEF CacheInv

LEMMA ClockOfIs ==
  ASSUME CacheInv, NEW w \in Workers, NEW t \in ClockOf(w)
  PROVE  t \in Nat
BY DEF CacheInv, WorkerOK, ClockOf

LEMMA ExpiryFits ==
  ASSUME CacheInv, NEW k, NEW t
  PROVE  WellFormed(EnsureNotExpired(cache, k, t)) /\ Len(EnsureNotExpired(cache, k, t).lru) <= MaxEntries
<1> DEFINE c == EnsureNotExpired(cache, k, t)
<1>1. WellFormed(cache) /\ Len(cache.lru) <= MaxEntries
  BY DEF CacheInv
<1>2. WellFormed(c) /\ Len(c.lru) <= Len(cache.lru)
  BY <1>1, EnsureNotExpiredIs
<1> HIDE DEF c
<1>3. Len(c.lru) \in Nat /\ Len(cache.lru) \in Nat /\ MaxEntries \in Nat
  BY <1>1, <1>2, CacheAssumption DEF WellFormed, ListOK
<1> QED  BY <1>1, <1>2, <1>3 DEF c

LEMMA RememberCreatedKeeps ==
  ASSUME CacheInv, NEW w \in Workers, RememberCreated(w)
  PROVE  CacheInv'
<1> DEFINE ev == worker[w].ev
<1>1. worker[w].pc = "created" /\ ev \in Events /\ ev.kind = "created"
  BY DEF RememberCreated, CacheInv, WorkerOK, Busy
<1>2. ev.art \in Articles
  BY <1>1 DEF Events
<1>3. PICK t \in ClockOf(w) :
        LET c == EnsureNotExpired(cache, ev.art, t)
            d == AppendHistory(UpsertKey(c, ev.art, t), ev)
        IN Write(w, IF IsDuplicate(c, ev) THEN c
                    ELSE Trim(StoreEntity(d, ev.art, CreatedOver(d, ev))), "idle")
  BY DEF RememberCreated
<1> HIDE DEF ev
<1> DEFINE c == EnsureNotExpired(cache, ev.art, t)
           b == UpsertKey(c, ev.art, t)
           d == AppendHistory(b, ev)
           f == Trim(StoreEntity(d, ev.art, CreatedOver(d, ev)))
           x == IF IsDuplicate(c, ev) THEN c ELSE f
<1>4. Write(w, x, "idle")
  BY <1>3
<1>5. t \in Nat
  BY ClockOfIs
<1>6. WellFormed(c) /\ Len(c.lru) <= MaxEntries
  BY ExpiryFits
<1> HIDE DEF c
<1>7. WellFormed(b) /\ ev.art \in DOMAIN b.expires
  BY <1>2, <1>5, <1>6, UpsertKeyIs
<1> HIDE DEF b
<1>8. WellFormed(d) /\ ev.art \in DOMAIN d.expires
  BY <1>1, <1>7, AppendHistoryIs
<1> HIDE DEF d
<1>9. WellFormed(StoreEntity(d, ev.art, CreatedOver(d, ev)))
  <2>1. CreatedOver(d, ev) \in Projections
    BY <1>1, <1>8, CreatedOverIs
  <2> QED  BY <1>8, <2>1, StoreEntityIs
<1>10. WellFormed(f) /\ Len(f.lru) <= MaxEntries
  BY <1>9, TrimIs
<1> HIDE DEF f
<1>11. WellFormed(x) /\ Len(x.lru) <= MaxEntries
  BY <1>6, <1>10
<1> HIDE DEF x
<1> QED  BY <1>1, <1>4, <1>11, WriteKeeps DEF Busy

LEMMA AppendEventKeeps ==
  ASSUME CacheInv, NEW w \in Workers, AppendEvent(w)
  PROVE  CacheInv'
<1> DEFINE ev == worker[w].ev
<1>1. worker[w].pc = "append" /\ ev \in Events
  BY DEF AppendEvent, CacheInv, WorkerOK, Busy
<1>2. ev.art \in Articles
  BY <1>1 DEF Events
<1>3. PICK t \in ClockOf(w) :
        IF IsDuplicate(cache, ev) THEN Write(w, cache, "idle")
        ELSE Write(w, Trim(AppendHistory(UpsertKey(cache, ev.art, t), ev)), "remember")
  BY DEF AppendEvent
<1> HIDE DEF ev
<1>4. WellFormed(cache) /\ Len(cache.lru) <= MaxEntries
  BY DEF CacheInv
<1>5. CASE IsDuplicate(cache, ev)
  BY <1>1, <1>3, <1>4, <1>5, WriteKeeps DEF Busy
<1>6. CASE ~IsDuplicate(cache, ev)
  <2> DEFINE b == UpsertKey(cache, ev.art, t)
             d == AppendHistory(b, ev)
             f == Trim(d)
  <2>1. Write(w, f, "remember")
    BY <1>3, <1>6
  <2>2. t \in Nat
    BY ClockOfIs
  <2>3. WellFormed(b) /\ ev.art \in DOMAIN b.expires
    BY <1>2, <1>4, <2>2, UpsertKeyIs
  <2> HIDE DEF b
  <2>4. WellFormed(d)
    BY <1>1, <2>3, AppendHistoryIs
  <2> HIDE DEF d
  <2>5. WellFormed(f) /\ Len(f.lru) <= MaxEntries
    BY <2>4, TrimIs
  <2> HIDE DEF f
  <2> QED  BY <1>1, <2>1, <2>5, WriteKeeps DEF Busy
<1> QED  BY <1>5, <1>6

LEMMA RememberEditKeeps ==
  ASSUME CacheInv, NEW w \in Workers, RememberEdit(w)
  PROVE  CacheInv'
<1> DEFINE ev == worker[w].ev
<1>1. worker[w].pc = "remember" /\ ev \in Events /\ ev.kind = "edited"
  BY DEF RememberEdit, CacheInv, WorkerOK, Busy
<1>2. ev.art \in Articles
  BY <1>1 DEF Events
<1>3. PICK t \in ClockOf(w) :
        LET c == EnsureNotExpired(cache, ev.art, t)
        IN Write(w, UpsertEntity(c, ev.art, EditedOver(c, ev), t), "idle")
  BY DEF RememberEdit
<1> HIDE DEF ev
<1> DEFINE c == EnsureNotExpired(cache, ev.art, t)
           x == UpsertEntity(c, ev.art, EditedOver(c, ev), t)
<1>4. Write(w, x, "idle")
  BY <1>3
<1>5. t \in Nat
  BY ClockOfIs
<1>6. WellFormed(c)
  BY ExpiryFits
<1> HIDE DEF c
<1>7. EditedOver(c, ev) \in Projections
  BY <1>1, <1>6, EditedOverIs
<1>8. WellFormed(x) /\ Len(x.lru) <= MaxEntries
  BY <1>2, <1>5, <1>6, <1>7, UpsertEntityIs
<1> HIDE DEF x
<1> QED  BY <1>1, <1>4, <1>8, WriteKeeps DEF Busy

LEMMA ForgetRetractedKeeps ==
  ASSUME CacheInv, NEW w \in Workers, ForgetRetracted(w)
  PROVE  CacheInv'
<1> DEFINE x == Delete(cache, worker[w].ev.art)
<1>1. worker[w].pc = "remember" /\ Write(w, x, "idle")
  BY DEF ForgetRetracted
<1>2. WellFormed(cache) /\ Len(cache.lru) <= MaxEntries /\ MaxEntries \in Nat /\ Len(cache.lru) \in Nat
  BY CacheAssumption DEF CacheInv, WellFormed, ListOK
<1>3. WellFormed(x) /\ Len(x.lru) \in {Len(cache.lru), Len(cache.lru) - 1}
  BY <1>2, DeleteIs
<1> HIDE DEF x
<1>4. Len(x.lru) <= MaxEntries
  BY <1>2, <1>3
<1> QED  BY <1>1, <1>3, <1>4, WriteKeeps DEF Busy

LEMMA RememberReactionKeeps ==
  ASSUME CacheInv, NEW w \in Workers, RememberReaction(w)
  PROVE  CacheInv'
<1> DEFINE ev == worker[w].ev
<1>1. worker[w].pc = "remember" /\ ev \in Events
  BY DEF RememberReaction, CacheInv, WorkerOK, Busy
<1>2. ev.art \in Articles
  BY <1>1 DEF Events
<1>3. PICK t \in ClockOf(w) :
        LET c == EnsureNotExpired(cache, ev.art, t)
        IN Write(w, IF ev.art \notin DOMAIN c.ent THEN c
                    ELSE UpsertEntity(c, ev.art,
                           [c.ent[ev.art] EXCEPT !.reacts = ApplyReaction(@, ev)], t), "idle")
  BY DEF RememberReaction
<1> HIDE DEF ev
<1> DEFINE c == EnsureNotExpired(cache, ev.art, t)
           e == [c.ent[ev.art] EXCEPT !.reacts = ApplyReaction(@, ev)]
           f == UpsertEntity(c, ev.art, e, t)
           x == IF ev.art \notin DOMAIN c.ent THEN c ELSE f
<1>4. Write(w, x, "idle")
  BY <1>3
<1>5. t \in Nat
  BY ClockOfIs
<1>6. WellFormed(c) /\ Len(c.lru) <= MaxEntries
  BY ExpiryFits
<1> HIDE DEF c
<1>7. ASSUME ev.art \in DOMAIN c.ent PROVE WellFormed(f) /\ Len(f.lru) <= MaxEntries
  <2>1. c.ent[ev.art] \in Projections
    BY <1>6, <1>7 DEF WellFormed, MapsOK
  <2>2. e \in Projections
    BY <1>1, <2>1, ReactedOverIs
  <2> HIDE DEF e
  <2> QED  BY <1>2, <1>5, <1>6, <2>2, UpsertEntityIs
<1> HIDE DEF f
<1>8. WellFormed(x) /\ Len(x.lru) <= MaxEntries
  BY <1>6, <1>7
<1> HIDE DEF x
<1> QED  BY <1>1, <1>4, <1>8, WriteKeeps DEF Busy

\* A worker takes the next event.
LEMMA TakeKeeps ==
  ASSUME CacheInv, NEW w \in Workers, Take(w)
  PROVE  CacheInv'
<1> DEFINE step == IF feed[next].kind = "created" THEN "created" ELSE "append"
<1>1. /\ worker' = [worker EXCEPT ![w] = [pc |-> step, ev |-> feed[next], at |-> now]]
      /\ next <= Len(feed) /\ next' = next + 1
      /\ now' = now /\ feed' = feed /\ cache' = cache /\ reader' = reader /\ stopped' = stopped
  BY DEF Take
<1>2. feed \in Seq(Events) /\ next \in 1..(Len(feed) + 1) /\ now \in Nat
  BY CacheAssumption DEF CacheInv
<1>3. feed[next] \in Events /\ next' \in 1..(Len(feed) + 1)
  BY <1>1, <1>2
<1>4. step \in {"created", "append"} /\ (step = "created" <=> feed[next].kind = "created")
  OBVIOUS
<1> HIDE DEF step
<1>5. ASSUME NEW v \in Workers PROVE WorkerOK(v)'
  <2>1. CASE v = w
    <3>1. worker'[v] = [pc |-> step, ev |-> feed[next], at |-> now]
      BY <1>1, <2>1 DEF CacheInv
    <3> QED  BY <1>1, <1>2, <1>3, <1>4, <3>1 DEF WorkerOK, Busy
  <2>2. CASE v # w
    <3>1. worker'[v] = worker[v]
      BY <1>1, <2>2 DEF CacheInv
    <3> QED  BY <1>1, <3>1 DEF WorkerOK, CacheInv
  <2> QED  BY <2>1, <2>2
<1>6. \A r \in Readers : ReaderOK(r)'
  BY <1>1 DEF CacheInv, ReaderOK
<1>7. DOMAIN worker' = Workers
  BY <1>1 DEF CacheInv
<1> QED  BY <1>1, <1>3, <1>5, <1>6, <1>7 DEF CacheInv

LEMMA ReadsKeeps ==
  ASSUME CacheInv, NEW r \in Readers, NEW t \in ClockRead, NEW touched \in Seq(Articles),
         NEW expired, IsFiniteSet(expired), Reads(r, t, touched, expired)
  PROVE  CacheInv'
<1>1. /\ reader' = [reader EXCEPT ![r] = [at |-> t, touched |-> touched, expired |-> expired]]
      /\ now' = now /\ feed' = feed /\ next' = next /\ cache' = cache
      /\ worker' = worker /\ stopped' = stopped
  BY DEF Reads
<1>2. t \in Nat /\ t <= now
  BY CacheAssumption DEF ClockRead, CacheInv
<1>3. ASSUME NEW v \in Readers PROVE ReaderOK(v)'
  <2>1. CASE v = r
    <3>1. reader'[v] = [at |-> t, touched |-> touched, expired |-> expired]
      BY <1>1, <2>1 DEF CacheInv
    <3> QED  BY <1>1, <1>2, <3>1 DEF ReaderOK
  <2>2. CASE v # r
    <3>1. reader'[v] = reader[v]
      BY <1>1, <2>2 DEF CacheInv
    <3> QED  BY <1>1, <3>1 DEF ReaderOK, CacheInv
  <2> QED  BY <2>1, <2>2
<1>4. \A w \in Workers : WorkerOK(w)'
  BY <1>1 DEF CacheInv, WorkerOK
<1>5. DOMAIN reader' = Readers
  BY <1>1 DEF CacheInv
<1> QED  BY <1>1, <1>3, <1>4, <1>5 DEF CacheInv

LEMMA ClockReadIs ==
  ASSUME CacheInv, NEW t \in ClockRead
  PROVE  t \in Nat
BY CacheAssumption DEF ClockRead, CacheInv

LEMMA GetKeeps ==
  ASSUME CacheInv, NEW r \in Readers, Get(r)
  PROVE  CacheInv'
<1>1. PICK t \in ClockRead : \E b \in Batches :
        Reads(r, t, Collect(cache, t, Len(b), {}, b).found, Collect(cache, t, Len(b), {}, b).expired)
  BY DEF Get
<1>2. PICK b \in Batches :
        Reads(r, t, Collect(cache, t, Len(b), {}, b).found, Collect(cache, t, Len(b), {}, b).expired)
  BY <1>1
<1> DEFINE answer == Collect(cache, t, Len(b), {}, b)
<1>3. b \in Seq(Articles) /\ Len(b) \in Nat /\ t \in Nat /\ WellFormed(cache)
  BY ClockReadIs, CacheAssumption DEF CacheInv
<1>4. Answers(answer)
  BY <1>3, CollectAnswers
<1>5. Reads(r, t, answer.found, answer.expired)
  BY <1>2
<1> HIDE DEF answer
<1> QED  BY <1>4, <1>5, ReadsKeeps DEF Answers

LEMMA GetHistoryKeeps ==
  ASSUME CacheInv, NEW r \in Readers, GetHistory(r)
  PROVE  CacheInv'
<1>1. PICK t \in ClockRead : \E k \in Articles :
        Reads(r, t, IF IsLive(cache, k, t) /\ k \in DOMAIN cache.hist THEN <<k>> ELSE <<>>,
              {k} \cap {a \in Articles : IsExpired(cache, a, t)})
  BY DEF GetHistory
<1>2. PICK k \in Articles :
        Reads(r, t, IF IsLive(cache, k, t) /\ k \in DOMAIN cache.hist THEN <<k>> ELSE <<>>,
              {k} \cap {a \in Articles : IsExpired(cache, a, t)})
  BY <1>1
<1> DEFINE touched == IF IsLive(cache, k, t) /\ k \in DOMAIN cache.hist THEN <<k>> ELSE <<>>
           expired == {k} \cap {a \in Articles : IsExpired(cache, a, t)}
<1>3. touched \in Seq(Articles)
  OBVIOUS
<1>4. IsFiniteSet(expired)
  <2>1. expired \in SUBSET {k}
    OBVIOUS
  <2>2. IsFiniteSet({k})
    BY FS_Singleton
  <2> QED  BY <2>1, <2>2, FS_Subset
<1>5. Reads(r, t, touched, expired)
  BY <1>2
<1> HIDE DEF touched, expired
<1> QED  BY <1>3, <1>4, <1>5, ReadsKeeps

LEMMA ListConversationContextBeforeKeeps ==
  ASSUME CacheInv, NEW r \in Readers, ListConversationContextBefore(r)
  PROVE  CacheInv'
<1>1. PICK t \in ClockRead : \E q \in Queries :
        Reads(r, t, Context(cache, q, t).found, Context(cache, q, t).expired)
  BY DEF ListConversationContextBefore
<1>2. PICK q \in Queries : Reads(r, t, Context(cache, q, t).found, Context(cache, q, t).expired)
  BY <1>1
<1> DEFINE answer == Context(cache, q, t)
<1>3. t \in Nat /\ WellFormed(cache)
  BY ClockReadIs DEF CacheInv
<1>4. Answers(answer)
  BY <1>3, ContextAnswers
<1>5. Reads(r, t, answer.found, answer.expired)
  BY <1>2
<1> HIDE DEF answer
<1> QED  BY <1>4, <1>5, ReadsKeeps DEF Answers

LEMMA ReconcileReadKeysKeeps ==
  ASSUME CacheInv, NEW r \in Readers, ReconcileReadKeys(r)
  PROVE  CacheInv'
<1> DEFINE c == Reconciled(cache, reader[r])
<1>1. /\ reader[r] # NothingRead /\ cache' = c
      /\ reader' = [reader EXCEPT ![r] = NothingRead]
      /\ now' = now /\ feed' = feed /\ next' = next /\ worker' = worker /\ stopped' = stopped
  BY DEF ReconcileReadKeys
<1>2. reader[r].touched \in Seq(Articles) /\ IsFiniteSet(reader[r].expired)
  BY <1>1 DEF CacheInv, ReaderOK
<1>3. WellFormed(cache) /\ Len(cache.lru) <= MaxEntries
  BY DEF CacheInv
<1>4. Left(cache, reader[r].at, c)
  BY <1>2, <1>3, ReconciledIs
<1>5. WellFormed(c) /\ Len(c.lru) <= Len(cache.lru)
  BY <1>4 DEF Left
<1> HIDE DEF c
<1>6. Len(c.lru) <= MaxEntries
  <2>1. Len(c.lru) \in Nat /\ Len(cache.lru) \in Nat /\ MaxEntries \in Nat
    BY <1>3, <1>5, CacheAssumption DEF WellFormed, ListOK
  <2> QED  BY <1>3, <1>5, <2>1
<1>7. ASSUME NEW v \in Readers PROVE ReaderOK(v)'
  <2>1. CASE v = r
    <3>1. reader'[v] = NothingRead
      BY <1>1, <2>1 DEF CacheInv
    <3> QED  BY <3>1 DEF ReaderOK
  <2>2. CASE v # r
    <3>1. reader'[v] = reader[v]
      BY <1>1, <2>2 DEF CacheInv
    <3> QED  BY <1>1, <3>1 DEF ReaderOK, CacheInv
  <2> QED  BY <2>1, <2>2
<1>8. \A w \in Workers : WorkerOK(w)'
  BY <1>1 DEF CacheInv, WorkerOK
<1>9. DOMAIN reader' = Readers
  BY <1>1 DEF CacheInv
<1> QED  BY <1>1, <1>5, <1>6, <1>7, <1>8, <1>9 DEF CacheInv

LEMMA CacheInvNext == CacheInv /\ [CacheNext]_cacheVars => CacheInv'
<1> SUFFICES ASSUME CacheInv, [CacheNext]_cacheVars PROVE CacheInv'
  OBVIOUS
<1>1. CASE Tick
  <2>4. now' <= MaxTime
    BY <1>1, CacheAssumption DEF Tick, CacheInv
  <2>1. /\ now' = now + 1 /\ feed' = feed /\ next' = next /\ cache' = cache /\ worker' = worker
        /\ reader' = reader /\ stopped' = stopped
    BY <1>1 DEF Tick
  <2>2. \A w \in Workers : WorkerOK(w)'
    BY <2>1 DEF CacheInv, WorkerOK
  <2>3. \A r \in Readers : ReaderOK(r)'
    BY <2>1 DEF CacheInv, ReaderOK
  <2> QED  BY <2>1, <2>2, <2>3, <2>4 DEF CacheInv
<1>2. CASE OnShutdown
  <2>1. /\ stopped' = TRUE /\ cache' = EmptyCache
        /\ now' = now /\ feed' = feed /\ next' = next /\ worker' = worker /\ reader' = reader
    BY <1>2 DEF OnShutdown
  <2>2. WellFormed(EmptyCache) /\ Len(EmptyCache.lru) <= MaxEntries
    BY EmptyIs
  <2>3. \A w \in Workers : WorkerOK(w)'
    BY <2>1 DEF CacheInv, WorkerOK
  <2>4. \A r \in Readers : ReaderOK(r)'
    BY <2>1 DEF CacheInv, ReaderOK
  <2> QED  BY <2>1, <2>2, <2>3, <2>4 DEF CacheInv
<1>3. ASSUME NEW w \in Workers, Take(w) PROVE CacheInv'
  BY <1>3, TakeKeeps
<1>4. ASSUME NEW w \in Workers, RememberCreated(w) PROVE CacheInv'
  BY <1>4, RememberCreatedKeeps
<1>5. ASSUME NEW w \in Workers, AppendEvent(w) PROVE CacheInv'
  BY <1>5, AppendEventKeeps
<1>6. ASSUME NEW w \in Workers, RememberEdit(w) PROVE CacheInv'
  BY <1>6, RememberEditKeeps
<1>7. ASSUME NEW w \in Workers, ForgetRetracted(w) PROVE CacheInv'
  BY <1>7, ForgetRetractedKeeps
<1>8. ASSUME NEW w \in Workers, RememberReaction(w) PROVE CacheInv'
  BY <1>8, RememberReactionKeeps
<1>9. ASSUME NEW r \in Readers, Get(r) PROVE CacheInv'
  BY <1>9, GetKeeps
<1>10. ASSUME NEW r \in Readers, GetHistory(r) PROVE CacheInv'
  BY <1>10, GetHistoryKeeps
<1>11. ASSUME NEW r \in Readers, ListConversationContextBefore(r) PROVE CacheInv'
  BY <1>11, ListConversationContextBeforeKeeps
<1>12. ASSUME NEW r \in Readers, ReconcileReadKeys(r) PROVE CacheInv'
  BY <1>12, ReconcileReadKeysKeeps
<1>13. CASE UNCHANGED cacheVars
  BY <1>13 DEF cacheVars, CacheInv, WorkerOK, ReaderOK
<1> QED  BY <1>1, <1>2, <1>3, <1>4, <1>5, <1>6, <1>7, <1>8, <1>9, <1>10, <1>11, <1>12, <1>13 DEF CacheNext

(* Whatever the workers, the readers and the clock do, the list, the maps, *)
(* the places and the streams of the cache stay one well formed whole.     *)
THEOREM CacheInvHolds == CacheSpec => []CacheInv
<1>1. CacheInit => CacheInv
  BY CacheInvInit
<1>2. CacheInv /\ [CacheNext]_cacheVars => CacheInv'
  BY CacheInvNext
<1> QED  BY <1>1, <1>2, PTL DEF CacheSpec

\* Every variable keeps its type.
THEOREM CacheTypes == CacheSpec => []CacheTypeOK
<1>1. CacheInv => CacheTypeOK
  <2> SUFFICES ASSUME CacheInv PROVE CacheTypeOK
    OBVIOUS
  <2>1. now \in 0..MaxTime /\ feed \in Feeds /\ next \in 1..(Len(feed) + 1) /\ stopped \in BOOLEAN
    BY CacheAssumption DEF CacheInv
  <2>2. \A w \in Workers : worker[w].pc \in {"none", "idle", "created", "append", "remember"}
    BY DEF CacheInv, WorkerOK, Busy
  <2>3. ASSUME NEW r \in Readers
        PROVE  reader[r].at \in (0..MaxTime) \cup {None} /\ ToSet(reader[r].touched) \subseteq Articles
    <3>1. CASE reader[r] = NothingRead
      BY <3>1 DEF NothingRead, ToSet
    <3>2. CASE reader[r] # NothingRead
      <4>1. /\ reader[r].at \in Nat /\ reader[r].at <= now /\ now <= MaxTime /\ now \in Nat
            /\ reader[r].touched \in Seq(Articles)
        BY <3>2 DEF CacheInv, ReaderOK
      <4> QED  BY <4>1, CacheAssumption DEF ToSet
    <3> QED  BY <3>1, <3>2
  <2>4. \A k \in DOMAIN cache.expires : k \in Articles /\ cache.expires[k] \in Nat
    BY DEF CacheInv, WellFormed, ListOK
  <2>5. \A k \in DOMAIN cache.ent : cache.ent[k].thread \in Threads /\ cache.ent[k].reacts \in [Emojis -> Nat]
    BY DEF CacheInv, WellFormed, MapsOK, Projections
  <2> QED  BY <2>1, <2>2, <2>3, <2>4, <2>5 DEF CacheTypeOK
<1> QED  BY <1>1, CacheInvHolds, PTL

\* A sequence without repetitions is as long as the set of its elements.
LEMMA DistinctCounts ==
  ASSUME NEW S, NEW s \in Seq(S), Distinct(s)
  PROVE  IsFiniteSet(ToSet(s)) /\ Cardinality(ToSet(s)) = Len(s)
<1>1. Len(s) \in Nat /\ DOMAIN s = 1..Len(s)
  OBVIOUS
<1>2. ToSet(s) = {s[i] : i \in 1..Len(s)}
  BY <1>1 DEF ToSet
<1>3. s \in [1..Len(s) -> ToSet(s)]
  BY <1>1, <1>2
<1>4. s \in Bijection(1..Len(s), ToSet(s))
  BY <1>1, <1>2, <1>3 DEF Bijection, Injection, Surjection, IsInjective, Distinct
<1>5. ExistsBijection(1..Len(s), ToSet(s))
  BY <1>4 DEF ExistsBijection
<1>6. IsFiniteSet(1..Len(s)) /\ Cardinality(1..Len(s)) = Len(s)
  <2> DEFINE n == Len(s)
  <2>1. n \in Nat /\ 1 \in Int /\ n \in Int
    BY <1>1
  <2>2. IsFiniteSet(1..n) /\ Cardinality(1..n) = IF 1 > n THEN 0 ELSE n - 1 + 1
    <3> HIDE DEF n
    <3> QED  BY <2>1, FS_Interval
  <2> QED  BY <2>1, <2>2
<1> QED  BY <1>5, <1>6, FS_Bijection

\* The places and the projections name the same entries.
LEMMA PlacedIsEntriesOf ==
  ASSUME WellFormed(cache), NEW th \in Threads
  PROVE  Placed(cache, th) = EntriesOf(th)
<1>1. /\ DOMAIN cache.loc = DOMAIN cache.ent
      /\ \A k \in DOMAIN cache.loc :
           cache.loc[k].thread = cache.ent[k].thread /\ cache.loc[k].created = cache.ent[k].created
  BY DEF WellFormed, PlacesOK
<1>2. {a \in DOMAIN cache.loc : cache.loc[a].thread = th} = {a \in DOMAIN cache.ent : cache.ent[a].thread = th}
  BY <1>1
<1>3. \A k \in DOMAIN cache.ent :
        Entry(k, cache.loc[k]) = [art |-> k, created |-> cache.ent[k].created, seq |-> cache.loc[k].seq]
  BY <1>1 DEF Entry
<1> QED  BY <1>2, <1>3 DEF Placed, EntriesOf

(* The list, the maps and the streams are one cache, for any number of     *)
(* workers and readers, any capacity and any feed (storage.go,             *)
(* conversation_index.go).                                                 *)
THEOREM OneCacheHolds == CacheSpec => []OneCache
<1>1. CacheInv => OneCache
  <2> SUFFICES ASSUME CacheInv PROVE OneCache
    OBVIOUS
  <2>1. WellFormed(cache) /\ Len(cache.lru) <= MaxEntries
    BY DEF CacheInv
  <2>2. ListIsCache
    <3>1. /\ cache.lru \in Seq(Articles) /\ Distinct(cache.lru)
          /\ ToSet(cache.lru) = DOMAIN cache.expires
      BY <2>1 DEF WellFormed, ListOK
    <3>2. Cardinality(ToSet(cache.lru)) = Len(cache.lru)
      BY <3>1, DistinctCounts
    <3>3. DOMAIN cache.ent \cup DOMAIN cache.hist \subseteq DOMAIN cache.expires
      BY <2>1 DEF WellFormed, MapsOK
    <3>4. DOMAIN cache.loc = DOMAIN cache.ent
      BY <2>1 DEF WellFormed, PlacesOK
    <3> QED  BY <2>1, <3>1, <3>2, <3>3, <3>4 DEF ListIsCache
  <2>3. ASSUME NEW th \in Threads
        PROVE  /\ ToSet(cache.streams[th]) = EntriesOf(th)
               /\ Len(cache.streams[th]) = Cardinality(EntriesOf(th))
    <3>1. /\ cache.streams[th] \in Seq(Entries) /\ Sorted(cache.streams[th])
          /\ ToSet(cache.streams[th]) = Placed(cache, th)
      BY <2>1 DEF WellFormed, StreamsOK
    <3>2. Distinct(cache.streams[th])
      BY <3>1, SortedDistinct
    <3>3. Cardinality(ToSet(cache.streams[th])) = Len(cache.streams[th])
      BY <3>1, <3>2, DistinctCounts
    <3>4. Placed(cache, th) = EntriesOf(th)
      BY <2>1, PlacedIsEntriesOf
    <3> QED  BY <3>1, <3>3, <3>4
  <2> QED  BY <2>2, <2>3 DEF OneCache, StreamsMirror
<1> QED  BY <1>1, CacheInvHolds, PTL

(* However late the second half of a read comes, it removes no record that *)
(* is live: what was refreshed since it looked at the clock stays          *)
(* (service.go:514).                                                       *)
THEOREM ReadersSpareLiveHolds == CacheSpec => ReadersSpareLive
<1>1. CacheInv /\ [CacheNext]_cacheVars =>
        [\A r \in Readers : ReconcileReadKeys(r) =>
           \A k \in DOMAIN cache.expires \ DOMAIN cache'.expires : now >= cache.expires[k]]_cacheVars
  <2> SUFFICES ASSUME CacheInv, NEW r \in Readers, ReconcileReadKeys(r),
                      NEW k \in DOMAIN cache.expires \ DOMAIN cache'.expires
               PROVE  now >= cache.expires[k]
    OBVIOUS
  <2>1. reader[r] # NothingRead /\ cache' = Reconciled(cache, reader[r])
    BY DEF ReconcileReadKeys
  <2>2. /\ reader[r].touched \in Seq(Articles) /\ IsFiniteSet(reader[r].expired)
        /\ reader[r].at \in Nat /\ reader[r].at <= now /\ now \in Nat
    BY <2>1 DEF CacheInv, ReaderOK
  <2>3. Left(cache, reader[r].at, cache')
    <3>1. WellFormed(cache)
      BY DEF CacheInv
    <3>2. Left(cache, reader[r].at, Reconciled(cache, reader[r]))
      BY <2>2, <3>1, ReconciledIs
    <3> QED  BY <2>1, <3>2
  <2>4. reader[r].at >= cache.expires[k] /\ cache.expires[k] \in Nat
    BY <2>3 DEF Left, CacheInv, WellFormed, ListOK
  <2> QED  BY <2>2, <2>4
<1> QED  BY <1>1, CacheInvHolds, PTL DEF CacheSpec, ReadersSpareLive

-----------------------------------------------------------------------------
(* Context queries.                                                        *)

\* The order of the entries is the order of the projections.
LEMMA EntryOrder ==
  ASSUME WellFormed(cache), NEW a \in DOMAIN cache.ent, NEW b \in DOMAIN cache.ent
  PROVE  Less(Entry(a, cache.loc[a]), Entry(b, cache.loc[b])) <=> Earlier(a, b)
<1>1. /\ cache.loc[a].created = cache.ent[a].created /\ cache.loc[b].created = cache.ent[b].created
  BY DEF WellFormed, PlacesOK
<1> QED  BY <1>1 DEF Less, Entry, Earlier

\* It is a strict order.
LEMMA EarlierIsStrict ==
  ASSUME WellFormed(cache), NEW a \in DOMAIN cache.ent, NEW b \in DOMAIN cache.ent, Earlier(a, b)
  PROVE  a # b /\ ~Earlier(b, a)
<1>1. /\ cache.ent[a].created \in Nat /\ cache.ent[b].created \in Nat
      /\ cache.loc[a].seq \in Nat /\ cache.loc[b].seq \in Nat
  BY DEF WellFormed, PlacesOK, MapsOK, Projections, Locations
<1> QED  BY <1>1 DEF Earlier

\* Only finitely many articles have a projection.
LEMMA ProjectionsFinite ==
  ASSUME WellFormed(cache), NEW T \in SUBSET DOMAIN cache.ent
  PROVE  IsFiniteSet(T) /\ Cardinality(T) \in Nat
<1>1. cache.lru \in Seq(Articles) /\ Distinct(cache.lru) /\ T \subseteq ToSet(cache.lru)
  BY DEF WellFormed, ListOK, MapsOK
<1>2. IsFiniteSet(ToSet(cache.lru))
  BY <1>1, DistinctCounts
<1>3. IsFiniteSet(T)
  BY <1>1, <1>2, FS_Subset
<1> QED  BY <1>3, FS_CardinalityType

\* The latest articles of a pool, the last of them first.
LatestOf(found, pool, limit) ==
  /\ ToSet(found) = {k \in pool : Cardinality({j \in pool : Earlier(k, j)}) < limit}
  /\ \A i \in DOMAIN found : \A j \in DOMAIN found : i < j => Earlier(found[j], found[i])

LEMMA PrefixIs ==
  ASSUME NEW S, NEW s \in Seq(S), NEW m \in 1..Len(s)
  PROVE  /\ SubSeq(s, 1, m - 1) \in Seq(S) /\ Len(SubSeq(s, 1, m - 1)) = m - 1
         /\ \A i \in 1..(m - 1) : SubSeq(s, 1, m - 1)[i] = s[i]
OBVIOUS

(* Of keys that go from later to earlier articles, a read answers with the *)
(* latest that are to be shown, as many as its limit allows.               *)
LEMMA LatestFirst ==
  ASSUME WellFormed(cache), NEW limit \in Nat, NEW skipped, NEW keys \in Seq(Articles), NEW acc,
         \A b \in 1..Len(keys) : keys[b] \in DOMAIN cache.ent,
         \A b \in 1..Len(keys) : \A a \in 1..(b - 1) : Earlier(keys[b], keys[a]),
         Gathers(cache, now, limit, skipped, keys, Len(keys), acc),
         NEW pool, pool = {k \in ToSet(keys) : Shown(cache, now, skipped, k)}
  PROVE  LatestOf(acc.found, pool, limit)
<1> DEFINE F == acc.found
           Later(k) == {j \in pool : Earlier(k, j)}
<1>1. /\ F \in Seq(Articles) /\ Len(F) <= limit
      /\ \A m \in 1..Len(F) : Shown(cache, now, skipped, F[m]) /\ \E a \in 1..Len(keys) : F[m] = keys[a]
      /\ \A n \in 1..Len(F) : \A m \in 1..(n - 1) :
           \E b \in 1..Len(keys) : \E a \in 1..(b - 1) : F[m] = keys[a] /\ F[n] = keys[b]
      /\ \A j \in 1..Len(keys) : Shown(cache, now, skipped, keys[j]) =>
           \/ \E m \in 1..Len(F) : F[m] = keys[j]
           \/ /\ Len(F) = limit
              /\ \A m \in 1..Len(F) : \E a \in 1..(j - 1) : F[m] = keys[a]
  BY DEF Gathers
<1> HIDE DEF F
<1>2. Len(F) \in Nat /\ DOMAIN F = 1..Len(F) /\ Len(keys) \in Nat /\ DOMAIN keys = 1..Len(keys)
  BY <1>1
<1>3. \A m \in 1..Len(F) : F[m] \in pool
  BY <1>1, <1>2 DEF ToSet
<1>4. \A n \in 1..Len(F) : \A m \in 1..(n - 1) : Earlier(F[n], F[m])
  <2> SUFFICES ASSUME NEW n \in 1..Len(F), NEW m \in 1..(n - 1) PROVE Earlier(F[n], F[m])
    OBVIOUS
  <2>1. PICK b \in 1..Len(keys) : \E a \in 1..(b - 1) : F[m] = keys[a] /\ F[n] = keys[b]
    BY <1>1
  <2> QED  BY <2>1
<1>5. pool \in SUBSET DOMAIN cache.ent
  BY DEF Shown
<1>6. Distinct(F)
  <2> SUFFICES ASSUME NEW i \in 1..Len(F), NEW j \in 1..Len(F), F[i] = F[j], i < j PROVE FALSE
    BY <1>2 DEF Distinct
  <2>1. Earlier(F[j], F[i])
    BY <1>2, <1>4
  <2> QED  BY <1>3, <1>5, <2>1, EarlierIsStrict
<1>7. ASSUME NEW k \in ToSet(F) PROVE k \in pool /\ Cardinality(Later(k)) < limit
  <2>1. PICK m \in 1..Len(F) : F[m] = k
    BY <1>2 DEF ToSet
  <2>2. k \in pool
    BY <1>3, <2>1
  <2> DEFINE G == SubSeq(F, 1, m - 1)
  <2>3. G \in Seq(Articles) /\ Len(G) = m - 1 /\ \A i \in 1..(m - 1) : G[i] = F[i]
    BY <1>1, PrefixIs
  <2> HIDE DEF G
  <2>4. Distinct(G)
    <3> SUFFICES ASSUME NEW i \in 1..(m - 1), NEW j \in 1..(m - 1), G[i] = G[j] PROVE i = j
      BY <2>3 DEF Distinct
    <3>1. i \in DOMAIN F /\ j \in DOMAIN F /\ F[i] = F[j]
      BY <1>2, <2>3
    <3> QED  BY <1>6, <3>1 DEF Distinct
  <2>5. ASSUME NEW j \in Later(k) PROVE j \in ToSet(G)
    <3>1. j \in pool /\ Earlier(k, j) /\ ~Earlier(j, k) /\ j # k
      BY <1>5, <2>2, EarlierIsStrict
    <3>2. PICK y \in 1..Len(keys) : keys[y] = j /\ Shown(cache, now, skipped, keys[y])
      BY <1>2, <3>1 DEF ToSet
    <3>3. CASE \E l \in 1..Len(F) : F[l] = keys[y]
      <4>1. PICK l \in 1..Len(F) : F[l] = j
        BY <3>2, <3>3
      <4>2. ~(l > m)
        <5> SUFFICES ASSUME l > m PROVE FALSE
          OBVIOUS
        <5>1. m \in 1..(l - 1)
          OBVIOUS
        <5> QED  BY <1>4, <2>1, <3>1, <4>1, <5>1
      <4>3. l # m
        BY <2>1, <3>1, <4>1
      <4>4. l \in 1..(m - 1)
        BY <4>2, <4>3
      <4> QED  BY <2>3, <4>1, <4>4 DEF ToSet
    <3>4. CASE ~\E l \in 1..Len(F) : F[l] = keys[y]
      <4>1. PICK a \in 1..(y - 1) : F[m] = keys[a]
        BY <1>1, <3>2, <3>4
      <4>2. Earlier(keys[y], keys[a])
        OBVIOUS
      <4> QED  BY <2>1, <3>1, <3>2, <4>1, <4>2
    <3> QED  BY <3>3, <3>4
  <2>6. IsFiniteSet(ToSet(G)) /\ Cardinality(ToSet(G)) = m - 1
    BY <2>3, <2>4, DistinctCounts
  <2>7. Later(k) \in SUBSET ToSet(G)
    BY <2>5
  <2> HIDE DEF Later
  <2>8. Cardinality(Later(k)) <= m - 1 /\ Cardinality(Later(k)) \in Nat
    BY <2>6, <2>7, FS_Subset, FS_CardinalityType
  <2>9. m - 1 \in Int /\ m - 1 < limit
    <3>1. Len(F) <= limit
      BY <1>1
    <3> QED  BY <1>2, <3>1
  <2> QED  BY <2>2, <2>8, <2>9
<1>8. ASSUME NEW k \in pool, Cardinality(Later(k)) < limit PROVE k \in ToSet(F)
  <2> SUFFICES ASSUME k \notin ToSet(F) PROVE FALSE
    OBVIOUS
  <2>1. PICK x \in 1..Len(keys) : keys[x] = k /\ Shown(cache, now, skipped, keys[x])
    BY <1>2 DEF ToSet
  <2>2. ~\E m \in 1..Len(F) : F[m] = keys[x]
    BY <1>2, <2>1 DEF ToSet
  <2>3. Len(F) = limit /\ \A m \in 1..Len(F) : \E a \in 1..(x - 1) : F[m] = keys[a]
    BY <1>1, <2>1, <2>2
  <2>4. ASSUME NEW m \in 1..Len(F) PROVE F[m] \in Later(k)
    <3>1. PICK a \in 1..(x - 1) : F[m] = keys[a]
      BY <2>3
    <3>2. Earlier(keys[x], keys[a])
      OBVIOUS
    <3> QED  BY <1>3, <2>1, <3>1, <3>2
  <2>5. ToSet(F) \in SUBSET Later(k)
    BY <1>2, <2>4 DEF ToSet
  <2>6. Later(k) \in SUBSET DOMAIN cache.ent
    BY <1>5
  <2>9. Cardinality(Later(k)) < limit
    BY <1>8
  <2> HIDE DEF Later
  <2>7. IsFiniteSet(Later(k)) /\ Cardinality(Later(k)) \in Nat
    BY <2>6, ProjectionsFinite
  <2>8. Cardinality(ToSet(F)) <= Cardinality(Later(k)) /\ Cardinality(ToSet(F)) = limit
    <3>1. Cardinality(ToSet(F)) <= Cardinality(Later(k))
      BY <2>5, <2>7, FS_Subset
    <3>2. Cardinality(ToSet(F)) = limit
      BY <1>1, <1>6, <2>3, DistinctCounts
    <3> QED  BY <3>1, <3>2
  <2> QED  BY <2>7, <2>8, <2>9
<1>9. ToSet(F) = {k \in pool : Cardinality(Later(k)) < limit}
  BY <1>7, <1>8
<1>10. \A i \in DOMAIN F : \A j \in DOMAIN F : i < j => Earlier(F[j], F[i])
  BY <1>2, <1>4
<1> QED  BY <1>9, <1>10 DEF F, LatestOf

\* The first n articles of a stream, from later to earlier.
LEMMA NewestFirst ==
  ASSUME WellFormed(cache), NEW th \in Threads, NEW s, s = cache.streams[th], NEW n \in 0..Len(s)
  PROVE  /\ Newest(s, n) \in Seq(Articles)
         /\ \A b \in 1..Len(Newest(s, n)) : Newest(s, n)[b] \in DOMAIN cache.ent
         /\ \A b \in 1..Len(Newest(s, n)) : \A a \in 1..(b - 1) :
              Earlier(Newest(s, n)[b], Newest(s, n)[a])
         /\ ToSet(Newest(s, n)) =
              {k \in DOMAIN cache.ent : \E i \in 1..n : s[i] = Entry(k, cache.loc[k])}
<1> DEFINE r == Newest(s, n)
<1>1. /\ s \in Seq(Entries) /\ Sorted(s) /\ ToSet(s) = Placed(cache, th)
      /\ DOMAIN cache.loc = DOMAIN cache.ent
  BY DEF WellFormed, StreamsOK, PlacesOK
<1>2. /\ r \in Seq(Articles) /\ Len(r) = n
      /\ \A i \in 1..n : n + 1 - i \in 1..n /\ r[i] = s[n + 1 - i].art
  BY <1>1, NewestIs
<1>3. \A i \in 1..n : s[i].art \in DOMAIN cache.ent /\ s[i] = Entry(s[i].art, cache.loc[s[i].art])
  <2> SUFFICES ASSUME NEW i \in 1..n
               PROVE  s[i].art \in DOMAIN cache.ent /\ s[i] = Entry(s[i].art, cache.loc[s[i].art])
    OBVIOUS
  <2>1. s[i] \in Placed(cache, th)
    BY <1>1 DEF ToSet
  <2>2. PICK k \in DOMAIN cache.loc : s[i] = Entry(k, cache.loc[k])
    BY <2>1 DEF Placed
  <2>3. s[i].art = k
    BY <2>2 DEF Entry
  <2> QED  BY <1>1, <2>2, <2>3
<1> HIDE DEF r
<1>4. \A b \in 1..n : r[b] \in DOMAIN cache.ent
  BY <1>2, <1>3
<1>5. ASSUME NEW b \in 1..n, NEW a \in 1..(b - 1) PROVE Earlier(r[b], r[a])
  <2> DEFINE i == n + 1 - b  j == n + 1 - a
  <2>1. i \in 1..n /\ j \in 1..n /\ i < j /\ a \in 1..n
    OBVIOUS
  <2>2. r[b] = s[i].art /\ r[a] = s[j].art
    BY <1>2, <2>1
  <2> HIDE DEF i, j
  <2>3. Less(s[i], s[j])
    BY <1>1, <2>1 DEF Sorted
  <2>4. Earlier(s[i].art, s[j].art)
    BY <1>3, <2>1, <2>3, EntryOrder
  <2> QED  BY <2>2, <2>4
<1>6. ToSet(r) = {k \in DOMAIN cache.ent : \E i \in 1..n : s[i] = Entry(k, cache.loc[k])}
  <2>1. ASSUME NEW k \in ToSet(r)
        PROVE  k \in DOMAIN cache.ent /\ \E i \in 1..n : s[i] = Entry(k, cache.loc[k])
    <3>1. PICK b \in 1..n : r[b] = k
      BY <1>2 DEF ToSet
    <3> DEFINE i == n + 1 - b
    <3>2. i \in 1..n /\ k = s[i].art
      BY <1>2, <3>1
    <3> HIDE DEF i
    <3> QED  BY <1>3, <3>2
  <2>2. ASSUME NEW k \in DOMAIN cache.ent, NEW i \in 1..n, s[i] = Entry(k, cache.loc[k])
        PROVE  k \in ToSet(r)
    <3> DEFINE b == n + 1 - i
    <3>1. b \in 1..n /\ n + 1 - b = i
      OBVIOUS
    <3>2. r[b] = s[n + 1 - b].art
      BY <1>2, <3>1
    <3> HIDE DEF b
    <3>3. r[b] = k
      BY <2>2, <3>1, <3>2 DEF Entry
    <3> QED  BY <1>2, <3>1, <3>3 DEF ToSet
  <2> QED  BY <2>1, <2>2
<1> QED  BY <1>2, <1>4, <1>5, <1>6 DEF r

\* The articles Asked chooses from.
Shows(q) == {k \in DOMAIN cache.ent : now < cache.expires[k] /\ k \notin q.exclude \cup {q.anchor}}
InPlace(q) ==
  /\ q.anchor \in DOMAIN cache.ent /\ now < cache.expires[q.anchor]
  /\ q.thread \in {Main, cache.ent[q.anchor].thread}
PoolOf(q) ==
  IF InPlace(q)
  THEN {k \in Shows(q) : cache.ent[k].thread = cache.ent[q.anchor].thread /\ Earlier(k, q.anchor)}
  ELSE {k \in Shows(q) : q.at # None /\ cache.ent[k].thread = q.thread /\ cache.ent[k].created <= q.at}

LEMMA AskedIs ==
  ASSUME NEW q
  PROVE  Asked(q) = {k \in PoolOf(q) : Cardinality({j \in PoolOf(q) : Earlier(k, j)}) < q.limit}
BY DEF Asked, PoolOf, InPlace, Shows

\* An answer and what was asked for.
Right(q, found) == LatestOf(found, PoolOf(q), q.limit)

LEMMA LiveIs ==
  ASSUME WellFormed(cache), NEW k \in DOMAIN cache.ent
  PROVE  IsLive(cache, k, now) <=> now < cache.expires[k]
BY DEF WellFormed, MapsOK, IsLive

\* A query placed by its anchor.
LEMMA BeforeIsRight ==
  ASSUME CacheInv, NEW q \in Queries, Anchored(cache, q, now)
  PROVE  Right(q, Before(cache, q, now).found)
<1> DEFINE place == Entry(q.anchor, cache.loc[q.anchor])
           th == cache.loc[q.anchor].thread
           s == cache.streams[th]
           n == Place(s, place) - 1
           keys == Newest(s, n)
           acc == Collect(cache, now, q.limit, q.exclude, keys)
<1>1. WellFormed(cache) /\ now \in Nat /\ q.limit \in Nat
  BY CacheAssumption DEF CacheInv
<1>2. /\ DOMAIN cache.loc = DOMAIN cache.ent
      /\ \A k \in DOMAIN cache.ent : cache.loc[k] \in Locations /\ cache.loc[k].thread = cache.ent[k].thread
  BY <1>1 DEF WellFormed, PlacesOK
<1>3. q.anchor \in DOMAIN cache.ent /\ q.anchor \in Articles /\ th \in Threads /\ place \in Entries
  <2>1. q.anchor \in DOMAIN cache.ent
    BY <1>2 DEF Anchored
  <2>2. q.anchor \in Articles
    BY <1>1, <2>1 DEF WellFormed, MapsOK, ListOK
  <2> QED  BY <1>2, <2>1, <2>2 DEF Locations, Entry, Entries
<1>4. s \in Seq(Entries) /\ Sorted(s) /\ ToSet(s) = Placed(cache, th)
  BY <1>1, <1>3 DEF WellFormed, StreamsOK
<1>5. Before(cache, q, now) = acc
  BY DEF Before
<1>6. n \in 0..Len(s) /\ \A j \in 1..Len(s) : Less(s[j], place) <=> j \in 1..n
  <2>1. /\ Place(s, place) \in 1..(Len(s) + 1)
        /\ \A j \in 1..Len(s) : Less(s[j], place) <=> j < Place(s, place)
    BY <1>3, <1>4, PlaceIs
  <2> DEFINE p == Place(s, place)
  <2>2. p \in 1..(Len(s) + 1) /\ (\A j \in 1..Len(s) : Less(s[j], place) <=> j < p) /\ n = p - 1
    BY <2>1
  <2> HIDE DEF p, n
  <2>3. \A j \in 1..Len(s) : j < p <=> j \in 1..n
    BY <2>2
  <2> QED  BY <2>2, <2>3
<1> HIDE DEF n
<1>7. /\ keys \in Seq(Articles)
      /\ \A b \in 1..Len(keys) : keys[b] \in DOMAIN cache.ent
      /\ \A b \in 1..Len(keys) : \A a \in 1..(b - 1) : Earlier(keys[b], keys[a])
      /\ ToSet(keys) = {k \in DOMAIN cache.ent : \E i \in 1..n : s[i] = Entry(k, cache.loc[k])}
  <2> HIDE DEF th
  <2> QED  BY <1>1, <1>3, <1>6, NewestFirst
<1> HIDE DEF keys
<1>8. Gathers(cache, now, q.limit, q.exclude, keys, Len(keys), acc)
  BY <1>1, <1>7, CollectIs
<1> HIDE DEF acc
<1>9. InPlace(q)
  BY <1>1, <1>2, <1>3, LiveIs DEF Anchored, InPlace
<1>12. /\ th = cache.ent[q.anchor].thread
       /\ \A k \in DOMAIN cache.ent : Less(Entry(k, cache.loc[k]), place) <=> Earlier(k, q.anchor)
  BY <1>1, <1>2, <1>3, EntryOrder
<1> HIDE DEF s, th, place
<1>10. PoolOf(q) = {k \in ToSet(keys) : Shown(cache, now, q.exclude, k)}
  <2>1. ASSUME NEW k \in PoolOf(q) PROVE k \in ToSet(keys) /\ Shown(cache, now, q.exclude, k)
    <3>1. /\ k \in DOMAIN cache.ent /\ now < cache.expires[k] /\ k \notin q.exclude
          /\ cache.ent[k].thread = cache.ent[q.anchor].thread /\ Earlier(k, q.anchor)
      BY <1>9 DEF PoolOf, Shows
    <3>2. Entry(k, cache.loc[k]) \in ToSet(s)
      BY <1>2, <1>4, <1>12, <3>1 DEF Placed
    <3>3. PICK i \in 1..Len(s) : s[i] = Entry(k, cache.loc[k])
      BY <1>4, <3>2 DEF ToSet
    <3>4. Less(s[i], place)
      BY <1>12, <3>1, <3>3
    <3>5. k \in ToSet(keys)
      BY <1>6, <1>7, <3>1, <3>3, <3>4
    <3> QED  BY <1>1, <3>1, <3>5, LiveIs DEF Shown
  <2>2. ASSUME NEW k \in ToSet(keys), Shown(cache, now, q.exclude, k) PROVE k \in PoolOf(q)
    <3>1. k \in DOMAIN cache.ent /\ k \notin q.exclude /\ now < cache.expires[k]
      BY <1>1, <1>7, <2>2, LiveIs DEF Shown
    <3>2. PICK i \in 1..n : s[i] = Entry(k, cache.loc[k])
      BY <1>7
    <3>3. i \in 1..Len(s) /\ Less(s[i], place)
      BY <1>4, <1>6, <3>2
    <3>4. Earlier(k, q.anchor) /\ k # q.anchor
      BY <1>1, <1>3, <1>12, <3>1, <3>2, <3>3, EarlierIsStrict
    <3>5. cache.ent[k].thread = cache.ent[q.anchor].thread
      <4>1. s[i] \in Placed(cache, th)
        BY <1>4, <3>3 DEF ToSet
      <4>2. PICK j \in DOMAIN cache.loc : cache.loc[j].thread = th /\ s[i] = Entry(j, cache.loc[j])
        BY <4>1 DEF Placed
      <4>3. j = k
        BY <3>2, <4>2 DEF Entry
      <4> QED  BY <1>2, <1>12, <4>2, <4>3
    <3> QED  BY <1>9, <3>1, <3>4, <3>5 DEF PoolOf, Shows
  <2> QED  BY <2>1, <2>2
<1>11. LatestOf(acc.found, PoolOf(q), q.limit)
  BY <1>1, <1>7, <1>8, <1>10, LatestFirst
<1> QED  BY <1>5, <1>11 DEF Right

\* A query placed by its moment.
LEMMA UntilIsRight ==
  ASSUME CacheInv, NEW q \in Queries, ~Anchored(cache, q, now), q.at # None
  PROVE  Right(q, Until(cache, q, now).found)
<1> DEFINE later == {k \in DOMAIN cache.loc : cache.loc[k].created > q.at}
           s == cache.streams[q.thread]
           skipped == q.exclude \cup {q.anchor} \cup later
           n == Len(s)
           keys == Newest(s, n)
           acc == Collect(cache, now, q.limit, skipped, keys)
<1>1. /\ WellFormed(cache) /\ now \in Nat /\ q.limit \in Nat
      /\ q.thread \in Threads /\ q.at \in Nat
  BY CacheAssumption DEF CacheInv
<1>2. /\ DOMAIN cache.loc = DOMAIN cache.ent
      /\ \A k \in DOMAIN cache.ent :
           /\ cache.loc[k].thread = cache.ent[k].thread /\ cache.loc[k].created = cache.ent[k].created
           /\ cache.ent[k].created \in Nat
  BY <1>1 DEF WellFormed, PlacesOK, MapsOK, Projections
<1>3. s \in Seq(Entries) /\ ToSet(s) = Placed(cache, q.thread)
  BY <1>1 DEF WellFormed, StreamsOK
<1>4. Until(cache, q, now) = acc
  BY DEF Until
<1>5. ~InPlace(q)
  BY <1>1, <1>2, LiveIs DEF Anchored, InPlace
<1>6. n \in 0..Len(s)
  BY <1>3
<1> HIDE DEF n
<1>7. /\ keys \in Seq(Articles)
      /\ \A b \in 1..Len(keys) : keys[b] \in DOMAIN cache.ent
      /\ \A b \in 1..Len(keys) : \A a \in 1..(b - 1) : Earlier(keys[b], keys[a])
      /\ ToSet(keys) = {k \in DOMAIN cache.ent : \E i \in 1..n : s[i] = Entry(k, cache.loc[k])}
  BY <1>1, <1>6, NewestFirst
<1> HIDE DEF keys
<1>8. \A k \in DOMAIN cache.ent :
        k \notin skipped <=> k \notin q.exclude \cup {q.anchor} /\ cache.ent[k].created <= q.at
  BY <1>1, <1>2
<1> HIDE DEF skipped
<1>9. Gathers(cache, now, q.limit, skipped, keys, Len(keys), acc)
  BY <1>1, <1>7, CollectIs
<1> HIDE DEF acc
<1>10. PoolOf(q) = {k \in ToSet(keys) : Shown(cache, now, skipped, k)}
  <2>1. ASSUME NEW k \in PoolOf(q) PROVE k \in ToSet(keys) /\ Shown(cache, now, skipped, k)
    <3>1. /\ k \in DOMAIN cache.ent /\ now < cache.expires[k] /\ k \notin q.exclude \cup {q.anchor}
          /\ cache.ent[k].thread = q.thread /\ cache.ent[k].created <= q.at
      BY <1>5 DEF PoolOf, Shows
    <3>2. Entry(k, cache.loc[k]) \in ToSet(s)
      BY <1>2, <1>3, <3>1 DEF Placed
    <3>3. PICK i \in 1..Len(s) : s[i] = Entry(k, cache.loc[k])
      BY <1>3, <3>2 DEF ToSet
    <3>4. k \in ToSet(keys)
      BY <1>7, <3>1, <3>3 DEF n
    <3> QED  BY <1>1, <1>8, <3>1, <3>4, LiveIs DEF Shown
  <2>2. ASSUME NEW k \in ToSet(keys), Shown(cache, now, skipped, k) PROVE k \in PoolOf(q)
    <3>1. /\ k \in DOMAIN cache.ent /\ k \notin q.exclude \cup {q.anchor} /\ cache.ent[k].created <= q.at
          /\ now < cache.expires[k]
      BY <1>1, <1>7, <1>8, <2>2, LiveIs DEF Shown
    <3>2. PICK i \in 1..n : s[i] = Entry(k, cache.loc[k])
      BY <1>7
    <3>3. s[i] \in Placed(cache, q.thread)
      BY <1>3, <3>2 DEF ToSet, n
    <3>4. PICK j \in DOMAIN cache.loc : cache.loc[j].thread = q.thread /\ s[i] = Entry(j, cache.loc[j])
      BY <3>3 DEF Placed
    <3>5. j = k
      BY <3>2, <3>4 DEF Entry
    <3> QED  BY <1>2, <1>5, <3>1, <3>4, <3>5 DEF PoolOf, Shows
  <2> QED  BY <2>1, <2>2
<1>11. LatestOf(acc.found, PoolOf(q), q.limit)
  BY <1>1, <1>7, <1>9, <1>10, LatestFirst
<1> QED  BY <1>4, <1>11 DEF Right

\* A query for nothing, or with nothing to place it.
LEMMA NothingIsRight ==
  ASSUME CacheInv, NEW q \in Queries, q.limit = 0 \/ (~Anchored(cache, q, now) /\ q.at = None)
  PROVE  Right(q, NothingFound.found)
<1>1. WellFormed(cache)
  BY DEF CacheInv
<1>2. NothingFound.found = <<>>
  BY DEF NothingFound
<1>3. PoolOf(q) \subseteq DOMAIN cache.ent
  BY DEF PoolOf, Shows
<1>4. ASSUME NEW k \in PoolOf(q), Cardinality({j \in PoolOf(q) : Earlier(k, j)}) < q.limit PROVE FALSE
  <2>1. CASE q.limit = 0
    <3>1. {j \in PoolOf(q) : Earlier(k, j)} \in SUBSET DOMAIN cache.ent
      BY <1>3
    <3>2. Cardinality({j \in PoolOf(q) : Earlier(k, j)}) \in Nat
      BY <1>1, <3>1, ProjectionsFinite
    <3> QED  BY <1>4, <2>1, <3>2
  <2>2. CASE ~Anchored(cache, q, now) /\ q.at = None
    <3>1. DOMAIN cache.loc = DOMAIN cache.ent
          /\ \A i \in DOMAIN cache.ent : cache.loc[i].thread = cache.ent[i].thread
      BY <1>1 DEF WellFormed, PlacesOK
    <3>2. ~InPlace(q)
      BY <1>1, <2>2, <3>1, LiveIs DEF Anchored, InPlace
    <3> QED  BY <2>2, <3>2 DEF PoolOf
  <2> QED  BY <2>1, <2>2
<1> QED  BY <1>2, <1>4 DEF Right, LatestOf, ToSet

(* A context query answers with the latest live articles of the thread     *)
(* before its anchor or its moment, as many as it asks for, in order, in   *)
(* every cache that can arise (service.go:196).                            *)
THEOREM ContextIsRightHolds == CacheSpec => []ContextIsRight
<1>1. CacheInv => ContextIsRight
  <2> SUFFICES ASSUME CacheInv, NEW q \in Queries PROVE Right(q, Context(cache, q, now).found)
    BY AskedIs DEF ContextIsRight, Right, LatestOf
  <2>1. q.limit \in Nat
    BY CacheAssumption
  <2>2. CASE q.limit > 0 /\ Anchored(cache, q, now)
    BY <2>2, BeforeIsRight DEF Context
  <2>3. CASE q.limit > 0 /\ ~Anchored(cache, q, now) /\ q.at # None
    BY <2>3, UntilIsRight DEF Context
  <2>4. CASE ~(q.limit > 0 /\ Anchored(cache, q, now)) /\ ~(q.limit > 0 /\ ~Anchored(cache, q, now) /\ q.at # None)
    BY <2>1, <2>4, NothingIsRight DEF Context
  <2> QED  BY <2>2, <2>3, <2>4
<1> QED  BY <1>1, CacheInvHolds, PTL

-----------------------------------------------------------------------------
(* What one worker makes of the events.                                    *)

\* A worker between the two sections of an event of the article.
Midway(x, k) == x.pc = "remember" /\ x.ev.art = k

TextKinds == {"created", "edited"}

\* A history ends with an event of its article, and with a retraction only in between.
HistoryOK(f, h, x, k) ==
  /\ h # <<>> /\ Last(h).art = k /\ \E j \in DOMAIN f : f[j] = Last(h)
  /\ IF Midway(x, k) THEN Last(h) = x.ev ELSE Last(h).kind # "retracted"

\* A projection counts what its history holds, in between all but the last.
ProjectionOK(c, x, k) ==
  IF Midway(x, k) THEN k \in DOMAIN c.hist /\ c.ent[k].reacts = FromHistory(Front(c.hist[k]))
  ELSE /\ c.ent[k].reacts = FromHistory(History(c, k))
       /\ k \in DOMAIN c.hist /\ Last(c.hist[k]).kind \in TextKinds => c.ent[k].text = Last(c.hist[k]).id

RecordOK(f, c, x, k) ==
  /\ k \in DOMAIN c.hist => HistoryOK(f, c.hist[k], x, k)
  /\ k \in DOMAIN c.ent => ProjectionOK(c, x, k)

Latest(f, i, k, kinds, n) ==
  /\ i \in 1..n /\ f[i].art = k /\ f[i].kind \in kinds
  /\ \A j \in (i + 1)..n : ~(f[j].art = k /\ f[j].kind \in kinds)

\* A projection agrees with the first n events.
FollowsAt(f, c, n, k) ==
  k \in DOMAIN c.ent =>
    /\ \A i \in 1..n : Latest(f, i, k, Kinds, n) => f[i].kind # "retracted"
    /\ \E i \in 1..n : Latest(f, i, k, TextKinds, n) /\ c.ent[k].text = f[i].id

\* The events a worker is done with when the next to be taken is the m-th.
HandledBy(x, m) == IF x.pc \in Busy THEN m - 2 ELSE m - 1

IdsTell(f) ==
  \A i \in DOMAIN f : \A j \in DOMAIN f : f[i].art = f[j].art /\ f[i].id = f[j].id => f[i].kind = f[j].kind

SoleOK(f, c, x, m) ==
  /\ x.pc \in Busy => m >= 2 /\ x.ev = f[m - 1]
  /\ \A k \in Articles : RecordOK(f, c, x, k)
  /\ IdsTell(f) => \A k \in Articles : FollowsAt(f, c, HandledBy(x, m), k)

Sole(v) == worker[v] # NotConfigured /\ \A u \in Workers \ {v} : worker[u] = NotConfigured

FollowInv == \A v \in Workers : Sole(v) => SoleOK(feed, cache, worker[v], next)

\* What an article has in d it had in c, and its projection did not lose its history.
LostAt(c, d, k) ==
  /\ k \in DOMAIN d.ent =>
       k \in DOMAIN c.ent /\ d.ent[k] = c.ent[k] /\ (k \in DOMAIN c.hist => k \in DOMAIN d.hist)
  /\ k \in DOMAIN d.hist => k \in DOMAIN c.hist /\ d.hist[k] = c.hist[k]

LEMMA LostTwice ==
  ASSUME NEW b, NEW c, NEW d, NEW k, LostAt(b, c, k), LostAt(c, d, k)
  PROVE  LostAt(b, d, k)
BY DEF LostAt

LEMMA ShrunkLost ==
  ASSUME NEW c, NEW d, WellFormed(d), Shrunk(c, d), NEW k
  PROVE  LostAt(c, d, k)
BY DEF LostAt, Shrunk, SameRecord, WellFormed, MapsOK

LEMMA ExpiryLost ==
  ASSUME NEW c, WellFormed(c), NEW k, NEW t, NEW j
  PROVE  LostAt(c, EnsureNotExpired(c, k, t), j)
BY EnsureNotExpiredIs, ShrunkLost

LEMMA TrimLost ==
  ASSUME NEW c, WellFormed(c), NEW j
  PROVE  LostAt(c, Trim(c), j)
BY TrimIs, ShrunkLost

LEMMA UpsertKeyLost ==
  ASSUME NEW c, WellFormed(c), NEW k \in Articles, NEW t \in Nat, NEW j
  PROVE  LostAt(c, UpsertKey(c, k, t), j)
<1>1. LostAt(c, EnsureNotExpired(c, k, t), j)
  BY ExpiryLost
<1>2. /\ UpsertKey(c, k, t).ent = EnsureNotExpired(c, k, t).ent
      /\ UpsertKey(c, k, t).hist = EnsureNotExpired(c, k, t).hist
  BY UpsertKeyIs
<1> QED  BY <1>1, <1>2 DEF LostAt

\* A record that has been checked against the clock is not checked again.
LEMMA ExpiryTwice ==
  ASSUME NEW c, WellFormed(c), NEW k, NEW t
  PROVE  EnsureNotExpired(EnsureNotExpired(c, k, t), k, t) = EnsureNotExpired(c, k, t)
<1> DEFINE b == EnsureNotExpired(c, k, t)
<1>1. ~IsExpired(b, k, t)
  <2>1. CASE IsExpired(c, k, t)
    <3>1. b = Delete(c, k)
      BY <2>1 DEF EnsureNotExpired
    <3>2. k \notin DOMAIN b.expires
      BY <3>1, DeleteIs
    <3> QED  BY <3>2 DEF IsExpired
  <2>2. CASE ~IsExpired(c, k, t)
    BY <2>2 DEF EnsureNotExpired
  <2> QED  BY <2>1, <2>2
<1> HIDE DEF b
<1>2. EnsureNotExpired(b, k, t) = b
  BY <1>1 DEF EnsureNotExpired
<1> QED  BY <1>2 DEF b

\* A history with one more event.
LEMMA HistoryGrows ==
  ASSUME NEW h \in Seq(Events), NEW ev \in Events
  PROVE  /\ FromHistory(Append(h, ev)) = ApplyReaction(FromHistory(h), ev)
         /\ Front(Append(h, ev)) = h /\ Last(Append(h, ev)) = ev /\ Append(h, ev) # <<>>
<1> DEFINE g == Append(h, ev)  n == Len(h)
<1>1. /\ g \in Seq(Events) /\ n \in Nat /\ Len(g) = n + 1 /\ DOMAIN h = 1..n /\ DOMAIN g = 1..(n + 1)
      /\ g[n + 1] = ev /\ \A i \in 1..n : g[i] = h[i]
  OBVIOUS
<1>2. Front(g) = h
  <2>1. Front(g) = SubSeq(g, 1, n)
    BY <1>1 DEF Front
  <2> HIDE DEF g
  <2>2. SubSeq(g, 1, n) \in Seq(Events) /\ Len(SubSeq(g, 1, n)) = n /\ \A i \in 1..n : SubSeq(g, 1, n)[i] = h[i]
    BY <1>1
  <2> QED  BY <1>1, <2>1, <2>2
<1> HIDE DEF g, n
<1>3. Last(g) = ev
  BY <1>1 DEF Last
<1>4. Tally!Fold(None, NoReactions, g) = Counting(None, Tally!Fold(None, NoReactions, h), g[n + 1])
  BY <1>1, Tally!FoldAppends
<1>5. FromHistory(g) = ApplyReaction(FromHistory(h), ev)
  BY <1>1, <1>4, FromHistoryFolds DEF Counting
<1>6. g # <<>>
  BY <1>1
<1> QED  BY <1>2, <1>3, <1>5, <1>6 DEF g

\* What an article loses cannot put its record in the wrong.
LEMMA RecordKept ==
  ASSUME NEW f, NEW c, NEW d, NEW x, NEW y, NEW k, RecordOK(f, c, x, k), LostAt(c, d, k),
         Midway(y, k) <=> Midway(x, k), Midway(x, k) => y.ev = x.ev
  PROVE  RecordOK(f, d, y, k)
<1>1. ASSUME k \in DOMAIN d.hist PROVE HistoryOK(f, d.hist[k], y, k)
  <2>1. k \in DOMAIN c.hist /\ d.hist[k] = c.hist[k]
    BY <1>1 DEF LostAt
  <2>2. HistoryOK(f, c.hist[k], x, k)
    BY <2>1 DEF RecordOK
  <2> QED  BY <2>1, <2>2 DEF HistoryOK
<1>2. ASSUME k \in DOMAIN d.ent PROVE ProjectionOK(d, y, k)
  <2>1. k \in DOMAIN c.ent /\ d.ent[k] = c.ent[k] /\ (k \in DOMAIN c.hist <=> k \in DOMAIN d.hist)
    BY <1>2 DEF LostAt
  <2>2. k \in DOMAIN d.hist => d.hist[k] = c.hist[k]
    BY DEF LostAt
  <2>3. History(d, k) = History(c, k)
    BY <2>1, <2>2 DEF History
  <2>4. ProjectionOK(c, x, k)
    BY <2>1 DEF RecordOK
  <2> QED  BY <2>1, <2>2, <2>3, <2>4 DEF ProjectionOK
<1> QED  BY <1>1, <1>2 DEF RecordOK

LEMMA FollowsKept ==
  ASSUME NEW f, NEW c, NEW d, NEW n, NEW k, FollowsAt(f, c, n, k), LostAt(c, d, k)
  PROVE  FollowsAt(f, d, n, k)
BY DEF FollowsAt, LostAt

\* An event of another article changes nothing.
LEMMA FollowsOther ==
  ASSUME NEW f \in Seq(Events), NEW c, NEW n \in 1..Len(f), NEW k, f[n].art # k, FollowsAt(f, c, n - 1, k)
  PROVE  FollowsAt(f, c, n, k)
<1>1. \A i \in 1..n : \A kinds : Latest(f, i, k, kinds, n) => i \in 1..(n - 1) /\ Latest(f, i, k, kinds, n - 1)
  BY DEF Latest
<1>2. \A i \in 1..(n - 1) : \A kinds : Latest(f, i, k, kinds, n - 1) => i \in 1..n /\ Latest(f, i, k, kinds, n)
  <2> SUFFICES ASSUME NEW i \in 1..(n - 1), NEW kinds, Latest(f, i, k, kinds, n - 1),
                      NEW j \in (i + 1)..n, f[j].art = k, f[j].kind \in kinds
               PROVE  FALSE
    BY DEF Latest
  <2>1. j \in (i + 1)..(n - 1)
    OBVIOUS
  <2> QED  BY <2>1 DEF Latest
<1> QED  BY <1>1, <1>2 DEF FollowsAt

\* The last event of the article is its latest.
LEMMA FollowsText ==
  ASSUME NEW f \in Seq(Events), NEW c, NEW n \in 1..Len(f), NEW k, f[n].art = k, f[n].kind \in TextKinds,
         k \in DOMAIN c.ent => c.ent[k].text = f[n].id
  PROVE  FollowsAt(f, c, n, k)
<1>1. f[n].kind \in Kinds /\ f[n].kind # "retracted"
  BY DEF TextKinds, Kinds
<1>2. \A i \in 1..n : Latest(f, i, k, Kinds, n) => i = n
  <2> SUFFICES ASSUME NEW i \in 1..n, Latest(f, i, k, Kinds, n), i # n PROVE FALSE
    OBVIOUS
  <2>1. n \in (i + 1)..n
    OBVIOUS
  <2> QED  BY <1>1, <2>1 DEF Latest
<1>3. n \in 1..n /\ Latest(f, n, k, TextKinds, n)
  BY DEF Latest
<1> QED  BY <1>1, <1>2, <1>3 DEF FollowsAt

LEMMA FollowsReaction ==
  ASSUME NEW f \in Seq(Events), NEW c, NEW d, NEW n \in 1..Len(f), NEW k,
         f[n].art = k, f[n].kind \in {"added", "removed"}, FollowsAt(f, c, n - 1, k),
         k \in DOMAIN d.ent => k \in DOMAIN c.ent /\ d.ent[k].text = c.ent[k].text
  PROVE  FollowsAt(f, d, n, k)
<1>1. f[n].kind \in Kinds /\ f[n].kind # "retracted" /\ f[n].kind \notin TextKinds
  BY DEF TextKinds, Kinds
<1>2. \A i \in 1..n : Latest(f, i, k, Kinds, n) => i = n
  <2> SUFFICES ASSUME NEW i \in 1..n, Latest(f, i, k, Kinds, n), i # n PROVE FALSE
    OBVIOUS
  <2>1. n \in (i + 1)..n
    OBVIOUS
  <2> QED  BY <1>1, <2>1 DEF Latest
<1>3. ASSUME NEW i \in 1..(n - 1), Latest(f, i, k, TextKinds, n - 1)
      PROVE  i \in 1..n /\ Latest(f, i, k, TextKinds, n)
  <2> SUFFICES ASSUME NEW j \in (i + 1)..n, f[j].art = k, f[j].kind \in TextKinds PROVE FALSE
    BY <1>3 DEF Latest
  <2>1. j \in (i + 1)..(n - 1)
    BY <1>1
  <2> QED  BY <1>3, <2>1 DEF Latest
<1>4. ASSUME k \in DOMAIN d.ent
      PROVE  \E i \in 1..n : Latest(f, i, k, TextKinds, n) /\ d.ent[k].text = f[i].id
  <2>1. PICK i \in 1..(n - 1) : Latest(f, i, k, TextKinds, n - 1) /\ c.ent[k].text = f[i].id
    BY <1>4 DEF FollowsAt
  <2>2. i \in 1..n /\ Latest(f, i, k, TextKinds, n)
    BY <1>3, <2>1
  <2> QED  BY <1>4, <2>1, <2>2
<1> QED  BY <1>1, <1>2, <1>4 DEF FollowsAt

LEMMA FollowsGone ==
  ASSUME NEW f, NEW c, NEW n, NEW k, k \notin DOMAIN c.ent
  PROVE  FollowsAt(f, c, n, k)
BY DEF FollowsAt

\* A history counts its last event once more than the rest of it.
LEMMA LastCounts ==
  ASSUME NEW h \in Seq(Events), h # <<>>
  PROVE  FromHistory(h) = ApplyReaction(FromHistory(Front(h)), Last(h))
<1> DEFINE g == Front(h)  e == Last(h)  n == Len(h)
<1>1. n \in Nat /\ n > 0 /\ DOMAIN h = 1..n /\ \A i \in 1..n : h[i] \in Events
  OBVIOUS
<1>2. g = SubSeq(h, 1, n - 1) /\ e = h[n]
  BY DEF Front, Last
<1>3. g \in Seq(Events) /\ Len(g) = n - 1 /\ \A i \in 1..(n - 1) : g[i] = h[i]
  BY <1>1, <1>2
<1>4. e \in Events
  BY <1>1, <1>2
<1> HIDE DEF g, e
<1>5. Append(g, e) = h
  <2> DEFINE a == Append(g, e)
  <2>1. a \in Seq(Events) /\ Len(a) = Len(g) + 1
    BY <1>3, <1>4
  <2>2. \A i \in 1..Len(g) : a[i] = g[i]
    BY <1>3, <1>4
  <2>3. a[Len(g) + 1] = e
    BY <1>3, <1>4
  <2> HIDE DEF a
  <2>4. Len(a) = n
    BY <1>1, <1>3, <2>1
  <2>5. \A i \in 1..n : a[i] = h[i]
    <3> SUFFICES ASSUME NEW i \in 1..n PROVE a[i] = h[i]
      OBVIOUS
    <3>1. CASE i = n
      BY <1>1, <1>2, <1>3, <2>3, <3>1
    <3>2. CASE i # n
      BY <1>1, <1>3, <2>2, <3>2
    <3> QED  BY <3>1, <3>2
  <2>6. a = h
    BY <1>1, <2>1, <2>4, <2>5
  <2> QED  BY <2>6 DEF a
<1>6. FromHistory(Append(g, e)) = ApplyReaction(FromHistory(g), e)
  BY <1>3, <1>4, HistoryGrows
<1> QED  BY <1>5, <1>6 DEF g, e

\* Storing a projection concerns its article only, and keeps its record right.
LEMMA StoredIs ==
  ASSUME NEW f, NEW b, WellFormed(b), NEW k \in DOMAIN b.expires, NEW e \in Projections,
         k \in DOMAIN b.hist => HistoryOK(f, b.hist[k], Idle, k),
         e.reacts = FromHistory(History(b, k)),
         k \in DOMAIN b.hist /\ Last(b.hist[k]).kind \in TextKinds => e.text = Last(b.hist[k]).id
  PROVE  /\ RecordOK(f, Trim(StoreEntity(b, k, e)), Idle, k)
         /\ k \in DOMAIN Trim(StoreEntity(b, k, e)).ent => Trim(StoreEntity(b, k, e)).ent[k] = e
         /\ \A j : j # k => LostAt(b, Trim(StoreEntity(b, k, e)), j)
<1> DEFINE s == StoreEntity(b, k, e)  d == Trim(s)
<1>1. WellFormed(s) /\ s.hist = b.hist /\ s.ent = Put(b.ent, k, e)
  BY StoreEntityIs
<1> HIDE DEF s
<1>2. /\ DOMAIN s.ent = DOMAIN b.ent \cup {k} /\ s.ent[k] = e
      /\ \A j \in DOMAIN b.ent : j # k => s.ent[j] = b.ent[j]
  BY <1>1 DEF Put
<1>3. ~Midway(Idle, k)
  BY DEF Midway, Idle
<1>4. History(s, k) = History(b, k)
  BY <1>1 DEF History
<1>5. RecordOK(f, s, Idle, k)
  BY <1>1, <1>2, <1>3, <1>4 DEF RecordOK, ProjectionOK
<1>6. \A j : LostAt(s, d, j)
  BY <1>1, TrimLost
<1> HIDE DEF d
<1>7. RecordOK(f, d, Idle, k)
  BY <1>5, <1>6, RecordKept
<1>8. k \in DOMAIN d.ent => d.ent[k] = e
  BY <1>2, <1>6 DEF LostAt
<1>9. ASSUME NEW j, j # k PROVE LostAt(b, d, j)
  <2>1. LostAt(b, s, j)
    BY <1>1, <1>2, <1>9 DEF LostAt
  <2> QED  BY <1>6, <2>1, LostTwice
<1> QED  BY <1>7, <1>8, <1>9 DEF d, s

\* The first cache and the one a shutdown leaves follow whatever was delivered.
LEMMA EmptyFollows ==
  ASSUME NEW f, NEW x, NEW m, x.pc \in Busy => m >= 2 /\ x.ev = f[m - 1]
  PROVE  SoleOK(f, EmptyCache, x, m)
<1>1. DOMAIN EmptyCache.ent = {} /\ DOMAIN EmptyCache.hist = {}
  BY DEF EmptyCache, Empty
<1> QED  BY <1>1 DEF SoleOK, RecordOK, FollowsAt

\* What a read removes leaves the rest following.
LEMMA LostFollows ==
  ASSUME NEW f, NEW c, NEW d, NEW x, NEW m, SoleOK(f, c, x, m), \A k : LostAt(c, d, k)
  PROVE  SoleOK(f, d, x, m)
<1>1. ASSUME NEW k \in Articles PROVE RecordOK(f, d, x, k)
  BY RecordKept DEF SoleOK
<1>2. ASSUME IdsTell(f), NEW k \in Articles PROVE FollowsAt(f, d, HandledBy(x, m), k)
  BY <1>2, FollowsKept DEF SoleOK
<1> QED  BY <1>1, <1>2 DEF SoleOK

\* A worker takes its event and has handled no more than before.
LEMMA TakeFollows ==
  ASSUME NEW f, NEW c, NEW x, NEW y, NEW m \in Nat \ {0}, SoleOK(f, c, x, m),
         x.pc = "idle", y.pc \in {"created", "append"}, y.ev = f[m]
  PROVE  SoleOK(f, c, y, m + 1)
<1>1. HandledBy(x, m) = m - 1 /\ HandledBy(y, m + 1) = m - 1
  BY DEF HandledBy, Busy
<1>2. ASSUME NEW k \in Articles PROVE RecordOK(f, c, y, k)
  <2>1. LostAt(c, c, k)
    BY DEF LostAt
  <2>2. ~Midway(x, k) /\ ~Midway(y, k)
    BY DEF Midway
  <2> QED  BY <2>1, <2>2, RecordKept DEF SoleOK
<1>3. m + 1 >= 2 /\ (m + 1) - 1 = m
  OBVIOUS
<1> QED  BY <1>1, <1>2, <1>3 DEF SoleOK

\* A worker is done with an event: the event's article follows, and so do the others.
LEMMA FinishFollows ==
  ASSUME NEW f \in Seq(Events), NEW c, NEW d, NEW x, NEW m \in 1..(Len(f) + 1), SoleOK(f, c, x, m),
         x.pc \in Busy, \A j : j # x.ev.art => LostAt(c, d, j), RecordOK(f, d, Idle, x.ev.art),
         IdsTell(f) => FollowsAt(f, d, m - 1, x.ev.art)
  PROVE  SoleOK(f, d, Idle, m)
<1>1. HandledBy(x, m) = m - 2 /\ HandledBy(Idle, m) = m - 1 /\ Idle.pc \notin Busy
  BY DEF HandledBy, Busy, Idle
<1>2. m - 1 \in 1..Len(f) /\ f[m - 1] = x.ev /\ m - 2 = (m - 1) - 1
  BY DEF SoleOK
<1>3. ASSUME NEW k \in Articles PROVE RecordOK(f, d, Idle, k)
  <2>1. CASE k # x.ev.art
    <3>1. ~Midway(x, k) /\ ~Midway(Idle, k)
      BY <2>1 DEF Midway, Idle
    <3> QED  BY <2>1, <3>1, RecordKept DEF SoleOK
  <2> QED  BY <2>1
<1>4. ASSUME IdsTell(f), NEW k \in Articles PROVE FollowsAt(f, d, m - 1, k)
  <2>1. CASE k # x.ev.art
    <3>1. FollowsAt(f, c, (m - 1) - 1, k)
      BY <1>1, <1>2, <1>4 DEF SoleOK
    <3>2. FollowsAt(f, c, m - 1, k)
      BY <1>2, <2>1, <3>1, FollowsOther
    <3> QED  BY <2>1, <3>2, FollowsKept
  <2> QED  BY <1>4, <2>1
<1> QED  BY <1>1, <1>3, <1>4 DEF SoleOK

\* A duplicate names the last event of the history, which is of the same kind.
LEMMA DuplicateIs ==
  ASSUME NEW f, NEW c, NEW x, RecordOK(f, c, x, x.ev.art), ~Midway(x, x.ev.art), IsDuplicate(c, x.ev),
         IdsTell(f), \E n \in DOMAIN f : f[n] = x.ev
  PROVE  /\ x.ev.art \in DOMAIN c.hist
         /\ Last(c.hist[x.ev.art]).id = x.ev.id /\ Last(c.hist[x.ev.art]).kind = x.ev.kind
         /\ x.ev.kind # "retracted"
<1> DEFINE k == x.ev.art
<1>0. PICK n \in DOMAIN f : f[n] = x.ev
  OBVIOUS
<1>1. k \in DOMAIN c.hist /\ Last(c.hist[k]).id = x.ev.id
  BY DEF IsDuplicate, History
<1>2. HistoryOK(f, c.hist[k], x, k)
  BY <1>1 DEF RecordOK
<1>3. PICK j \in DOMAIN f : f[j] = Last(c.hist[k])
  BY <1>2 DEF HistoryOK
<1>4. f[j].art = f[n].art /\ f[j].id = f[n].id
  BY <1>0, <1>1, <1>2, <1>3 DEF HistoryOK
<1>5. f[j].kind = f[n].kind
  BY <1>4 DEF IdsTell
<1>6. Last(c.hist[k]).kind # "retracted"
  BY <1>2 DEF HistoryOK
<1> QED  BY <1>0, <1>1, <1>3, <1>5, <1>6

\* The event in hand is one of the feed.
LEMMA InHand ==
  ASSUME NEW f \in Seq(Events), NEW c, NEW x, NEW m \in 1..(Len(f) + 1), SoleOK(f, c, x, m), x.pc \in Busy
  PROVE  /\ m - 1 \in 1..Len(f) /\ m - 1 \in DOMAIN f /\ f[m - 1] = x.ev /\ HandledBy(x, m) = (m - 1) - 1
         /\ x.ev \in Events /\ x.ev.art \in Articles /\ RecordOK(f, c, x, x.ev.art)
<1>1. m >= 2 /\ x.ev = f[m - 1]
  BY DEF SoleOK
<1>2. m - 1 \in 1..Len(f) /\ m - 1 \in DOMAIN f /\ HandledBy(x, m) = (m - 1) - 1
  BY <1>1 DEF HandledBy
<1>3. x.ev \in Events
  BY <1>1, <1>2
<1>4. x.ev.art \in Articles
  BY <1>3 DEF Events
<1> QED  BY <1>1, <1>2, <1>3, <1>4 DEF SoleOK

\* What the section of a creation leaves.
CreatedLeaves(c0, ev, t) ==
  LET c == EnsureNotExpired(c0, ev.art, t)
      d == AppendHistory(UpsertKey(c, ev.art, t), ev)
  IN IF IsDuplicate(c, ev) THEN c ELSE Trim(StoreEntity(d, ev.art, CreatedOver(d, ev)))

\* A creation counts in the history, not in the reactions.
LEMMA CreatedStores ==
  ASSUME NEW d, WellFormed(d), NEW ev \in Events, ev.kind = "created",
         NEW h \in Seq(Events), History(d, ev.art) = Append(h, ev),
         ev.art \in DOMAIN d.ent => d.ent[ev.art].reacts = FromHistory(h)
  PROVE  CreatedOver(d, ev).text = ev.id /\ CreatedOver(d, ev).reacts = FromHistory(History(d, ev.art))
<1> DEFINE k == ev.art
           fresh == [thread |-> ev.thread, text |-> ev.id, created |-> ev.at,
                     updated |-> ev.at, reacts |-> KeptReactions(d, k, NoReactions)]
           r == KeptReactions(d, k, d.ent[k].reacts)
<1>1. FromHistory(Append(h, ev)) = FromHistory(h)
  BY HistoryGrows DEF ApplyReaction
<1>2. fresh.text = ev.id /\ fresh.reacts = FromHistory(History(d, k))
  BY DEF KeptReactions
<1>3. CASE k \notin DOMAIN d.ent
  BY <1>2, <1>3 DEF CreatedOver
<1>4. CASE k \in DOMAIN d.ent
  <2>1. r = FromHistory(History(d, k))
    BY <1>1, <1>4 DEF KeptReactions
  <2>2. CreatedOver(d, ev) = [fresh EXCEPT !.created = d.ent[k].created,
                                !.updated = IF fresh.updated < d.ent[k].updated THEN d.ent[k].updated ELSE fresh.updated,
                                !.reacts = r]
    BY <1>4 DEF CreatedOver
  <2> HIDE DEF r
  <2>3. CreatedOver(d, ev).text = ev.id /\ CreatedOver(d, ev).reacts = r
    BY <2>2
  <2> QED  BY <2>1, <2>3
<1> QED  BY <1>3, <1>4

LEMMA CreatedFollows ==
  ASSUME NEW f \in Seq(Events), NEW c0, WellFormed(c0), NEW x, NEW m \in 1..(Len(f) + 1), SoleOK(f, c0, x, m),
         x.pc = "created", x.ev.kind = "created", NEW t \in Nat
  PROVE  SoleOK(f, CreatedLeaves(c0, x.ev, t), Idle, m)
<1> DEFINE ev == x.ev
           k == ev.art
           c == EnsureNotExpired(c0, k, t)
<1>1. /\ m - 1 \in 1..Len(f) /\ m - 1 \in DOMAIN f /\ f[m - 1] = ev
      /\ ev \in Events /\ k \in Articles /\ RecordOK(f, c0, x, k) /\ x.pc \in Busy
  BY InHand DEF Busy
<1>2. ~Midway(x, k) /\ ~Midway(Idle, k)
  BY DEF Midway, Idle
<1>3. WellFormed(c) /\ \A j : LostAt(c0, c, j)
  BY EnsureNotExpiredIs, ExpiryLost
<1>4. EnsureNotExpired(c, k, t) = c
  BY ExpiryTwice
<1> HIDE DEF c
<1>5. RecordOK(f, c, x, k) /\ RecordOK(f, c, Idle, k)
  BY <1>1, <1>2, <1>3, RecordKept
<1>6. CASE IsDuplicate(c, ev)
  <2>1. CreatedLeaves(c0, ev, t) = c
    BY <1>6 DEF CreatedLeaves, c
  <2>2. ASSUME IdsTell(f) PROVE FollowsAt(f, c, m - 1, k)
    <3>0. \E n \in DOMAIN f : f[n] = x.ev
      BY <1>1
    <3>1. /\ x.ev.art \in DOMAIN c.hist
          /\ Last(c.hist[x.ev.art]).id = x.ev.id /\ Last(c.hist[x.ev.art]).kind = x.ev.kind
      BY <1>2, <1>5, <1>6, <2>2, <3>0, DuplicateIs
    <3>2. k \in DOMAIN c.ent => c.ent[k].text = f[m - 1].id
      BY <1>1, <1>2, <1>5, <3>1 DEF RecordOK, ProjectionOK, TextKinds
    <3>3. f[m - 1].kind \in TextKinds /\ f[m - 1].art = k
      BY <1>1 DEF TextKinds
    <3> QED  BY <1>1, <3>2, <3>3, FollowsText
  <2> QED  BY <1>1, <1>3, <1>5, <2>1, <2>2, FinishFollows
<1>7. CASE ~IsDuplicate(c, ev)
  <2> DEFINE b == UpsertKey(c, k, t)
             d == AppendHistory(b, ev)
             e == CreatedOver(d, ev)
             h == History(c, k)
             s == Trim(StoreEntity(d, k, e))
  <2>0. CreatedLeaves(c0, ev, t) = s
    BY <1>7 DEF CreatedLeaves, c
  <2>1. WellFormed(b) /\ k \in DOMAIN b.expires /\ b.ent = c.ent /\ b.hist = c.hist
    BY <1>1, <1>3, <1>4, UpsertKeyIs
  <2> HIDE DEF b
  <2>2. ~IsDuplicate(b, ev) /\ History(b, k) = h
    BY <1>7, <2>1 DEF IsDuplicate, History
  <2>3. /\ WellFormed(d) /\ d.expires = b.expires /\ d.ent = c.ent
        /\ d.hist = Put(c.hist, k, Append(h, ev))
    BY <1>1, <2>1, <2>2, AppendHistoryIs
  <2> HIDE DEF d
  <2>4. /\ DOMAIN d.hist = DOMAIN c.hist \cup {k} /\ d.hist[k] = Append(h, ev)
        /\ \A j \in DOMAIN c.hist : j # k => d.hist[j] = c.hist[j]
    BY <2>3 DEF Put
  <2>5. h \in Seq(Events)
    BY <1>3 DEF History, WellFormed, MapsOK
  <2> HIDE DEF h
  <2>6. History(d, k) = Append(h, ev) /\ Last(Append(h, ev)) = ev /\ Append(h, ev) # <<>>
    BY <1>1, <2>4, <2>5, HistoryGrows DEF History
  <2>7. k \in DOMAIN d.ent => d.ent[k].reacts = FromHistory(h)
    BY <1>2, <1>5, <2>3 DEF RecordOK, ProjectionOK, h
  <2>8. e \in Projections /\ e.text = ev.id /\ e.reacts = FromHistory(History(d, k))
    BY <1>1, <2>3, <2>5, <2>6, <2>7, CreatedOverIs, CreatedStores
  <2> HIDE DEF e
  <2>9. HistoryOK(f, d.hist[k], Idle, k)
    BY <1>1, <1>2, <2>4, <2>6 DEF HistoryOK
  <2>10. k \in DOMAIN d.expires
    BY <2>1, <2>3
  <2>11. /\ RecordOK(f, s, Idle, k)
         /\ k \in DOMAIN s.ent => s.ent[k] = e
         /\ \A j : j # k => LostAt(d, s, j)
    <3>1. k \in DOMAIN d.hist => HistoryOK(f, d.hist[k], Idle, k)
      BY <2>9
    <3>2. k \in DOMAIN d.hist /\ Last(d.hist[k]).kind \in TextKinds => e.text = Last(d.hist[k]).id
      BY <2>4, <2>6, <2>8
    <3> QED  BY <2>3, <2>8, <2>10, <3>1, <3>2, StoredIs
  <2> HIDE DEF s
  <2>12. ASSUME NEW j, j # k PROVE LostAt(c0, s, j)
    <3>1. LostAt(c, d, j)
      BY <2>3, <2>4, <2>12 DEF LostAt
    <3> QED  BY <1>3, <2>11, <2>12, <3>1, LostTwice
  <2>13. FollowsAt(f, s, m - 1, k)
    <3>1. f[m - 1].kind \in TextKinds /\ f[m - 1].art = k
      BY <1>1 DEF TextKinds
    <3> QED  BY <1>1, <2>8, <2>11, <3>1, FollowsText
  <2> QED  BY <1>1, <2>0, <2>11, <2>12, <2>13, FinishFollows
<1> QED  BY <1>6, <1>7

\* An event the history already ends with leaves its article following.
LEMMA RepeatFollows ==
  ASSUME NEW f \in Seq(Events), NEW c, NEW x, NEW m \in 1..(Len(f) + 1), SoleOK(f, c, x, m),
         x.pc = "append", x.ev.kind # "created", IsDuplicate(c, x.ev)
  PROVE  SoleOK(f, c, Idle, m)
<1> DEFINE ev == x.ev
           k == ev.art
<1>1. /\ m - 1 \in 1..Len(f) /\ m - 1 \in DOMAIN f /\ f[m - 1] = ev /\ HandledBy(x, m) = (m - 1) - 1
      /\ ev \in Events /\ k \in Articles /\ RecordOK(f, c, x, k) /\ x.pc \in Busy
  BY InHand DEF Busy
<1>2. ~Midway(x, k) /\ ~Midway(Idle, k)
  BY DEF Midway, Idle
<1>3. \A j : LostAt(c, c, j)
  BY DEF LostAt
<1>4. RecordOK(f, c, Idle, k)
  BY <1>1, <1>2, <1>3, RecordKept
<1>5. ASSUME IdsTell(f) PROVE FollowsAt(f, c, m - 1, k)
  <2>0. \E n \in DOMAIN f : f[n] = x.ev
    BY <1>1
  <2>1. /\ x.ev.art \in DOMAIN c.hist
        /\ Last(c.hist[x.ev.art]).id = x.ev.id /\ Last(c.hist[x.ev.art]).kind = x.ev.kind
        /\ x.ev.kind # "retracted"
    BY <1>1, <1>2, <1>5, <2>0, DuplicateIs
  <2>2. ev.kind \in {"edited", "added", "removed"}
    BY <1>1, <2>1 DEF Events
  <2>3. CASE ev.kind = "edited"
    <3>1. k \in DOMAIN c.ent => c.ent[k].text = f[m - 1].id
      BY <1>1, <1>2, <2>1, <2>3 DEF RecordOK, ProjectionOK, TextKinds
    <3>2. f[m - 1].kind \in TextKinds /\ f[m - 1].art = k
      BY <1>1, <2>3 DEF TextKinds
    <3> QED  BY <1>1, <3>1, <3>2, FollowsText
  <2>4. CASE ev.kind \in {"added", "removed"}
    <3>1. FollowsAt(f, c, (m - 1) - 1, k)
      BY <1>1, <1>5 DEF SoleOK
    <3>2. f[m - 1].kind \in {"added", "removed"} /\ f[m - 1].art = k
      BY <1>1, <2>4
    <3> QED  BY <1>1, <3>1, <3>2, FollowsReaction
  <2> QED  BY <2>2, <2>3, <2>4
<1> QED  BY <1>1, <1>3, <1>4, <1>5, FinishFollows

\* Between the two sections the history is one event ahead of the projection.
LEMMA AppendFollows ==
  ASSUME NEW f \in Seq(Events), NEW c, WellFormed(c), NEW x, NEW m \in 1..(Len(f) + 1), SoleOK(f, c, x, m),
         x.pc = "append", ~IsDuplicate(c, x.ev), NEW t \in Nat, NEW y, y.pc = "remember", y.ev = x.ev
  PROVE  SoleOK(f, Trim(AppendHistory(UpsertKey(c, x.ev.art, t), x.ev)), y, m)
<1> DEFINE ev == x.ev
           k == ev.art
           b == UpsertKey(c, k, t)
           h == History(b, k)
           d == AppendHistory(b, ev)
           s == Trim(d)
<1>1. /\ m - 1 \in 1..Len(f) /\ m - 1 \in DOMAIN f /\ f[m - 1] = ev /\ HandledBy(x, m) = (m - 1) - 1
      /\ ev \in Events /\ k \in Articles /\ RecordOK(f, c, x, k) /\ x.pc \in Busy
  BY InHand DEF Busy
<1>2. WellFormed(b) /\ k \in DOMAIN b.expires /\ \A j : LostAt(c, b, j)
  BY <1>1, UpsertKeyIs, UpsertKeyLost
<1> HIDE DEF b
<1>3. ~IsDuplicate(b, ev)
  BY <1>2 DEF IsDuplicate, History, LostAt
<1>4. WellFormed(d) /\ d.ent = b.ent /\ d.hist = Put(b.hist, k, Append(h, ev))
  BY <1>1, <1>2, <1>3, AppendHistoryIs
<1> HIDE DEF d
<1>5. /\ k \in DOMAIN d.hist /\ d.hist[k] = Append(h, ev)
      /\ DOMAIN d.hist = DOMAIN b.hist \cup {k}
      /\ \A j \in DOMAIN b.hist : j # k => d.hist[j] = b.hist[j]
  BY <1>4 DEF Put
<1>6. h \in Seq(Events)
  BY <1>2 DEF History, WellFormed, MapsOK
<1>7. Front(Append(h, ev)) = h /\ Last(Append(h, ev)) = ev /\ Append(h, ev) # <<>>
  BY <1>1, <1>6, HistoryGrows
<1>8. ~Midway(x, k) /\ Midway(y, k) /\ \A j : j # k => ~Midway(x, j) /\ ~Midway(y, j)
  BY DEF Midway
<1>9. RecordOK(f, b, x, k)
  BY <1>1, <1>2, <1>8, RecordKept
<1>10. RecordOK(f, d, y, k)
  <2>1. HistoryOK(f, d.hist[k], y, k)
    BY <1>1, <1>5, <1>7, <1>8 DEF HistoryOK
  <2>2. k \in DOMAIN d.ent => d.ent[k].reacts = FromHistory(Front(d.hist[k]))
    BY <1>4, <1>5, <1>7, <1>8, <1>9 DEF RecordOK, ProjectionOK, h
  <2> QED  BY <1>5, <1>8, <2>1, <2>2 DEF RecordOK, ProjectionOK
<1>11. \A j : LostAt(d, s, j)
  BY <1>4, TrimLost
<1> HIDE DEF s
<1>12. ASSUME NEW j \in Articles PROVE RecordOK(f, s, y, j)
  <2>1. CASE j = k
    BY <1>10, <1>11, <2>1, RecordKept
  <2>2. CASE j # k
    <3>1. LostAt(b, d, j)
      BY <1>4, <1>5, <2>2 DEF LostAt
    <3>2. LostAt(c, s, j)
      BY <1>2, <1>11, <3>1, LostTwice
    <3>3. RecordOK(f, c, x, j)
      BY DEF SoleOK
    <3> QED  BY <1>8, <2>2, <3>2, <3>3, RecordKept
  <2> QED  BY <2>1, <2>2
<1>13. HandledBy(y, m) = HandledBy(x, m)
  BY DEF HandledBy, Busy
<1>14. ASSUME IdsTell(f), NEW j \in Articles PROVE FollowsAt(f, s, HandledBy(y, m), j)
  <2>1. FollowsAt(f, b, HandledBy(x, m), j)
    BY <1>2, <1>14, FollowsKept DEF SoleOK
  <2>2. FollowsAt(f, d, HandledBy(x, m), j)
    BY <1>4, <2>1 DEF FollowsAt
  <2> QED  BY <1>11, <1>13, <2>2, FollowsKept
<1>15. m >= 2 /\ y.ev = f[m - 1]
  BY <1>1 DEF SoleOK
<1> QED  BY <1>12, <1>14, <1>15 DEF SoleOK, s, d, b

\* The second section projects an edit.
LEMMA EditFollows ==
  ASSUME NEW f \in Seq(Events), NEW c0, WellFormed(c0), NEW x, NEW m \in 1..(Len(f) + 1), SoleOK(f, c0, x, m),
         x.pc = "remember", x.ev.kind = "edited", NEW t \in Nat, NEW c, c = EnsureNotExpired(c0, x.ev.art, t)
  PROVE  SoleOK(f, UpsertEntity(c, x.ev.art, EditedOver(c, x.ev), t), Idle, m)
<1> DEFINE ev == x.ev
           k == ev.art
           e == EditedOver(c, ev)
           b == UpsertKey(c, k, t)
           s == Trim(StoreEntity(b, k, e))
<1>1. /\ m - 1 \in 1..Len(f) /\ m - 1 \in DOMAIN f /\ f[m - 1] = ev
      /\ ev \in Events /\ k \in Articles /\ RecordOK(f, c0, x, k) /\ x.pc \in Busy
  BY InHand DEF Busy
<1>2. Midway(x, k) /\ ~Midway(Idle, k)
  BY DEF Midway, Idle
<1>3. WellFormed(c) /\ \A j : LostAt(c0, c, j)
  BY EnsureNotExpiredIs, ExpiryLost
<1>4. WellFormed(b) /\ k \in DOMAIN b.expires /\ b.ent = c.ent /\ b.hist = c.hist
  BY <1>1, <1>3, ExpiryTwice, UpsertKeyIs
<1> HIDE DEF b
<1>5. RecordOK(f, c, x, k)
  BY <1>1, <1>2, <1>3, RecordKept
<1>6. History(b, k) = History(c, k)
  BY <1>4 DEF History
<1>7. e.text = ev.id /\ e.reacts = FromHistory(History(c, k))
  <2> DEFINE old == IF k \in DOMAIN c.ent THEN c.ent[k]
                    ELSE [thread |-> Main, text |-> None, created |-> ev.at,
                          updated |-> ev.at, reacts |-> NoReactions]
             r == KeptReactions(c, k, old.reacts)
  <2>1. r = FromHistory(History(c, k))
    <3>1. CASE k \notin DOMAIN c.ent
      BY <3>1 DEF KeptReactions
    <3>2. CASE k \in DOMAIN c.ent
      <4>1. k \in DOMAIN c.hist /\ old.reacts = FromHistory(Front(c.hist[k]))
        BY <1>2, <1>5, <3>2 DEF RecordOK, ProjectionOK
      <4>2. c.hist[k] \in Seq(Events) /\ c.hist[k] # <<>> /\ Last(c.hist[k]) = ev
        BY <1>2, <1>3, <1>5, <4>1 DEF RecordOK, HistoryOK, WellFormed, MapsOK
      <4>3. FromHistory(c.hist[k]) = FromHistory(Front(c.hist[k]))
        BY <4>2, LastCounts DEF ApplyReaction
      <4> QED  BY <4>1, <4>3 DEF KeptReactions, History
    <3> QED  BY <3>1, <3>2
  <2>2. e = [old EXCEPT !.text = ev.id, !.updated = ev.at, !.reacts = r]
    BY DEF EditedOver
  <2>3. old \in Projections
    BY <1>1, <1>3, CacheAssumption DEF Projections, NoReactions, WellFormed, MapsOK, Events
  <2> HIDE DEF old, r
  <2>4. e.text = ev.id /\ e.reacts = r
    BY <2>2, <2>3 DEF Projections
  <2> QED  BY <2>1, <2>4
<1>8. e \in Projections
  BY <1>1, <1>3, EditedOverIs
<1> HIDE DEF e
<1>9. ASSUME k \in DOMAIN b.hist PROVE HistoryOK(f, b.hist[k], Idle, k) /\ Last(b.hist[k]).id = e.text
  BY <1>2, <1>4, <1>5, <1>7, <1>9 DEF RecordOK, HistoryOK
<1>10. /\ RecordOK(f, s, Idle, k)
       /\ k \in DOMAIN s.ent => s.ent[k] = e
       /\ \A j : j # k => LostAt(b, s, j)
  BY <1>4, <1>6, <1>7, <1>8, <1>9, StoredIs
<1>11. UpsertEntity(c, k, e, t) = s
  BY DEF UpsertEntity, b
<1> HIDE DEF s
<1>12. ASSUME NEW j, j # k PROVE LostAt(c0, s, j)
  <2>1. LostAt(c, b, j)
    BY <1>4 DEF LostAt
  <2> QED  BY <1>3, <1>10, <1>12, <2>1, LostTwice
<1>13. FollowsAt(f, s, m - 1, k)
  <2>1. f[m - 1].kind \in TextKinds /\ f[m - 1].art = k
    BY <1>1 DEF TextKinds
  <2> QED  BY <1>1, <1>7, <1>10, <2>1, FollowsText
<1>14. SoleOK(f, s, Idle, m)
  BY <1>1, <1>10, <1>12, <1>13, FinishFollows
<1> QED  BY <1>11, <1>14 DEF e

\* The second section of a retraction leaves nothing of the article.
LEMMA RetractFollows ==
  ASSUME NEW f \in Seq(Events), NEW c, WellFormed(c), NEW x, NEW m \in 1..(Len(f) + 1), SoleOK(f, c, x, m),
         x.pc = "remember"
  PROVE  SoleOK(f, Delete(c, x.ev.art), Idle, m)
<1> DEFINE k == x.ev.art
           d == Delete(c, k)
<1>1. WellFormed(d) /\ Shrunk(c, d) /\ k \notin DOMAIN d.expires
  BY DeleteIs
<1> HIDE DEF d
<1>2. k \notin DOMAIN d.ent /\ k \notin DOMAIN d.hist
  BY <1>1 DEF WellFormed, MapsOK
<1>3. \A j : LostAt(c, d, j)
  BY <1>1, ShrunkLost
<1>4. RecordOK(f, d, Idle, k) /\ FollowsAt(f, d, m - 1, k)
  BY <1>2, FollowsGone DEF RecordOK
<1>5. SoleOK(f, d, Idle, m)
  BY <1>3, <1>4, FinishFollows DEF Busy
<1> QED  BY <1>5 DEF d

\* The second section counts a reaction in the projection, if there is one.
LEMMA ReactFollows ==
  ASSUME NEW f \in Seq(Events), NEW c0, WellFormed(c0), NEW x, NEW m \in 1..(Len(f) + 1), SoleOK(f, c0, x, m),
         x.pc = "remember", x.ev.kind \in {"added", "removed"}, NEW t \in Nat,
         NEW c, c = EnsureNotExpired(c0, x.ev.art, t), NEW e,
         x.ev.art \in DOMAIN c.ent => e = [c.ent[x.ev.art] EXCEPT !.reacts = ApplyReaction(@, x.ev)]
  PROVE  SoleOK(f, IF x.ev.art \notin DOMAIN c.ent THEN c ELSE UpsertEntity(c, x.ev.art, e, t), Idle, m)
<1> DEFINE ev == x.ev
           k == ev.art
           b == UpsertKey(c, k, t)
           s == Trim(StoreEntity(b, k, e))
<1>1. /\ m - 1 \in 1..Len(f) /\ m - 1 \in DOMAIN f /\ f[m - 1] = ev /\ HandledBy(x, m) = (m - 1) - 1
      /\ ev \in Events /\ k \in Articles /\ RecordOK(f, c0, x, k) /\ x.pc \in Busy
  BY InHand DEF Busy
<1>2. Midway(x, k) /\ ~Midway(Idle, k)
  BY DEF Midway, Idle
<1>3. WellFormed(c) /\ \A j : LostAt(c0, c, j)
  BY EnsureNotExpiredIs, ExpiryLost
<1>4. RecordOK(f, c, x, k)
  BY <1>1, <1>2, <1>3, RecordKept
<1>5. ASSUME k \in DOMAIN c.hist PROVE HistoryOK(f, c.hist[k], Idle, k) /\ Last(c.hist[k]) = ev
  BY <1>2, <1>4, <1>5 DEF RecordOK, HistoryOK
<1>6. CASE k \notin DOMAIN c.ent
  <2>1. RecordOK(f, c, Idle, k) /\ FollowsAt(f, c, m - 1, k)
    BY <1>5, <1>6, FollowsGone DEF RecordOK
  <2> QED  BY <1>1, <1>3, <1>6, <2>1, FinishFollows
<1>7. CASE k \in DOMAIN c.ent
  <2>1. WellFormed(b) /\ k \in DOMAIN b.expires /\ b.ent = c.ent /\ b.hist = c.hist
    BY <1>1, <1>3, ExpiryTwice, UpsertKeyIs
  <2> HIDE DEF b
  <2>2. k \in DOMAIN c.hist /\ c.ent[k].reacts = FromHistory(Front(c.hist[k])) /\ History(b, k) = c.hist[k]
    BY <1>2, <1>4, <1>7, <2>1 DEF RecordOK, ProjectionOK, History
  <2>3. c.hist[k] \in Seq(Events) /\ c.hist[k] # <<>> /\ Last(c.hist[k]) = ev
    BY <1>3, <1>5, <2>2 DEF HistoryOK, WellFormed, MapsOK
  <2>4. FromHistory(c.hist[k]) = ApplyReaction(c.ent[k].reacts, ev)
    BY <2>2, <2>3, LastCounts
  <2>5. c.ent[k] \in Projections
    BY <1>3, <1>7 DEF WellFormed, MapsOK
  <2>6. e \in Projections
    BY <1>1, <1>7, <2>5, ReactedOverIs
  <2>7. e.reacts = ApplyReaction(c.ent[k].reacts, ev) /\ e.text = c.ent[k].text
    <3> DEFINE r == ApplyReaction(c.ent[k].reacts, ev)
    <3>1. e = [c.ent[k] EXCEPT !.reacts = r]
      BY <1>7
    <3> HIDE DEF r
    <3>2. e.reacts = r /\ e.text = c.ent[k].text
      BY <2>5, <3>1 DEF Projections
    <3> QED  BY <3>2 DEF r
  <2>8. ev.kind \notin TextKinds
    BY DEF TextKinds
  <2>9. /\ RecordOK(f, s, Idle, k)
        /\ k \in DOMAIN s.ent => s.ent[k] = e
        /\ \A j : j # k => LostAt(b, s, j)
    <3>1. k \in DOMAIN b.hist => HistoryOK(f, b.hist[k], Idle, k)
      BY <1>5, <2>1
    <3>2. k \in DOMAIN b.hist /\ Last(b.hist[k]).kind \in TextKinds => e.text = Last(b.hist[k]).id
      BY <2>1, <2>3, <2>8
    <3>3. e.reacts = FromHistory(History(b, k))
      BY <2>2, <2>4, <2>7
    <3> QED  BY <2>1, <2>6, <3>1, <3>2, <3>3, StoredIs
  <2>10. UpsertEntity(c, k, e, t) = s
    BY DEF UpsertEntity, b
  <2> HIDE DEF s
  <2>11. ASSUME NEW j, j # k PROVE LostAt(c0, s, j)
    <3>1. LostAt(c, b, j)
      BY <2>1 DEF LostAt
    <3> QED  BY <1>3, <2>9, <2>11, <3>1, LostTwice
  <2>12. ASSUME IdsTell(f) PROVE FollowsAt(f, s, m - 1, k)
    <3>1. FollowsAt(f, c, (m - 1) - 1, k)
      BY <1>1, <1>3, <2>12, FollowsKept DEF SoleOK
    <3>2. f[m - 1].kind \in {"added", "removed"} /\ f[m - 1].art = k
      BY <1>1
    <3>3. k \in DOMAIN s.ent => k \in DOMAIN c.ent /\ s.ent[k].text = c.ent[k].text
      BY <1>7, <2>7, <2>9
    <3> QED  BY <1>1, <3>1, <3>2, <3>3, FollowsReaction
  <2>13. SoleOK(f, s, Idle, m)
    BY <1>1, <2>9, <2>11, <2>12, FinishFollows
  <2> QED  BY <1>7, <2>10, <2>13
<1> QED  BY <1>6, <1>7

\* A step of a worker concerns the only worker there is.
LEMMA WorkerFollows ==
  ASSUME FollowInv, NEW w \in Workers, worker[w].pc # "none", worker'[w].pc # "none",
         \A u \in Workers \ {w} : worker'[u] = worker[u],
         SoleOK(feed, cache, worker[w], next) => SoleOK(feed', cache', worker'[w], next')
  PROVE  FollowInv'
<1> SUFFICES ASSUME NEW v \in Workers, Sole(v)' PROVE SoleOK(feed', cache', worker'[v], next')
  BY DEF FollowInv
<1>1. NotConfigured.pc = "none"
  BY DEF NotConfigured, Idle
<1>2. w = v
  BY <1>1 DEF Sole
<1>3. Sole(v)
  BY <1>1, <1>2 DEF Sole
<1>4. SoleOK(feed, cache, worker[w], next)
  BY <1>2, <1>3 DEF FollowInv
<1> QED  BY <1>2, <1>4

\* The end of a section.
LEMMA WriteFollows ==
  ASSUME FollowInv, CacheInv, NEW w \in Workers, worker[w].pc \in Busy, NEW c, Write(w, c, "idle"),
         SoleOK(feed, cache, worker[w], next) => SoleOK(feed, c, Idle, next)
  PROVE  FollowInv'
<1>1. cache' = c /\ worker' = [worker EXCEPT ![w] = Idle] /\ feed' = feed /\ next' = next
  BY DEF Write
<1>2. worker'[w] = Idle /\ \A u \in Workers \ {w} : worker'[u] = worker[u]
  BY <1>1 DEF CacheInv
<1>3. worker[w].pc # "none" /\ worker'[w].pc # "none"
  BY <1>2 DEF Busy, Idle
<1> QED  BY <1>1, <1>2, <1>3, WorkerFollows

\* Nothing of what the workers do moves.
LEMMA RestFollows ==
  ASSUME FollowInv, worker' = worker, feed' = feed, next' = next,
         \A k : LostAt(cache, cache', k)
  PROVE  FollowInv'
<1> SUFFICES ASSUME NEW v \in Workers, Sole(v)' PROVE SoleOK(feed', cache', worker'[v], next')
  BY DEF FollowInv
<1>1. SoleOK(feed, cache, worker[v], next)
  BY DEF FollowInv, Sole
<1>2. SoleOK(feed, cache', worker[v], next)
  BY <1>1, LostFollows
<1> QED  BY <1>2

LEMMA FollowInit == CacheInit => FollowInv
<1> SUFFICES ASSUME CacheInit, NEW v \in Workers, Sole(v) PROVE SoleOK(feed, cache, worker[v], next)
  BY DEF FollowInv
<1>1. cache = EmptyCache
  BY DEF CacheInit
<1>2. worker[v].pc \notin Busy
  BY DEF CacheInit, Idle, NotConfigured, Busy
<1> QED  BY <1>1, <1>2, EmptyFollows

LEMMA TakeKeepsFollowing ==
  ASSUME FollowInv, CacheInv, NEW w \in Workers, Take(w)
  PROVE  FollowInv'
<1> DEFINE y == [pc |-> IF feed[next].kind = "created" THEN "created" ELSE "append",
                 ev |-> feed[next], at |-> now]
<1>1. /\ worker[w] = Idle /\ worker' = [worker EXCEPT ![w] = y]
      /\ next' = next + 1 /\ feed' = feed /\ cache' = cache
  BY DEF Take
<1>2. y.pc \in {"created", "append"} /\ y.ev = feed[next]
  OBVIOUS
<1> HIDE DEF y
<1>3. worker'[w] = y /\ \A u \in Workers \ {w} : worker'[u] = worker[u]
  BY <1>1 DEF CacheInv
<1>4. next \in Nat \ {0}
  BY DEF CacheInv
<1>5. worker[w].pc = "idle"
  BY <1>1 DEF Idle
<1>6. SoleOK(feed, cache, worker[w], next) => SoleOK(feed, cache, y, next + 1)
  BY <1>2, <1>4, <1>5, TakeFollows
<1>7. SoleOK(feed, cache, worker[w], next) => SoleOK(feed', cache', worker'[w], next')
  BY <1>1, <1>3, <1>6
<1>8. worker[w].pc # "none" /\ worker'[w].pc # "none"
  BY <1>2, <1>3, <1>5
<1> QED  BY <1>3, <1>7, <1>8, WorkerFollows

\* What a section finds.
LEMMA SectionFinds ==
  ASSUME CacheInv
  PROVE  WellFormed(cache) /\ feed \in Seq(Events) /\ next \in 1..(Len(feed) + 1)
BY CacheAssumption DEF CacheInv

LEMMA CreatedKeepsFollowing ==
  ASSUME FollowInv, CacheInv, NEW w \in Workers, RememberCreated(w)
  PROVE  FollowInv'
<1>1. worker[w].pc = "created" /\ worker[w].pc \in Busy /\ worker[w].ev.kind = "created"
  BY DEF RememberCreated, CacheInv, WorkerOK, Busy
<1>2. PICK t \in ClockOf(w) : Write(w, CreatedLeaves(cache, worker[w].ev, t), "idle")
  BY DEF RememberCreated, CreatedLeaves
<1>3. t \in Nat
  BY ClockOfIs
<1> DEFINE c == CreatedLeaves(cache, worker[w].ev, t)
<1>4. SoleOK(feed, cache, worker[w], next) => SoleOK(feed, c, Idle, next)
  BY <1>1, <1>3, SectionFinds, CreatedFollows
<1> HIDE DEF c
<1>5. Write(w, c, "idle")
  BY <1>2 DEF c
<1> QED  BY <1>1, <1>4, <1>5, WriteFollows

LEMMA AppendKeepsFollowing ==
  ASSUME FollowInv, CacheInv, NEW w \in Workers, AppendEvent(w)
  PROVE  FollowInv'
<1> DEFINE ev == worker[w].ev
<1>1. worker[w].pc = "append" /\ worker[w].pc \in Busy /\ ev.kind # "created"
  BY DEF AppendEvent, CacheInv, WorkerOK, Busy
<1>2. PICK t \in ClockOf(w) :
        IF IsDuplicate(cache, ev) THEN Write(w, cache, "idle")
        ELSE Write(w, Trim(AppendHistory(UpsertKey(cache, ev.art, t), ev)), "remember")
  BY DEF AppendEvent
<1>3. t \in Nat
  BY ClockOfIs
<1>4. CASE IsDuplicate(cache, ev)
  <2>1. SoleOK(feed, cache, worker[w], next) => SoleOK(feed, cache, Idle, next)
    BY <1>1, <1>4, SectionFinds, RepeatFollows
  <2> QED  BY <1>1, <1>2, <1>4, <2>1, WriteFollows
<1>5. CASE ~IsDuplicate(cache, ev)
  <2> DEFINE c == Trim(AppendHistory(UpsertKey(cache, ev.art, t), ev))
             y == [worker[w] EXCEPT !.pc = "remember", !.at = now]
  <2>1. cache' = c /\ worker' = [worker EXCEPT ![w] = y] /\ feed' = feed /\ next' = next
    BY <1>2, <1>5 DEF Write
  <2>2. y.pc = "remember" /\ y.ev = worker[w].ev
    BY DEF CacheInv, WorkerOK
  <2> HIDE DEF y
  <2>3. SoleOK(feed, cache, worker[w], next) => SoleOK(feed, c, y, next)
    BY <1>1, <1>3, <1>5, <2>2, SectionFinds, AppendFollows
  <2> HIDE DEF c
  <2>4. worker'[w] = y /\ \A u \in Workers \ {w} : worker'[u] = worker[u]
    BY <2>1 DEF CacheInv
  <2>5. worker[w].pc # "none" /\ worker'[w].pc # "none"
    BY <1>1, <2>2, <2>4
  <2> QED  BY <2>1, <2>3, <2>4, <2>5, WorkerFollows
<1> QED  BY <1>4, <1>5

LEMMA EditKeepsFollowing ==
  ASSUME FollowInv, CacheInv, NEW w \in Workers, RememberEdit(w)
  PROVE  FollowInv'
<1> DEFINE ev == worker[w].ev
<1>1. worker[w].pc = "remember" /\ worker[w].pc \in Busy /\ ev.kind = "edited"
  BY DEF RememberEdit, Busy
<1>2. PICK t \in ClockOf(w) :
        LET c == EnsureNotExpired(cache, ev.art, t)
        IN Write(w, UpsertEntity(c, ev.art, EditedOver(c, ev), t), "idle")
  BY DEF RememberEdit
<1>3. t \in Nat
  BY ClockOfIs
<1> DEFINE c == EnsureNotExpired(cache, ev.art, t)
           d == UpsertEntity(c, ev.art, EditedOver(c, ev), t)
<1>4. SoleOK(feed, cache, worker[w], next) => SoleOK(feed, d, Idle, next)
  BY <1>1, <1>3, SectionFinds, EditFollows
<1>5. Write(w, d, "idle")
  BY <1>2
<1> HIDE DEF d
<1> QED  BY <1>1, <1>4, <1>5, WriteFollows

LEMMA RetractKeepsFollowing ==
  ASSUME FollowInv, CacheInv, NEW w \in Workers, ForgetRetracted(w)
  PROVE  FollowInv'
<1> DEFINE d == Delete(cache, worker[w].ev.art)
<1>1. worker[w].pc = "remember" /\ worker[w].pc \in Busy /\ Write(w, d, "idle")
  BY DEF ForgetRetracted, Busy
<1>2. SoleOK(feed, cache, worker[w], next) => SoleOK(feed, d, Idle, next)
  BY <1>1, SectionFinds, RetractFollows
<1> HIDE DEF d
<1> QED  BY <1>1, <1>2, WriteFollows

LEMMA ReactKeepsFollowing ==
  ASSUME FollowInv, CacheInv, NEW w \in Workers, RememberReaction(w)
  PROVE  FollowInv'
<1> DEFINE ev == worker[w].ev
<1>1. worker[w].pc = "remember" /\ worker[w].pc \in Busy /\ ev.kind \in {"added", "removed"}
  BY DEF RememberReaction, Busy
<1>2. PICK t \in ClockOf(w) :
        LET c == EnsureNotExpired(cache, ev.art, t)
        IN Write(w, IF ev.art \notin DOMAIN c.ent THEN c
                    ELSE UpsertEntity(c, ev.art,
                           [c.ent[ev.art] EXCEPT !.reacts = ApplyReaction(@, ev)], t), "idle")
  BY DEF RememberReaction
<1>3. t \in Nat
  BY ClockOfIs
<1> DEFINE c == EnsureNotExpired(cache, ev.art, t)
           e == [c.ent[ev.art] EXCEPT !.reacts = ApplyReaction(@, ev)]
           d == IF ev.art \notin DOMAIN c.ent THEN c ELSE UpsertEntity(c, ev.art, e, t)
<1>4. SoleOK(feed, cache, worker[w], next) => SoleOK(feed, d, Idle, next)
  BY <1>1, <1>3, SectionFinds, ReactFollows
<1>5. Write(w, d, "idle")
  BY <1>2
<1> HIDE DEF d
<1> QED  BY <1>1, <1>4, <1>5, WriteFollows

LEMMA FollowNext == FollowInv /\ CacheInv /\ [CacheNext]_cacheVars => FollowInv'
<1> SUFFICES ASSUME FollowInv, CacheInv, [CacheNext]_cacheVars PROVE FollowInv'
  OBVIOUS
<1>1. \A k : LostAt(cache, cache, k)
  BY DEF LostAt
<1>2. CASE Tick
  BY <1>1, <1>2, RestFollows DEF Tick
<1>3. CASE OnShutdown
  <2>1. cache' = EmptyCache /\ feed' = feed /\ next' = next /\ worker' = worker
    BY <1>3 DEF OnShutdown
  <2> SUFFICES ASSUME NEW v \in Workers, Sole(v)' PROVE SoleOK(feed', cache', worker'[v], next')
    BY DEF FollowInv
  <2>2. worker[v].pc \in Busy => next >= 2 /\ worker[v].ev = feed[next - 1]
    BY <2>1 DEF FollowInv, Sole, SoleOK
  <2> QED  BY <2>1, <2>2, EmptyFollows
<1>4. ASSUME NEW w \in Workers, Take(w) PROVE FollowInv'
  BY <1>4, TakeKeepsFollowing
<1>5. ASSUME NEW w \in Workers, RememberCreated(w) PROVE FollowInv'
  BY <1>5, CreatedKeepsFollowing
<1>6. ASSUME NEW w \in Workers, AppendEvent(w) PROVE FollowInv'
  BY <1>6, AppendKeepsFollowing
<1>7. ASSUME NEW w \in Workers, RememberEdit(w) PROVE FollowInv'
  BY <1>7, EditKeepsFollowing
<1>8. ASSUME NEW w \in Workers, ForgetRetracted(w) PROVE FollowInv'
  BY <1>8, RetractKeepsFollowing
<1>9. ASSUME NEW w \in Workers, RememberReaction(w) PROVE FollowInv'
  BY <1>9, ReactKeepsFollowing
<1>10. ASSUME NEW r \in Readers, Get(r) \/ GetHistory(r) \/ ListConversationContextBefore(r) PROVE FollowInv'
  <2>1. cache' = cache /\ worker' = worker /\ feed' = feed /\ next' = next
    BY <1>10 DEF Get, GetHistory, ListConversationContextBefore, Reads
  <2> QED  BY <1>1, <2>1, RestFollows
<1>11. ASSUME NEW r \in Readers, ReconcileReadKeys(r) PROVE FollowInv'
  <2>1. /\ cache' = Reconciled(cache, reader[r]) /\ worker' = worker /\ feed' = feed /\ next' = next
        /\ reader[r] # NothingRead
    BY <1>11 DEF ReconcileReadKeys
  <2>2. WellFormed(cache) /\ ReaderOK(r)
    BY DEF CacheInv
  <2>3. Left(cache, reader[r].at, cache')
    BY <2>1, <2>2, ReconciledIs DEF ReaderOK
  <2>4. \A k : LostAt(cache, cache', k)
    BY <2>3, ShrunkLost DEF Left
  <2> QED  BY <2>1, <2>4, RestFollows
<1>12. CASE UNCHANGED cacheVars
  BY <1>1, <1>12, RestFollows DEF cacheVars
<1> QED  BY <1>2, <1>3, <1>4, <1>5, <1>6, <1>7, <1>8, <1>9, <1>10, <1>11, <1>12 DEF CacheNext

\* One worker means a worker and nobody else.
LEMMA OneIsSole ==
  ASSUME OneWorker
  PROVE  \E v \in Workers : Sole(v)
<1> DEFINE S == {w \in Workers : worker[w] # NotConfigured}
<1>1. IsFiniteSet(S) /\ Cardinality(S) = 1
  BY FS_Subset, CacheAssumption DEF OneWorker
<1>2. PICK v : S = {v}
  BY <1>1, FS_Singleton
<1> HIDE DEF S
<1>3. v \in S
  BY <1>2
<1>4. v \in Workers /\ worker[v] # NotConfigured
  BY <1>3 DEF S
<1>5. ASSUME NEW u \in Workers \ {v} PROVE worker[u] = NotConfigured
  <2>1. u \notin S
    BY <1>2
  <2> QED  BY <2>1 DEF S
<1> QED  BY <1>4, <1>5 DEF Sole

\* When nobody holds an event of the article, what it shows is settled.
LEMMA SettledFollows ==
  ASSUME CacheInv, FollowInv, NEW v \in Workers, Sole(v), NEW k \in Articles, Settled(k)
  PROVE  /\ RecordOK(feed, cache, worker[v], k) /\ ~Midway(worker[v], k)
         /\ IdsTell(feed) => FollowsAt(feed, cache, next - 1, k)
<1> DEFINE x == worker[v]
<1>1. SoleOK(feed, cache, x, next)
  BY DEF FollowInv
<1>2. x.pc \in {"none", "idle"} \/ x.ev.art # k
  BY DEF Settled
<1>3. ~Midway(x, k)
  BY <1>2 DEF Midway
<1>4. RecordOK(feed, cache, x, k)
  BY <1>1 DEF SoleOK
<1>5. ASSUME IdsTell(feed) PROVE FollowsAt(feed, cache, next - 1, k)
  <2>1. FollowsAt(feed, cache, HandledBy(x, next), k)
    BY <1>1, <1>5 DEF SoleOK
  <2>2. CASE x.pc \notin Busy
    BY <2>1, <2>2 DEF HandledBy
  <2>3. CASE x.pc \in Busy
    <3>1. /\ next - 1 \in 1..Len(feed) /\ feed[next - 1] = x.ev
          /\ HandledBy(x, next) = (next - 1) - 1
      BY <1>1, <2>3, SectionFinds, InHand
    <3>2. feed[next - 1].art # k
      BY <1>2, <2>3, <3>1 DEF Busy
    <3> QED  BY <2>1, <3>1, <3>2, SectionFinds, FollowsOther
  <2> QED  BY <2>2, <2>3
<1> QED  BY <1>3, <1>4, <1>5

(* The inductive invariant of a cache with one worker.  AppendEvent puts   *)
(* the event in the history in one section and RememberEdit, RememberReaction*)
(* or ForgetRetracted bring the projection up to it in the next.           *)
THEOREM FollowInvHolds == CacheSpec => []FollowInv
<1>1. CacheInit => FollowInv
  BY FollowInit
<1>2. FollowInv /\ CacheInv /\ [CacheNext]_cacheVars => FollowInv'
  BY FollowNext
<1> QED  BY <1>1, <1>2, CacheInvHolds, PTL DEF CacheSpec

(* With one worker, what a settled projection shows is what the events of  *)
(* its article amount to (projection.go:100, handler.go:33): its reactions *)
(* are those of its history whatever ids the events have; and when the ids *)
(* tell the kinds of event apart, its text is the latest one and nothing   *)
(* is left of an article retracted last.                                   *)
THEOREM ProjectionFollowsHolds == CacheSpec => []ProjectionFollows
<1>1. ASSUME CacheInv, FollowInv PROVE ProjectionFollows
  <2>1. IdsNameKinds <=> IdsTell(feed)
    BY DEF IdsNameKinds, IdsTell
  <2>2. \A k \in DOMAIN cache.ent : k \in Articles
    BY <1>1 DEF CacheInv, WellFormed, ListOK, MapsOK
  <2>3. ReactionsAreHistory
    <3> SUFFICES ASSUME OneWorker, NEW k \in DOMAIN cache.ent, Settled(k)
                 PROVE  cache.ent[k].reacts = FromHistory(History(cache, k))
      BY DEF ReactionsAreHistory, ReactionsCountOnce
    <3>1. PICK v \in Workers : Sole(v)
      BY OneIsSole
    <3>2. RecordOK(feed, cache, worker[v], k) /\ ~Midway(worker[v], k)
      BY <1>1, <2>2, <3>1, SettledFollows
    <3> QED  BY <3>2 DEF RecordOK, ProjectionOK
  <2>4. ASSUME OneWorker, IdsNameKinds, NEW k \in Articles, Settled(k)
        PROVE  FollowsAt(feed, cache, next - 1, k)
    <3>1. PICK v \in Workers : Sole(v)
      BY <2>4, OneIsSole
    <3> QED  BY <1>1, <2>1, <2>4, <3>1, SettledFollows
  <2>5. \A i \in 1..(next - 1) : \A k : \A kinds :
          IsLatest(i, k, kinds, next - 1) <=> Latest(feed, i, k, kinds, next - 1)
    BY DEF IsLatest, Latest
  <2>6. RetractedStaysGone
    <3> SUFFICES ASSUME OneWorker, IdsNameKinds, NEW k \in Articles, Settled(k), NEW i \in 1..(next - 1),
                        IsLatest(i, k, Kinds, next - 1), feed[i].kind = "retracted"
                 PROVE  k \notin DOMAIN cache.ent
      BY DEF RetractedStaysGone
    <3> QED  BY <2>4, <2>5 DEF FollowsAt
  <2>7. TextIsLatest
    <3> SUFFICES ASSUME OneWorker, IdsNameKinds, NEW k \in DOMAIN cache.ent, Settled(k)
                 PROVE  \E i \in 1..(next - 1) :
                          IsLatest(i, k, {"created", "edited"}, next - 1) /\ cache.ent[k].text = feed[i].id
      BY DEF TextIsLatest
    <3>1. FollowsAt(feed, cache, next - 1, k)
      BY <2>2, <2>4
    <3>2. PICK i \in 1..(next - 1) : Latest(feed, i, k, TextKinds, next - 1) /\ cache.ent[k].text = feed[i].id
      BY <3>1 DEF FollowsAt
    <3>3. IsLatest(i, k, {"created", "edited"}, next - 1)
      BY <2>5, <3>2 DEF TextKinds
    <3> QED  BY <3>2, <3>3
  <2> QED  BY <2>3, <2>6, <2>7 DEF ProjectionFollows
<1> QED  BY <1>1, CacheInvHolds, FollowInvHolds, PTL

-----------------------------------------------------------------------------
(* The chat request.                                                         *)

(* The inductive invariant.  The counters and flags, and how far the request *)
(* is from its end.                                                          *)
Ended == {"completed", "failed", "canceled"}

ReplyTypes ==
  /\ pc \in {"placeholder", "prepare", "open", "receive", "backoff", "edit", "announce",
             "execute", "final", "explain", "done"}
  /\ err \in {"none", "nil", "delivery", "timeout", "canceled", "internal", "provider",
              "empty", "tool"}
  /\ iter \in 1..MaxIterations /\ attempt \in 1..MaxAttempts /\ edits \in 0..MaxEditAttempts
  /\ thinking \in Nat /\ output \in Nat /\ calls \in Nat /\ thinking + output + calls <= MaxChunks
  /\ visible \in BOOLEAN /\ malformed \in BOOLEAN /\ answerDelivered \in BOOLEAN
  /\ reqDone \in BOOLEAN /\ ctxDone \in BOOLEAN /\ (ctxDone => reqDone)
  /\ pc = "backoff" => attempt < MaxAttempts
  /\ pc \in {"announce", "execute"} => iter < MaxIterations

Counts ==
  /\ visible => output > 0
  /\ malformed => calls > 0
  /\ answerDelivered => output > 0

Ending ==
  /\ err = "none" <=> pc \notin {"explain", "done"}
  /\ life \in Ended <=> pc = "done"
  /\ pc = "explain" => err \notin {"nil", "delivery"}

(* What is compared with the text that is already there: an answer among it  *)
(* is of an earlier round, or of this attempt and not ahead of its output;   *)
(* the one that is level with the output is what the conversation sees.      *)
CurrentText == IF output > 0 THEN Answer(output) ELSE Thinking(iter, thinking)

Older(text)    == text.what = "answer" => text.n[1] \in 1..(iter - 1)
NotNewer(text) == text.what = "answer" => text.n[1] \in 1..iter

TextInv ==
  /\ pc \in {"placeholder", "prepare", "open", "backoff", "receive", "edit"} => Older(base)
  /\ pc \in {"announce", "execute"} => NotNewer(base)
  /\ pc \in {"receive", "edit"} =>
       /\ Older(delivered) \/ \E k \in 1..output : delivered = Answer(k)
       /\ delivered = Answer(output) => shown = delivered
       /\ answerDelivered => shown.what = "answer"
  /\ pc = "announce" => pending.what = "tool"
  /\ pc = "edit" => pending = CurrentText /\ pending # delivered
  /\ pc = "final" => pending = Answer(output) /\ visible /\ ~malformed

(* An answer that was seen is the one of this attempt; the request can only  *)
(* go on with it, end, or explain a malformed tool call.                     *)
SeenInv ==
  answeredIn # 0 =>
    /\ answeredIn = attempt
    /\ pc \in {"receive", "edit", "final", "explain", "done"}
    /\ pc \in {"receive", "edit"} => visible /\ answerDelivered
    /\ pc = "explain" => malformed
    /\ ~malformed => shown.what = "answer"

ReplyIInv ==
  /\ ReplyTypes /\ Counts /\ Ending /\ TextInv /\ SeenInv
  /\ PlaceholderIsReplaced

-----------------------------------------------------------------------------
(* How a request ends or is retried.                                         *)
Failures == {"timeout", "canceled", "internal", "provider", "empty", "tool"}

LEMMA TerminalStates ==
  \A e : TerminalState(e) \in Ended
  BY DEF TerminalState, Ended

LEMMA FinalizeKeeps ==
  ASSUME ReplyIInv, pc \notin {"explain", "done"}, NEW class \in Failures, NEW answered \in BOOLEAN,
         Finalize(class, answered), answered => shown.what = "answer",
         answeredIn # 0 => pc \in {"receive", "edit"} /\ (answered \/ malformed'),
         UNCHANGED <<iter, attempt, output, visible, answerDelivered, shown, answeredIn, contexts>>,
         thinking' \in Nat, calls' \in Nat, thinking' + output + calls' <= MaxChunks,
         malformed' \in BOOLEAN, malformed' => calls' > 0, ~malformed' => ~malformed
  PROVE  ReplyIInv'
<1> USE DEF ReplyIInv, contexts
<1>1. /\ pc' \in {"explain", "done"} /\ err' = class /\ edits' \in 0..MaxEditAttempts
      /\ pc' = "explain" => life' = "delivering" /\ ~answered
      /\ pc' = "done" => life' \in Ended /\ (answered \/ ctxDone)
  BY TerminalStates, BoundsAssumption DEF Finalize, End, Failures, ReplyTypes
<1>2. ReplyTypes'
  <2>1. pc' \notin {"backoff", "announce", "execute"}
    BY <1>1
  <2>2. UNCHANGED <<iter, attempt, output, visible, answerDelivered, reqDone, ctxDone>>
    OBVIOUS
  <2> QED  BY <1>1, <2>1, <2>2 DEF ReplyTypes, Failures
<1>3. Counts' /\ Ending'
  BY <1>1 DEF Counts, Ending, Failures, Ended
<1>4. TextInv'
  BY <1>1 DEF TextInv
<1>5. SeenInv'
  BY <1>1 DEF SeenInv
<1>6. PlaceholderIsReplaced'
  BY <1>1 DEF PlaceholderIsReplaced, Failures
<1> QED  BY <1>2, <1>3, <1>4, <1>5, <1>6

(* A retry follows only an attempt whose answer nobody saw.                  *)
LEMMA AttemptFailsKeeps ==
  ASSUME ReplyIInv, pc \in {"open", "receive"}, NEW class \in Failures, NEW retryable \in BOOLEAN,
         NEW known \in BOOLEAN, AttemptFails(class, retryable, known),
         known => shown.what = "answer",
         answeredIn # 0 => pc = "receive" /\ (known \/ (malformed' /\ ~retryable)),
         UNCHANGED <<iter, attempt, output, visible, answerDelivered, shown, delivered, base,
                     answeredIn, contexts>>,
         thinking' \in Nat, calls' \in Nat, thinking' + output + calls' <= MaxChunks,
         malformed' \in BOOLEAN, malformed' => calls' > 0, ~malformed' => ~malformed
  PROVE  ReplyIInv'
<1>1. CASE Finalize(class, known)
  BY <1>1, FinalizeKeeps
<1>2. CASE ~Finalize(class, known)
  <2>1. pc' = "backoff" /\ attempt < MaxAttempts /\ retryable /\ ~known /\ UNCHANGED <<edits, life, err>> /\ answeredIn = 0
    BY <1>2 DEF AttemptFails
  <2> USE DEF ReplyIInv, contexts
  <2>2. ReplyTypes'
    BY <2>1 DEF ReplyTypes
  <2>3. Counts' /\ Ending'
    BY <2>1 DEF Counts, Ending
  <2>4. TextInv' /\ SeenInv' /\ PlaceholderIsReplaced'
    BY <2>1 DEF TextInv, Older, SeenInv, PlaceholderIsReplaced, Ending
  <2> QED  BY <2>2, <2>3, <2>4
<1> QED  BY <1>1, <1>2

-----------------------------------------------------------------------------
(* One lemma per step, or group of steps that end alike.                     *)
LEMMA PlaceholderStep ==
  ASSUME ReplyIInv, SendPlaceholder \/ Prepare \/ PrepareFails
  PROVE  ReplyIInv'
<1> USE DEF ReplyIInv
<1>1. answeredIn = 0 /\ pc \in {"placeholder", "prepare"}
  BY DEF SendPlaceholder, Prepare, PrepareFails, SeenInv
<1>2. ASSUME SendPlaceholder \/ Prepare PROVE ReplyIInv'
  <2>1. ReplyTypes' /\ Counts'
    BY <1>2 DEF SendPlaceholder, Prepare, End, ReplyTypes, Counts, progress, payloads, contexts
  <2>2. Ending'
    BY <1>2, TerminalStates DEF SendPlaceholder, Prepare, End, Ending, Ended
  <2>3. TextInv' /\ SeenInv' /\ PlaceholderIsReplaced'
    BY <1>1, <1>2 DEF SendPlaceholder, Prepare, End, TextInv, Older, SeenInv, PlaceholderIsReplaced,
                      Ending, progress, payloads
  <2> QED  BY <2>1, <2>2, <2>3
<1>3. ASSUME PrepareFails PROVE ReplyIInv'
  <2>1. PICK class \in Failures : Finalize(class, FALSE)
    BY <1>3 DEF PrepareFails, Failures
  <2>2. UNCHANGED <<progress, shown, payloads, contexts>>
    BY <1>3 DEF PrepareFails
  <2> QED  BY <1>1, <2>1, <2>2, FinalizeKeeps DEF ReplyTypes, Counts, progress, payloads
<1> QED  BY <1>2, <1>3

LEMMA OpenStreamStep ==
  ASSUME ReplyIInv, OpenStream
  PROVE  ReplyIInv'
<1> USE DEF ReplyIInv, OpenStream
<1>1. ReplyTypes'
  <2>1. 0 + 0 + 0 <= MaxChunks /\ pc' = "receive"
    BY BoundsAssumption
  <2> QED  BY <2>1 DEF ReplyTypes, contexts
<1>2. Counts' /\ Ending'
  BY DEF Counts, Ending
<1>3. TextInv'
  <2>1. Older(base) /\ iter \in Nat
    BY BoundsAssumption DEF TextInv, ReplyTypes
  <2>2. delivered' # Answer(output)'
    BY <2>1 DEF Older, Answer
  <2> QED  BY <2>1, <2>2 DEF TextInv, Older
<1>4. SeenInv' /\ PlaceholderIsReplaced'
  BY DEF SeenInv, PlaceholderIsReplaced, Ending
<1> QED  BY <1>1, <1>2, <1>3, <1>4

(* A failing attempt, wherever it fails.                                     *)
LEMMA AttemptFailureStep ==
  ASSUME ReplyIInv, OpenFails \/ ReceiveFails \/ EndOfStreamFails
  PROVE  ReplyIInv'
<1>1. PICK class \in Failures, retryable \in BOOLEAN, known \in BOOLEAN :
        /\ AttemptFails(class, retryable, known)
        /\ pc \in {"open", "receive"}
        /\ known => pc = "receive" /\ answerDelivered
        /\ pc = "receive" => known = answerDelivered \/ (malformed /\ ~retryable)
        /\ UNCHANGED <<progress, shown, payloads, contexts>>
  BY DEF OpenFails, ReceiveFails, EndOfStreamFails, ContextClass, Failures, ReplyIInv, ReplyTypes
<1>2. known => shown.what = "answer"
  BY <1>1 DEF ReplyIInv, TextInv
<1>3. answeredIn # 0 => pc = "receive" /\ (known \/ (malformed /\ ~retryable))
  BY <1>1 DEF ReplyIInv, SeenInv
<1> QED  BY <1>1, <1>2, <1>3, AttemptFailsKeeps DEF ReplyIInv, ReplyTypes, Counts, progress, payloads

LEMMA RetryStep ==
  ASSUME ReplyIInv, Retry
  PROVE  ReplyIInv'
<1>1. pc = "backoff" /\ answeredIn = 0
  BY DEF Retry, ReplyIInv, SeenInv
<1>2. CASE reqDone
  <2>1. PICK class \in Failures : Finalize(class, FALSE)
    BY <1>2 DEF Retry, ContextClass, Failures
  <2>2. UNCHANGED <<progress, shown, payloads, contexts>>
    BY <1>2 DEF Retry, progress
  <2> QED  BY <1>1, <2>1, <2>2, FinalizeKeeps DEF ReplyIInv, ReplyTypes, Counts, progress, payloads
<1>3. CASE ~reqDone
  <2>1. /\ pc' = "open" /\ attempt' = attempt + 1
        /\ UNCHANGED <<edits, life, err, iter, thinking, output, visible, calls, malformed, shown, payloads, contexts>>
    BY <1>3 DEF Retry
  <2>2. ReplyTypes'
    <3>1. attempt + 1 \in 1..MaxAttempts
      BY <1>1, BoundsAssumption DEF ReplyIInv, ReplyTypes
    <3> QED  BY <2>1, <3>1 DEF ReplyIInv, ReplyTypes, contexts, payloads
  <2>3. Counts' /\ Ending'
    BY <1>1, <2>1 DEF ReplyIInv, Counts, Ending, payloads
  <2>4. TextInv' /\ SeenInv' /\ PlaceholderIsReplaced'
    BY <1>1, <2>1 DEF ReplyIInv, TextInv, Older, SeenInv, PlaceholderIsReplaced, Ending, payloads
  <2> QED  BY <2>2, <2>3, <2>4 DEF ReplyIInv
<1> QED  BY <1>2, <1>3

(* What the stream brings.                                                   *)
LEMMA ReceiveTextStep ==
  ASSUME ReplyIInv, ReceiveText
  PROVE  ReplyIInv'
<1> USE DEF ReplyIInv
<1>1. /\ pc = "receive" /\ pc' \in {"receive", "edit"}
      /\ pc' = "edit" => pending' = NextText /\ NextText # delivered
      /\ UNCHANGED <<iter, attempt, calls, malformed, shown, delivered, base, answerDelivered,
                     answeredIn, edits, contexts, life, err>>
  BY DEF ReceiveText, EditOrGoOn
<1>2. /\ thinking' \in Nat /\ output' \in Nat /\ thinking' + output' + calls' <= MaxChunks
      /\ output' = output \/ output' = output + 1
  <2>1. thinking + output + calls < MaxChunks
    BY DEF ReceiveText
  <2>2. \/ thinking' = thinking + 1 /\ output' = output
        \/ output' = output + 1 /\ thinking' = thinking
    BY DEF ReceiveText
  <2> QED  BY <1>1, <2>1, <2>2, BoundsAssumption DEF ReplyTypes
<1>3. visible' \in BOOLEAN /\ (visible => visible') /\ (visible' => output' > 0)
  <2>1. CASE visible' = visible /\ output' >= output
    BY <1>2, <2>1 DEF ReplyTypes, Counts
  <2>2. CASE visible' \in {visible, TRUE} /\ output' = output + 1
    <3>1. output' > 0
      BY <2>2 DEF ReplyTypes
    <3>2. visible' = visible \/ visible' = TRUE
      BY <2>2
    <3> QED  BY <3>1, <3>2, Zenon DEF ReplyTypes
  <2>3. output' >= output
    BY <1>2 DEF ReplyTypes
  <2> QED  BY <2>1, <2>2, <2>3 DEF ReceiveText
<1> HIDE DEF ReplyIInv
<1>5. ReplyTypes' /\ Counts' /\ Ending'
  <2>1. ReplyTypes /\ Counts /\ Ending
    BY DEF ReplyIInv
  <2>2. ReplyTypes'
    BY <1>1, <1>2, <1>3, <2>1 DEF ReplyTypes, contexts
  <2>3. answerDelivered' => output' > 0
    BY <1>1, <1>2, <2>1 DEF Counts, ReplyTypes
  <2>4. Counts' /\ Ending'
    BY <1>1, <1>3, <2>1, <2>3 DEF Counts, Ending
  <2> QED  BY <2>2, <2>4
<1> USE DEF ReplyIInv
<1>4. TextInv'
  <2>1. NextText = CurrentText'
    BY <1>1 DEF NextText, CurrentText, Answer, Thinking
  <2>2. Older(delivered)' \/ \E k \in 1..output' : delivered' = Answer(k)'
    <3>1. ReplyTypes /\ (Older(delivered) \/ \E k \in 1..output : delivered = Answer(k))
      BY <1>1 DEF TextInv
    <3>2. CASE Older(delivered)
      BY <1>1, <3>2 DEF Older
    <3>3. CASE \E k \in 1..output : delivered = Answer(k)
      <4>1. PICK k \in 1..output : delivered = Answer(k)
        BY <3>3
      <4>2. k \in 1..output' /\ delivered' = Answer(k)'
        BY <1>1, <1>2, <3>1, <4>1 DEF ReplyTypes, Answer
      <4> QED  BY <4>2
    <3> QED  BY <3>1, <3>2, <3>3
  <2>3. (delivered = Answer(output))' => shown' = delivered'
    <3>1. CASE output' = output
      BY <1>1, <3>1 DEF TextInv, Answer
    <3>2. CASE output' = output + 1
      <4>1. delivered # Answer(output + 1)
        BY <1>1 DEF TextInv, Older, Answer, ReplyTypes
      <4> QED  BY <1>1, <3>2, <4>1 DEF Answer
    <3> QED  BY <1>2, <3>1, <3>2
  <2> QED  BY <1>1, <2>1, <2>2, <2>3 DEF TextInv, Older
<1>6. SeenInv' /\ PlaceholderIsReplaced'
  BY <1>1, <1>3 DEF SeenInv, PlaceholderIsReplaced, Ending
<1> QED  BY <1>4, <1>5, <1>6

LEMMA IntermediateEditStep ==
  ASSUME ReplyIInv, IntermediateEdit
  PROVE  ReplyIInv'
<1> USE DEF ReplyIInv
<1>1. /\ pc = "edit" /\ pc' = "receive" /\ pending = CurrentText /\ pending # delivered
      /\ UNCHANGED <<iter, attempt, thinking, output, visible, calls, malformed, base,
                     edits, contexts, life, err>>
  BY DEF IntermediateEdit, TextInv
<1>2. output > 0 => pending = Answer(output) /\ pending.what = "answer"
  BY <1>1 DEF CurrentText, Answer
<1>3. CASE /\ shown' = pending /\ delivered' = pending
           /\ answerDelivered' = (answerDelivered \/ output > 0)
           /\ answeredIn' = IF visible THEN attempt ELSE answeredIn
  <2>1. ReplyTypes' /\ Counts' /\ Ending'
    BY <1>1, <1>3 DEF ReplyTypes, Counts, Ending, contexts
  <2>2. TextInv'
    <3>1. Older(delivered)' \/ \E k \in 1..output' : delivered' = Answer(k)'
      BY <1>1, <1>3 DEF CurrentText, Older, Answer, Thinking, ReplyTypes
    <3> QED  BY <1>1, <1>2, <1>3, <3>1 DEF TextInv, Older, Counts
  <2>3. SeenInv' /\ PlaceholderIsReplaced'
    BY <1>1, <1>2, <1>3 DEF SeenInv, PlaceholderIsReplaced, Ending, Counts, ReplyTypes
  <2> QED  BY <2>1, <2>2, <2>3
<1>4. CASE shown' \in {shown, pending} /\ UNCHANGED <<delivered, answerDelivered, answeredIn>>
  <2>1. ReplyTypes' /\ Counts' /\ Ending'
    BY <1>1, <1>4 DEF ReplyTypes, Counts, Ending, contexts
  <2>2. TextInv'
    <3>1. (delivered = Answer(output))' => shown' = delivered'
      <4>1. ASSUME delivered = Answer(output) PROVE shown' = delivered
        <5>1. output = 0
          BY <1>1, <1>2, <4>1 DEF ReplyTypes
        <5>2. Older(delivered)
          BY <1>1, <5>1 DEF TextInv
        <5> QED  BY <4>1, <5>2 DEF Older, Answer, ReplyTypes
      <4> QED  BY <1>1, <1>4, <4>1 DEF Answer
    <3> QED  BY <1>1, <1>2, <1>4, <3>1 DEF TextInv, Older, Counts, Answer
  <2>3. SeenInv' /\ PlaceholderIsReplaced'
    BY <1>1, <1>2, <1>4 DEF SeenInv, PlaceholderIsReplaced, Ending, Counts, ReplyTypes
  <2> QED  BY <2>1, <2>2, <2>3
<1> QED  BY <1>3, <1>4 DEF IntermediateEdit

LEMMA ReceiveToolCallStep ==
  ASSUME ReplyIInv, ReceiveToolCall
  PROVE  ReplyIInv'
<1> USE DEF ReplyIInv
<1>1. /\ pc = "receive" /\ thinking + output + calls < MaxChunks /\ calls' = calls + 1
      /\ malformed' = malformed \/ malformed' = TRUE
      /\ UNCHANGED <<iter, attempt, thinking, output, visible, paced, shown, payloads, contexts>>
  BY DEF ReceiveToolCall
<1>2. /\ thinking' \in Nat /\ calls' \in Nat /\ thinking' + output + calls' <= MaxChunks
      /\ malformed' \in BOOLEAN /\ (malformed' => calls' > 0) /\ (~malformed' => ~malformed)
  <2>1. thinking' \in Nat /\ calls' \in Nat /\ thinking' + output + calls' <= MaxChunks /\ calls' > 0
    BY <1>1, BoundsAssumption DEF ReplyTypes
  <2>2. malformed' \in BOOLEAN /\ (~malformed' => ~malformed)
    <3>1. CASE malformed' = malformed
      BY <3>1 DEF ReplyTypes
    <3>2. CASE malformed' = TRUE
      BY <3>2
    <3> QED  BY <1>1, <3>1, <3>2
  <2> QED  BY <2>1, <2>2
<1>3. CASE UNCHANGED <<pc, edits, life, err>>
  <2>1. ReplyTypes' /\ Counts' /\ Ending'
    BY <1>1, <1>2, <1>3 DEF ReplyTypes, Counts, Ending, payloads, contexts
  <2>2. TextInv'
    BY <1>1, <1>2, <1>3 DEF TextInv, Older, Answer, payloads
  <2>3. SeenInv' /\ PlaceholderIsReplaced'
    BY <1>1, <1>2, <1>3 DEF SeenInv, PlaceholderIsReplaced, Ending, payloads
  <2> QED  BY <2>1, <2>2, <2>3
<1>4. CASE malformed' /\ AttemptFails("internal", FALSE, FALSE)
  BY <1>1, <1>2, <1>4, AttemptFailsKeeps DEF Failures, payloads
<1> QED  BY <1>3, <1>4 DEF ReceiveToolCall

LEMMA EndOfStreamStep ==
  ASSUME ReplyIInv, EndOfStream
  PROVE  ReplyIInv'
<1> USE DEF ReplyIInv
<1>1. /\ pc = "receive" /\ ~malformed /\ base' = delivered
      /\ UNCHANGED <<iter, attempt, thinking, output, visible, calls, malformed, shown, delivered,
                     answerDelivered, answeredIn, contexts>>
  BY DEF EndOfStream, progress
<1>2. CASE visible /\ FinalText = delivered /\ End("nil") /\ UNCHANGED edits
  <2>1. pc' = "done" /\ err' = "nil" /\ life' = "completed"
    BY <1>2 DEF End, TerminalState
  <2>2. shown = FinalText /\ shown.what = "answer"
    BY <1>1, <1>2 DEF TextInv, FinalText, Answer
  <2>3. ReplyTypes' /\ Counts' /\ Ending'
    BY <1>1, <1>2, <2>1 DEF ReplyTypes, Counts, Ending, Ended, contexts
  <2>4. TextInv' /\ SeenInv' /\ PlaceholderIsReplaced'
    BY <1>1, <2>1, <2>2 DEF TextInv, SeenInv, PlaceholderIsReplaced, FinalText, Answer
  <2> QED  BY <2>3, <2>4
<1>3. CASE /\ visible /\ pc' = "final" /\ pending' = FinalText /\ edits' = 0 /\ life' = "delivering"
           /\ UNCHANGED err
  <2>1. ReplyTypes' /\ Counts' /\ Ending'
    BY <1>1, <1>3, BoundsAssumption DEF ReplyTypes, Counts, Ending, Ended, contexts
  <2>2. TextInv' /\ SeenInv' /\ PlaceholderIsReplaced'
    BY <1>1, <1>3 DEF TextInv, SeenInv, PlaceholderIsReplaced, FinalText, Answer, Ending
  <2> QED  BY <2>1, <2>2
<1>4. CASE ~visible /\ \E class \in Failures : Finalize(class, FALSE)
  <2>1. answeredIn = 0
    BY <1>1, <1>4 DEF SeenInv
  <2> QED  BY <1>1, <1>4, <2>1, FinalizeKeeps DEF ReplyTypes, Counts
<1>5. CASE /\ ~visible /\ iter < MaxIterations /\ pc' = "announce" /\ pending' = Tool(iter, 1)
           /\ life' = "executing_tools" /\ UNCHANGED <<edits, err>>
  <2>1. answeredIn = 0
    BY <1>1, <1>5 DEF SeenInv
  <2>2. ReplyTypes' /\ Counts' /\ Ending'
    BY <1>1, <1>5 DEF ReplyTypes, Counts, Ending, Ended, contexts
  <2>3. NotNewer(delivered)
    <3>1. CASE Older(delivered)
      BY <3>1 DEF Older, NotNewer, ReplyTypes
    <3>2. CASE \E k \in 1..output : delivered = Answer(k)
      BY <3>2 DEF Answer, NotNewer, ReplyTypes
    <3> QED  BY <1>1, <3>1, <3>2 DEF TextInv
  <2>4. TextInv' /\ SeenInv' /\ PlaceholderIsReplaced'
    BY <1>1, <1>5, <2>1, <2>3 DEF TextInv, NotNewer, SeenInv, PlaceholderIsReplaced, Ending, Tool
  <2> QED  BY <2>2, <2>4
<1> QED  BY <1>2, <1>3, <1>4, <1>5 DEF EndOfStream, ContextClass, Failures

LEMMA ToolStep ==
  ASSUME ReplyIInv, AnnounceTool \/ ExecuteTool \/ ToolFails
  PROVE  ReplyIInv'
<1> USE DEF ReplyIInv
<1>1. pc \in {"announce", "execute"} /\ answeredIn = 0 /\ UNCHANGED answeredIn
  BY DEF AnnounceTool, ExecuteTool, ToolFails, SeenInv, payloads
<1>2. ASSUME AnnounceTool PROVE ReplyIInv'
  <2>1. /\ pc' = "execute" /\ base' \in {base, pending}
        /\ UNCHANGED <<progress, delivered, answerDelivered, pending, edits, contexts, life, err>>
    BY <1>2 DEF AnnounceTool
  <2>2. pc = "announce" /\ iter \in 1..MaxIterations /\ pending.what = "tool"
    BY <1>2 DEF AnnounceTool, TextInv, ReplyTypes
  <2>3. ReplyTypes' /\ Counts' /\ Ending'
    BY <1>1, <2>1 DEF ReplyTypes, Counts, Ending, progress, contexts
  <2>4. TextInv' /\ SeenInv' /\ PlaceholderIsReplaced'
    BY <1>1, <2>1, <2>2 DEF TextInv, NotNewer, SeenInv, PlaceholderIsReplaced, Ending, progress
  <2> QED  BY <2>3, <2>4
<1>3. ASSUME ExecuteTool PROVE ReplyIInv'
  <2>1. CASE pc' = "announce" /\ UNCHANGED <<iter, attempt, life>>
    <3>1. UNCHANGED <<thinking, output, visible, calls, malformed, shown, delivered,
                      base, answerDelivered, edits, contexts, err>>
      BY <1>3 DEF ExecuteTool
    <3>2. ReplyTypes' /\ Counts' /\ Ending'
      BY <1>1, <2>1, <3>1 DEF ReplyTypes, Counts, Ending, contexts
    <3>3. pending'.what = "tool"
      BY <1>3, <2>1 DEF ExecuteTool, Tool
    <3>4. TextInv' /\ SeenInv' /\ PlaceholderIsReplaced'
      BY <1>1, <2>1, <3>1, <3>3 DEF TextInv, NotNewer, SeenInv, PlaceholderIsReplaced, Ending
    <3> QED  BY <3>2, <3>4
  <2>2. CASE pc' = "open" /\ iter' = iter + 1 /\ attempt' = 1 /\ life' = "generating"
    <3>1. /\ pc = "execute"
          /\ UNCHANGED <<thinking, output, visible, calls, malformed, shown, delivered,
                         base, answerDelivered, edits, contexts, err>>
      BY <1>3 DEF ExecuteTool
    <3>2. iter + 1 \in 1..MaxIterations /\ 1 \in 1..MaxAttempts
      BY <1>1, BoundsAssumption DEF ReplyTypes
    <3>3. ReplyTypes'
      BY <1>1, <2>2, <3>1, <3>2 DEF ReplyTypes, contexts
    <3>4. Counts' /\ Ending'
      BY <1>1, <2>2, <3>1 DEF Counts, Ending, Ended
    <3>5. TextInv' /\ SeenInv' /\ PlaceholderIsReplaced'
      <4>1. NotNewer(base) => Older(base)'
        BY <2>2, <3>1 DEF NotNewer, Older, ReplyTypes
      <4> QED  BY <1>1, <2>2, <3>1, <4>1 DEF TextInv, SeenInv, PlaceholderIsReplaced, Ending
    <3> QED  BY <3>3, <3>4, <3>5
  <2> QED  BY <1>3, <2>1, <2>2 DEF ExecuteTool
<1>4. ASSUME ToolFails PROVE ReplyIInv'
  BY <1>1, <1>4, FinalizeKeeps DEF ToolFails, Failures, ReplyTypes, Counts, progress, payloads
<1> QED  BY <1>2, <1>3, <1>4

(* The last text: the answer, or what explains that there is none.           *)
LEMMA LastEditStep ==
  ASSUME ReplyIInv, EditDone \/ EditAgain \/ EditGivesUp
  PROVE  ReplyIInv'
<1> USE DEF ReplyIInv
<1>1. /\ pc \in {"final", "explain"} /\ UNCHANGED <<progress, delivered, base, answerDelivered,
                                                   pending, contexts>>
      /\ pc = "final" => Text = Answer(output) /\ Text.what = "answer" /\ visible /\ ~malformed
      /\ pc = "explain" => Text = Failure /\ err \notin {"none", "nil", "delivery"}
  BY DEF EditDone, EditAgain, EditGivesUp, TextInv, Text, Answer, Ending, payloads
<1>2. ASSUME EditDone PROVE ReplyIInv'
  <2>1. /\ pc' = "done" /\ shown' = Text /\ life' \in Ended /\ edits' = edits
        /\ err' = IF pc = "final" THEN "nil" ELSE err
        /\ answeredIn' = IF pc = "final" THEN attempt ELSE answeredIn
    BY <1>2, TerminalStates DEF EditDone, End
  <2>2. ReplyTypes' /\ Counts' /\ Ending'
    BY <1>1, <2>1 DEF ReplyTypes, Counts, Ending, progress, contexts
  <2>3. TextInv' /\ SeenInv' /\ PlaceholderIsReplaced'
    BY <1>1, <2>1 DEF TextInv, SeenInv, PlaceholderIsReplaced, FinalText, Answer, Failure, progress
  <2> QED  BY <2>2, <2>3
<1>3. ASSUME EditAgain PROVE ReplyIInv'
  <2>1. /\ edits' = edits + 1 /\ edits + 1 < MaxEditAttempts /\ shown' \in {shown, Text}
        /\ UNCHANGED <<pc, life, err, answeredIn>>
    BY <1>3 DEF EditAgain, payloads
  <2>2. ReplyTypes'
    <3>1. edits' \in 0..MaxEditAttempts
      BY <2>1, BoundsAssumption DEF ReplyTypes
    <3> QED  BY <1>1, <2>1, <3>1 DEF ReplyTypes, progress, contexts
  <2>3. Counts' /\ Ending'
    BY <1>1, <2>1 DEF Counts, Ending, progress
  <2>4. TextInv' /\ SeenInv' /\ PlaceholderIsReplaced'
    BY <1>1, <2>1 DEF TextInv, SeenInv, PlaceholderIsReplaced, Answer, Ending, progress
  <2> QED  BY <2>2, <2>3, <2>4
<1>4. ASSUME EditGivesUp PROVE ReplyIInv'
  <2>1. /\ pc' = "done" /\ err' = "delivery" /\ life' \in Ended /\ shown' \in {shown, Text}
        /\ UNCHANGED <<edits, answeredIn>>
    BY <1>4, TerminalStates DEF EditGivesUp, End, payloads
  <2>2. ReplyTypes' /\ Counts' /\ Ending'
    BY <1>1, <2>1 DEF ReplyTypes, Counts, Ending, progress, contexts
  <2>3. TextInv' /\ SeenInv' /\ PlaceholderIsReplaced'
    BY <1>1, <2>1 DEF TextInv, SeenInv, PlaceholderIsReplaced, progress
  <2> QED  BY <2>2, <2>3
<1> QED  BY <1>2, <1>3, <1>4

(* Neither context ends anything by itself: it is a step that finds it done. *)
LEMMA ContextStep ==
  ASSUME ReplyIInv, RequestTimeout \/ HandlerDone \/ UNCHANGED vars
  PROVE  ReplyIInv'
<1> USE DEF ReplyIInv
<1>1. /\ UNCHANGED <<pc, progress, shown, payloads, edits, life, err>>
      /\ reqDone' \in BOOLEAN /\ ctxDone' \in BOOLEAN /\ (ctxDone' => reqDone')
      /\ pc = "done" => ctxDone' = ctxDone
  <2>1. reqDone \in BOOLEAN /\ ctxDone \in BOOLEAN /\ (ctxDone => reqDone)
    BY DEF ReplyTypes
  <2>2. CASE RequestTimeout
    BY <2>1, <2>2 DEF RequestTimeout, Running
  <2>3. CASE HandlerDone
    BY <2>1, <2>3 DEF HandlerDone, Running
  <2>4. CASE UNCHANGED vars
    BY <2>1, <2>4 DEF vars, contexts
  <2> QED  BY <2>2, <2>3, <2>4
<1>2. ReplyTypes' /\ Counts' /\ Ending'
  BY <1>1 DEF ReplyTypes, Counts, Ending, progress, payloads
<1>3. TextInv'
  BY <1>1 DEF TextInv, Older, NotNewer, CurrentText, Answer, Thinking, progress, payloads
<1>4. SeenInv' /\ PlaceholderIsReplaced'
  BY <1>1 DEF SeenInv, PlaceholderIsReplaced, FinalText, Answer, progress, payloads
<1> QED  BY <1>2, <1>3, <1>4

LEMMA ReplyBegins ==
  ASSUME Init
  PROVE  ReplyIInv
<1>1. ReplyTypes
  <2>1. /\ 1 \in 1..MaxIterations /\ 1 \in 1..MaxAttempts /\ 0 \in 0..MaxEditAttempts
        /\ 0 + 0 + 0 <= MaxChunks
    BY BoundsAssumption
  <2> QED  BY <2>1 DEF Init, ReplyTypes
<1>2. Counts /\ Ending /\ SeenInv /\ PlaceholderIsReplaced
  BY DEF Init, Counts, Ending, Ended, SeenInv, PlaceholderIsReplaced
<1>3. TextInv
  BY DEF Init, TextInv, Older, DefaultThinking, Thinking
<1> QED  BY <1>1, <1>2, <1>3 DEF ReplyIInv

LEMMA ReplyStep ==
  ASSUME ReplyIInv, [Next]_vars
  PROVE  ReplyIInv'
  BY PlaceholderStep, OpenStreamStep, AttemptFailureStep, RetryStep, ReceiveTextStep,
     IntermediateEditStep, ReceiveToolCallStep, EndOfStreamStep, ToolStep, LastEditStep, ContextStep
  DEF Next, HandlerStep, ProviderStep

LEMMA ReplyInvariant == Spec => []ReplyIInv
  BY ReplyBegins, ReplyStep, PTL DEF Spec

-----------------------------------------------------------------------------
(* Rounds, attempts, edits and chunks keep their bounds, and a request has    *)
(* an outcome exactly when it is over.                                        *)
THEOREM ReplyTypeCorrect == Spec => []TypeOK
<1>1. ReplyIInv => TypeOK
  <2> SUFFICES ASSUME ReplyIInv PROVE TypeOK
    OBVIOUS
  <2>1. thinking + output + calls \in 0..MaxChunks
    BY BoundsAssumption DEF ReplyIInv, ReplyTypes
  <2> QED  BY <2>1 DEF ReplyIInv, ReplyTypes, Counts, Ending, Ended, TypeOK
<1> QED  BY <1>1, ReplyInvariant, PTL

(* What the conversation has seen of an answer is not generated again, and    *)
(* nothing but the explanation of a malformed tool call overwrites it, for    *)
(* any number of rounds, attempts, chunks and edits.                          *)
THEOREM SeenAnswerStays == Spec => []AnswerStays
<1>1. ReplyIInv => AnswerStays
  BY DEF ReplyIInv, SeenInv, AnswerStays
<1> QED  BY <1>1, ReplyInvariant, PTL

(* A handler that reports success has shown the whole answer of the attempt   *)
(* that succeeded; one that ends with time to spare has shown an answer or an *)
(* explanation, unless its edits were all refused.                            *)
THEOREM PlaceholderGoes == Spec => []PlaceholderIsReplaced
<1>1. ReplyIInv => PlaceholderIsReplaced
  BY DEF ReplyIInv
<1> QED  BY <1>1, ReplyInvariant, PTL
=============================================================================
