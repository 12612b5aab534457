--------------------------- MODULE PlatformProofs ---------------------------
(***************************************************************************)
(* Between the modules and the platforms: the reactions and edits the      *)
(* Telegram mapper tells of add up (TelegramReactions), and on the way of a*)
(* message out and back its tags survive and the cache ends with its last  *)
(* version, unless it took an edit for a redelivery (Outbound).  For every *)
(* set of articles and emojis, any number of senders, parts and edits, and *)
(* every bound.                                                            *)
(*                                                                         *)
(* And what a chat driver does with the updates it is handed (DriverIngest),*)
(* for every set of producers, every script of deliveries, every capacity   *)
(* of the channel and every outcome of mapping: the updates of a producer   *)
(* reach the sink in the order in which they were handed over, Telegram     *)
(* loses none while its consumer runs, and Start returns nil only for a     *)
(* reason.                                                                  *)
(***************************************************************************)
EXTENDS DriverIngest, TelegramReactions, Outbound, FiniteSetTheorems, TLAPS

-----------------------------------------------------------------------------
(* TelegramReactions.  Types, first: an update on its way and a watch are of  *)
(* an article the server has, and what a reader was told of an article is    *)
(* what the mapper's caches have of it.                                      *)
Article == [text : Texts, counts : Counts]
Told    == [text : Texts, counts : [Emojis -> Int]]
Classes == {"new", "reactions", "edit"}
Recents == Emojis \cup {None}
Update  == [class : Classes, art : Articles, text : Texts,
            present : BOOLEAN, counts : Counts, recent : Recents,
            hide : BOOLEAN, dated : BOOLEAN, withPeer : BOOLEAN]
UpdatesOf(a) == {u \in Update : u.art = a}

ServerTypes ==
  /\ server \in [Articles -> Article \cup {None}]
  /\ inbox \in Seq(Update)
  /\ \A i \in 1..Len(inbox) : server[inbox[i].art] \in Article

MapperTypes ==
  /\ counts \in [Articles -> Counts \cup {None}] /\ snap \in [Articles -> Texts \cup {None}]
  /\ seen \in [Articles -> Told \cup {None}] /\ exact \in [Articles -> BOOLEAN]
  /\ watches \subseteq Articles /\ \A a \in watches : server[a] \in Article

ReaderAgrees ==
  \A a \in Articles : seen[a] # None =>
    /\ snap[a] = seen[a].text /\ counts[a] \in Counts
    /\ exact[a] => seen[a].counts = counts[a]

ReactionsIInv == ServerTypes /\ MapperTypes /\ ReaderAgrees

LEMMA CountsAreNumbers ==
  /\ Zero \in Counts /\ None \notin Counts
  /\ \A c \in Counts : c \in [Emojis -> Int]
  BY ReactionsAssumption DEF Zero, Counts

LEMMA ReactionsBegin == Init => ReactionsIInv
<1> SUFFICES ASSUME Init PROVE ReactionsIInv
  OBVIOUS
<1> QED
  BY DEF Init, ReactionsIInv, ServerTypes, MapperTypes, ReaderAgrees

(* What happens at the server leaves the mapper alone, and what it sends is  *)
(* of the article that changed.                                              *)
LEMMA RawIsOfTheArticle ==
  ASSUME NEW a \in Articles, NEW s \in Article, NEW class \in Classes, NEW present \in BOOLEAN,
         NEW recent \in Recents, NEW hide \in BOOLEAN, NEW dated \in BOOLEAN
  PROVE  Raw(class, a, s, present, recent, hide, dated) \subseteq UpdatesOf(a)
  BY CountsAreNumbers DEF Raw, Update, UpdatesOf, Article

LEMMA TellsIsOfTheArticle ==
  ASSUME NEW a \in Articles, NEW s \in Article, NEW recent \in Recents
  PROVE  Tells(a, s, recent) \subseteq UpdatesOf(a)
<1> DEFINE hidden == s.counts # Zero
<1>1. /\ "reactions" \in Classes /\ "edit" \in Classes /\ None \in Recents
      /\ TRUE \in BOOLEAN /\ FALSE \in BOOLEAN /\ hidden \in BOOLEAN
  BY DEF Classes, Recents
<1> HIDE DEF hidden
<1>2. Raw("reactions", a, s, TRUE, recent, FALSE, FALSE) \subseteq UpdatesOf(a)
  BY <1>1, RawIsOfTheArticle
<1>3. Raw("edit", a, s, hidden, recent, TRUE, FALSE) \subseteq UpdatesOf(a)
  BY <1>1, RawIsOfTheArticle
<1>4. Raw("edit", a, s, FALSE, None, TRUE, TRUE) \subseteq UpdatesOf(a)
  BY <1>1, RawIsOfTheArticle
<1>5. Raw("edit", a, s, TRUE, None, FALSE, FALSE) \subseteq UpdatesOf(a)
  BY <1>1, RawIsOfTheArticle
<1> QED  BY <1>2, <1>3, <1>4, <1>5 DEF Tells, hidden

LEMMA ChangeStep ==
  ASSUME ReactionsIInv, NEW a \in Articles, NEW s \in Article, NEW updates,
         updates \subseteq UpdatesOf(a), Change(a, s, updates)
  PROVE  ReactionsIInv'
<1> USE DEF ReactionsIInv
<1>1. /\ server' \in [Articles -> Article \cup {None}]
      /\ \A b \in Articles : server[b] \in Article => server'[b] \in Article
      /\ server'[a] \in Article
  BY DEF Change, ServerTypes
<1>2. ServerTypes'
  <2>0. \A i \in 1..Len(inbox) : inbox[i].art \in Articles
    <3>1. \A i \in 1..Len(inbox) : inbox[i] \in Update
      BY DEF ServerTypes
    <3> QED  BY <3>1 DEF Update
  <2>1. CASE inbox' = inbox
    BY <1>1, <2>0, <2>1 DEF ServerTypes
  <2>2. ASSUME NEW u \in updates, inbox' = Append(inbox, u)
        PROVE  ServerTypes'
    <3>1. inbox' \in Seq(Update) /\ Len(inbox') = Len(inbox) + 1 /\ inbox'[Len(inbox')].art = a
      BY <2>2 DEF ServerTypes, UpdatesOf
    <3>2. \A i \in 1..Len(inbox) : inbox'[i] = inbox[i] /\ inbox[i].art \in Articles
      BY <2>0, <2>2 DEF ServerTypes
    <3>3. \A i \in 1..Len(inbox') : i \in 1..Len(inbox) \/ i = Len(inbox')
      BY <3>1 DEF ServerTypes
    <3> QED  BY <1>1, <3>1, <3>2, <3>3 DEF ServerTypes
  <2> QED  BY <2>1, <2>2 DEF Change
<1>3. MapperTypes'
  BY <1>1 DEF MapperTypes, Change, caches
<1>4. ReaderAgrees'
  BY DEF ReaderAgrees, Change, caches
<1> QED  BY <1>2, <1>3, <1>4

LEMMA ServerStep ==
  ASSUME ReactionsIInv, NEW a \in Articles,
         \/ \E t \in Texts : Post(a, t) \/ EditText(a, t)
         \/ \E e \in Emojis : React(a, e) \/ Unreact(a, e)
  PROVE  ReactionsIInv'
<1>1. server[a] # None => server[a] \in Article
  BY DEF ReactionsIInv, ServerTypes
<1>2. ASSUME NEW t \in Texts, Post(a, t)
      PROVE  ReactionsIInv'
  <2> DEFINE s == [text |-> t, counts |-> Zero]
  <2>1. s \in Article /\ "new" \in Classes /\ None \in Recents /\ FALSE \in BOOLEAN
    BY CountsAreNumbers DEF Article, Classes, Recents
  <2>2. Change(a, s, Raw("new", a, s, FALSE, None, FALSE, FALSE))
    BY <1>2 DEF Post
  <2> HIDE DEF s
  <2>3. Raw("new", a, s, FALSE, None, FALSE, FALSE) \subseteq UpdatesOf(a)
    BY <2>1, RawIsOfTheArticle
  <2> QED  BY <2>1, <2>2, <2>3, ChangeStep
<1>3. ASSUME NEW t \in Texts, EditText(a, t)
      PROVE  ReactionsIInv'
  <2> DEFINE s == [server[a] EXCEPT !.text = t]
  <2>1. /\ s \in Article /\ (s.counts # Zero) \in BOOLEAN
        /\ "edit" \in Classes /\ None \in Recents /\ TRUE \in BOOLEAN /\ FALSE \in BOOLEAN
    BY <1>1, <1>3 DEF EditText, Article, Classes, Recents
  <2>2. Change(a, s, Raw("edit", a, s, s.counts # Zero, None, FALSE, TRUE))
    BY <1>3 DEF EditText
  <2> HIDE DEF s
  <2>3. Raw("edit", a, s, s.counts # Zero, None, FALSE, TRUE) \subseteq UpdatesOf(a)
    BY <2>1, RawIsOfTheArticle
  <2> QED  BY <2>1, <2>2, <2>3, ChangeStep
<1>4. \A s \in Article, recent \in Recents :
        Tells(a, s, recent) \subseteq UpdatesOf(a)
  BY TellsIsOfTheArticle
<1>5. ASSUME NEW e \in Emojis, React(a, e)
      PROVE  ReactionsIInv'
  <2>1. [server[a] EXCEPT !.counts[e] = @ + 1] \in Article
    BY <1>1, <1>5, ReactionsAssumption DEF React, Article, Counts
  <2>2. e \in Recents
    BY DEF Recents
  <2> QED  BY <1>4, <1>5, <2>1, <2>2, ChangeStep DEF React
<1>6. ASSUME NEW e \in Emojis, Unreact(a, e)
      PROVE  ReactionsIInv'
  <2>1. [server[a] EXCEPT !.counts[e] = @ - 1] \in Article
    BY <1>1, <1>6, ReactionsAssumption DEF Unreact, Article, Counts
  <2>2. None \in Recents
    BY DEF Recents
  <2> QED  BY <1>4, <1>6, <2>1, <2>2, ChangeStep DEF Unreact
<1> QED  BY <1>2, <1>3, <1>5, <1>6

(* The events that are emitted take a reader as far as their deltas say.     *)
LEMMA EmitAddsUp ==
  ASSUME MapperTypes, NEW a \in Articles, NEW deltas \in [Emojis -> Int], Emit(a, deltas)
  PROVE  /\ seen' \in [Articles -> Told \cup {None}]
         /\ \A b \in Articles : seen'[b] # None =>
              seen[b] # None /\ seen'[b].text = seen[b].text /\ (b # a => seen'[b] = seen[b])
         /\ seen'[a] # None =>
              seen'[a].counts = [e \in Emojis |-> seen[a].counts[e] + deltas[e]]
<1>1. CASE seen[a] = None
  BY <1>1 DEF MapperTypes, Emit
<1>2. CASE seen[a] # None
  <2>1. seen[a] \in Told
    BY <1>2 DEF MapperTypes
  <2> DEFINE added == [e \in Emojis |-> seen[a].counts[e] + deltas[e]]
  <2>2. added \in [Emojis -> Int]
    BY <2>1 DEF Told
  <2>3. seen' = [seen EXCEPT ![a].counts = added]
    BY <1>2 DEF Emit
  <2> HIDE DEF added
  <2>4. seen' = [seen EXCEPT ![a] = [text |-> seen[a].text, counts |-> added]]
    <3>1. [seen[a] EXCEPT !.counts = added] = [text |-> seen[a].text, counts |-> added]
      BY <2>1 DEF Told
    <3> QED  BY <2>3, <3>1 DEF MapperTypes
  <2>5. [text |-> seen[a].text, counts |-> added] \in Told
    BY <2>1, <2>2 DEF Told
  <2> QED  BY <1>2, <2>4, <2>5 DEF MapperTypes, added
<1> QED  BY <1>1, <1>2

LEMMA DiffAddsUp ==
  ASSUME NEW prev \in Counts, NEW cur \in Counts
  PROVE  /\ Diff(prev, cur) \in [Emojis -> Int]
         /\ [e \in Emojis |-> prev[e] + Diff(prev, cur)[e]] = cur
<1>1. \A e \in Emojis : prev[e] \in Int /\ cur[e] \in Int /\ prev[e] + (cur[e] - prev[e]) = cur[e]
  BY CountsAreNumbers
<1>2. cur = [e \in Emojis |-> cur[e]]
  BY CountsAreNumbers
<1> QED  BY <1>1, <1>2 DEF Diff

(* An event that tells the difference to the cached counts, or to an empty   *)
(* count where none are cached, keeps a reader in agreement.                 *)
LEMMA EmittedDifference ==
  ASSUME ReactionsIInv, NEW a \in Articles, NEW prev \in Counts, NEW cur \in Counts,
         counts[a] # None => prev = counts[a], Emit(a, Diff(prev, cur)),
         exact' = exact, counts' = [counts EXCEPT ![a] = cur], snap' = snap
  PROVE  /\ seen' \in [Articles -> Told \cup {None}]
         /\ ReaderAgrees'
<1>1. Diff(prev, cur) \in [Emojis -> Int]
  BY DiffAddsUp
<1>2. /\ seen' \in [Articles -> Told \cup {None}]
      /\ \A b \in Articles : seen'[b] # None =>
           seen[b] # None /\ seen'[b].text = seen[b].text /\ (b # a => seen'[b] = seen[b])
      /\ seen'[a] # None =>
           seen'[a].counts = [e \in Emojis |-> seen[a].counts[e] + Diff(prev, cur)[e]]
  BY <1>1, EmitAddsUp DEF ReactionsIInv
<1>3. /\ counts'[a] = cur
      /\ \A b \in Articles : b # a => counts'[b] = counts[b]
  BY DEF ReactionsIInv, MapperTypes
<1>4. ASSUME NEW b \in Articles, seen'[b] # None
      PROVE  /\ snap'[b] = seen'[b].text /\ counts'[b] \in Counts
             /\ exact'[b] => seen'[b].counts = counts'[b]
  <2>1. CASE b # a
    BY <1>2, <1>3, <1>4, <2>1 DEF ReactionsIInv, ReaderAgrees
  <2>2. CASE b = a
    <3>1. seen[a] # None /\ seen'[a].text = seen[a].text /\ prev = counts[a]
      BY <1>2, <1>4, <2>2, CountsAreNumbers DEF ReactionsIInv, ReaderAgrees
    <3>2. ASSUME exact[a]
          PROVE  seen'[a].counts = cur
      BY <1>2, <1>4, <2>2, <3>1, <3>2, DiffAddsUp DEF ReactionsIInv, ReaderAgrees
    <3> QED  BY <1>3, <2>2, <3>1, <3>2 DEF ReactionsIInv, ReaderAgrees
  <2> QED  BY <2>1, <2>2
<1> QED  BY <1>2, <1>4 DEF ReaderAgrees

-----------------------------------------------------------------------------
(* What the mapper makes of an update, case by case.                         *)
LEMMA MapNewStep ==
  ASSUME ReactionsIInv, NEW u \in Update, UNCHANGED server, MapNew(u)
  PROVE  MapperTypes' /\ ReaderAgrees'
<1>1. u.art \in Articles /\ u.counts \in Counts /\ u.text \in Texts
  BY DEF Update
<1>2. u.counts \in [Emojis -> Int]
  BY <1>1, CountsAreNumbers
<1> DEFINE told == [text |-> u.text, counts |-> u.counts]
<1>3. told \in Told /\ told.text = u.text /\ told.counts = u.counts
  BY <1>1, <1>2 DEF Told
<1>4. seen' = [seen EXCEPT ![u.art] = told]
  BY DEF MapNew
<1> HIDE DEF told
<1>5. MapperTypes'
  BY <1>1, <1>3, <1>4 DEF ReactionsIInv, MapperTypes, MapNew
<1>6. ReaderAgrees'
  BY <1>1, <1>3, <1>4 DEF ReactionsIInv, MapperTypes, ReaderAgrees, MapNew
<1> QED  BY <1>5, <1>6

LEMMA MapReactionsStep ==
  ASSUME ReactionsIInv, NEW u \in Update, UNCHANGED server, MapReactions(u)
  PROVE  MapperTypes' /\ ReaderAgrees'
<1> USE DEF ReactionsIInv
<1>1. u.art \in Articles /\ u.counts \in Counts
  BY DEF Update
<1>2. CASE counts[u.art] # None
  <2>1. counts[u.art] \in Counts
    BY <1>1, <1>2 DEF MapperTypes
  <2>2. seen' \in [Articles -> Told \cup {None}] /\ ReaderAgrees'
    BY <1>1, <1>2, <2>1, EmittedDifference DEF MapReactions
  <2>3. MapperTypes'
    BY <1>1, <1>2, <2>2 DEF MapperTypes, MapReactions
  <2> QED  BY <2>2, <2>3
<1>3. CASE counts[u.art] = None
  <2>1. exact' = [exact EXCEPT ![u.art] = FALSE]
    BY <1>3 DEF MapReactions
  <2>2. seen[u.art] = None
    BY <1>1, <1>3, CountsAreNumbers DEF ReaderAgrees
  <2>3. seen' = seen
    BY <1>3, <2>2 DEF MapReactions, Emit
  <2>4. MapperTypes'
    BY <1>1, <2>1, <2>3 DEF MapperTypes, MapReactions
  <2>5. ReaderAgrees'
    BY <1>1, <2>1, <2>2, <2>3 DEF MapperTypes, ReaderAgrees, MapReactions
  <2> QED  BY <2>4, <2>5
<1> QED  BY <1>2, <1>3

LEMMA EditByCountsStep ==
  ASSUME ReactionsIInv, NEW u \in Update, UNCHANGED server, EditByCounts(u)
  PROVE  MapperTypes' /\ ReaderAgrees'
<1> USE DEF ReactionsIInv
<1>1. u.art \in Articles /\ u.counts \in Counts
  BY DEF Update
<1>2. counts[u.art] \in Counts
  BY <1>1 DEF MapperTypes, EditByCounts, ByCounts
<1>3. seen' \in [Articles -> Told \cup {None}] /\ ReaderAgrees'
  BY <1>1, <1>2, EmittedDifference DEF EditByCounts
<1>4. MapperTypes'
  BY <1>1, <1>3 DEF MapperTypes, EditByCounts
<1> QED  BY <1>3, <1>4

LEMMA EditByGuessStep ==
  ASSUME ReactionsIInv, NEW u \in Update, UNCHANGED server, EditByGuess(u)
  PROVE  MapperTypes' /\ ReaderAgrees'
<1> USE DEF ReactionsIInv
<1>1. u.art \in Articles /\ u.counts \in Counts
  BY DEF Update
<1>2. PICK e \in Guess(u) : Emit(u.art, OnlyAdd(e))
  BY DEF EditByGuess
<1>3. OnlyAdd(e) \in [Emojis -> Int]
  <2> DEFINE f == OnlyAdd(e)
  <2>1. f = [x \in Emojis |-> IF x = e THEN 1 ELSE 0]
    BY DEF OnlyAdd, Zero
  <2> QED  BY <2>1
<1>4. /\ seen' \in [Articles -> Told \cup {None}]
      /\ \A b \in Articles : seen'[b] # None =>
           seen[b] # None /\ seen'[b].text = seen[b].text /\ (b # u.art => seen'[b] = seen[b])
  BY <1>1, <1>2, <1>3, EmitAddsUp
<1>5. MapperTypes'
  BY <1>1, <1>4 DEF MapperTypes, EditByGuess
<1>6. ReaderAgrees'
  BY <1>1, <1>4 DEF MapperTypes, ReaderAgrees, EditByGuess
<1> QED  BY <1>5, <1>6

LEMMA EditByResolverStep ==
  ASSUME ReactionsIInv, NEW u \in Update, UNCHANGED server, server[u.art] \in Article,
         NEW r \in Counts, EditByResolver(u, r)
  PROVE  MapperTypes' /\ ReaderAgrees'
<1> USE DEF ReactionsIInv
<1>1. u.art \in Articles /\ u.counts \in Counts
  BY DEF Update
<1> DEFINE prev == Known(FirstCounts(u))
<1>2. prev \in Counts /\ (counts[u.art] # None => prev = counts[u.art])
  BY <1>1, CountsAreNumbers DEF MapperTypes, Known, FirstCounts
<1>3. Emit(u.art, Diff(prev, r))
  BY DEF EditByResolver
<1> HIDE DEF prev
<1>4. seen' \in [Articles -> Told \cup {None}] /\ ReaderAgrees'
  BY <1>1, <1>2, <1>3, EmittedDifference DEF EditByResolver
<1>5. MapperTypes'
  BY <1>1, <1>4 DEF MapperTypes, EditByResolver
<1> QED  BY <1>4, <1>5

LEMMA EditUnmappedStep ==
  ASSUME ReactionsIInv, NEW u \in Update, UNCHANGED server,
         NEW r, r # None => r \in Counts, EditUnmapped(u, r)
  PROVE  MapperTypes' /\ ReaderAgrees'
<1> USE DEF ReactionsIInv
<1>1. u.art \in Articles /\ u.counts \in Counts /\ u.text \in Texts
  BY DEF Update
<1> DEFINE c == IF RememberUnmapped(u) \/ ~(u.hide /\ u.present) THEN u.counts
                ELSE IF r # None THEN r ELSE FirstCounts(u)
<1>2. counts' = [counts EXCEPT ![u.art] = c]
  BY DEF EditUnmapped
<1>3. c \in Counts \cup {None} /\ (counts[u.art] \in Counts => c \in Counts)
  BY <1>1 DEF MapperTypes, FirstCounts
<1> HIDE DEF c
<1>4. /\ watches' = watches /\ exact' \in [Articles -> BOOLEAN]
      /\ \A b \in Articles : exact'[b] => exact[b] /\ counts'[b] = counts[b]
  <2>1. \A b \in Articles : b # u.art => counts'[b] = counts[b]
    BY <1>1, <1>2 DEF MapperTypes
  <2>2. /\ watches' = watches
        /\ exact' = [exact EXCEPT ![u.art] = @ /\ counts'[u.art] = counts[u.art]]
    BY DEF EditUnmapped
  <2> QED  BY <1>1, <2>1, <2>2 DEF MapperTypes
<1>5. \/ snap' = snap /\ seen' = seen
      \/ /\ snap' = [snap EXCEPT ![u.art] = u.text]
         /\ seen' = IF seen[u.art] = None THEN seen ELSE [seen EXCEPT ![u.art].text = u.text]
  BY DEF EditUnmapped
<1>6. ASSUME seen[u.art] # None
      PROVE  \E told \in Told : /\ [seen EXCEPT ![u.art].text = u.text] = [seen EXCEPT ![u.art] = told]
                                /\ told.text = u.text /\ told.counts = seen[u.art].counts
  <2>1. seen[u.art] \in Told
    BY <1>1, <1>6 DEF MapperTypes
  <2> DEFINE told == [text |-> u.text, counts |-> seen[u.art].counts]
  <2>2. told \in Told /\ told.text = u.text /\ told.counts = seen[u.art].counts
    BY <1>1, <2>1 DEF Told
  <2>3. [seen[u.art] EXCEPT !.text = u.text] = told
    BY <2>1 DEF Told
  <2> QED  BY <2>2, <2>3
<1>7. /\ seen' \in [Articles -> Told \cup {None}] /\ snap' \in [Articles -> Texts \cup {None}]
      /\ \A b \in Articles : seen'[b] # None =>
           /\ seen[b] # None /\ seen'[b].counts = seen[b].counts
           /\ snap[b] = seen[b].text => snap'[b] = seen'[b].text
  <2>1. CASE seen[u.art] = None
    BY <1>1, <1>5, <2>1 DEF MapperTypes
  <2>2. CASE seen[u.art] # None
    <3>1. PICK told \in Told :
            /\ [seen EXCEPT ![u.art].text = u.text] = [seen EXCEPT ![u.art] = told]
            /\ told.text = u.text /\ told.counts = seen[u.art].counts
      BY <1>6, <2>2
    <3>2. CASE snap' = snap /\ seen' = seen
      BY <3>2 DEF MapperTypes
    <3>3. CASE /\ snap' = [snap EXCEPT ![u.art] = u.text]
               /\ seen' = [seen EXCEPT ![u.art] = told]
      BY <1>1, <2>2, <3>1, <3>3 DEF MapperTypes
    <3> QED  BY <1>5, <2>2, <3>1, <3>2, <3>3
  <2> QED  BY <2>1, <2>2
<1>8. MapperTypes'
  BY <1>1, <1>2, <1>3, <1>4, <1>7 DEF MapperTypes
<1>9. ReaderAgrees'
  BY <1>1, <1>2, <1>3, <1>4, <1>7 DEF MapperTypes, ReaderAgrees
<1> QED  BY <1>8, <1>9

LEMMA MapStep == ReactionsIInv /\ MapNext => ReactionsIInv'
<1> SUFFICES ASSUME ReactionsIInv, MapNext PROVE ReactionsIInv'
  OBVIOUS
<1> DEFINE u == Head(inbox)
<1>1. u \in Update /\ u.art \in Articles /\ server[u.art] \in Article
  <2>1. u = inbox[1] /\ 1 \in 1..Len(inbox) /\ u \in Update
    BY DEF MapNext, ReactionsIInv, ServerTypes
  <2>2. server[inbox[1].art] \in Article
    BY <2>1 DEF ReactionsIInv, ServerTypes
  <2> QED  BY <2>1, <2>2 DEF Update
<1>2. inbox' = Tail(inbox) /\ server' = server
  BY DEF MapNext, Next1
<1>3. ServerTypes'
  <2>1. /\ Tail(inbox) \in Seq(Update) /\ Len(Tail(inbox)) = Len(inbox) - 1
        /\ \A i \in 1..Len(Tail(inbox)) : Tail(inbox)[i] = inbox[i + 1] /\ i + 1 \in 1..Len(inbox)
    BY DEF MapNext, ReactionsIInv, ServerTypes
  <2> QED  BY <1>2, <2>1 DEF ReactionsIInv, ServerTypes
<1>4. ASSUME NEW r \in Resolved(u.art, peer \/ u.withPeer), r # None
      PROVE  r \in Counts
  BY <1>1, <1>4 DEF Resolved, Article
<1>5. MapperTypes' /\ ReaderAgrees'
  <2> HIDE DEF u
  <2>1. CASE MapNew(u)
    BY <1>1, <1>2, <2>1, MapNewStep
  <2>2. CASE MapReactions(u)
    BY <1>1, <1>2, <2>2, MapReactionsStep
  <2>3. CASE EditByCounts(u)
    BY <1>1, <1>2, <2>3, EditByCountsStep
  <2>4. CASE EditByGuess(u)
    BY <1>1, <1>2, <2>4, EditByGuessStep
  <2>5. ASSUME NEW r \in Resolved(u.art, peer \/ u.withPeer), EditByResolver(u, r)
        PROVE  MapperTypes' /\ ReaderAgrees'
    <3>1. r \in Counts
      BY <1>4, <2>5 DEF EditByResolver
    <3> QED  BY <1>1, <1>2, <2>5, <3>1, EditByResolverStep
  <2>6. ASSUME NEW r \in Resolved(u.art, peer \/ u.withPeer), EditUnmapped(u, r)
        PROVE  MapperTypes' /\ ReaderAgrees'
    BY <1>1, <1>2, <1>4, <2>6, EditUnmappedStep
  <2> QED  BY <2>1, <2>2, <2>3, <2>4, <2>5, <2>6 DEF MapNext, u
<1> QED  BY <1>3, <1>5 DEF ReactionsIInv

(* A poll takes the server's counts over, and emits all of the difference.   *)
LEMMA PollStep == ReactionsIInv /\ Poll => ReactionsIInv'
<1> SUFFICES ASSUME ReactionsIInv, Poll PROVE ReactionsIInv'
  OBVIOUS
<1> USE DEF ReactionsIInv
<1> DEFINE Polled(a) == [seen[a] EXCEPT !.counts =
                          [e \in Emojis |-> @[e] + Diff(Known(counts[a]), server[a].counts)[e]]]
<1>1. PICK W \in SUBSET watches :
        /\ counts' = [a \in Articles |-> IF a \in W THEN server[a].counts ELSE counts[a]]
        /\ seen' = [a \in Articles |-> IF a \notin W \/ seen[a] = None THEN seen[a] ELSE Polled(a)]
  BY DEF Poll
<1>2. ASSUME NEW a \in W
      PROVE  a \in Articles /\ server[a] \in Article /\ server[a].counts \in Counts
  BY <1>1 DEF MapperTypes, Article
<1>3. ASSUME NEW a \in W, seen[a] # None
      PROVE  /\ Polled(a) \in Told /\ Polled(a).text = seen[a].text
             /\ exact[a] => Polled(a).counts = server[a].counts
  <2> DEFINE d == Diff(Known(counts[a]), server[a].counts)
             added == [e \in Emojis |-> seen[a].counts[e] + d[e]]
  <2>1. seen[a] \in Told /\ counts[a] \in Counts /\ (exact[a] => seen[a].counts = counts[a])
    BY <1>2, <1>3 DEF MapperTypes, ReaderAgrees
  <2>2. Known(counts[a]) = counts[a]
    BY <2>1, CountsAreNumbers DEF Known
  <2>3. d \in [Emojis -> Int] /\ (exact[a] => added = server[a].counts)
    BY <1>2, <2>1, <2>2, DiffAddsUp
  <2> HIDE DEF d
  <2>4. added \in [Emojis -> Int]
    BY <2>1, <2>3 DEF Told
  <2>5. Polled(a) = [text |-> seen[a].text, counts |-> added]
    <3>1. Polled(a) = [seen[a] EXCEPT !.counts = added]
      BY DEF d
    <3> HIDE DEF added, Polled
    <3> QED  BY <2>1, <3>1 DEF Told
  <2> HIDE DEF added, Polled
  <2> QED  BY <2>1, <2>3, <2>4, <2>5 DEF Told
<1> HIDE DEF Polled
<1>4. ServerTypes'
  BY DEF Poll, ServerTypes
<1>5. MapperTypes'
  <2>1. counts' \in [Articles -> Counts \cup {None}]
    BY <1>1, <1>2 DEF MapperTypes
  <2>2. seen' \in [Articles -> Told \cup {None}]
    BY <1>1, <1>2, <1>3 DEF MapperTypes
  <2> QED  BY <2>1, <2>2 DEF MapperTypes, Poll
<1>6. ReaderAgrees'
  <2> SUFFICES ASSUME NEW a \in Articles, seen'[a] # None
               PROVE  /\ snap[a] = seen'[a].text /\ counts'[a] \in Counts
                      /\ exact[a] => seen'[a].counts = counts'[a]
    BY DEF ReaderAgrees, Poll
  <2>1. CASE a \in W
    BY <1>1, <1>2, <1>3, <2>1 DEF ReaderAgrees
  <2>2. CASE a \notin W
    BY <1>1, <2>2 DEF ReaderAgrees
  <2> QED  BY <2>1, <2>2
<1> QED  BY <1>4, <1>5, <1>6

LEMMA ReactionsStep == ReactionsIInv /\ [Next]_vars => ReactionsIInv'
<1> SUFFICES ASSUME ReactionsIInv, [Next]_vars PROVE ReactionsIInv'
  OBVIOUS
<1>1. ASSUME NEW a \in Articles, Expire(a)
      PROVE  ReactionsIInv'
  BY <1>1 DEF Expire, ReactionsIInv, ServerTypes, MapperTypes, ReaderAgrees
<1>2. CASE UNCHANGED vars
  BY <1>2 DEF vars, caches, ReactionsIInv, ServerTypes, MapperTypes, ReaderAgrees
<1> QED  BY <1>1, <1>2, ServerStep, MapStep, PollStep DEF Next

(* A reader who adds the reaction events up has what the mapper last saw, as *)
(* long as the mapper had to guess at nothing.                               *)
THEOREM ReactionsAreExact == Spec => []ReactionsAddUp
<1>1. ReactionsIInv => ReactionsAddUp
  BY DEF ReactionsIInv, ReaderAgrees, ReactionsAddUp
<1> QED  BY <1>1, ReactionsBegin, ReactionsStep, PTL DEF Spec

(* What an edit event says was there before is what the events before it     *)
(* said: the snapshot cache and the events never part.                       *)
THEOREM EditsFollow == Spec => EditsChain
<1> DEFINE Chained == \A a \in Articles :
                        out' # None /\ out'.art = a /\ seen[a] # None => out'.before = seen[a].text
<1>1. ReactionsIInv /\ [Next]_vars => [Chained]_vars
  <2> SUFFICES ASSUME ReactionsIInv, Next PROVE Chained
    OBVIOUS
  <2>1. CASE MapNext
    <3>1. CASE out' = None
      BY <3>1
    <3>2. ASSUME NEW u, NEW r, EditUnmapped(u, r), out' # None
          PROVE  Chained
      BY <3>2 DEF EditUnmapped, ReactionsIInv, ReaderAgrees
    <3> QED  BY <2>1, <3>1, <3>2 DEF MapNext, MapNew, MapReactions, EditByCounts, EditByGuess, EditByResolver
  <2>2. CASE out' = None
    BY <2>2
  <2> QED
    BY <2>1, <2>2 DEF Next, Post, EditText, React, Unreact, Change, Expire, Poll
<1> QED  BY <1>1, ReactionsBegin, ReactionsStep, PTL DEF Spec, EditsChain

-----------------------------------------------------------------------------
(* Outbound.                                                                 *)
(* The inductive invariant.  What a queue of events says of one message is   *)
(* stated for any queue, so that the same facts serve the platform's echoes  *)
(* and the bus.  The cache drops what looks redelivered; that this is never  *)
(* the event with a message's tags rests on the order of its echoes: a       *)
(* message's creation is the first of them the cache hears of.               *)

Firsts == {First(s) : s \in Senders}
Places == {"send", "failed", "remember", "announce", "ready", "peek", "reannounce"}
\* Where a call is once its message has been accepted and remembered.
After  == {"announce", "ready", "peek", "reannounce"}

\* The events there are: the bridge's own have tags, and an edit the platform
\* tells of is not of the text that was sent first.  Those the platform sends,
\* and those on the bus when it echoes, and when it does not.
WellFormed == {ev \in Events : IF ev.own THEN ev.tags ELSE ev.kind = "edited" => ev.version > 0}
FromPlatform == {ev \in WellFormed : ~ev.own /\ ~ev.tags}
BusEvents(echoing) == {ev \in WellFormed : echoing \/ ev.own}

OutTypes ==
  /\ echo \in BOOLEAN /\ oneId \in BOOLEAN /\ ended \in BOOLEAN
  /\ posted \in [Ids -> Versions \cup {Absent}]
  /\ version \in [Senders -> Versions]
  /\ opc \in [Senders -> Places]
  /\ echoes \in Seq(FromPlatform) /\ busq \in Seq(BusEvents(echo)) /\ hand \in WellFormed \cup {Absent}
  /\ cached \in [Ids -> Projections \cup {Absent}]
  /\ entries \in Seq(Firsts) /\ Len(entries) <= MaxEntries /\ IsInjective(entries)
  /\ forgotten \in SUBSET Firsts /\ unsaid \in SUBSET Firsts
  /\ echo \/ (echoes = <<>> /\ hand = Absent /\ ~ended)

\* The parts of a message are sent one after the other, and the platform has
\* the version the sender sent last.
SentUpTo(p, v, s, n) ==
  /\ \A i \in 1..Parts[s] : p[<<s, i>>] # Absent <=> i <= n
  /\ p[First(s)] \in {Absent, 0} /\ v[s] = 0
Sending == \A s \in Senders :
  /\ opc[s] = "send" => \E n \in 0..(Parts[s] - 1) : SentUpTo(posted, version, s, n)
  /\ opc[s] \in After \cup {"remember"} => posted[First(s)] = version[s]

\* The last event of a message in a queue has version v; there is none.
LastIs(h, id, v) ==
  \E k \in 1..Len(h) : /\ h[k].id = id /\ h[k].version = v
                       /\ \A m \in 1..Len(h) : h[m].id = id => m <= k
Silent(h, id) == \A k \in 1..Len(h) : h[k].id # id

\* The kinds of the last echo after which an edit may be dropped, and what the
\* cache has of a message that is at version v.
Alike == IF ~echo THEN {} ELSE IF oneId THEN Sorts ELSE {"edited"}
UpTo(p, L, v) == p # Absent /\ (p.version = v \/ (v > 0 /\ p.last \in L))

\* What the cache will be left with when all that is under way has arrived.
Arrives(e, h, b, c, L, id, v) ==
  \/ LastIs(e, id, v)
  \/ Silent(e, id) /\ h # Absent /\ h.id = id /\ h.version = v
  \/ Silent(e, id) /\ ~(h # Absent /\ h.id = id) /\ LastIs(b, id, v)
  \/ /\ Silent(e, id) /\ ~(h # Absent /\ h.id = id) /\ Silent(b, id)
     /\ UpTo(c[id], L, v)
Due(id) == Arrives(echoes, hand, busq, cached, Alike, id, posted[id])

AllDue ==
  /\ echo /\ ~ended => \A id \in Ids : posted[id] # Absent => Due(id)
  /\ ~echo => \A s \in Senders :
       /\ opc[s] \in After => First(s) \in Range(entries) \cup forgotten
       /\ opc[s] = "ready" /\ First(s) \notin forgotten \cup unsaid => Due(First(s))

\* The platform's events of a message; among them its creation comes first.
EchoOf(ev, id)   == ev.id = id /\ ~ev.own
Creation(ev, id) == EchoOf(ev, id) /\ ev.kind = "created"
NoEcho(h, id)     == \A k \in 1..Len(h) : ~EchoOf(h[k], id)
NoCreation(h, id) == \A k \in 1..Len(h) : ~Creation(h[k], id)
CreationFirst(h, id) ==
  \A k, m \in 1..Len(h) : Creation(h[k], id) /\ EchoOf(h[m], id) => k <= m
Heard(c, id) == c[id] # Absent /\ c[id].last # "own"

InOrderOf(e, h, b, c, p, id) ==
  /\ CreationFirst(e, id) /\ CreationFirst(b, id)
  /\ ~NoCreation(e, id) => ~(h # Absent /\ EchoOf(h, id)) /\ NoEcho(b, id) /\ ~Heard(c, id)
  /\ h # Absent /\ Creation(h, id) => NoEcho(b, id) /\ ~Heard(c, id)
  /\ ~NoCreation(b, id) => ~Heard(c, id)
  /\ p[id] = Absent =>
       NoEcho(e, id) /\ ~(h # Absent /\ EchoOf(h, id)) /\ NoEcho(b, id) /\ ~Heard(c, id)
CreatedFirst == \A id \in Ids : InOrderOf(echoes, hand, busq, cached, posted, id)

\* A creation without tags of the sender's message, and one with them.
Bare(ev, s) == Creation(ev, First(s)) /\ ~ev.tags
NoBare(h, s) == \A k \in 1..Len(h) : ~Bare(h[k], s)
HandBare(h, s) == h # Absent /\ Bare(h, s)
HasTags(ev, s) == ev.id = First(s) /\ ev.kind = "created" /\ ev.tags
TagsIn(h, s) == \E k \in 1..Len(h) : HasTags(h[k], s)
\* The tags of a message are on their way to the cache or in it, and nothing
\* behind them takes them away.
Carried(e, h, b, c, s) ==
  /\ NoBare(e, s) /\ ~HandBare(h, s) /\ NoBare(b, s)
  /\ \/ h # Absent /\ HasTags(h, s)
     \/ TagsIn(b, s)
     \/ c[First(s)] # Absent /\ c[First(s)].tags
TagsInv == \A s \in Senders :
  ~ended /\ opc[s] \in After /\ First(s) \notin forgotten =>
    First(s) \in Range(entries) \/ Carried(echoes, hand, busq, cached, s)

OutIInv == OutTypes /\ Sending /\ AllDue /\ CreatedFirst /\ TagsInv

LEMMA IdFacts ==
  /\ \A s \in Senders : First(s) \in Ids /\ \A i \in 1..Parts[s] : <<s, i>> \in Ids
  /\ \A s, t \in Senders : First(s) = First(t) => s = t
  /\ Absent \notin Events /\ Absent \notin Projections /\ Absent \notin Versions
  /\ Versions \subseteq Nat /\ \A s \in Senders : 0 \in Versions
<1> USE OutboundAssumption
<1>1. \A s \in Senders : Parts[s] \in Nat \ {0} /\ MaxEdits[s] \in Nat
  OBVIOUS
<1>2. \A s \in Senders : \A i \in 1..Parts[s] : <<s, i>> \in Ids
  BY DEF Ids
<1>3. \A s \in Senders : 1 \in 1..Parts[s]
  BY <1>1
<1>4. Versions \subseteq Nat /\ (\A s \in Senders : 0 \in Versions)
  <2>1. \A s \in Senders : 0..MaxEdits[s] \subseteq Nat /\ 0 \in 0..MaxEdits[s]
    BY <1>1
  <2> QED  BY <2>1 DEF Versions
<1> QED  BY <1>2, <1>3, <1>4 DEF First

LEMMA VersionFact == \A s \in Senders, v \in Nat : v <= MaxEdits[s] => v \in Versions
BY OutboundAssumption DEF Versions

LEMMA EventFact ==
  /\ \A sort \in Sorts, id \in Ids, v \in Versions :
       /\ sort = "created" \/ v > 0 => Echo(sort, id, v) \in FromPlatform
       /\ \A e \in BOOLEAN : Synthetic(sort, id, v) \in BusEvents(e)
       /\ Synthetic(sort, id, v) \in Events
  /\ \A e \in BOOLEAN : BusEvents(e) \subseteq WellFormed
  /\ FromPlatform \subseteq WellFormed /\ WellFormed \subseteq Events /\ Absent \notin WellFormed
  /\ \A ev \in Events : /\ ev.kind \in Sorts /\ ev.id \in Ids /\ ev.version \in Versions
                        /\ ev.tags \in BOOLEAN /\ ev.own \in BOOLEAN
<1>1. \A sort \in Sorts, id \in Ids, v \in Versions :
        Echo(sort, id, v) \in Events /\ Synthetic(sort, id, v) \in Events
  BY DEF Events, Echo, Synthetic
<1>2. \A sort \in Sorts, id \in Ids, v \in Versions :
        sort = "created" \/ v > 0 => Echo(sort, id, v) \in FromPlatform
  BY <1>1 DEF FromPlatform, WellFormed, Echo, Sorts
<1>3. \A sort \in Sorts, id \in Ids, v \in Versions : \A e \in BOOLEAN :
        Synthetic(sort, id, v) \in BusEvents(e)
  BY <1>1 DEF BusEvents, WellFormed, Synthetic
<1>4. /\ \A e \in BOOLEAN : BusEvents(e) \subseteq WellFormed
      /\ FromPlatform \subseteq WellFormed /\ WellFormed \subseteq Events /\ Absent \notin WellFormed
  BY IdFacts DEF FromPlatform, WellFormed, BusEvents
<1>5. \A ev \in Events : /\ ev.kind \in Sorts /\ ev.id \in Ids /\ ev.version \in Versions
                        /\ ev.tags \in BOOLEAN /\ ev.own \in BOOLEAN
  BY DEF Events
<1> QED  BY <1>1, <1>2, <1>3, <1>4, <1>5

LEMMA QueueFacts ==
  /\ \A h \in Seq(FromPlatform) : h \in Seq(WellFormed) /\ h \in Seq(Events)
  /\ \A e \in BOOLEAN : \A h \in Seq(BusEvents(e)) : h \in Seq(WellFormed) /\ h \in Seq(Events)
<1>1. ASSUME NEW A, NEW B, A \subseteq B, NEW h \in Seq(A)  PROVE h \in Seq(B)
  <2>1. Len(h) \in Nat /\ h \in [1..Len(h) -> A]
    OBVIOUS
  <2>2. h \in [1..Len(h) -> B]
    BY <1>1, <2>1
  <2> QED  BY <2>1, <2>2
<1> QED  BY <1>1, EventFact

LEMMA AppendFacts ==
  ASSUME NEW S, NEW h \in Seq(S), NEW x \in S
  PROVE  /\ Append(h, x) \in Seq(S) /\ Len(h) \in Nat /\ Len(Append(h, x)) = Len(h) + 1
         /\ Append(h, x)[Len(h) + 1] = x
         /\ \A k \in 1..Len(h) : Append(h, x)[k] = h[k]
OBVIOUS

LEMMA TailFacts ==
  ASSUME NEW S, NEW h \in Seq(S), h # <<>>
  PROVE  /\ Tail(h) \in Seq(S) /\ Len(h) \in Nat /\ Len(Tail(h)) \in Nat
         /\ Len(h) = Len(Tail(h)) + 1
         /\ Head(h) = h[1] /\ h[1] \in S
         /\ \A k \in 1..Len(Tail(h)) : Tail(h)[k] = h[k + 1] /\ k + 1 \in 1..Len(h)
         /\ \A k \in 1..Len(h) : k = 1 \/ (k - 1 \in 1..Len(Tail(h)) /\ h[k] = Tail(h)[k - 1])
OBVIOUS

(* What a queue says of a message after one more event, and after its first *)
(* one is gone.                                                              *)
LEMMA SilentAppend ==
  ASSUME NEW h \in Seq(Events), NEW x \in Events, NEW id
  PROVE  Silent(Append(h, x), id) <=> Silent(h, id) /\ x.id # id
<1> DEFINE t == Append(h, x)
<1>1. /\ Len(h) \in Nat /\ Len(t) = Len(h) + 1 /\ t[Len(h) + 1] = x
      /\ \A k \in 1..Len(h) : t[k] = h[k]
  BY AppendFacts
<1> HIDE DEF t
<1>2. Silent(t, id) <=> Silent(h, id) /\ x.id # id
  <2>1. \A k \in 1..Len(t) : k \in 1..Len(h) \/ k = Len(h) + 1
    BY <1>1
  <2>2. 1..Len(h) \subseteq 1..Len(t) /\ Len(h) + 1 \in 1..Len(t)
    BY <1>1
  <2> QED  BY <1>1, <2>1, <2>2, Zenon DEF Silent
<1> QED  BY <1>2 DEF t

LEMMA SilentTail ==
  ASSUME NEW h \in Seq(Events), h # <<>>, NEW id
  PROVE  Silent(h, id) <=> Silent(Tail(h), id) /\ Head(h).id # id
<1> DEFINE t == Tail(h)
<1>1. /\ Len(h) \in Nat /\ Len(t) \in Nat /\ Len(h) = Len(t) + 1 /\ Head(h) = h[1]
      /\ \A k \in 1..Len(t) : t[k] = h[k + 1] /\ k + 1 \in 1..Len(h)
      /\ \A k \in 1..Len(h) : k = 1 \/ (k - 1 \in 1..Len(t) /\ h[k] = t[k - 1])
  BY TailFacts
<1> HIDE DEF t
<1>2. 1 \in 1..Len(h)
  BY <1>1
<1>3. Silent(h, id) <=> Silent(t, id) /\ Head(h).id # id
  BY <1>1, <1>2, Zenon DEF Silent
<1> QED  BY <1>3 DEF t

LEMMA LastAppend ==
  ASSUME NEW h \in Seq(Events), NEW x \in Events, NEW id, NEW v
  PROVE  /\ x.id = id /\ x.version = v => LastIs(Append(h, x), id, v)
         /\ x.id # id /\ LastIs(h, id, v) => LastIs(Append(h, x), id, v)
<1> DEFINE t == Append(h, x)
<1>1. /\ Len(h) \in Nat /\ Len(t) = Len(h) + 1 /\ t[Len(h) + 1] = x
      /\ \A k \in 1..Len(h) : t[k] = h[k]
  BY AppendFacts
<1> HIDE DEF t
<1>2. ASSUME x.id = id, x.version = v  PROVE LastIs(t, id, v)
  BY <1>1, <1>2 DEF LastIs
<1>3. ASSUME x.id # id, LastIs(h, id, v)  PROVE LastIs(t, id, v)
  <2>1. PICK k \in 1..Len(h) : /\ h[k].id = id /\ h[k].version = v
                               /\ \A m \in 1..Len(h) : h[m].id = id => m <= k
    BY <1>3 DEF LastIs
  <2>2. k \in 1..Len(t) /\ t[k] = h[k]
    BY <1>1
  <2>3. ASSUME NEW m \in 1..Len(t), t[m].id = id  PROVE m <= k
    <3>1. m \in 1..Len(h) \/ m = Len(h) + 1
      BY <1>1
    <3> QED  BY <1>1, <1>3, <2>1, <2>3, <3>1
  <2> QED  BY <2>1, <2>2, <2>3 DEF LastIs
<1> QED  BY <1>2, <1>3 DEF t

LEMMA LastTail ==
  ASSUME NEW h \in Seq(Events), h # <<>>, NEW id, NEW v, LastIs(h, id, v)
  PROVE  \/ LastIs(Tail(h), id, v)
         \/ Silent(Tail(h), id) /\ Head(h).id = id /\ Head(h).version = v
<1> DEFINE t == Tail(h)
<1>1. /\ Len(h) \in Nat /\ Len(t) \in Nat /\ Len(h) = Len(t) + 1 /\ Head(h) = h[1]
      /\ \A k \in 1..Len(t) : t[k] = h[k + 1] /\ k + 1 \in 1..Len(h)
      /\ \A k \in 1..Len(h) : k = 1 \/ (k - 1 \in 1..Len(t) /\ h[k] = t[k - 1])
  BY TailFacts
<1> HIDE DEF t
<1>2. PICK k \in 1..Len(h) : /\ h[k].id = id /\ h[k].version = v
                             /\ \A m \in 1..Len(h) : h[m].id = id => m <= k
  BY DEF LastIs
<1>3. CASE k = 1
  <2>1. ASSUME NEW m \in 1..Len(t)  PROVE t[m].id # id
    <3>1. t[m] = h[m + 1] /\ m + 1 \in 1..Len(h) /\ ~(m + 1 <= 1)
      BY <1>1
    <3> QED  BY <1>2, <1>3, <3>1
  <2> QED  BY <1>1, <1>2, <1>3, <2>1 DEF Silent, t
<1>4. CASE k # 1
  <2>1. k - 1 \in 1..Len(t) /\ h[k] = t[k - 1]
    BY <1>1, <1>4
  <2>2. ASSUME NEW m \in 1..Len(t), t[m].id = id  PROVE m <= k - 1
    <3>1. t[m] = h[m + 1] /\ m + 1 \in 1..Len(h)
      BY <1>1
    <3>2. m + 1 <= k
      BY <1>2, <2>2, <3>1
    <3> QED  BY <3>2
  <2>3. LastIs(t, id, v)
    BY <1>2, <2>1, <2>2 DEF LastIs
  <2> QED  BY <2>3 DEF t
<1> QED  BY <1>3, <1>4

LEMMA BareAppend ==
  ASSUME NEW h \in Seq(Events), NEW x \in Events, NEW s
  PROVE  /\ NoBare(Append(h, x), s) <=> NoBare(h, s) /\ ~Bare(x, s)
         /\ TagsIn(Append(h, x), s) <=> TagsIn(h, s) \/ HasTags(x, s)
<1> DEFINE t == Append(h, x)
<1>1. /\ Len(h) \in Nat /\ Len(t) = Len(h) + 1 /\ t[Len(h) + 1] = x
      /\ \A k \in 1..Len(h) : t[k] = h[k]
  BY AppendFacts
<1> HIDE DEF t
<1>2. \A k \in 1..Len(t) : k \in 1..Len(h) \/ k = Len(h) + 1
  BY <1>1
<1>3. 1..Len(h) \subseteq 1..Len(t) /\ Len(h) + 1 \in 1..Len(t)
  BY <1>1
<1>4. NoBare(t, s) <=> NoBare(h, s) /\ ~Bare(x, s)
  BY <1>1, <1>2, <1>3, Zenon DEF NoBare
<1>5. TagsIn(t, s) <=> TagsIn(h, s) \/ HasTags(x, s)
  BY <1>1, <1>2, <1>3, Zenon DEF TagsIn
<1> QED  BY <1>4, <1>5 DEF t

LEMMA BareTail ==
  ASSUME NEW h \in Seq(Events), h # <<>>, NEW s
  PROVE  /\ NoBare(h, s) <=> NoBare(Tail(h), s) /\ ~Bare(Head(h), s)
         /\ TagsIn(h, s) <=> TagsIn(Tail(h), s) \/ HasTags(Head(h), s)
<1> DEFINE t == Tail(h)
<1>1. /\ Len(h) \in Nat /\ Len(t) \in Nat /\ Len(h) = Len(t) + 1 /\ Head(h) = h[1]
      /\ \A k \in 1..Len(t) : t[k] = h[k + 1] /\ k + 1 \in 1..Len(h)
      /\ \A k \in 1..Len(h) : k = 1 \/ (k - 1 \in 1..Len(t) /\ h[k] = t[k - 1])
  BY TailFacts
<1> HIDE DEF t
<1>2. 1 \in 1..Len(h)
  BY <1>1
<1>4. NoBare(h, s) <=> NoBare(t, s) /\ ~Bare(Head(h), s)
  BY <1>1, <1>2, Zenon DEF NoBare
<1>5. TagsIn(h, s) <=> TagsIn(t, s) \/ HasTags(Head(h), s)
  BY <1>1, <1>2, Zenon DEF TagsIn
<1> QED  BY <1>4, <1>5 DEF t

LEMMA EchoAppend ==
  ASSUME NEW h \in Seq(Events), NEW x \in Events, NEW id
  PROVE  /\ NoEcho(Append(h, x), id) <=> NoEcho(h, id) /\ ~EchoOf(x, id)
         /\ NoCreation(Append(h, x), id) <=> NoCreation(h, id) /\ ~Creation(x, id)
         /\ CreationFirst(h, id) /\ (NoEcho(h, id) \/ ~Creation(x, id))
              => CreationFirst(Append(h, x), id)
<1> DEFINE t == Append(h, x)
<1>1. /\ Len(h) \in Nat /\ Len(t) = Len(h) + 1 /\ t[Len(h) + 1] = x
      /\ \A k \in 1..Len(h) : t[k] = h[k]
  BY AppendFacts
<1> HIDE DEF t
<1>2. \A k \in 1..Len(t) : k \in 1..Len(h) \/ k = Len(h) + 1
  BY <1>1
<1>3. 1..Len(h) \subseteq 1..Len(t) /\ Len(h) + 1 \in 1..Len(t)
  BY <1>1
<1>4. NoEcho(t, id) <=> NoEcho(h, id) /\ ~EchoOf(x, id)
  BY <1>1, <1>2, <1>3, Zenon DEF NoEcho
<1>5. NoCreation(t, id) <=> NoCreation(h, id) /\ ~Creation(x, id)
  BY <1>1, <1>2, <1>3, Zenon DEF NoCreation
<1>6. ASSUME CreationFirst(h, id), NoEcho(h, id) \/ ~Creation(x, id),
             NEW k \in 1..Len(t), NEW m \in 1..Len(t), Creation(t[k], id), EchoOf(t[m], id)
      PROVE  k <= m
  <2>1. CASE m = Len(h) + 1
    BY <1>1, <2>1
  <2>2. CASE m \in 1..Len(h)
    <3>1. ~NoEcho(h, id)
      BY <1>1, <1>6, <2>2 DEF NoEcho
    <3>2. k \in 1..Len(h)
      BY <1>1, <1>2, <1>6, <3>1
    <3> QED  BY <1>1, <1>6, <2>2, <3>2 DEF CreationFirst
  <2> QED  BY <1>2, <2>1, <2>2
<1>7. CreationFirst(h, id) /\ (NoEcho(h, id) \/ ~Creation(x, id)) => CreationFirst(t, id)
  BY <1>6 DEF CreationFirst
<1> QED  BY <1>4, <1>5, <1>7 DEF t

LEMMA EchoTail ==
  ASSUME NEW h \in Seq(Events), h # <<>>, NEW id
  PROVE  /\ NoEcho(h, id) <=> NoEcho(Tail(h), id) /\ ~EchoOf(Head(h), id)
         /\ NoCreation(h, id) <=> NoCreation(Tail(h), id) /\ ~Creation(Head(h), id)
         /\ CreationFirst(h, id) =>
              CreationFirst(Tail(h), id) /\ (EchoOf(Head(h), id) => NoCreation(Tail(h), id))
<1> DEFINE t == Tail(h)
<1>1. /\ Len(h) \in Nat /\ Len(t) \in Nat /\ Len(h) = Len(t) + 1 /\ Head(h) = h[1]
      /\ \A k \in 1..Len(t) : t[k] = h[k + 1] /\ k + 1 \in 1..Len(h)
      /\ \A k \in 1..Len(h) : k = 1 \/ (k - 1 \in 1..Len(t) /\ h[k] = t[k - 1])
  BY TailFacts
<1> HIDE DEF t
<1>2. 1 \in 1..Len(h)
  BY <1>1
<1>3. NoEcho(h, id) <=> NoEcho(t, id) /\ ~EchoOf(Head(h), id)
  BY <1>1, <1>2, Zenon DEF NoEcho
<1>4. NoCreation(h, id) <=> NoCreation(t, id) /\ ~Creation(Head(h), id)
  BY <1>1, <1>2, Zenon DEF NoCreation
<1>5. ASSUME CreationFirst(h, id)
      PROVE  CreationFirst(t, id) /\ (EchoOf(Head(h), id) => NoCreation(t, id))
  <2>1. \A k, m \in 1..Len(h) : Creation(h[k], id) /\ EchoOf(h[m], id) => k <= m
    BY <1>5 DEF CreationFirst
  <2>2. ASSUME NEW k \in 1..Len(t), NEW m \in 1..Len(t), Creation(t[k], id), EchoOf(t[m], id)
        PROVE  k <= m
    <3>1. k + 1 <= m + 1
      BY <1>1, <2>1, <2>2
    <3> QED  BY <3>1
  <2>3. ASSUME NEW k \in 1..Len(t), Creation(t[k], id), EchoOf(Head(h), id)  PROVE FALSE
    <3>1. k + 1 <= 1
      BY <1>1, <1>2, <2>1, <2>3
    <3> QED  BY <3>1
  <2>4. CreationFirst(t, id)
    BY <2>2 DEF CreationFirst
  <2>5. EchoOf(Head(h), id) => NoCreation(t, id)
    BY <2>3 DEF NoCreation
  <2> QED  BY <2>4, <2>5
<1> QED  BY <1>3, <1>4, <1>5 DEF t

\* Without a creation among a message's echoes there is none without tags.
LEMMA NoneBare ==
  ASSUME NEW h, NEW s
  PROVE  /\ NoEcho(h, First(s)) => NoCreation(h, First(s))
         /\ NoCreation(h, First(s)) => NoBare(h, s)
BY DEF NoEcho, NoCreation, NoBare, Bare, Creation

(* What will arrive does not change while events move on, and an event that *)
(* joins decides it for its message.                                        *)
LEMMA ArriveSend ==
  ASSUME NEW e \in Seq(Events), NEW x \in Events, NEW h, NEW b, NEW c, NEW L, NEW id, NEW v,
         IF x.id = id THEN x.version = v ELSE Arrives(e, h, b, c, L, id, v)
  PROVE  Arrives(Append(e, x), h, b, c, L, id, v)
<1>1. CASE x.id = id
  BY <1>1, LastAppend, Zenon DEF Arrives
<1>2. CASE x.id # id
  <2>1. LastIs(e, id, v) => LastIs(Append(e, x), id, v)
    BY <1>2, LastAppend
  <2>2. Silent(e, id) => Silent(Append(e, x), id)
    BY <1>2, SilentAppend
  <2>3. Arrives(e, h, b, c, L, id, v)
    BY <1>2
  <2> QED  BY <2>1, <2>2, <2>3, Zenon DEF Arrives
<1> QED  BY <1>1, <1>2

LEMMA ArriveTake ==
  ASSUME NEW e \in Seq(Events), e # <<>>, NEW x, x # Absent, NEW b, NEW c, NEW L, NEW id, NEW v,
         x.id = Head(e).id, x.version = Head(e).version,
         Arrives(e, Absent, b, c, L, id, v)
  PROVE  Arrives(Tail(e), x, b, c, L, id, v)
<1>1. LastIs(e, id, v) => \/ LastIs(Tail(e), id, v)
                          \/ Silent(Tail(e), id) /\ Head(e).id = id /\ Head(e).version = v
  BY LastTail
<1>2. Silent(e, id) <=> Silent(Tail(e), id) /\ Head(e).id # id
  BY SilentTail
<1> QED  BY <1>1, <1>2, Zenon DEF Arrives

LEMMA ArrivePublish ==
  ASSUME NEW b \in Seq(Events), NEW h \in Events, h # Absent, NEW e, NEW c, NEW L, NEW id, NEW v,
         Arrives(e, h, b, c, L, id, v)
  PROVE  Arrives(e, Absent, Append(b, h), c, L, id, v)
<1>1. /\ h.id = id /\ h.version = v => LastIs(Append(b, h), id, v)
      /\ h.id # id /\ LastIs(b, id, v) => LastIs(Append(b, h), id, v)
  BY LastAppend
<1>2. Silent(Append(b, h), id) <=> Silent(b, id) /\ h.id # id
  BY SilentAppend
<1> QED  BY <1>1, <1>2, Zenon DEF Arrives

LEMMA ArriveInsert ==
  ASSUME NEW b \in Seq(Events), NEW x \in Events, NEW h, NEW e, NEW c, NEW L, NEW id, NEW v,
         Arrives(e, h, b, c, L, id, v), x.id = id => x.version = v
  PROVE  Arrives(e, h, Append(b, x), c, L, id, v)
<1>1. /\ x.id = id /\ x.version = v => LastIs(Append(b, x), id, v)
      /\ x.id # id /\ LastIs(b, id, v) => LastIs(Append(b, x), id, v)
  BY LastAppend
<1>2. Silent(Append(b, x), id) <=> Silent(b, id) /\ x.id # id
  BY SilentAppend
<1> QED  BY <1>1, <1>2, Zenon DEF Arrives

LEMMA ArriveProject ==
  ASSUME NEW b \in Seq(Events), b # <<>>, NEW h, NEW e, NEW c, NEW d, NEW L, NEW id, NEW v,
         Arrives(e, h, b, c, L, id, v),
         Head(b).id = id /\ Head(b).version = v => UpTo(d[id], L, v),
         Head(b).id # id => d[id] = c[id]
  PROVE  Arrives(e, h, Tail(b), d, L, id, v)
<1>1. LastIs(b, id, v) => \/ LastIs(Tail(b), id, v)
                          \/ Silent(Tail(b), id) /\ Head(b).id = id /\ Head(b).version = v
  BY LastTail
<1>2. Silent(b, id) <=> Silent(Tail(b), id) /\ Head(b).id # id
  BY SilentTail
<1> QED  BY <1>1, <1>2, Zenon DEF Arrives

(* The bridge's list.                                                        *)
LEMMA RangeOf ==
  ASSUME NEW S, NEW h \in Seq(S)
  PROVE  /\ Range(h) = {h[k] : k \in 1..Len(h)} /\ Range(h) \subseteq S
         /\ IsInjective(h) <=> \A k, m \in 1..Len(h) : h[k] = h[m] => k = m
BY DEF Range, IsInjective

LEMMA ConcatFacts ==
  ASSUME NEW S, NEW a \in Seq(S), NEW b \in Seq(S)
  PROVE  /\ a \o b \in Seq(S) /\ Len(a) \in Nat /\ Len(b) \in Nat
         /\ Len(a \o b) = Len(a) + Len(b)
         /\ \A k \in 1..(Len(a) + Len(b)) :
              (a \o b)[k] = IF k <= Len(a) THEN a[k] ELSE b[k - Len(a)]
OBVIOUS

LEMMA Removed ==
  ASSUME NEW S, NEW h \in Seq(S), NEW n \in 1..Len(h)
  PROVE  /\ RemoveAt(h, n) \in Seq(S) /\ Len(RemoveAt(h, n)) = Len(h) - 1
         /\ \A k \in 1..(Len(h) - 1) : RemoveAt(h, n)[k] = IF k < n THEN h[k] ELSE h[k + 1]
<1> DEFINE a == SubSeq(h, 1, n - 1)
           b == SubSeq(h, n + 1, Len(h))
<1>1. /\ a \in Seq(S) /\ Len(a) = n - 1 /\ \A k \in 1..(n - 1) : a[k] = h[k]
  OBVIOUS
<1>2. /\ b \in Seq(S) /\ Len(b) = Len(h) - n /\ \A k \in 1..(Len(h) - n) : b[k] = h[n + k]
  OBVIOUS
<1>3. RemoveAt(h, n) = a \o b
  BY DEF RemoveAt
<1> HIDE DEF a, b
<1>4. Len(h) \in Nat /\ n \in Nat
  OBVIOUS
<1>5. a \o b \in Seq(S) /\ Len(a \o b) = Len(h) - 1
  <2>1. a \o b \in Seq(S) /\ Len(a \o b) = Len(a) + Len(b)
    BY <1>1, <1>2, ConcatFacts
  <2> QED  BY <1>1, <1>2, <1>4, <2>1
<1>6. ASSUME NEW k \in 1..(Len(h) - 1)  PROVE (a \o b)[k] = IF k < n THEN h[k] ELSE h[k + 1]
  <2> HIDE DEF a, b
  <2>1. CASE k < n
    <3>1. (a \o b)[k] = a[k]
      BY <1>1, <1>2, <1>4, <2>1, ConcatFacts
    <3> QED  BY <1>1, <1>4, <2>1, <3>1
  <2>2. CASE ~(k < n)
    <3>1. (a \o b)[k] = b[k - (n - 1)]
      BY <1>1, <1>2, <1>4, <2>2, ConcatFacts
    <3>2. k - (n - 1) \in 1..(Len(h) - n) /\ n + (k - (n - 1)) = k + 1
      BY <1>4, <2>2
    <3> QED  BY <1>2, <2>2, <3>1, <3>2
  <2> QED  BY <2>1, <2>2
<1> QED  BY <1>3, <1>5, <1>6

LEMMA DeletedFacts ==
  ASSUME NEW S, NEW h \in Seq(S), IsInjective(h), NEW id
  PROVE  /\ Deleted(h, id) \in Seq(S) /\ Len(Deleted(h, id)) <= Len(h)
         /\ IsInjective(Deleted(h, id)) /\ Range(Deleted(h, id)) = Range(h) \ {id}
<1>1. CASE id \notin Range(h)
  BY <1>1 DEF Deleted
<1>2. CASE id \in Range(h)
  <2> DEFINE n == CHOOSE i \in DOMAIN h : h[i] = id
             t == RemoveAt(h, n)
  <2>1. /\ Range(h) = {h[k] : k \in 1..Len(h)}
        /\ \A k, m \in 1..Len(h) : h[k] = h[m] => k = m
    BY RangeOf
  <2>2. n \in 1..Len(h) /\ h[n] = id
    BY <1>2, <2>1
  <2>3. Deleted(h, id) = t
    BY <1>2 DEF Deleted
  <2> HIDE DEF n
  <2>4. /\ t \in Seq(S) /\ Len(t) = Len(h) - 1
        /\ \A k \in 1..(Len(h) - 1) : t[k] = IF k < n THEN h[k] ELSE h[k + 1]
    BY <2>2, Removed
  <2> HIDE DEF t
  <2>5. Len(h) \in Nat /\ n \in Nat
    BY <2>2
  <2>6. ASSUME NEW k \in 1..Len(t), NEW m \in 1..Len(t), t[k] = t[m]  PROVE k = m
    BY <2>1, <2>4, <2>5, <2>6
  <2>7. IsInjective(t)
    BY <2>4, <2>6, RangeOf
  <2>8. ASSUME NEW k \in 1..Len(t)  PROVE t[k] \in Range(h) \ {id}
    BY <2>1, <2>2, <2>4, <2>5
  <2>9. ASSUME NEW k \in 1..Len(h), h[k] # id  PROVE \E m \in 1..Len(t) : t[m] = h[k]
    <3>1. CASE k < n
      BY <2>2, <2>4, <2>5, <3>1
    <3>2. CASE ~(k < n)
      <4>1. k - 1 \in 1..Len(t) /\ ~(k - 1 < n) /\ (k - 1) + 1 = k
        BY <2>2, <2>4, <2>5, <2>9, <3>2
      <4> QED  BY <2>4, <4>1
    <3> QED  BY <3>1, <3>2
  <2>10. Range(t) = {t[k] : k \in 1..Len(t)}
    BY <2>4, RangeOf
  <2>11. Range(t) = Range(h) \ {id}
    BY <2>1, <2>8, <2>9, <2>10
  <2> QED  BY <2>3, <2>4, <2>5, <2>7, <2>11
<1> QED  BY <1>1, <1>2

LEMMA TailOfList ==
  ASSUME NEW S, NEW h \in Seq(S), IsInjective(h), h # <<>>
  PROVE  /\ Tail(h) \in Seq(S) /\ Len(Tail(h)) = Len(h) - 1 /\ IsInjective(Tail(h))
         /\ Head(h) \in S /\ Range(h) = Range(Tail(h)) \union {Head(h)}
<1> DEFINE t == Tail(h)
<1>1. /\ t \in Seq(S) /\ Len(h) \in Nat /\ Len(t) \in Nat /\ Len(h) = Len(t) + 1
      /\ Head(h) = h[1] /\ h[1] \in S
      /\ \A k \in 1..Len(t) : t[k] = h[k + 1] /\ k + 1 \in 1..Len(h)
      /\ \A k \in 1..Len(h) : k = 1 \/ (k - 1 \in 1..Len(t) /\ h[k] = t[k - 1])
  BY TailFacts
<1> HIDE DEF t
<1>2. /\ Range(h) = {h[k] : k \in 1..Len(h)} /\ Range(t) = {t[k] : k \in 1..Len(t)}
      /\ \A k, m \in 1..Len(h) : h[k] = h[m] => k = m
  BY <1>1, RangeOf
<1>3. \A k, m \in 1..Len(t) : t[k] = t[m] => k = m
  <2> SUFFICES ASSUME NEW k \in 1..Len(t), NEW m \in 1..Len(t), t[k] = t[m]  PROVE k = m
    OBVIOUS
  <2>1. k + 1 = m + 1
    BY <1>1, <1>2
  <2> QED  BY <2>1
<1>4. IsInjective(t)
  BY <1>1, <1>3, RangeOf
<1>5. 1 \in 1..Len(h)
  BY <1>1
<1>6. Range(h) = Range(t) \union {Head(h)}
  <2>1. \A x \in Range(h) : x \in Range(t) \/ x = Head(h)
    BY <1>1, <1>2
  <2>2. Head(h) \in Range(h)
    BY <1>1, <1>2, <1>5
  <2>3. ASSUME NEW k \in 1..Len(t)  PROVE t[k] \in Range(h)
    BY <1>1, <1>2
  <2>4. \A x \in Range(t) : x \in Range(h)
    BY <1>2, <2>3
  <2> QED  BY <2>1, <2>2, <2>4
<1> QED  BY <1>1, <1>4, <1>6 DEF t

LEMMA AppendToList ==
  ASSUME NEW S, NEW h \in Seq(S), IsInjective(h), NEW x \in S, x \notin Range(h)
  PROVE  /\ Append(h, x) \in Seq(S) /\ Len(Append(h, x)) = Len(h) + 1
         /\ IsInjective(Append(h, x)) /\ Range(Append(h, x)) = Range(h) \union {x}
<1> DEFINE t == Append(h, x)
<1>1. /\ t \in Seq(S) /\ Len(h) \in Nat /\ Len(t) = Len(h) + 1 /\ t[Len(h) + 1] = x
      /\ \A k \in 1..Len(h) : t[k] = h[k]
  BY AppendFacts
<1> HIDE DEF t
<1>2. /\ Range(h) = {h[k] : k \in 1..Len(h)} /\ Range(t) = {t[k] : k \in 1..Len(t)}
      /\ \A k, m \in 1..Len(h) : h[k] = h[m] => k = m
  BY <1>1, RangeOf
<1>3. \A k \in 1..Len(t) : k \in 1..Len(h) \/ k = Len(h) + 1
  BY <1>1
<1>4. 1..Len(h) \subseteq 1..Len(t) /\ Len(h) + 1 \in 1..Len(t)
  BY <1>1
<1>5. Range(t) = Range(h) \union {x}
  <2>1. \A y \in Range(t) : y \in Range(h) \/ y = x
    BY <1>1, <1>2, <1>3
  <2>2. \A y \in Range(h) \union {x} : y \in Range(t)
    BY <1>1, <1>2, <1>4
  <2> QED  BY <2>1, <2>2
<1>6. ASSUME NEW k \in 1..Len(t), NEW m \in 1..Len(t), t[k] = t[m]  PROVE k = m
  BY <1>1, <1>2, <1>3, <1>6
<1>7. IsInjective(t)
  BY <1>1, <1>6, RangeOf
<1> QED  BY <1>1, <1>5, <1>7 DEF t

(* The next part to send is one that is not there yet.                       *)
LEMMA PartFacts ==
  ASSUME OutTypes, Sending, NEW s \in Senders, opc[s] = "send"
  PROVE  /\ Part(s) \in 1..Parts[s] /\ <<s, Part(s)>> \in Ids
         /\ posted[<<s, Part(s)>>] = Absent /\ SentUpTo(posted, version, s, Part(s) - 1)
<1>1. Parts[s] \in Nat \ {0}
  BY OutboundAssumption
<1>2. PICK n \in 0..(Parts[s] - 1) : SentUpTo(posted, version, s, n)
  BY DEF Sending
<1> DEFINE there == {i \in 1..Parts[s] : posted[<<s, i>>] # Absent}
<1>3. there = 1..n
  BY <1>1, <1>2 DEF SentUpTo
<1>4. Cardinality(1..n) = n
  BY <1>1, <1>2, FS_Interval
<1>5. Part(s) = n + 1
  BY <1>3, <1>4 DEF Part
<1>6. Part(s) \in 1..Parts[s] /\ Part(s) - 1 = n /\ ~(Part(s) <= n)
  BY <1>1, <1>2, <1>5
<1>7. posted[<<s, Part(s)>>] = Absent
  BY <1>2, <1>6 DEF SentUpTo
<1> QED  BY <1>2, <1>6, <1>7, IdFacts

(* A call that the platform carries out: its echo is due, and is the only    *)
(* creation of its message.                                                  *)
LEMMA Applied ==
  ASSUME OutIInv, NEW sort \in Sorts, NEW id \in Ids, NEW v \in Versions,
         (sort = "created" /\ posted[id] = Absent) \/ (sort = "edited" /\ v > 0),
         Apply(sort, id, v), UNCHANGED <<echo, oneId, hand, busq, cached, ended>>
  PROVE  /\ posted' \in [Ids -> Versions \cup {Absent}] /\ echoes' \in Seq(FromPlatform)
         /\ echo' \/ (echoes' = <<>> /\ hand' = Absent /\ ~ended')
         /\ posted'[id] = v /\ \A i \in Ids : i # id => posted'[i] = posted[i]
         /\ echo' /\ ~ended' => \A i \in Ids : posted'[i] # Absent => Due(i)'
         /\ ~echo' => \A i \in Ids : i # id /\ Due(i) => Due(i)'
         /\ CreatedFirst'
         /\ \A s \in Senders : /\ Carried(echoes, hand, busq, cached, s)
                               /\ sort = "edited" \/ id # First(s)
                               => Carried(echoes, hand, busq, cached, s)'
<1> DEFINE x == Echo(sort, id, v)
<1>1. /\ x \in FromPlatform /\ x \in Events
      /\ x.kind = sort /\ x.id = id /\ x.version = v /\ x.tags = FALSE /\ x.own = FALSE
  <2>1. x \in FromPlatform
    BY EventFact
  <2>2. x.kind = sort /\ x.id = id /\ x.version = v /\ x.tags = FALSE /\ x.own = FALSE
    BY DEF Echo
  <2> QED  BY <2>1, <2>2, EventFact
<1> HIDE DEF x
<1>2. /\ posted \in [Ids -> Versions \cup {Absent}]
      /\ echoes \in Seq(FromPlatform) /\ echoes \in Seq(Events)
      /\ echo \in BOOLEAN /\ (echo \/ (echoes = <<>> /\ hand = Absent /\ ~ended))
      /\ posted' = [posted EXCEPT ![id] = v]
      /\ echoes' = IF echo THEN Append(echoes, x) ELSE echoes
      /\ echo' = echo /\ hand' = hand /\ busq' = busq /\ cached' = cached /\ ended' = ended
      /\ Alike' = Alike
  BY QueueFacts DEF OutIInv, OutTypes, Apply, Alike, x
<1>3. Absent \notin Versions /\ \A s \in Senders : First(s) \in Ids
  BY IdFacts
<1>4. /\ posted' \in [Ids -> Versions \cup {Absent}]
      /\ posted'[id] = v /\ \A i \in Ids : i # id => posted'[i] = posted[i]
  BY <1>2
<1>5. echoes' \in Seq(FromPlatform) /\ (echo' \/ (echoes' = <<>> /\ hand' = Absent /\ ~ended'))
  <2>1. Append(echoes, x) \in Seq(FromPlatform)
    BY <1>1, <1>2, AppendFacts
  <2> QED  BY <1>2, <2>1
<1>6. ASSUME echo', ~ended', NEW i \in Ids, posted'[i] # Absent  PROVE Due(i)'
  <2>1. echoes' = Append(echoes, x) /\ echo /\ ~ended
    BY <1>2, <1>6
  <2>2. i # id => Arrives(echoes, hand, busq, cached, Alike, i, posted'[i])
    BY <1>4, <1>6, <2>1 DEF OutIInv, AllDue, Due
  <2>3. IF x.id = i THEN x.version = posted'[i]
        ELSE Arrives(echoes, hand, busq, cached, Alike, i, posted'[i])
    BY <1>1, <1>4, <2>2
  <2>4. Arrives(Append(echoes, x), hand, busq, cached, Alike, i, posted'[i])
    BY <1>1, <1>2, <2>3, ArriveSend
  <2> QED  BY <1>2, <2>1, <2>4 DEF Due
<1>7. ASSUME ~echo', NEW i \in Ids, i # id, Due(i)  PROVE Due(i)'
  BY <1>2, <1>4, <1>7 DEF Due
<1>8. /\ \A i : CreationFirst(echoes, i) /\ (NoEcho(echoes, i) \/ ~Creation(x, i)) => CreationFirst(echoes', i)
      /\ \A i : NoCreation(echoes, i) /\ ~Creation(x, i) => NoCreation(echoes', i)
      /\ \A i : NoEcho(echoes, i) /\ ~EchoOf(x, i) => NoEcho(echoes', i)
      /\ \A s : NoBare(echoes, s) /\ ~Bare(x, s) => NoBare(echoes', s)
  <2>1. CASE ~echo
    BY <1>2, <2>1
  <2>2. CASE echo
    BY <1>1, <1>2, <2>2, EchoAppend, BareAppend
  <2> QED  BY <2>1, <2>2
<1>9. \A i : /\ Creation(x, i) <=> i = id /\ sort = "created"
             /\ EchoOf(x, i) <=> i = id
  BY <1>1 DEF Creation, EchoOf
<1>10. CreatedFirst'
  <2>1. ASSUME NEW i \in Ids  PROVE InOrderOf(echoes, hand, busq, cached, posted, i)'
    <3>1. InOrderOf(echoes, hand, busq, cached, posted, i)
      BY DEF OutIInv, CreatedFirst
    <3>2. CASE i # id
      BY <1>2, <1>4, <1>8, <1>9, <3>1, <3>2 DEF InOrderOf
    <3>3. CASE i = id /\ sort = "edited"
      <4>1. posted'[i] # Absent /\ ~Creation(x, i)
        BY <1>3, <1>4, <1>9, <3>3
      <4> QED  BY <1>2, <1>8, <3>1, <4>1 DEF InOrderOf
    <3>4. CASE i = id /\ sort = "created"
      <4>1. posted'[i] # Absent /\ posted[i] = Absent
        BY <1>3, <1>4, <3>4
      <4> QED  BY <1>2, <1>8, <3>1, <4>1 DEF InOrderOf
    <3> QED  BY <3>2, <3>3, <3>4 DEF Sorts
  <2> QED  BY <2>1 DEF CreatedFirst
<1>11. ASSUME NEW s \in Senders, Carried(echoes, hand, busq, cached, s), sort = "edited" \/ id # First(s)
       PROVE  Carried(echoes, hand, busq, cached, s)'
  <2>1. ~Bare(x, s)
    BY <1>9, <1>11 DEF Bare
  <2> QED  BY <1>2, <1>8, <1>11, <2>1 DEF Carried
<1> QED  BY <1>2, <1>4, <1>5, <1>6, <1>7, <1>10, <1>11

\* Of the first text of a part; no creation's tags are at stake but its own.
LEMMA AppliedFirst ==
  ASSUME OutIInv, NEW id \in Ids, posted[id] = Absent, Apply("created", id, 0),
         UNCHANGED <<echo, oneId, hand, busq, cached, ended>>
  PROVE  /\ posted' \in [Ids -> Versions \cup {Absent}] /\ echoes' \in Seq(FromPlatform)
         /\ echo' \/ (echoes' = <<>> /\ hand' = Absent /\ ~ended')
         /\ posted'[id] = 0 /\ \A i \in Ids : i # id => posted'[i] = posted[i]
         /\ echo' /\ ~ended' => \A i \in Ids : posted'[i] # Absent => Due(i)'
         /\ ~echo' => \A i \in Ids : i # id /\ Due(i) => Due(i)'
         /\ CreatedFirst'
         /\ \A s \in Senders : Carried(echoes, hand, busq, cached, s) /\ id # First(s)
                               => Carried(echoes, hand, busq, cached, s)'
<1>1. "created" \in Sorts /\ 0 \in Versions
  <2>1. \A i \in Ids : \E s \in Senders : i[1] = s
    BY DEF Ids
  <2> QED  BY <2>1, IdFacts DEF Sorts
<1> DEFINE sort == "created"
<1>2. sort \in Sorts /\ ((sort = "created" /\ posted[id] = Absent) \/ (sort = "edited" /\ 0 > 0))
  BY <1>1
<1>3. Apply(sort, id, 0)
  OBVIOUS
<1> HIDE DEF sort
<1> QED  BY <1>1, <1>2, <1>3, Applied, Zenon

(* SendMessage: a part more, and after the last one the first has version 0. *)
LEMMA SendPartStep ==
  ASSUME OutIInv, NEW s \in Senders, SendPart(s)
  PROVE  OutIInv'
<1> DEFINE id == <<s, Part(s)>>
<1>1. /\ opc[s] = "send" /\ Apply("created", id, 0)
      /\ opc' = [opc EXCEPT ![s] = IF Part(s) = Parts[s] THEN "remember" ELSE "send"]
      /\ UNCHANGED <<echo, oneId, hand, entries, version, busq, cached, ended, forgotten, unsaid>>
  BY DEF SendPart, Go
<1>2. /\ Part(s) \in 1..Parts[s] /\ id \in Ids
      /\ posted[id] = Absent /\ SentUpTo(posted, version, s, Part(s) - 1)
  BY <1>1, PartFacts DEF OutIInv
<1>3. /\ 0 \in Versions /\ Absent \notin Versions /\ Parts[s] \in Nat \ {0}
      /\ "created" \in Sorts /\ \A t \in Senders : First(t) \in Ids
  BY IdFacts, OutboundAssumption DEF Sorts
<1> HIDE DEF id
<1>4. /\ posted' \in [Ids -> Versions \cup {Absent}] /\ echoes' \in Seq(FromPlatform)
      /\ echo' \/ (echoes' = <<>> /\ hand' = Absent /\ ~ended')
      /\ posted'[id] = 0 /\ \A i \in Ids : i # id => posted'[i] = posted[i]
      /\ echo' /\ ~ended' => \A i \in Ids : posted'[i] # Absent => Due(i)'
      /\ ~echo' => \A i \in Ids : i # id /\ Due(i) => Due(i)'
      /\ CreatedFirst'
      /\ \A t \in Senders : /\ Carried(echoes, hand, busq, cached, t)
                            /\ id # First(t)
                            => Carried(echoes, hand, busq, cached, t)'
  BY <1>1, <1>2, AppliedFirst
<1>5. \A t \in Senders : t # s => opc'[t] = opc[t] /\ \A i \in 1..Parts[t] : <<t, i>> # id
  BY <1>1 DEF OutIInv, OutTypes, id
<1>6. \A t \in Senders : t # s => First(t) # id /\ posted'[First(t)] = posted[First(t)]
  <2>1. \A t \in Senders : t # s => First(t) # id
    BY DEF First, id
  <2> QED  BY <1>3, <1>4, <2>1
<1>7. opc'[s] \in {"send", "remember"} /\ (opc'[s] = "send" => Part(s) # Parts[s])
  BY <1>1 DEF OutIInv, OutTypes
<1>8. posted'[First(s)] = 0 /\ SentUpTo(posted', version', s, Part(s))
  <2> DEFINE n == Part(s)
  <2>1. n - 1 = 0 \/ posted[First(s)] # Absent
    <3>1. 1 \in 1..Parts[s]
      BY <1>3
    <3>2. posted[<<s, 1>>] # Absent <=> 1 <= n - 1
      BY <1>2, <3>1 DEF SentUpTo
    <3> QED  BY <1>2, <1>3, <3>2 DEF First
  <2>2. posted'[First(s)] = 0
    <3>1. CASE n = 1
      BY <1>4, <3>1 DEF First, id
    <3>2. CASE n # 1
      <4>1. First(s) # id
        BY <3>2 DEF First, id
      <4>2. posted[First(s)] = 0
        BY <1>2, <1>3, <2>1, <3>2 DEF SentUpTo
      <4> QED  BY <1>3, <1>4, <4>1, <4>2
    <3> QED  BY <3>1, <3>2
  <2>3. ASSUME NEW i \in 1..Parts[s]  PROVE posted'[<<s, i>>] # Absent <=> i <= n
    <3>1. CASE i = n
      <4>1. <<s, i>> = id
        BY <3>1 DEF id
      <4> QED  BY <1>2, <1>3, <1>4, <3>1, <4>1
    <3>2. CASE i # n
      <4>1. <<s, i>> # id
        BY <3>2 DEF id
      <4>2. posted'[<<s, i>>] = posted[<<s, i>>]
        BY <1>4, <4>1, IdFacts
      <4>3. posted[<<s, i>>] # Absent <=> i <= n - 1
        BY <1>2 DEF SentUpTo
      <4> QED  BY <1>2, <1>3, <3>2, <4>2, <4>3
    <3> QED  BY <3>1, <3>2
  <2>4. version'[s] = 0
    BY <1>1, <1>2 DEF SentUpTo
  <2> QED  BY <2>2, <2>3, <2>4 DEF SentUpTo
<1>9. OutTypes'
  <2>1. opc' \in [Senders -> Places]
    BY <1>1 DEF OutIInv, OutTypes, Places
  <2> QED  BY <1>1, <1>4, <2>1 DEF OutIInv, OutTypes
<1>10. Sending'
  <2>1. ASSUME NEW t \in Senders, t # s
        PROVE  /\ opc'[t] = "send" => \E n \in 0..(Parts[t] - 1) : SentUpTo(posted', version', t, n)
               /\ opc'[t] \in After \cup {"remember"} => posted'[First(t)] = version'[t]
    <3>1. ASSUME NEW n, SentUpTo(posted, version, t, n)  PROVE SentUpTo(posted', version', t, n)
      <4>1. \A i \in 1..Parts[t] : posted'[<<t, i>>] = posted[<<t, i>>]
        BY <1>4, <1>5, <2>1, IdFacts
      <4> QED  BY <1>1, <1>6, <2>1, <3>1, <4>1 DEF SentUpTo
    <3>2. opc[t] = "send" => \E n \in 0..(Parts[t] - 1) : SentUpTo(posted, version, t, n)
      BY DEF OutIInv, Sending
    <3>3. opc[t] \in After \cup {"remember"} => posted[First(t)] = version[t]
      BY DEF OutIInv, Sending
    <3> QED  BY <1>1, <1>5, <1>6, <2>1, <3>1, <3>2, <3>3
  <2>2. opc'[s] = "send" => \E n \in 0..(Parts[s] - 1) : SentUpTo(posted', version', s, n)
    <3>1. opc'[s] = "send" => Part(s) \in 0..(Parts[s] - 1)
      BY <1>2, <1>3, <1>7
    <3> QED  BY <1>8, <3>1
  <2>3. posted'[First(s)] = version'[s]
    BY <1>8 DEF SentUpTo
  <2> QED  BY <2>1, <2>2, <2>3 DEF Sending
<1>11. AllDue'
  <2>1. ASSUME ~echo', NEW t \in Senders
        PROVE  /\ opc'[t] \in After => First(t) \in Range(entries') \cup forgotten'
               /\ opc'[t] = "ready" /\ First(t) \notin forgotten' \cup unsaid' => Due(First(t))'
    <3>1. CASE t = s
      BY <1>7, <3>1 DEF After
    <3>2. CASE t # s
      <4>1. /\ opc[t] \in After => First(t) \in Range(entries) \cup forgotten
            /\ opc[t] = "ready" /\ First(t) \notin forgotten \cup unsaid => Due(First(t))
        BY <1>1, <2>1 DEF OutIInv, AllDue
      <4>2. Due(First(t)) => Due(First(t))'
        BY <1>3, <1>4, <1>6, <2>1, <3>2
      <4> QED  BY <1>1, <1>5, <3>2, <4>1, <4>2
    <3> QED  BY <3>1, <3>2
  <2> QED  BY <1>4, <2>1 DEF AllDue
<1>12. TagsInv'
  <2>1. ASSUME ~ended', NEW t \in Senders, opc'[t] \in After, First(t) \notin forgotten'
        PROVE  First(t) \in Range(entries') \/ Carried(echoes, hand, busq, cached, t)'
    <3>1. t # s
      BY <1>7, <2>1 DEF After
    <3>2. First(t) \in Range(entries) \/ Carried(echoes, hand, busq, cached, t)
      BY <1>1, <1>5, <2>1, <3>1 DEF OutIInv, TagsInv
    <3> QED  BY <1>1, <1>4, <1>6, <3>1, <3>2
  <2> QED  BY <2>1 DEF TagsInv
<1> QED  BY <1>4, <1>9, <1>10, <1>11, <1>12 DEF OutIInv

LEMMA SendingKept ==
  ASSUME Sending, posted' = posted, version' = version,
         \A t \in Senders : \/ opc'[t] = opc[t]
                            \/ opc'[t] = "failed"
                            \/ opc'[t] \in After /\ opc[t] \in After \cup {"remember"}
  PROVE  Sending'
<1>1. ASSUME NEW t \in Senders
      PROVE  /\ opc'[t] = "send" => \E n \in 0..(Parts[t] - 1) : SentUpTo(posted', version', t, n)
             /\ opc'[t] \in After \cup {"remember"} => posted'[First(t)] = version'[t]
  <2>1. /\ opc[t] = "send" => \E n \in 0..(Parts[t] - 1) : SentUpTo(posted, version, t, n)
        /\ opc[t] \in After \cup {"remember"} => posted[First(t)] = version[t]
    BY DEF Sending
  <2>2. opc'[t] = "send" => opc[t] = "send"
    BY DEF After
  <2>3. opc'[t] \in After \cup {"remember"} => opc[t] \in After \cup {"remember"}
    BY DEF After
  <2> QED  BY <2>1, <2>2, <2>3
<1> QED  BY <1>1 DEF Sending

(* A failed send leaves what was sent of it.                                 *)
LEMMA SendFailsStep ==
  ASSUME OutIInv, NEW s \in Senders, SendFails(s)
  PROVE  OutIInv'
<1> DEFINE id == <<s, Part(s)>>
<1>1. /\ opc[s] = "send" /\ opc' = [opc EXCEPT ![s] = "failed"]
      /\ UNCHANGED <<posted, echoes>> \/ Apply("created", id, 0)
      /\ UNCHANGED <<echo, oneId, hand, entries, version, busq, cached, ended, forgotten, unsaid>>
  BY DEF SendFails, Go
<1>2. Part(s) \in 1..Parts[s] /\ id \in Ids /\ posted[id] = Absent
  BY <1>1, PartFacts DEF OutIInv
<1>3. 0 \in Versions /\ "created" \in Sorts /\ \A t \in Senders : First(t) \in Ids
  BY IdFacts DEF Sorts
<1>4. \A t \in Senders : t # s => /\ opc'[t] = opc[t] /\ First(t) # id
                                  /\ \A i \in 1..Parts[t] : <<t, i>> # id /\ <<t, i>> \in Ids
  BY <1>1, IdFacts DEF OutIInv, OutTypes, First, id
<1>5. opc'[s] = "failed" /\ opc' \in [Senders -> Places]
  BY <1>1 DEF OutIInv, OutTypes, Places
<1> HIDE DEF id
<1>6. /\ posted' \in [Ids -> Versions \cup {Absent}] /\ echoes' \in Seq(FromPlatform)
      /\ echo' \/ (echoes' = <<>> /\ hand' = Absent /\ ~ended')
      /\ \A i \in Ids : i # id => posted'[i] = posted[i]
      /\ echo' /\ ~ended' => \A i \in Ids : posted'[i] # Absent => Due(i)'
      /\ ~echo' => \A i \in Ids : i # id /\ Due(i) => Due(i)'
      /\ CreatedFirst'
      /\ \A t \in Senders : /\ Carried(echoes, hand, busq, cached, t)
                            /\ id # First(t)
                            => Carried(echoes, hand, busq, cached, t)'
  <2>1. CASE Apply("created", id, 0)
    BY <1>1, <1>2, <2>1, AppliedFirst
  <2>2. CASE UNCHANGED <<posted, echoes>>
    BY <1>1, <2>2 DEF OutIInv, OutTypes, AllDue, Due, Alike, CreatedFirst
  <2> QED  BY <1>1, <2>1, <2>2
<1>7. OutTypes'
  BY <1>1, <1>5, <1>6 DEF OutIInv, OutTypes
<1>8. Sending'
  <2>1. ASSUME NEW t \in Senders
        PROVE  /\ opc'[t] = "send" => \E n \in 0..(Parts[t] - 1) : SentUpTo(posted', version', t, n)
               /\ opc'[t] \in After \cup {"remember"} => posted'[First(t)] = version'[t]
    <3>1. CASE t = s
      BY <1>5, <3>1 DEF After
    <3>2. CASE t # s
      <4>1. /\ opc[t] = "send" => \E n \in 0..(Parts[t] - 1) : SentUpTo(posted, version, t, n)
            /\ opc[t] \in After \cup {"remember"} => posted[First(t)] = version[t]
        BY DEF OutIInv, Sending
      <4>2. posted'[First(t)] = posted[First(t)] /\ version' = version
        BY <1>1, <1>3, <1>4, <1>6, <3>2
      <4>3. \A i \in 1..Parts[t] : posted'[<<t, i>>] = posted[<<t, i>>]
        BY <1>4, <1>6, <3>2
      <4>4. \A n : SentUpTo(posted, version, t, n) => SentUpTo(posted', version', t, n)
        BY <4>2, <4>3 DEF SentUpTo
      <4> QED  BY <1>4, <3>2, <4>1, <4>2, <4>4
    <3> QED  BY <3>1, <3>2
  <2> QED  BY <2>1 DEF Sending
<1>9. AllDue'
  <2>1. ASSUME ~echo', NEW t \in Senders
        PROVE  /\ opc'[t] \in After => First(t) \in Range(entries') \cup forgotten'
               /\ opc'[t] = "ready" /\ First(t) \notin forgotten' \cup unsaid' => Due(First(t))'
    <3>1. CASE t = s
      BY <1>5, <3>1 DEF After
    <3>2. CASE t # s
      <4>1. /\ opc[t] \in After => First(t) \in Range(entries) \cup forgotten
            /\ opc[t] = "ready" /\ First(t) \notin forgotten \cup unsaid => Due(First(t))
        BY <1>1, <2>1 DEF OutIInv, AllDue
      <4>2. Due(First(t)) => Due(First(t))'
        BY <1>3, <1>4, <1>6, <2>1, <3>2
      <4> QED  BY <1>1, <1>4, <3>2, <4>1, <4>2
    <3> QED  BY <3>1, <3>2
  <2> QED  BY <1>6, <2>1 DEF AllDue
<1>10. TagsInv'
  <2>1. ASSUME ~ended', NEW t \in Senders, opc'[t] \in After, First(t) \notin forgotten'
        PROVE  First(t) \in Range(entries') \/ Carried(echoes, hand, busq, cached, t)'
    <3>1. t # s
      BY <1>5, <2>1 DEF After
    <3>2. First(t) \in Range(entries) \/ Carried(echoes, hand, busq, cached, t)
      BY <1>1, <1>4, <2>1, <3>1 DEF OutIInv, TagsInv
    <3> QED  BY <1>1, <1>4, <1>6, <3>1, <3>2
  <2> QED  BY <2>1 DEF TagsInv
<1> QED  BY <1>6, <1>7, <1>8, <1>9, <1>10 DEF OutIInv

(* Remembering a message: what goes for it counts as forgotten.              *)
LEMMA RememberStep ==
  ASSUME OutIInv, NEW s \in Senders, Remember(s)
  PROVE  OutIInv'
<1> DEFINE f == First(s)
           kept == Kept(f)
           rest == Deleted(kept, f)
<1>1. /\ opc[s] = "remember" /\ opc' = [opc EXCEPT ![s] = "announce"]
      /\ entries' = Append(rest, f)
      /\ forgotten' = forgotten \cup (Range(entries) \ Range(kept))
      /\ UNCHANGED <<echo, oneId, posted, echoes, hand, version, busq, cached, ended, unsaid>>
  BY DEF Remember, Go, Gone
<1>2. /\ entries \in Seq(Firsts) /\ Len(entries) <= MaxEntries /\ IsInjective(entries)
      /\ f \in Firsts /\ MaxEntries \in Nat \ {0} /\ Len(entries) \in Nat
  BY OutboundAssumption DEF OutIInv, OutTypes, Firsts
<1>3. /\ kept \in Seq(Firsts) /\ IsInjective(kept) /\ Len(kept) \in Nat
      /\ Len(kept) <= MaxEntries /\ (f \in Range(kept) \/ Len(kept) < MaxEntries)
      /\ Range(kept) \subseteq Range(entries)
  <2>1. CASE f \in Range(entries) \/ Len(entries) < MaxEntries
    BY <1>2, <2>1 DEF Kept
  <2>2. CASE ~(f \in Range(entries) \/ Len(entries) < MaxEntries)
    <3>1. kept = Tail(entries) /\ Len(entries) = MaxEntries /\ entries # <<>>
      BY <1>2, <2>2 DEF Kept
    <3>2. /\ Tail(entries) \in Seq(Firsts) /\ Len(Tail(entries)) = Len(entries) - 1
          /\ IsInjective(Tail(entries)) /\ Range(Tail(entries)) \subseteq Range(entries)
      BY <1>2, <3>1, TailOfList
    <3> QED  BY <1>2, <3>1, <3>2
  <2> QED  BY <2>1, <2>2
<1> HIDE DEF kept
<1>4. /\ rest \in Seq(Firsts) /\ Len(rest) <= Len(kept) /\ IsInjective(rest)
      /\ Range(rest) = Range(kept) \ {f} /\ Len(rest) \in Nat
  BY <1>3, DeletedFacts
<1>5. Len(rest) < MaxEntries
  <2>1. CASE f \notin Range(kept)
    BY <1>2, <1>3, <1>4, <2>1
  <2>2. CASE f \in Range(kept)
    <3> DEFINE n == CHOOSE i \in DOMAIN kept : kept[i] = f
    <3>1. rest = RemoveAt(kept, n)
      BY <2>2 DEF Deleted
    <3>2. n \in 1..Len(kept)
      BY <1>3, <2>2, RangeOf
    <3> HIDE DEF n
    <3>3. Len(RemoveAt(kept, n)) = Len(kept) - 1
      BY <1>3, <3>2, Removed
    <3> QED  BY <1>2, <1>3, <3>1, <3>3
  <2> QED  BY <2>1, <2>2
<1> HIDE DEF rest
<1>6. /\ entries' \in Seq(Firsts) /\ Len(entries') <= MaxEntries /\ IsInjective(entries')
      /\ Range(entries') = Range(kept) \cup {f}
  <2>1. /\ Append(rest, f) \in Seq(Firsts) /\ Len(Append(rest, f)) = Len(rest) + 1
        /\ IsInjective(Append(rest, f)) /\ Range(Append(rest, f)) = Range(rest) \cup {f}
    BY <1>2, <1>4, AppendToList
  <2> QED  BY <1>1, <1>2, <1>4, <1>5, <2>1
<1>7. Range(entries) \subseteq Range(entries') \cup forgotten' /\ forgotten \subseteq forgotten'
  BY <1>1, <1>6
<1>8. /\ \A t \in Senders : t # s => opc'[t] = opc[t]
      /\ opc'[s] = "announce" /\ opc' \in [Senders -> Places]
  BY <1>1 DEF OutIInv, OutTypes, Places
<1>9. OutTypes'
  <2>1. forgotten' \in SUBSET Firsts
    <3>1. Range(entries) \subseteq Firsts
      BY <1>2, RangeOf
    <3> QED  BY <1>1, <3>1 DEF OutIInv, OutTypes
  <2> QED  BY <1>1, <1>6, <1>8, <2>1 DEF OutIInv, OutTypes
<1>10. Sending'
  BY <1>1, <1>8, SendingKept DEF OutIInv, After
<1>11. \A i : Due(i)' <=> Due(i)
  BY <1>1 DEF Due, Alike
<1>12. AllDue'
  <2>1. ASSUME ~echo', NEW t \in Senders
        PROVE  /\ opc'[t] \in After => First(t) \in Range(entries') \cup forgotten'
               /\ opc'[t] = "ready" /\ First(t) \notin forgotten' \cup unsaid' => Due(First(t))'
    <3>1. CASE t = s
      BY <1>6, <1>8, <3>1
    <3>2. CASE t # s
      <4>1. /\ opc[t] \in After => First(t) \in Range(entries) \cup forgotten
            /\ opc[t] = "ready" /\ First(t) \notin forgotten \cup unsaid => Due(First(t))
        BY <1>1, <2>1 DEF OutIInv, AllDue
      <4> QED  BY <1>1, <1>7, <1>8, <1>11, <3>2, <4>1
    <3> QED  BY <3>1, <3>2
  <2>2. echo' /\ ~ended' => \A i \in Ids : posted'[i] # Absent => Due(i)'
    BY <1>1, <1>11 DEF OutIInv, AllDue
  <2> QED  BY <2>1, <2>2 DEF AllDue
<1>13. TagsInv'
  <2>1. ASSUME ~ended', NEW t \in Senders, opc'[t] \in After, First(t) \notin forgotten'
        PROVE  First(t) \in Range(entries') \/ Carried(echoes, hand, busq, cached, t)'
    <3>1. CASE t = s
      BY <1>6, <3>1
    <3>2. CASE t # s
      <4>1. First(t) \in Range(entries) \/ Carried(echoes, hand, busq, cached, t)
        BY <1>1, <1>7, <1>8, <2>1, <3>2 DEF OutIInv, TagsInv
      <4> QED  BY <1>1, <1>7, <2>1, <4>1
    <3> QED  BY <3>1, <3>2
  <2> QED  BY <2>1 DEF TagsInv
<1>14. CreatedFirst'
  BY <1>1 DEF OutIInv, CreatedFirst
<1> QED  BY <1>9, <1>10, <1>12, <1>13, <1>14 DEF OutIInv

LEMMA PruneStep ==
  ASSUME OutIInv, Prune
  PROVE  OutIInv'
<1>1. /\ entries # <<>> /\ entries' = Tail(entries) /\ forgotten' = forgotten \cup {Head(entries)}
      /\ UNCHANGED <<echo, oneId, posted, echoes, hand, opc, version, busq, cached, ended, unsaid>>
  BY DEF Prune
<1>2. /\ Tail(entries) \in Seq(Firsts) /\ Len(Tail(entries)) = Len(entries) - 1
      /\ IsInjective(Tail(entries)) /\ Head(entries) \in Firsts
      /\ Range(entries) = Range(Tail(entries)) \union {Head(entries)}
      /\ Len(entries) \in Nat /\ Len(entries) <= MaxEntries /\ MaxEntries \in Nat
  BY <1>1, TailOfList, OutboundAssumption DEF OutIInv, OutTypes
<1>3. Range(entries) \subseteq Range(entries') \cup forgotten' /\ forgotten \subseteq forgotten'
  BY <1>1, <1>2
<1>4. OutTypes'
  BY <1>1, <1>2 DEF OutIInv, OutTypes
<1>5. Sending' /\ CreatedFirst' /\ \A i : Due(i)' <=> Due(i)
  BY <1>1 DEF OutIInv, Sending, CreatedFirst, Due, Alike
<1>6. AllDue'
  BY <1>1, <1>3, <1>5 DEF OutIInv, AllDue
<1>7. TagsInv'
  BY <1>1, <1>3 DEF OutIInv, TagsInv
<1> QED  BY <1>4, <1>5, <1>6, <1>7 DEF OutIInv

LEMMA PeekStep ==
  ASSUME OutIInv, NEW s \in Senders, Peek(s)
  PROVE  OutIInv'
<1>1. /\ opc[s] = "peek"
      /\ opc' = [opc EXCEPT ![s] = IF First(s) \in Range(entries) THEN "reannounce" ELSE "ready"]
      /\ UNCHANGED <<echo, oneId, posted, echoes, hand, entries, version, busq, cached, ended, forgotten, unsaid>>
  BY DEF Peek, Go
<1>2. /\ \A t \in Senders : t # s => opc'[t] = opc[t]
      /\ opc'[s] \in {"reannounce", "ready"} /\ (opc'[s] = "ready" => First(s) \notin Range(entries))
      /\ opc' \in [Senders -> Places]
  BY <1>1 DEF OutIInv, OutTypes, Places
<1>3. \A t \in Senders : opc'[t] \in After => opc[t] \in After
  BY <1>1, <1>2 DEF After
<1>4. OutTypes'
  BY <1>1, <1>2 DEF OutIInv, OutTypes
<1>5. CreatedFirst' /\ \A i : Due(i)' <=> Due(i)
  BY <1>1 DEF OutIInv, CreatedFirst, Due, Alike
<1>6. Sending'
  BY <1>1, <1>2, SendingKept DEF OutIInv, After
<1>7. AllDue'
  <2>1. ASSUME ~echo', NEW t \in Senders
        PROVE  /\ opc'[t] \in After => First(t) \in Range(entries') \cup forgotten'
               /\ opc'[t] = "ready" /\ First(t) \notin forgotten' \cup unsaid' => Due(First(t))'
    <3>1. /\ opc[t] \in After => First(t) \in Range(entries) \cup forgotten
          /\ opc[t] = "ready" /\ First(t) \notin forgotten \cup unsaid => Due(First(t))
      BY <1>1, <2>1 DEF OutIInv, AllDue
    <3>2. CASE t = s
      BY <1>1, <1>2, <3>1, <3>2 DEF After
    <3>3. CASE t # s
      BY <1>1, <1>2, <1>5, <3>1, <3>3
    <3> QED  BY <3>2, <3>3
  <2>2. echo' /\ ~ended' => \A i \in Ids : posted'[i] # Absent => Due(i)'
    BY <1>1, <1>5 DEF OutIInv, AllDue
  <2> QED  BY <2>1, <2>2 DEF AllDue
<1>8. TagsInv'
  BY <1>1, <1>3 DEF OutIInv, TagsInv
<1> QED  BY <1>4, <1>5, <1>6, <1>7, <1>8 DEF OutIInv

(* An event of the bridge's own has the version that was sent last, so that  *)
(* it may overtake echoes.                                                   *)
LEMMA SyntheticStep ==
  ASSUME OutIInv, NEW s \in Senders, NEW sort \in Sorts,
         opc[s] \in {"announce", "reannounce"}, PublishSynthetic(s, sort)
  PROVE  OutIInv'
<1> DEFINE f == First(s)
           x == Synthetic(sort, f, version[s])
<1>1. /\ opc' = [opc EXCEPT ![s] = "ready"]
      /\ \/ busq' = Append(busq, x) /\ UNCHANGED unsaid
         \/ unsaid' = unsaid \cup {f} /\ UNCHANGED busq
      /\ UNCHANGED <<echo, oneId, posted, echoes, hand, entries, version, cached, ended, forgotten>>
  BY DEF PublishSynthetic, Go
<1>2. /\ f \in Ids /\ f \in Firsts /\ version[s] \in Versions
      /\ posted[f] = version[s] /\ opc[s] \in After
  BY IdFacts DEF OutIInv, OutTypes, Sending, After, Firsts
<1>3. /\ x \in BusEvents(echo) /\ x \in Events
      /\ x.id = f /\ x.version = posted[f] /\ x.tags = TRUE /\ x.own = TRUE
  <2>1. x \in BusEvents(echo) /\ x \in Events
    BY <1>2, EventFact DEF OutIInv, OutTypes
  <2> QED  BY <1>2, <2>1 DEF Synthetic
<1> HIDE DEF x
<1>4. /\ busq \in Seq(BusEvents(echo)) /\ busq \in Seq(Events) /\ echo \in BOOLEAN
      /\ opc \in [Senders -> Places]
      /\ \A t \in Senders : t # s => opc'[t] = opc[t] /\ First(t) # f
      /\ opc'[s] = "ready" /\ opc' \in [Senders -> Places]
  BY <1>1, IdFacts, QueueFacts DEF OutIInv, OutTypes, Places
<1>5. busq' \in Seq(BusEvents(echo)) /\ unsaid' \in SUBSET Firsts
  <2>1. Append(busq, x) \in Seq(BusEvents(echo))
    BY <1>3, <1>4, AppendFacts
  <2> QED  BY <1>1, <1>2, <1>4, <2>1 DEF OutIInv, OutTypes
<1>6. OutTypes'
  BY <1>1, <1>4, <1>5 DEF OutIInv, OutTypes
<1>7. Sending'
  BY <1>1, <1>2, <1>4, SendingKept DEF OutIInv, After
<1>8. \A i : Due(i) => Due(i)'
  <2>1. ASSUME NEW i, Due(i), busq' = Append(busq, x)  PROVE Due(i)'
    <3>1. x.id = i => x.version = posted[i]
      BY <1>3
    <3>2. Arrives(echoes, hand, Append(busq, x), cached, Alike, i, posted[i])
      BY <1>3, <1>4, <2>1, <3>1, ArriveInsert DEF Due
    <3> QED  BY <1>1, <2>1, <3>2 DEF Due, Alike
  <2>2. ASSUME NEW i, Due(i), busq' = busq  PROVE Due(i)'
    BY <1>1, <2>2 DEF Due, Alike
  <2> QED  BY <1>1, <2>1, <2>2
<1>9. ASSUME ~echo, f \notin unsaid'  PROVE Due(f)'
  <2>1. echoes = <<>> /\ hand = Absent /\ busq' = Append(busq, x)
    BY <1>1, <1>9 DEF OutIInv, OutTypes
  <2>2. LastIs(Append(busq, x), f, posted[f])
    BY <1>3, <1>4, LastAppend
  <2>3. Silent(<<>>, f)
    BY DEF Silent
  <2>4. Arrives(<<>>, Absent, Append(busq, x), cached, Alike, f, posted[f])
    BY <2>2, <2>3 DEF Arrives
  <2> QED  BY <1>1, <2>1, <2>4 DEF Due, Alike
<1>10. AllDue'
  <2>1. ASSUME ~echo', NEW t \in Senders
        PROVE  /\ opc'[t] \in After => First(t) \in Range(entries') \cup forgotten'
               /\ opc'[t] = "ready" /\ First(t) \notin forgotten' \cup unsaid' => Due(First(t))'
    <3>1. /\ opc[t] \in After => First(t) \in Range(entries) \cup forgotten
          /\ opc[t] = "ready" /\ First(t) \notin forgotten \cup unsaid => Due(First(t))
      BY <1>1, <2>1 DEF OutIInv, AllDue
    <3>2. CASE t = s
      BY <1>1, <1>2, <1>9, <2>1, <3>1, <3>2
    <3>3. CASE t # s
      <4>1. First(t) \notin unsaid' => First(t) \notin unsaid
        BY <1>1
      <4> QED  BY <1>1, <1>4, <1>8, <3>1, <3>3, <4>1
    <3> QED  BY <3>2, <3>3
  <2>2. echo' /\ ~ended' => \A i \in Ids : posted'[i] # Absent => Due(i)'
    BY <1>1, <1>8 DEF OutIInv, AllDue
  <2> QED  BY <2>1, <2>2 DEF AllDue
<1>11. /\ \A t : (NoBare(busq, t) => NoBare(busq', t)) /\ (TagsIn(busq, t) => TagsIn(busq', t))
       /\ \A i : /\ NoEcho(busq, i) => NoEcho(busq', i)
                 /\ NoCreation(busq, i) => NoCreation(busq', i)
                 /\ CreationFirst(busq, i) => CreationFirst(busq', i)
  <2>1. /\ \A t : ~Bare(x, t)
        /\ \A i : ~EchoOf(x, i) /\ ~Creation(x, i)
    BY <1>3 DEF Bare, Creation, EchoOf
  <2>2. /\ \A t : /\ NoBare(busq, t) => NoBare(Append(busq, x), t)
                  /\ TagsIn(busq, t) => TagsIn(Append(busq, x), t)
        /\ \A i : /\ NoEcho(busq, i) => NoEcho(Append(busq, x), i)
                  /\ NoCreation(busq, i) => NoCreation(Append(busq, x), i)
                  /\ CreationFirst(busq, i) => CreationFirst(Append(busq, x), i)
    BY <1>3, <1>4, <2>1, BareAppend, EchoAppend
  <2> QED  BY <1>1, <2>2
<1>12. CreatedFirst'
  BY <1>1, <1>11 DEF OutIInv, CreatedFirst, InOrderOf
<1>13. TagsInv'
  <2>1. \A t : Carried(echoes, hand, busq, cached, t) => Carried(echoes, hand, busq, cached, t)'
    BY <1>1, <1>11 DEF Carried
  <2>2. \A t \in Senders : opc'[t] \in After => opc[t] \in After
    BY <1>2, <1>4
  <2> QED  BY <1>1, <2>1, <2>2 DEF OutIInv, TagsInv
<1> QED  BY <1>6, <1>7, <1>10, <1>12, <1>13 DEF OutIInv

LEMMA EditStep ==
  ASSUME OutIInv, NEW s \in Senders, Edit(s)
  PROVE  OutIInv'
<1> DEFINE f == First(s)
           v == version[s] + 1
<1>1. /\ opc[s] = "ready" /\ version[s] < MaxEdits[s]
      /\ version' = [version EXCEPT ![s] = v] /\ Apply("edited", f, v)
      /\ \/ opc' = [opc EXCEPT ![s] = "peek"] /\ UNCHANGED unsaid
         \/ opc' = [opc EXCEPT ![s] = "ready"] /\ unsaid' = unsaid \cup {f}
      /\ UNCHANGED <<echo, oneId, hand, entries, busq, cached, ended, forgotten>>
  BY DEF Edit, Go
<1>2. f \in Ids /\ f \in Firsts /\ v \in Versions /\ v > 0 /\ "edited" \in Sorts
  <2>1. version[s] \in Nat /\ MaxEdits[s] \in Nat /\ f \in Ids
    BY IdFacts, OutboundAssumption DEF OutIInv, OutTypes
  <2>2. v \in Nat /\ v <= MaxEdits[s] /\ v > 0
    BY <1>1, <2>1
  <2> QED  BY <2>1, <2>2, VersionFact DEF Firsts, Sorts
<1>3. \A t \in Senders : First(t) \in Ids /\ (t # s => First(t) # f)
  BY IdFacts
<1> HIDE DEF v
<1>4. /\ posted' \in [Ids -> Versions \cup {Absent}] /\ echoes' \in Seq(FromPlatform)
      /\ echo' \/ (echoes' = <<>> /\ hand' = Absent /\ ~ended')
      /\ posted'[f] = v /\ \A i \in Ids : i # f => posted'[i] = posted[i]
      /\ echo' /\ ~ended' => \A i \in Ids : posted'[i] # Absent => Due(i)'
      /\ ~echo' => \A i \in Ids : i # f /\ Due(i) => Due(i)'
      /\ CreatedFirst'
      /\ \A t \in Senders : Carried(echoes, hand, busq, cached, t)
                            => Carried(echoes, hand, busq, cached, t)'
  BY <1>1, <1>2, Applied
<1>5. /\ \A t \in Senders : t # s => opc'[t] = opc[t] /\ version'[t] = version[t]
      /\ opc'[s] \in {"peek", "ready"} /\ (opc'[s] = "ready" => f \in unsaid')
      /\ version'[s] = v /\ unsaid \subseteq unsaid'
      /\ opc' \in [Senders -> Places] /\ version' \in [Senders -> Versions]
      /\ unsaid' \in SUBSET Firsts
  BY <1>1, <1>2 DEF OutIInv, OutTypes, Places
<1>6. OutTypes'
  BY <1>1, <1>4, <1>5 DEF OutIInv, OutTypes
<1>7. Sending'
  <2>1. ASSUME NEW t \in Senders
        PROVE  /\ opc'[t] = "send" => \E n \in 0..(Parts[t] - 1) : SentUpTo(posted', version', t, n)
               /\ opc'[t] \in After \cup {"remember"} => posted'[First(t)] = version'[t]
    <3>1. CASE t = s
      BY <1>4, <1>5, <3>1
    <3>2. CASE t # s
      <4>1. /\ opc[t] = "send" => \E n \in 0..(Parts[t] - 1) : SentUpTo(posted, version, t, n)
            /\ opc[t] \in After \cup {"remember"} => posted[First(t)] = version[t]
        BY DEF OutIInv, Sending
      <4>2. posted'[First(t)] = posted[First(t)] /\ version'[t] = version[t]
        BY <1>3, <1>4, <1>5, <3>2
      <4>3. \A i \in 1..Parts[t] : posted'[<<t, i>>] = posted[<<t, i>>]
        <5>1. \A i \in 1..Parts[t] : <<t, i>> # f /\ <<t, i>> \in Ids
          BY <3>2, IdFacts DEF First
        <5> QED  BY <1>4, <5>1
      <4>4. \A n : SentUpTo(posted, version, t, n) => SentUpTo(posted', version', t, n)
        BY <4>2, <4>3 DEF SentUpTo
      <4> QED  BY <1>5, <3>2, <4>1, <4>2, <4>4
    <3> QED  BY <3>1, <3>2
  <2> QED  BY <2>1 DEF Sending
<1>8. AllDue'
  <2>1. ASSUME ~echo', NEW t \in Senders
        PROVE  /\ opc'[t] \in After => First(t) \in Range(entries') \cup forgotten'
               /\ opc'[t] = "ready" /\ First(t) \notin forgotten' \cup unsaid' => Due(First(t))'
    <3>1. /\ opc[t] \in After => First(t) \in Range(entries) \cup forgotten
          /\ opc[t] = "ready" /\ First(t) \notin forgotten \cup unsaid => Due(First(t))
      BY <1>1, <2>1 DEF OutIInv, AllDue
    <3>2. CASE t = s
      BY <1>1, <1>5, <3>1, <3>2 DEF After
    <3>3. CASE t # s
      <4>1. Due(First(t)) => Due(First(t))'
        BY <1>3, <1>4, <2>1, <3>3
      <4> QED  BY <1>1, <1>5, <3>1, <3>3, <4>1
    <3> QED  BY <3>2, <3>3
  <2> QED  BY <1>4, <2>1 DEF AllDue
<1>9. TagsInv'
  <2>1. \A t \in Senders : opc'[t] \in After => opc[t] \in After
    BY <1>1, <1>5 DEF After
  <2> QED  BY <1>1, <1>4, <2>1 DEF OutIInv, TagsInv
<1> QED  BY <1>4, <1>6, <1>7, <1>8, <1>9 DEF OutIInv

(* An echo gets its tags: a creation takes the entry with it, and no other   *)
(* creation of its message is under way.                                     *)
LEMMA TakeEchoStep ==
  ASSUME OutIInv, TakeEcho
  PROVE  OutIInv'
<1> DEFINE ev == Head(echoes)
           x  == [ev EXCEPT !.tags = Tagged(ev)]
<1>1. /\ ~ended /\ hand = Absent /\ echoes # <<>> /\ hand' = x /\ entries' = Used(ev)
      /\ echoes' = Tail(echoes)
      /\ UNCHANGED <<echo, oneId, posted, opc, version, busq, cached, ended, forgotten, unsaid>>
  BY DEF TakeEcho
<1>2. /\ echoes \in Seq(Events) /\ busq \in Seq(Events) /\ ev \in FromPlatform /\ ev \in Events
      /\ Tail(echoes) \in Seq(FromPlatform) /\ echo
  BY <1>1, TailFacts, QueueFacts, EventFact DEF OutIInv, OutTypes
<1>3. ~ev.tags /\ ~ev.own
  BY <1>2 DEF FromPlatform
<1>4. /\ x \in WellFormed /\ x \in Events
      /\ x.kind = ev.kind /\ x.id = ev.id /\ x.version = ev.version /\ x.own = ev.own
      /\ x.tags <=> ev.id \in Range(entries)
  <2>1. Tagged(ev) \in BOOLEAN
    BY DEF Tagged
  <2> HIDE DEF ev
  <2>2. x \in Events
    BY <1>2, <2>1 DEF Events
  <2>3. x.kind = ev.kind /\ x.id = ev.id /\ x.version = ev.version /\ x.own = ev.own
    BY <1>2 DEF Events
  <2>4. x.tags = Tagged(ev)
    BY <1>2 DEF Events
  <2>5. ev.kind = "edited" => ev.version > 0
    BY <1>2 DEF FromPlatform, WellFormed
  <2> HIDE DEF x
  <2>6. x \in WellFormed
    BY <1>3, <2>2, <2>3, <2>5 DEF WellFormed
  <2> QED  BY <2>2, <2>3, <2>4, <2>6 DEF Tagged
<1>5. x # Absent
  BY <1>4, IdFacts
<1> HIDE DEF x
<1>6. /\ entries' \in Seq(Firsts) /\ Len(entries') <= MaxEntries /\ IsInjective(entries')
      /\ Range(entries') = IF ev.kind = "created" THEN Range(entries) \ {ev.id} ELSE Range(entries)
  <2>1. /\ entries \in Seq(Firsts) /\ Len(entries) <= MaxEntries /\ IsInjective(entries)
        /\ MaxEntries \in Nat
    BY OutboundAssumption DEF OutIInv, OutTypes
  <2>2. /\ Deleted(entries, ev.id) \in Seq(Firsts) /\ Len(Deleted(entries, ev.id)) <= Len(entries)
        /\ IsInjective(Deleted(entries, ev.id)) /\ Range(Deleted(entries, ev.id)) = Range(entries) \ {ev.id}
    BY <2>1, DeletedFacts
  <2> HIDE DEF ev
  <2>3. /\ Len(entries) \in Nat /\ Len(Deleted(entries, ev.id)) \in Nat
    BY <2>1, <2>2
  <2>4. Len(Deleted(entries, ev.id)) <= MaxEntries
    BY <2>1, <2>2, <2>3
  <2> QED  BY <1>1, <2>1, <2>2, <2>4 DEF Used
<1>7. OutTypes'
  BY <1>1, <1>2, <1>4, <1>6 DEF OutIInv, OutTypes
<1>8. Sending'
  BY <1>1 DEF OutIInv, Sending
<1>9. ASSUME NEW i \in Ids, posted'[i] # Absent  PROVE Due(i)'
  <2>1. Arrives(echoes, Absent, busq, cached, Alike, i, posted[i])
    BY <1>1, <1>2, <1>9 DEF OutIInv, AllDue, Due
  <2>2. Arrives(Tail(echoes), x, busq, cached, Alike, i, posted[i])
    BY <1>1, <1>2, <1>4, <1>5, <2>1, ArriveTake
  <2> QED  BY <1>1, <2>2 DEF Due, Alike
<1>10. AllDue'
  BY <1>1, <1>2, <1>9 DEF AllDue
<1>11. /\ \A s : NoBare(echoes, s) <=> NoBare(echoes', s) /\ ~Bare(ev, s)
       /\ \A i : /\ NoEcho(echoes, i) <=> NoEcho(echoes', i) /\ ~EchoOf(ev, i)
                 /\ NoCreation(echoes, i) <=> NoCreation(echoes', i) /\ ~Creation(ev, i)
                 /\ CreationFirst(echoes, i) =>
                      CreationFirst(echoes', i) /\ (EchoOf(ev, i) => NoCreation(echoes', i))
  <2> HIDE DEF ev
  <2>1. ev = Head(echoes) /\ echoes # <<>>
    BY <1>1 DEF ev
  <2>2. /\ \A s : NoBare(echoes, s) <=> NoBare(Tail(echoes), s) /\ ~Bare(ev, s)
        /\ \A i : /\ NoEcho(echoes, i) <=> NoEcho(Tail(echoes), i) /\ ~EchoOf(ev, i)
                  /\ NoCreation(echoes, i) <=> NoCreation(Tail(echoes), i) /\ ~Creation(ev, i)
                  /\ CreationFirst(echoes, i) =>
                       CreationFirst(Tail(echoes), i) /\ (EchoOf(ev, i) => NoCreation(Tail(echoes), i))
    BY <1>2, <2>1, BareTail, EchoTail
  <2> QED  BY <1>1, <2>2, Zenon
<1>12. /\ \A s : Bare(x, s) => Bare(ev, s) /\ ~x.tags
       /\ \A i : (EchoOf(x, i) <=> EchoOf(ev, i)) /\ (Creation(x, i) <=> Creation(ev, i))
  BY <1>1, <1>3, <1>4, <1>5 DEF Bare, Creation, EchoOf
<1>13. CreatedFirst'
  <2>1. ASSUME NEW i \in Ids  PROVE InOrderOf(echoes, hand, busq, cached, posted, i)'
    <3>1. InOrderOf(echoes, hand, busq, cached, posted, i)
      BY DEF OutIInv, CreatedFirst
    <3> QED  BY <1>1, <1>11, <1>12, <3>1 DEF InOrderOf
  <2> QED  BY <2>1 DEF CreatedFirst
<1>14. TagsInv'
  <2>1. ASSUME NEW s \in Senders, opc'[s] \in After, First(s) \notin forgotten'
        PROVE  First(s) \in Range(entries') \/ Carried(echoes, hand, busq, cached, s)'
    <3>1. First(s) \in Range(entries) \/ Carried(echoes, hand, busq, cached, s)
      BY <1>1, <2>1 DEF OutIInv, TagsInv
    <3>2. CASE Carried(echoes, hand, busq, cached, s)
      <4>1. NoBare(echoes', s) /\ ~HandBare(hand', s) /\ NoBare(busq', s)
        BY <1>1, <1>11, <1>12, <3>2 DEF Carried, HandBare
      <4>2. TagsIn(busq', s) \/ (cached'[First(s)] # Absent /\ cached'[First(s)].tags)
        BY <1>1, <3>2 DEF Carried
      <4> QED  BY <4>1, <4>2 DEF Carried
    <3>3. CASE First(s) \in Range(entries) /\ First(s) \notin Range(entries')
      <4>1. ev.kind = "created" /\ ev.id = First(s) /\ x.tags
        BY <1>4, <1>6, <3>3
      <4>2. Creation(ev, First(s)) /\ EchoOf(ev, First(s)) /\ First(s) \in Ids
        BY <1>3, <4>1, IdFacts DEF Creation, EchoOf
      <4>3. NoCreation(echoes', First(s)) /\ NoEcho(busq, First(s))
        <5>1. InOrderOf(echoes, hand, busq, cached, posted, First(s))
          BY <4>2 DEF OutIInv, CreatedFirst
        <5> QED  BY <1>11, <4>2, <5>1 DEF InOrderOf
      <4>4. NoBare(echoes', s) /\ NoBare(busq', s)
        BY <1>1, <4>3, NoneBare
      <4>5. ~HandBare(hand', s) /\ HasTags(hand', s) /\ hand' # Absent
        BY <1>1, <1>4, <1>5, <1>12, <4>1 DEF HasTags, HandBare
      <4> QED  BY <4>4, <4>5 DEF Carried
    <3> QED  BY <3>1, <3>2, <3>3
  <2> QED  BY <2>1 DEF TagsInv
<1> QED  BY <1>7, <1>8, <1>10, <1>13, <1>14 DEF OutIInv

(* What the driver hands to the bus joins the end of the queue.              *)
LEMMA Published ==
  ASSUME OutIInv, hand # Absent
  PROVE  /\ Append(busq, hand) \in Seq(BusEvents(echo))
         /\ \A s : /\ NoBare(Append(busq, hand), s) <=> NoBare(busq, s) /\ ~HandBare(hand, s)
                   /\ TagsIn(Append(busq, hand), s) <=> TagsIn(busq, s) \/ HasTags(hand, s)
         /\ \A i \in Ids : InOrderOf(echoes, Absent, Append(busq, hand), cached, posted, i)
<1>1. /\ hand \in BusEvents(echo) /\ hand \in Events
      /\ busq \in Seq(BusEvents(echo)) /\ busq \in Seq(Events)
  BY QueueFacts, EventFact DEF OutIInv, OutTypes, BusEvents
<1>2. Append(busq, hand) \in Seq(BusEvents(echo))
  BY <1>1, AppendFacts
<1>3. \A s : /\ NoBare(Append(busq, hand), s) <=> NoBare(busq, s) /\ ~HandBare(hand, s)
             /\ TagsIn(Append(busq, hand), s) <=> TagsIn(busq, s) \/ HasTags(hand, s)
  BY <1>1, BareAppend DEF HandBare
<1>4. ASSUME NEW i \in Ids  PROVE InOrderOf(echoes, Absent, Append(busq, hand), cached, posted, i)
  <2>1. /\ NoEcho(Append(busq, hand), i) <=> NoEcho(busq, i) /\ ~EchoOf(hand, i)
        /\ NoCreation(Append(busq, hand), i) <=> NoCreation(busq, i) /\ ~Creation(hand, i)
        /\ CreationFirst(busq, i) /\ (NoEcho(busq, i) \/ ~Creation(hand, i))
             => CreationFirst(Append(busq, hand), i)
    BY <1>1, EchoAppend
  <2>2. InOrderOf(echoes, hand, busq, cached, posted, i)
    BY DEF OutIInv, CreatedFirst
  <2> QED  BY <2>1, <2>2 DEF InOrderOf
<1> QED  BY <1>2, <1>3, <1>4

LEMMA PublishEchoStep ==
  ASSUME OutIInv, PublishEcho
  PROVE  OutIInv'
<1>1. /\ hand # Absent /\ busq' = Append(busq, hand) /\ hand' = Absent
      /\ UNCHANGED <<echo, oneId, posted, echoes, entries, opc, version, cached, ended, forgotten, unsaid>>
  BY DEF PublishEcho
<1>2. hand \in Events /\ busq \in Seq(Events) /\ echo /\ busq' \in Seq(BusEvents(echo))
  BY <1>1, Published, QueueFacts, EventFact DEF OutIInv, OutTypes
<1>3. OutTypes'
  BY <1>1, <1>2 DEF OutIInv, OutTypes
<1>4. Sending'
  BY <1>1 DEF OutIInv, Sending
<1>5. AllDue'
  <2>1. ASSUME ~ended', NEW i \in Ids, posted'[i] # Absent  PROVE Due(i)'
    <3>1. Arrives(echoes, hand, busq, cached, Alike, i, posted[i])
      BY <1>1, <1>2, <2>1 DEF OutIInv, AllDue, Due
    <3>2. Arrives(echoes, Absent, Append(busq, hand), cached, Alike, i, posted[i])
      BY <1>1, <1>2, <3>1, ArrivePublish
    <3> QED  BY <1>1, <3>2 DEF Due, Alike
  <2> QED  BY <1>1, <1>2, <2>1 DEF AllDue
<1>6. CreatedFirst'
  BY <1>1, Published DEF CreatedFirst
<1>7. TagsInv'
  <2>1. \A s : Carried(echoes, hand, busq, cached, s) => Carried(echoes, hand, busq, cached, s)'
    BY <1>1, Published DEF Carried, HandBare
  <2> QED  BY <1>1, <2>1 DEF OutIInv, TagsInv
<1> QED  BY <1>3, <1>4, <1>5, <1>6, <1>7 DEF OutIInv

(* With the error of the bus the driver ends: nothing more is claimed of the *)
(* echoes behind it.                                                         *)
LEMMA PublishEchoFailsStep ==
  ASSUME OutIInv, PublishEchoFails
  PROVE  OutIInv'
<1>1. /\ hand # Absent /\ busq' \in {busq, Append(busq, hand)} /\ hand' = Absent /\ ended' = TRUE
      /\ UNCHANGED <<echo, oneId, posted, echoes, entries, opc, version, cached, forgotten, unsaid>>
  BY DEF PublishEchoFails
<1>2. echo /\ busq' \in Seq(BusEvents(echo))
  BY <1>1, Published DEF OutIInv, OutTypes
<1>3. OutTypes'
  BY <1>1, <1>2 DEF OutIInv, OutTypes
<1>4. Sending' /\ AllDue' /\ TagsInv'
  BY <1>1, <1>2 DEF OutIInv, Sending, AllDue, TagsInv
<1>5. CreatedFirst'
  <2>1. CASE busq' = Append(busq, hand)
    BY <1>1, <2>1, Published DEF CreatedFirst
  <2>2. CASE busq' = busq
    BY <1>1, <2>2 DEF OutIInv, CreatedFirst, InOrderOf
  <2> QED  BY <1>1, <2>1, <2>2
<1> QED  BY <1>3, <1>4, <1>5 DEF OutIInv

(* The cache: what it takes it has the version of; what it drops is an edit, *)
(* and of an article whose edits look alike.                                 *)
LEMMA ProjectStep ==
  ASSUME OutIInv, Project
  PROVE  OutIInv'
<1> DEFINE ev == Head(busq)
           old == cached[ev.id]
           new == IF ev.kind = "created" THEN RememberCreated(ev) ELSE RememberEdit(ev, old)
<1>1. /\ busq # <<>> /\ busq' = Tail(busq)
      /\ (MayRepeat(ev, old) /\ cached' = cached) \/ cached' = [cached EXCEPT ![ev.id] = new]
      /\ UNCHANGED <<echo, oneId, posted, echoes, hand, entries, opc, version, ended, forgotten, unsaid>>
  BY DEF Project
<1>2. /\ busq \in Seq(Events) /\ ev \in BusEvents(echo) /\ ev \in Events /\ busq' \in Seq(BusEvents(echo))
      /\ cached \in [Ids -> Projections \cup {Absent}] /\ echo \in BOOLEAN /\ oneId \in BOOLEAN
  BY <1>1, TailFacts, QueueFacts, EventFact DEF OutIInv, OutTypes
<1> HIDE DEF ev
<1>3. /\ ev.id \in Ids /\ ev.version \in Versions /\ ev.tags \in BOOLEAN
      /\ ev.kind \in Sorts /\ ev.own \in BOOLEAN
  BY <1>2, EventFact
<1>4. /\ new \in Projections /\ new.version = ev.version
      /\ new.last = (IF ev.own THEN "own" ELSE ev.kind)
      /\ ev.tags => new.tags
      /\ new.tags \/ ev.kind = "created" \/ old = Absent \/ ~old.tags
  <2>0. Source(ev) \in Sorts \cup {"own"} /\ Source(ev) = IF ev.own THEN "own" ELSE ev.kind
    BY <1>3 DEF Source
  <2>1. CASE ev.kind = "created"
    <3>1. new = [version |-> ev.version, tags |-> ev.tags, last |-> Source(ev)]
      BY <2>1 DEF RememberCreated
    <3> HIDE DEF new
    <3> QED  BY <1>3, <2>0, <2>1, <3>1 DEF Projections
  <2>2. CASE ev.kind # "created"
    <3>1. new = [version |-> ev.version, tags |-> ev.tags \/ (old # Absent /\ old.tags), last |-> Source(ev)]
      BY <2>2 DEF RememberEdit
    <3>2. old = Absent \/ old.tags \in BOOLEAN
      BY <1>2, <1>3 DEF Projections
    <3> HIDE DEF old, new
    <3>3. new \in Projections
      BY <1>3, <2>0, <3>1, <3>2 DEF Projections
    <3>4. /\ new.version = ev.version /\ new.tags = (ev.tags \/ (old # Absent /\ old.tags))
          /\ new.last = Source(ev)
      BY <3>1
    <3> QED  BY <2>0, <3>3, <3>4
  <2> QED  BY <2>1, <2>2
<1>5. new # Absent
  BY <1>4, IdFacts
<1> HIDE DEF new
<1>6. /\ \A i \in Ids : i # ev.id => cached'[i] = cached[i]
      /\ \/ cached'[ev.id] = new
         \/ MayRepeat(ev, old) /\ cached'[ev.id] = old
      /\ cached' \in [Ids -> Projections \cup {Absent}]
  BY <1>1, <1>2, <1>3, <1>4
<1>7. OutTypes'
  BY <1>1, <1>2, <1>6 DEF OutIInv, OutTypes
<1>8. Sending'
  BY <1>1 DEF OutIInv, Sending
<1>9. /\ \A s : /\ NoBare(busq, s) <=> NoBare(busq', s) /\ ~Bare(ev, s)
                /\ TagsIn(busq, s) <=> TagsIn(busq', s) \/ HasTags(ev, s)
      /\ \A i : /\ NoEcho(busq, i) <=> NoEcho(busq', i) /\ ~EchoOf(ev, i)
                /\ NoCreation(busq, i) <=> NoCreation(busq', i) /\ ~Creation(ev, i)
                /\ CreationFirst(busq, i) =>
                     CreationFirst(busq', i) /\ (EchoOf(ev, i) => NoCreation(busq', i))
  <2>1. ev = Head(busq) /\ busq # <<>>
    BY <1>1 DEF ev
  <2>2. /\ \A s : /\ NoBare(busq, s) <=> NoBare(Tail(busq), s) /\ ~Bare(ev, s)
                  /\ TagsIn(busq, s) <=> TagsIn(Tail(busq), s) \/ HasTags(ev, s)
        /\ \A i : /\ NoEcho(busq, i) <=> NoEcho(Tail(busq), i) /\ ~EchoOf(ev, i)
                  /\ NoCreation(busq, i) <=> NoCreation(Tail(busq), i) /\ ~Creation(ev, i)
                  /\ CreationFirst(busq, i) =>
                       CreationFirst(Tail(busq), i) /\ (EchoOf(ev, i) => NoCreation(Tail(busq), i))
    BY <1>2, <2>1, BareTail, EchoTail
  <2> QED  BY <1>1, <2>2, Zenon
\* A creation is heard first, so that it is never dropped.
<1>10. MayRepeat(ev, old) => ~ev.own /\ ev.kind = "edited"
  <2>1. ASSUME MayRepeat(ev, old), ev.kind = "created"  PROVE FALSE
    <3>1. Creation(ev, ev.id) /\ Heard(cached, ev.id)
      BY <2>1 DEF MayRepeat, Creation, EchoOf, Heard
    <3>2. ~NoCreation(busq, ev.id) /\ InOrderOf(echoes, hand, busq, cached, posted, ev.id)
      BY <1>3, <1>9, <3>1 DEF OutIInv, CreatedFirst
    <3> QED  BY <3>1, <3>2 DEF InOrderOf
  <2> QED  BY <1>3, <2>1 DEF MayRepeat, Sorts
<1>11. ASSUME NEW i \in Ids, Due(i)  PROVE Due(i)'
  <2>1. ASSUME ev.id = i, ev.version = posted[i]  PROVE UpTo(cached'[i], Alike, posted[i])
    <3>1. CASE cached'[ev.id] = new
      BY <1>4, <1>5, <2>1, <3>1 DEF UpTo
    <3>2. CASE MayRepeat(ev, old) /\ cached'[ev.id] = old
      <4>1. ev.version > 0 /\ echo
        BY <1>2, <1>10, <3>2 DEF BusEvents, WellFormed
      <4>2. old # Absent /\ old.last # "own" /\ (oneId \/ old.last = "edited")
        BY <1>10, <3>2 DEF MayRepeat
      <4>3. old.last \in Sorts
        <5>1. old \in Projections
          BY <1>2, <1>3, <4>2
        <5> QED  BY <4>2, <5>1 DEF Projections
      <4>4. old.last \in Alike
        BY <4>1, <4>2, <4>3 DEF Alike
      <4> QED  BY <2>1, <3>2, <4>1, <4>2, <4>4 DEF UpTo
    <3> QED  BY <1>6, <3>1, <3>2
  <2>2. /\ Head(busq).id = i /\ Head(busq).version = posted[i] => UpTo(cached'[i], Alike, posted[i])
        /\ Head(busq).id # i => cached'[i] = cached[i]
    BY <1>6, <2>1 DEF ev
  <2>3. Arrives(echoes, hand, Tail(busq), cached', Alike, i, posted[i])
    BY <1>1, <1>2, <1>11, <2>2, ArriveProject DEF Due
  <2> QED  BY <1>1, <2>3 DEF Due, Alike
<1>12. AllDue'
  <2>1. \A s \in Senders : First(s) \in Ids
    BY IdFacts
  <2> QED  BY <1>1, <1>11, <2>1 DEF OutIInv, AllDue
<1>13. CreatedFirst'
  <2>1. ASSUME NEW i \in Ids  PROVE InOrderOf(echoes, hand, busq, cached, posted, i)'
    <3>1. InOrderOf(echoes, hand, busq, cached, posted, i)
      BY DEF OutIInv, CreatedFirst
    <3>2. Heard(cached', i) => Heard(cached, i) \/ EchoOf(ev, i)
      <4>1. CASE ev.id = i
        BY <1>3, <1>4, <1>6, <4>1 DEF Heard, EchoOf
      <4>2. CASE ev.id # i
        BY <1>6, <4>2 DEF Heard
      <4> QED  BY <4>1, <4>2
    <3> QED  BY <1>1, <1>9, <3>1, <3>2 DEF InOrderOf
  <2> QED  BY <2>1 DEF CreatedFirst
<1>14. ASSUME NEW s \in Senders, Carried(echoes, hand, busq, cached, s)
       PROVE  Carried(echoes, hand, busq, cached, s)'
  <2>1. /\ NoBare(echoes', s) /\ ~HandBare(hand', s) /\ NoBare(busq', s) /\ ~Bare(ev, s)
        /\ First(s) \in Ids
    BY <1>1, <1>9, <1>14, IdFacts DEF Carried
  <2>2. CASE hand # Absent /\ HasTags(hand, s)
    BY <1>1, <2>1, <2>2 DEF Carried
  <2>3. CASE TagsIn(busq', s)
    BY <2>1, <2>3 DEF Carried
  <2>4. CASE HasTags(ev, s)
    <3>1. cached'[First(s)] = new /\ new.tags
      BY <1>4, <1>6, <1>10, <2>4 DEF HasTags
    <3> QED  BY <1>5, <2>1, <3>1 DEF Carried
  <2>5. CASE cached[First(s)] # Absent /\ cached[First(s)].tags
    <3>1. cached'[First(s)] # Absent /\ cached'[First(s)].tags
      <4>1. CASE ev.id = First(s) /\ cached'[ev.id] = new
        <5>1. ev.tags \/ ev.kind # "created" \/ ev.own
          BY <2>1, <4>1 DEF Bare, Creation, EchoOf
        <5>2. ev.own => ev.tags
          BY <1>2 DEF BusEvents, WellFormed
        <5>3. new.tags
          BY <1>4, <2>5, <4>1, <5>1, <5>2
        <5> QED  BY <1>5, <4>1, <5>3
      <4>2. CASE cached'[First(s)] = cached[First(s)]
        BY <2>5, <4>2
      <4> QED  BY <1>6, <2>1, <4>1, <4>2
    <3> QED  BY <2>1, <3>1 DEF Carried
  <2> QED  BY <1>9, <1>14, <2>2, <2>3, <2>4, <2>5 DEF Carried
<1>15. TagsInv'
  BY <1>1, <1>14 DEF OutIInv, TagsInv
<1> QED  BY <1>7, <1>8, <1>12, <1>13, <1>15 DEF OutIInv

LEMMA OutBegins == OutInit => OutIInv
<1> SUFFICES ASSUME OutInit  PROVE OutIInv
  OBVIOUS
<1>1. /\ echo \in BOOLEAN /\ oneId \in BOOLEAN /\ ended = FALSE
      /\ posted = [id \in Ids |-> Absent] /\ cached = [id \in Ids |-> Absent]
      /\ echoes = <<>> /\ hand = Absent /\ entries = <<>> /\ busq = <<>>
      /\ opc = [s \in Senders |-> "send"] /\ version = [s \in Senders |-> 0]
      /\ forgotten = {} /\ unsaid = {}
  BY DEF OutInit
<1>2. \A s \in Senders : First(s) \in Ids /\ 0 \in Versions /\ \A i \in 1..Parts[s] : <<s, i>> \in Ids
  BY IdFacts
<1>3. OutTypes
  <2>1. Len(<<>>) <= MaxEntries /\ IsInjective(<<>>)
    BY OutboundAssumption DEF IsInjective
  <2>2. /\ <<>> \in Seq(FromPlatform) /\ <<>> \in Seq(BusEvents(echo)) /\ <<>> \in Seq(Firsts)
    OBVIOUS
  <2> QED  BY <1>1, <1>2, <2>1, <2>2 DEF OutTypes, Places
<1>4. Sending
  <2>1. ASSUME NEW s \in Senders
        PROVE  SentUpTo(posted, version, s, 0) /\ 0 \in 0..(Parts[s] - 1) /\ opc[s] = "send"
    <3>1. 0 \in 0..(Parts[s] - 1)
      BY OutboundAssumption
    <3>2. \A i \in 1..Parts[s] : posted[<<s, i>>] = Absent /\ ~(i <= 0)
      BY <1>1, <1>2
    <3>3. posted[First(s)] = Absent /\ version[s] = 0
      BY <1>1, <1>2
    <3> QED  BY <1>1, <3>1, <3>2, <3>3 DEF SentUpTo
  <2> QED  BY <2>1 DEF Sending, After
<1>5. AllDue /\ TagsInv
  BY <1>1 DEF AllDue, TagsInv, After
<1>6. CreatedFirst
  BY <1>1 DEF CreatedFirst, InOrderOf, CreationFirst, NoEcho, NoCreation, Heard
<1> QED  BY <1>3, <1>4, <1>5, <1>6 DEF OutIInv

LEMMA OutStep == OutIInv /\ [OutNext]_outVars => OutIInv'
<1> SUFFICES ASSUME OutIInv, [OutNext]_outVars  PROVE OutIInv'
  OBVIOUS
<1>1. ASSUME NEW s \in Senders, SendPart(s)  PROVE OutIInv'
  BY <1>1, SendPartStep
<1>2. ASSUME NEW s \in Senders, SendFails(s)  PROVE OutIInv'
  BY <1>2, SendFailsStep
<1>3. ASSUME NEW s \in Senders, Remember(s)  PROVE OutIInv'
  BY <1>3, RememberStep
<1>4. ASSUME NEW s \in Senders, AnnounceSent(s)  PROVE OutIInv'
  BY <1>4, SyntheticStep DEF AnnounceSent, Sorts
<1>5. ASSUME NEW s \in Senders, Edit(s)  PROVE OutIInv'
  BY <1>5, EditStep
<1>6. ASSUME NEW s \in Senders, Peek(s)  PROVE OutIInv'
  BY <1>6, PeekStep
<1>7. ASSUME NEW s \in Senders, AnnounceEdit(s)  PROVE OutIInv'
  BY <1>7, SyntheticStep DEF AnnounceEdit, Sorts
<1>8. CASE UNCHANGED outVars
  BY <1>8 DEF outVars, OutIInv, OutTypes, Sending, AllDue, Due, Alike, CreatedFirst, TagsInv
<1> QED  BY <1>1, <1>2, <1>3, <1>4, <1>5, <1>6, <1>7, <1>8, PruneStep, TakeEchoStep,
            PublishEchoStep, PublishEchoFailsStep, ProjectStep DEF OutNext

(* Every variable of the way out and back keeps its type, and the bridge's   *)
(* list holds a message once and stays within its bound.                     *)
THEOREM OutTypeCorrect == OutSpec => []OutTypeOK
<1>1. OutIInv => OutTypeOK
  <2> SUFFICES ASSUME OutIInv  PROVE OutTypeOK
    OBVIOUS
  <2>1. echoes \in Seq(Events) /\ busq \in Seq(Events) /\ hand \in Events \cup {Absent}
    BY QueueFacts, EventFact DEF OutIInv, OutTypes
  <2>2. ToSet(echoes) \cup ToSet(busq) \subseteq Events
    BY <2>1 DEF ToSet
  <2> QED  BY <2>1, <2>2, RangeOf DEF OutIInv, OutTypes, OutTypeOK, ToSet, Range, Firsts
<1> QED  BY OutBegins, OutStep, <1>1, PTL DEF OutSpec

(* The tags of an accepted message end in the cache or stay with the bridge, *)
(* however its echo races with the call that sent it.                        *)
THEOREM TagsSurvive == OutSpec => []TagsAreKept
<1>1. OutIInv => TagsAreKept
  <2> SUFFICES ASSUME OutIInv, NEW s \in Senders, Settled(s), opc[s] = "ready",
                      First(s) \notin forgotten, First(s) \notin Range(entries)
               PROVE  cached[First(s)] # Absent /\ cached[First(s)].tags
    BY DEF TagsAreKept
  <2>1. Carried(echoes, hand, busq, cached, s)
    BY DEF OutIInv, TagsInv, After, Settled
  <2>2. ~TagsIn(<<>>, s)
    BY DEF TagsIn
  <2> QED  BY <2>1, <2>2 DEF Carried, Settled
<1> QED  BY OutBegins, OutStep, <1>1, PTL DEF OutSpec

(* The cache ends with the last version of every message that its events     *)
(* reached; an older one is left only of an edited message whose edits have  *)
(* ids that look alike, for the cache to take one for a redelivery.          *)
THEOREM CacheFollows == OutSpec => []CacheCatchesUp
<1>1. OutIInv => CacheCatchesUp
  <2>1. \A id, v : Arrives(<<>>, Absent, <<>>, cached, Alike, id, v) => UpTo(cached[id], Alike, v)
    BY DEF Arrives, LastIs
  <2>2. ASSUME OutIInv, NEW s \in Senders, Settled(s), NEW id \in Ids, posted[id] # Absent,
               ~(~echo /\ (id # First(s) \/ id \in unsaid \cup forgotten \/ opc[s] = "failed"))
        PROVE  \/ cached[id] # Absent /\ cached[id].version = posted[id]
               \/ posted[id] > 0 /\ EditsLookAlike(id)
    <3>1. Due(id)
      <4>1. CASE echo
        BY <2>2, <4>1 DEF OutIInv, AllDue, Settled
      <4>2. CASE ~echo
        <5>1. id = First(s) /\ opc[s] = "ready" /\ id \notin forgotten \cup unsaid
          BY <2>2, <4>2 DEF Settled
        <5> QED  BY <2>2, <4>2, <5>1 DEF OutIInv, AllDue
      <4> QED  BY <4>1, <4>2
    <3>2. Arrives(<<>>, Absent, <<>>, cached, Alike, id, posted[id])
      BY <2>2, <3>1 DEF Due, Settled
    <3>3. UpTo(cached[id], Alike, posted[id])
      BY <2>1, <3>2
    <3> QED  BY <3>3 DEF UpTo, Alike, EditsLookAlike
  <2> QED  BY <2>2 DEF CacheCatchesUp
<1> QED  BY OutBegins, OutStep, <1>1, PTL DEF OutSpec

-----------------------------------------------------------------------------
(* Ingest.                                                                   *)

\* Where two items stand among those handed over.
NotLater(h, a, b) == \E k, l \in 1..Len(h) : k <= l /\ h[k] = a /\ h[l] = b

Follows(h, M, A, B) == \A a \in A \cap M, b \in B \cap M : NotLater(h, a, b)

InOrder(h, M, s) ==
  \A m, n \in 1..Len(s) : m < n /\ s[m] \in M /\ s[n] \in M => NotLater(h, s[m], s[n])

(* The way of the items M of one producer, from its batch b over the channel *)
(* c and the item i in hand to what is published.                            *)
Pipeline(h, M, pub, i, c, b) ==
  /\ InOrder(h, M, pub) /\ InOrder(h, M, c) /\ InOrder(h, M, b)
  /\ Follows(h, M, ToSet(pub), {i} \union ToSet(c) \union ToSet(b))
  /\ Follows(h, M, {i}, ToSet(c) \union ToSet(b))
  /\ Follows(h, M, ToSet(c), ToSet(b))
  /\ M \intersect (ToSet(pub) \union {i} \union ToSet(c) \union ToSet(b)) \subseteq ToSet(h)

-----------------------------------------------------------------------------
(* Lemmas on sequences.                                                      *)

LEMMA ToSetOf ==
  ASSUME NEW S, NEW s \in Seq(S)
  PROVE  ToSet(s) = {s[n] : n \in 1..Len(s)} /\ ToSet(s) \subseteq S
BY DEF ToSet

LEMMA AppendSet ==
  ASSUME NEW S, NEW s \in Seq(S), NEW x \in S
  PROVE  Append(s, x) \in Seq(S) /\ ToSet(Append(s, x)) = ToSet(s) \union {x}
<1> DEFINE t == Append(s, x)
<1>1. /\ t \in Seq(S) /\ Len(t) = Len(s) + 1 /\ t[Len(t)] = x /\ Len(s) \in Nat
      /\ \A n \in 1..Len(s) : t[n] = s[n]
  OBVIOUS
<1> HIDE DEF t
<1>2. 1..Len(t) = 1..Len(s) \union {Len(t)}
  BY <1>1
<1>3. ToSet(t) = ToSet(s) \union {x}
  BY <1>1, <1>2, ToSetOf
<1> QED  BY <1>1, <1>3 DEF t

LEMMA AppendOrder ==
  ASSUME NEW S, NEW s \in Seq(S), NEW x \in S, NEW h, NEW M,
         InOrder(h, M, s), Follows(h, M, ToSet(s), {x})
  PROVE  InOrder(h, M, Append(s, x))
<1> DEFINE t == Append(s, x)
<1>1. /\ t \in Seq(S) /\ Len(t) = Len(s) + 1 /\ t[Len(t)] = x /\ Len(s) \in Nat
      /\ \A n \in 1..Len(s) : t[n] = s[n]
  OBVIOUS
<1> HIDE DEF t
<1>2. 1..Len(t) = 1..Len(s) \union {Len(t)}
  BY <1>1
<1>3. InOrder(h, M, t)
  <2> SUFFICES ASSUME NEW m \in 1..Len(t), NEW n \in 1..Len(t), m < n, t[m] \in M, t[n] \in M
               PROVE  NotLater(h, t[m], t[n])
    BY DEF InOrder
  <2>1. m \in 1..Len(s) /\ t[m] = s[m]
    BY <1>1
  <2>2. CASE n = Len(t)
    BY <1>1, <2>1, <2>2, ToSetOf DEF Follows
  <2>3. CASE n \in 1..Len(s)
    BY <1>1, <2>1, <2>3 DEF InOrder
  <2> QED  BY <1>2, <2>2, <2>3
<1> QED  BY <1>3 DEF t

LEMMA TailOrder ==
  ASSUME NEW S, NEW s \in Seq(S), s # << >>, NEW h, NEW M, InOrder(h, M, s)
  PROVE  /\ Tail(s) \in Seq(S) /\ Head(s) \in S
         /\ ToSet(s) = {Head(s)} \union ToSet(Tail(s))
         /\ InOrder(h, M, Tail(s))
         /\ Follows(h, M, {Head(s)}, ToSet(Tail(s)))
<1> DEFINE t == Tail(s)
<1>1. /\ t \in Seq(S) /\ Head(s) = s[1] /\ Head(s) \in S /\ Len(s) = Len(t) + 1 /\ Len(t) \in Nat
      /\ \A n \in 1..Len(t) : t[n] = s[n + 1]
  OBVIOUS
<1> HIDE DEF t
<1>2. /\ \A n \in 1..Len(t) : n + 1 \in 1..Len(s)
      /\ \A n \in 1..Len(s) : n # 1 => n - 1 \in 1..Len(t) /\ s[n] = t[n - 1]
      /\ 1 \in 1..Len(s)
  BY <1>1
<1>3. ToSet(t) = {t[n] : n \in 1..Len(t)} /\ ToSet(s) = {s[n] : n \in 1..Len(s)}
  BY <1>1, ToSetOf
<1>4. ToSet(s) = {Head(s)} \union ToSet(t)
  <2>1. ToSet(t) \subseteq ToSet(s) /\ Head(s) \in ToSet(s)
    BY <1>1, <1>2, <1>3
  <2>2. ToSet(s) \subseteq {Head(s)} \union ToSet(t)
    BY <1>1, <1>2, <1>3
  <2> QED  BY <2>1, <2>2
<1>5. InOrder(h, M, t)
  <2> SUFFICES ASSUME NEW m \in 1..Len(t), NEW n \in 1..Len(t), m < n, t[m] \in M, t[n] \in M
               PROVE  NotLater(h, t[m], t[n])
    BY DEF InOrder
  <2>1. t[m] = s[m + 1] /\ t[n] = s[n + 1] /\ m + 1 \in 1..Len(s) /\ n + 1 \in 1..Len(s) /\ m + 1 < n + 1
    BY <1>1, <1>2
  <2> QED  BY <2>1 DEF InOrder
<1>6. Follows(h, M, {Head(s)}, ToSet(t))
  <2> SUFFICES ASSUME NEW n \in 1..Len(t), Head(s) \in M, t[n] \in M
               PROVE  NotLater(h, Head(s), t[n])
    BY <1>3 DEF Follows
  <2>1. t[n] = s[n + 1] /\ n + 1 \in 1..Len(s) /\ 1 < n + 1 /\ 1 \in 1..Len(s)
    BY <1>1, <1>2
  <2> QED  BY <1>1, <2>1 DEF InOrder
<1> QED  BY <1>1, <1>4, <1>5, <1>6 DEF t

LEMMA EmptyOrder ==
  /\ \A h, M : InOrder(h, M, << >>)
  /\ ToSet(<< >>) = {}
BY DEF InOrder, ToSet

-----------------------------------------------------------------------------
(* What each step does to the way of one producer's items.                   *)

LEMMA PipeTake ==
  ASSUME NEW S, NEW T, NEW pub \in Seq(S), NEW c \in Seq(T), NEW b \in Seq(T), NEW h, NEW M, NEW i,
         Pipeline(h, M, pub, i, c, b), c # << >>
  PROVE  Pipeline(h, M, pub, Head(c), Tail(c), b)
<1>1. /\ ToSet(c) = {Head(c)} \union ToSet(Tail(c)) /\ InOrder(h, M, Tail(c))
      /\ Follows(h, M, {Head(c)}, ToSet(Tail(c)))
  BY TailOrder DEF Pipeline
<1> QED  BY <1>1 DEF Pipeline, Follows

LEMMA PipeItem ==
  ASSUME NEW pub, NEW c, NEW b, NEW h, NEW M, NEW i, NEW j,
         Pipeline(h, M, pub, i, c, b), j \notin M
  PROVE  Pipeline(h, M, pub, j, c, b)
BY DEF Pipeline, Follows

LEMMA StandsByItself ==
  ASSUME NEW T, NEW h \in Seq(T), NEW x \in ToSet(h)
  PROVE  NotLater(h, x, x)
<1>1. PICK k \in 1..Len(h) : h[k] = x
  BY ToSetOf
<1>2. k <= k
  OBVIOUS
<1> QED  BY <1>1, <1>2 DEF NotLater

LEMMA PipePublish ==
  ASSUME NEW S, NEW T, NEW pub \in Seq(S), NEW h \in Seq(T), NEW c, NEW b, NEW M, NEW i \in S,
         Pipeline(h, M, pub, i, c, b)
  PROVE  Pipeline(h, M, Append(pub, i), i, c, b)
<1>1. Follows(h, M, ToSet(pub), {i})
  BY DEF Pipeline, Follows
<1>2. InOrder(h, M, Append(pub, i))
  BY <1>1, AppendOrder DEF Pipeline
<1>4. ToSet(Append(pub, i)) = ToSet(pub) \union {i}
  BY AppendSet
<1>3. Follows(h, M, {i}, {i})
  BY StandsByItself DEF Pipeline, Follows
<1> QED  BY <1>2, <1>4, <1>3 DEF Pipeline, Follows

LEMMA PipeSend ==
  ASSUME NEW T, NEW c \in Seq(T), NEW b \in Seq(T), NEW pub, NEW h, NEW M, NEW i,
         Pipeline(h, M, pub, i, c, b), b # << >>
  PROVE  Pipeline(h, M, pub, i, Append(c, Head(b)), Tail(b))
<1>1. /\ ToSet(b) = {Head(b)} \union ToSet(Tail(b)) /\ InOrder(h, M, Tail(b)) /\ Head(b) \in T
      /\ Follows(h, M, {Head(b)}, ToSet(Tail(b)))
  BY TailOrder DEF Pipeline
<1>2. Follows(h, M, ToSet(c), {Head(b)})
  BY <1>1 DEF Pipeline, Follows
<1>3. InOrder(h, M, Append(c, Head(b)))
  BY <1>1, <1>2, AppendOrder DEF Pipeline
<1>4. ToSet(Append(c, Head(b))) = ToSet(c) \union {Head(b)}
  BY <1>1, AppendSet
<1> QED  BY <1>1, <1>3, <1>4 DEF Pipeline, Follows

LEMMA PipeOther ==
  ASSUME NEW T, NEW c \in Seq(T), NEW x \in T, NEW b, NEW pub, NEW h, NEW M, NEW i,
         Pipeline(h, M, pub, i, c, b), x \notin M
  PROVE  Pipeline(h, M, pub, i, Append(c, x), b)
<1>1. Follows(h, M, ToSet(c), {x})
  BY DEF Follows
<1>2. InOrder(h, M, Append(c, x))
  BY <1>1, AppendOrder DEF Pipeline
<1>4. ToSet(Append(c, x)) = ToSet(c) \union {x}
  BY AppendSet
<1> QED  BY <1>2, <1>4 DEF Pipeline, Follows

LEMMA PipeDrop ==
  ASSUME NEW T, NEW b \in Seq(T), NEW c, NEW pub, NEW h, NEW M, NEW i,
         Pipeline(h, M, pub, i, c, b)
  PROVE  /\ Pipeline(h, M, pub, i, c, << >>)
         /\ b # << >> => Pipeline(h, M, pub, i, c, Tail(b))
<1>1. Pipeline(h, M, pub, i, c, << >>)
  BY EmptyOrder DEF Pipeline, Follows
<1>2. ASSUME b # << >>
      PROVE  Pipeline(h, M, pub, i, c, Tail(b))
  <2>1. ToSet(b) = {Head(b)} \union ToSet(Tail(b)) /\ InOrder(h, M, Tail(b))
    BY <1>2, TailOrder DEF Pipeline
  <2> QED  BY <2>1 DEF Pipeline, Follows
<1> QED  BY <1>1, <1>2

LEMMA ConcatSet ==
  ASSUME NEW T, NEW h \in Seq(T), NEW H \in Seq(T)
  PROVE  h \o H \in Seq(T) /\ ToSet(h \o H) = ToSet(h) \union ToSet(H)
<1> DEFINE g == h \o H
<1>1. /\ g \in Seq(T) /\ Len(g) = Len(h) + Len(H) /\ Len(h) \in Nat /\ Len(H) \in Nat
      /\ \A n \in 1..Len(h) : g[n] = h[n]
      /\ \A n \in 1..Len(H) : g[Len(h) + n] = H[n]
  OBVIOUS
<1> HIDE DEF g
<1>2. /\ \A n \in 1..Len(h) : n \in 1..Len(g)
      /\ \A n \in 1..Len(H) : Len(h) + n \in 1..Len(g)
      /\ \A n \in 1..Len(g) : n \notin 1..Len(h) => n - Len(h) \in 1..Len(H) /\ g[n] = H[n - Len(h)]
  <2>1. /\ \A n \in 1..Len(h) : n \in 1..Len(g)
        /\ \A n \in 1..Len(H) : Len(h) + n \in 1..Len(g)
    BY <1>1
  <2>2. ASSUME NEW n \in 1..Len(g), n \notin 1..Len(h)
        PROVE  n - Len(h) \in 1..Len(H) /\ g[n] = H[n - Len(h)]
    <3>1. n - Len(h) \in 1..Len(H) /\ Len(h) + (n - Len(h)) = n
      BY <1>1, <2>2
    <3>2. g[Len(h) + (n - Len(h))] = H[n - Len(h)]
      BY <1>1, <3>1
    <3> QED  BY <3>1, <3>2
  <2> QED  BY <2>1, <2>2
<1>3. ToSet(g) = ToSet(h) \union ToSet(H)
  <2>1. /\ ToSet(g) = {g[n] : n \in 1..Len(g)} /\ ToSet(h) = {h[n] : n \in 1..Len(h)}
        /\ ToSet(H) = {H[n] : n \in 1..Len(H)}
    BY <1>1, ToSetOf
  <2>2. ToSet(h) \subseteq ToSet(g) /\ ToSet(H) \subseteq ToSet(g)
    BY <1>1, <1>2, <2>1
  <2>3. ToSet(g) \subseteq ToSet(h) \union ToSet(H)
    BY <1>1, <1>2, <2>1
  <2> QED  BY <2>2, <2>3
<1> QED  BY <1>1, <1>3 DEF g

(* What is handed over next comes after all that was handed over before.     *)
LEMMA PipeHand ==
  ASSUME NEW T, NEW h \in Seq(T), NEW H \in Seq(T), NEW b, NEW c, NEW pub, NEW M, NEW i,
         Pipeline(h, M, pub, i, c, b)
  PROVE  /\ h \o H \in Seq(T) /\ ToSet(h \o H) = ToSet(h) \union ToSet(H)
         /\ Pipeline(h \o H, M, pub, i, c, b)
         /\ Pipeline(h \o H, M, pub, i, c, H)
<1> DEFINE g == h \o H
<1>1. /\ g \in Seq(T) /\ Len(g) = Len(h) + Len(H) /\ Len(h) \in Nat /\ Len(H) \in Nat
      /\ \A n \in 1..Len(h) : g[n] = h[n]
      /\ \A n \in 1..Len(H) : g[Len(h) + n] = H[n]
  OBVIOUS
<1> HIDE DEF g
<1>2. /\ \A n \in 1..Len(h) : n \in 1..Len(g)
      /\ \A n \in 1..Len(H) : Len(h) + n \in 1..Len(g)
      /\ \A n \in 1..Len(g) : n \notin 1..Len(h) => n - Len(h) \in 1..Len(H) /\ g[n] = H[n - Len(h)]
  <2>1. /\ \A n \in 1..Len(h) : n \in 1..Len(g)
        /\ \A n \in 1..Len(H) : Len(h) + n \in 1..Len(g)
    BY <1>1
  <2>2. ASSUME NEW n \in 1..Len(g), n \notin 1..Len(h)
        PROVE  n - Len(h) \in 1..Len(H) /\ g[n] = H[n - Len(h)]
    <3>1. n - Len(h) \in 1..Len(H) /\ Len(h) + (n - Len(h)) = n
      BY <1>1, <2>2
    <3>2. g[Len(h) + (n - Len(h))] = H[n - Len(h)]
      BY <1>1, <3>1
    <3> QED  BY <3>1, <3>2
  <2> QED  BY <2>1, <2>2
<1>3. ToSet(g) = ToSet(h) \union ToSet(H)
  <2>1. /\ ToSet(g) = {g[n] : n \in 1..Len(g)} /\ ToSet(h) = {h[n] : n \in 1..Len(h)}
        /\ ToSet(H) = {H[n] : n \in 1..Len(H)}
    BY <1>1, ToSetOf
  <2>2. ToSet(h) \subseteq ToSet(g) /\ ToSet(H) \subseteq ToSet(g)
    BY <1>1, <1>2, <2>1
  <2>3. ToSet(g) \subseteq ToSet(h) \union ToSet(H)
    BY <1>1, <1>2, <2>1
  <2> QED  BY <2>2, <2>3
<1>4. \A x, y : NotLater(h, x, y) => NotLater(g, x, y)
  BY <1>1, <1>2 DEF NotLater
<1>5. \A x \in ToSet(h), y \in ToSet(H) : NotLater(g, x, y)
  <2> SUFFICES ASSUME NEW k \in 1..Len(h), NEW l \in 1..Len(H)
               PROVE  NotLater(g, h[k], H[l])
    BY ToSetOf
  <2>1. k \in 1..Len(g) /\ Len(h) + l \in 1..Len(g) /\ k <= Len(h) + l
        /\ g[k] = h[k] /\ g[Len(h) + l] = H[l]
    BY <1>1, <1>2
  <2> QED  BY <2>1 DEF NotLater
<1>6. InOrder(g, M, H)
  <2> SUFFICES ASSUME NEW m \in 1..Len(H), NEW n \in 1..Len(H), m < n
               PROVE  NotLater(g, H[m], H[n])
    BY DEF InOrder
  <2>1. Len(h) + m \in 1..Len(g) /\ Len(h) + n \in 1..Len(g) /\ Len(h) + m <= Len(h) + n
        /\ g[Len(h) + m] = H[m] /\ g[Len(h) + n] = H[n]
    BY <1>1, <1>2
  <2> QED  BY <2>1 DEF NotLater
<1>7. Pipeline(g, M, pub, i, c, b)
  BY <1>3, <1>4 DEF Pipeline, Follows, InOrder
<1>8. Pipeline(g, M, pub, i, c, H)
  <2>1. InOrder(g, M, pub) /\ InOrder(g, M, c)
    BY <1>7 DEF Pipeline
  <2>2. /\ Follows(g, M, ToSet(pub), {i} \union ToSet(c) \union ToSet(H))
        /\ Follows(g, M, {i}, ToSet(c) \union ToSet(H)) /\ Follows(g, M, ToSet(c), ToSet(H))
    BY <1>5, <1>7 DEF Pipeline, Follows
  <2> QED  BY <1>3, <1>6, <2>1, <2>2 DEF Pipeline
<1> QED  BY <1>1, <1>3, <1>7, <1>8 DEF g
-----------------------------------------------------------------------------
(* The inductive invariant.                                                  *)

Found == Items \union {"poll", "none"}

IngestTypes ==
  /\ IngestTypeOK
  /\ chan \in Seq(Items) /\ handed \in Seq(Items) /\ published \in Seq(Found) /\ item \in Found
  /\ batch \in [Producers -> Seq(Items)]
  /\ batches \in [Producers -> Seq(Seq(Items))]

\* What is still to be handed over is new, and its producer's own.
Fresh ==
  /\ EachOnce(batches)
  /\ \A m, n \in 1..Len(handed) : handed[m] = handed[n] => m = n
  /\ \A p \in Producers : \A i \in 1..Len(batches[p]) : \A k \in 1..Len(batches[p][i]) :
        batches[p][i][k] \notin ToSet(handed)
  /\ \A p \in Producers : ToSet(batches[p]) \subseteq ToSet(Script[p])
  /\ \A p \in Producers : ToSet(batch[p]) \subseteq Mine(p)
  /\ \A p \in Producers : ppc[p] # "idle" => batch[p] # << >>

Ordered == \A p \in Producers : Pipeline(handed, Mine(p), published, item, chan, batch[p])

\* Why the loop ended, and whose context is done.
Causes ==
  /\ cpc \in {"closing", "lock"} /\ err = "none" => ctxDone
  /\ clientDone /\ cpc # "done" => err # "none"
  /\ err = "deadline" => timedOut \/ expired
  /\ err = "canceled" => ctxDone
  /\ result = "nil" => ctxDone \/ timedOut \/ expired

\* The channel turns nothing away while its consumer runs.
ReasonsKept ==
  /\ closed => cpc = "done"
  /\ cpc = "lock" => kind = "telegram"
  /\ kind = "telegram" /\ dropped # {} => RunDone \/ cpc = "done"

IngestIInv == IngestTypes /\ Fresh /\ Ordered /\ Causes /\ ReasonsKept

LEMMA Distinct ==
  ASSUME NEW b, EachOnce(b), NEW p \in Producers, NEW q \in Producers
  PROVE  \A i \in 1..Len(b[p]), j \in 1..Len(b[q]) :
            \A k \in 1..Len(b[p][i]), l \in 1..Len(b[q][j]) :
               b[p][i][k] = b[q][j][l] => p = q /\ i = j /\ k = l
BY Zenon DEF EachOnce

LEMMA OwnItems ==
  ASSUME NEW p \in Producers, NEW q \in Producers, p # q
  PROVE  Mine(p) \intersect Mine(q) = {}
<1> SUFFICES ASSUME NEW x, x \in Mine(p), x \in Mine(q)
             PROVE  FALSE
  OBVIOUS
<1>1. EachOnce(Script)
  BY IngestAssumption
<1>2. \A r \in Producers : x \in Mine(r) =>
        \E j \in 1..Len(Script[r]) : \E l \in 1..Len(Script[r][j]) : x = Script[r][j][l]
  <2> SUFFICES ASSUME NEW r \in Producers, x \in Mine(r)
               PROVE  \E j \in 1..Len(Script[r]) : \E l \in 1..Len(Script[r][j]) : x = Script[r][j][l]
    OBVIOUS
  <2>1. Script[r] \in Seq(Seq(Items))
    BY IngestAssumption
  <2>2. PICK b \in ToSet(Script[r]) : x \in ToSet(b)
    BY DEF Mine
  <2>3. PICK j \in 1..Len(Script[r]) : b = Script[r][j]
    BY <2>1, ToSetOf
  <2>4. b \in Seq(Items)
    BY <2>1, <2>3
  <2>5. PICK l \in 1..Len(b) : x = b[l]
    BY <2>2, <2>4, ToSetOf
  <2> QED  BY <2>3, <2>5
<1>3. PICK i \in 1..Len(Script[p]) : \E l \in 1..Len(Script[p][i]) : x = Script[p][i][l]
  BY <1>2
<1>4. PICK k \in 1..Len(Script[p][i]) : x = Script[p][i][k]
  BY <1>3
<1>5. PICK j \in 1..Len(Script[q]) : \E l \in 1..Len(Script[q][j]) : x = Script[q][j][l]
  BY <1>2
<1>6. PICK l \in 1..Len(Script[q][j]) : x = Script[q][j][l]
  BY <1>5
<1>7. Script[p][i][k] = Script[q][j][l]
  BY <1>4, <1>6
<1>8. \A i1 \in 1..Len(Script[p]), j1 \in 1..Len(Script[q]) :
        \A k1 \in 1..Len(Script[p][i1]), l1 \in 1..Len(Script[q][j1]) :
           Script[p][i1][k1] = Script[q][j1][l1] => p = q /\ i1 = j1 /\ k1 = l1
  BY <1>1, Distinct, Zenon
<1> QED  BY <1>7, <1>8, Zenon

LEMMA PollsAreNoItems ==
  \A p \in Producers : Mine(p) \subseteq Items /\ "poll" \notin Mine(p) /\ "none" \notin Mine(p)
<1> SUFFICES ASSUME NEW p \in Producers
             PROVE  Mine(p) \subseteq Items
  BY IngestAssumption
<1> SUFFICES ASSUME NEW b \in ToSet(Script[p])
             PROVE  ToSet(b) \subseteq Items
  BY DEF Mine
<1>1. b \in Seq(Items)
  BY IngestAssumption, ToSetOf
<1> QED  BY <1>1, ToSetOf
-----------------------------------------------------------------------------
(* The producers' steps.                                                     *)

(* A batch begins: what it brings is new, and comes after everything else.   *)
LEMMA HandStep ==
  ASSUME IngestIInv, NEW p \in Producers, Handle(p)
  PROVE  IngestIInv'
<1> DEFINE H == Head(batches[p])
<1> USE DEF IngestIInv
<1>1. /\ batches[p] \in Seq(Seq(Items)) /\ batches[p] # << >> /\ handed \in Seq(Items)
      /\ H = batches[p][1] /\ H \in Seq(Items) /\ 1 \in 1..Len(batches[p])
      /\ Tail(batches[p]) \in Seq(Seq(Items)) /\ Len(Tail(batches[p])) \in Nat
      /\ Len(batches[p]) = Len(Tail(batches[p])) + 1
      /\ \A i \in 1..Len(Tail(batches[p])) : Tail(batches[p])[i] = batches[p][i + 1]
  BY DEF Handle, IngestTypes
<1>2. /\ batches' = [batches EXCEPT ![p] = Tail(batches[p])] /\ batch' = [batch EXCEPT ![p] = H]
      /\ handed' = handed \o H /\ ppc' = [ppc EXCEPT ![p] = IF H = << >> THEN "idle" ELSE "lock"]
      /\ UNCHANGED <<kind, dropped, chan, closed, consVars, ctxDone, clientDone>>
  BY DEF Handle
<1> HIDE DEF H
<1>3. /\ handed' \in Seq(Items) /\ Len(handed') = Len(handed) + Len(H) /\ Len(handed) \in Nat /\ Len(H) \in Nat
      /\ ToSet(handed') = ToSet(handed) \union ToSet(H)
      /\ \A n \in 1..Len(handed) : handed'[n] = handed[n]
      /\ \A n \in 1..Len(handed') : n \notin 1..Len(handed) =>
            /\ n - Len(handed) \in 1..Len(H) /\ handed'[n] = H[n - Len(handed)]
            /\ n = Len(handed) + (n - Len(handed))
  <2>1. handed' \in Seq(Items) /\ Len(handed') = Len(handed) + Len(H) /\ Len(handed) \in Nat /\ Len(H) \in Nat
        /\ (\A n \in 1..Len(handed) : handed'[n] = handed[n])
        /\ (\A n \in 1..Len(H) : handed'[Len(handed) + n] = H[n])
    BY <1>1, <1>2
  <2>2. ASSUME NEW n \in 1..Len(handed'), n \notin 1..Len(handed)
        PROVE  /\ n - Len(handed) \in 1..Len(H) /\ handed'[n] = H[n - Len(handed)]
               /\ n = Len(handed) + (n - Len(handed))
    <3>1. n - Len(handed) \in 1..Len(H) /\ n = Len(handed) + (n - Len(handed))
      BY <2>1, <2>2
    <3> QED  BY <2>1, <3>1
  <2>3. ToSet(handed') = ToSet(handed) \union ToSet(H)
    BY <1>1, <1>2, ConcatSet
  <2> QED  BY <2>1, <2>2, <2>3
<1>4. \A q \in Producers : q # p => batches'[q] = batches[q] /\ batch'[q] = batch[q] /\ ppc'[q] = ppc[q]
  BY <1>2 DEF IngestTypes, IngestTypeOK
<1>5. /\ batches'[p] = Tail(batches[p]) /\ batch'[p] = H
      /\ ppc'[p] = IF H = << >> THEN "idle" ELSE "lock"
  BY <1>2 DEF IngestTypes, IngestTypeOK
<1>6. IngestTypes'
  BY <1>1, <1>2, <1>3, <1>4, <1>5 DEF IngestTypes, IngestTypeOK, consVars
<1>7. ToSet(H) \subseteq Mine(p)
  <2>1. H \in ToSet(batches[p])
    BY <1>1, ToSetOf
  <2> QED  BY <2>1 DEF Fresh, Mine
<1>8. \A q \in Producers : \A i \in 1..Len(batches'[q]) :
        \E j \in 1..Len(batches[q]) : batches'[q][i] = batches[q][j] /\ j = (IF q = p THEN i + 1 ELSE i)
  <2> SUFFICES ASSUME NEW q \in Producers, NEW i \in 1..Len(batches'[q])
               PROVE  \E j \in 1..Len(batches[q]) :
                         batches'[q][i] = batches[q][j] /\ j = (IF q = p THEN i + 1 ELSE i)
    OBVIOUS
  <2>1. CASE q = p
    <3>1. i \in 1..Len(Tail(batches[p])) /\ i + 1 \in 1..Len(batches[p])
      <4>1. batches'[q] = Tail(batches[p])
        BY <1>5, <2>1
      <4>2. i \in 1..Len(Tail(batches[p]))
        BY <4>1
      <4> QED  BY <1>1, <4>2
    <3> QED  BY <1>1, <1>5, <2>1, <3>1
  <2>2. CASE q # p
    BY <1>4, <2>2
  <2> QED  BY <2>1, <2>2
<1>9. Fresh'
  <2>1. EachOnce(batches)'
    <3> SUFFICES ASSUME NEW q \in Producers, NEW r \in Producers,
                        NEW i \in 1..Len(batches'[q]), NEW j \in 1..Len(batches'[r]),
                        NEW k \in 1..Len(batches'[q][i]), NEW l \in 1..Len(batches'[r][j]),
                        batches'[q][i][k] = batches'[r][j][l]
                 PROVE  q = r /\ i = j /\ k = l
      BY DEF EachOnce
    <3>1. PICK i0 \in 1..Len(batches[q]) :
            batches'[q][i] = batches[q][i0] /\ i0 = (IF q = p THEN i + 1 ELSE i)
      BY <1>8
    <3>2. PICK j0 \in 1..Len(batches[r]) :
            batches'[r][j] = batches[r][j0] /\ j0 = (IF r = p THEN j + 1 ELSE j)
      BY <1>8
    <3>3. \A i1 \in 1..Len(batches[q]), j1 \in 1..Len(batches[r]) :
            \A k1 \in 1..Len(batches[q][i1]), l1 \in 1..Len(batches[r][j1]) :
               batches[q][i1][k1] = batches[r][j1][l1] => q = r /\ i1 = j1 /\ k1 = l1
      BY Distinct, Zenon DEF Fresh
    <3>4. k \in 1..Len(batches[q][i0]) /\ l \in 1..Len(batches[r][j0])
          /\ batches[q][i0][k] = batches[r][j0][l]
      BY <3>1, <3>2
    <3>5. q = r /\ i0 = j0 /\ k = l
      <4>1. \A k1 \in 1..Len(batches[q][i0]), l1 \in 1..Len(batches[r][j0]) :
              batches[q][i0][k1] = batches[r][j0][l1] => q = r /\ i0 = j0 /\ k1 = l1
        BY <3>3, Zenon
      <4> QED  BY <3>4, <4>1
    <3> QED  BY <3>1, <3>2, <3>5
  <2>2. (\A m, n \in 1..Len(handed) : handed[m] = handed[n] => m = n)'
    <3> SUFFICES ASSUME NEW m \in 1..Len(handed'), NEW n \in 1..Len(handed'), handed'[m] = handed'[n]
                 PROVE  m = n
      OBVIOUS
    <3>1. \A k \in 1..Len(H) : H[k] \notin ToSet(handed)
      BY <1>1 DEF Fresh
    <3>2. \A k \in 1..Len(handed) : handed[k] \in ToSet(handed)
      BY <1>1, ToSetOf
    <3>3. \A k, l \in 1..Len(H) : H[k] = H[l] => k = l
      <4>1. \A i1 \in 1..Len(batches[p]), j1 \in 1..Len(batches[p]) :
              \A k1 \in 1..Len(batches[p][i1]), l1 \in 1..Len(batches[p][j1]) :
                 batches[p][i1][k1] = batches[p][j1][l1] => p = p /\ i1 = j1 /\ k1 = l1
        BY Distinct, Zenon DEF Fresh
      <4>2. 1 \in 1..Len(batches[p]) /\ H = batches[p][1]
        BY <1>1
      <4>3. \A k1 \in 1..Len(batches[p][1]), l1 \in 1..Len(batches[p][1]) :
               batches[p][1][k1] = batches[p][1][l1] => k1 = l1
        BY <4>1, <4>2
      <4> QED  BY <4>2, <4>3, Zenon
    <3>4. CASE m \in 1..Len(handed) /\ n \in 1..Len(handed)
      BY <1>3, <3>4 DEF Fresh
    <3>5. CASE m \in 1..Len(handed) /\ n \notin 1..Len(handed)
      BY <1>3, <3>1, <3>2, <3>5
    <3>6. CASE m \notin 1..Len(handed) /\ n \in 1..Len(handed)
      BY <1>3, <3>1, <3>2, <3>6
    <3>7. CASE m \notin 1..Len(handed) /\ n \notin 1..Len(handed)
      BY <1>3, <3>3, <3>7
    <3> QED  BY <3>4, <3>5, <3>6, <3>7
  <2>3. (\A q \in Producers : \A i \in 1..Len(batches[q]) : \A k \in 1..Len(batches[q][i]) :
            batches[q][i][k] \notin ToSet(handed))'
    <3> SUFFICES ASSUME NEW q \in Producers, NEW i \in 1..Len(batches'[q]), NEW k \in 1..Len(batches'[q][i])
                 PROVE  batches'[q][i][k] \notin ToSet(handed')
      OBVIOUS
    <3>1. PICK j \in 1..Len(batches[q]) :
            batches'[q][i] = batches[q][j] /\ j = (IF q = p THEN i + 1 ELSE i)
      BY <1>8
    <3>2. batches'[q][i][k] \notin ToSet(handed)
      BY <3>1 DEF Fresh
    <3>3. batches'[q][i][k] \notin ToSet(H)
      <4> SUFFICES ASSUME NEW l \in 1..Len(H), batches'[q][i][k] = H[l]
                   PROVE  FALSE
        <5>1. ToSet(H) = {H[l] : l \in 1..Len(H)}
          BY <1>1, ToSetOf
        <5> QED  BY <5>1
      <4>1. q = p /\ j = 1
        <5>1. \A i1 \in 1..Len(batches[q]), j1 \in 1..Len(batches[p]) :
                \A k1 \in 1..Len(batches[q][i1]), l1 \in 1..Len(batches[p][j1]) :
                   batches[q][i1][k1] = batches[p][j1][l1] => q = p /\ i1 = j1 /\ k1 = l1
          BY Distinct, Zenon DEF Fresh
        <5>2. k \in 1..Len(batches[q][j]) /\ l \in 1..Len(batches[p][1]) /\ batches[q][j][k] = batches[p][1][l]
          BY <1>1, <3>1
        <5>3. \A k1 \in 1..Len(batches[q][j]), l1 \in 1..Len(batches[p][1]) :
                batches[q][j][k1] = batches[p][1][l1] => q = p /\ j = 1 /\ k1 = l1
          <6>1. 1 \in 1..Len(batches[p])
            BY <1>1
          <6> QED  BY <5>1, <6>1, Zenon
        <5> QED  BY <5>2, <5>3
      <4> QED  BY <1>1, <1>5, <3>1, <4>1
    <3> QED  BY <1>3, <3>2, <3>3
  <2>4. (\A q \in Producers : ToSet(batches[q]) \subseteq ToSet(Script[q]))'
    <3> SUFFICES ASSUME NEW q \in Producers
                 PROVE  ToSet(batches'[q]) \subseteq ToSet(batches[q])
      BY DEF Fresh
    <3>1. batches'[q] \in Seq(Seq(Items)) /\ batches[q] \in Seq(Seq(Items))
      BY <1>6 DEF IngestTypes
    <3>2. \A j \in 1..Len(batches[q]) : batches[q][j] \in ToSet(batches[q])
      BY <3>1, ToSetOf
    <3>3. \A i \in 1..Len(batches'[q]) : batches'[q][i] \in ToSet(batches[q])
      BY <1>8, <3>2
    <3>4. ToSet(batches'[q]) = {batches'[q][i] : i \in 1..Len(batches'[q])}
      BY <3>1, ToSetOf
    <3> QED  BY <3>3, <3>4
  <2>5. (\A q \in Producers : ToSet(batch[q]) \subseteq Mine(q))'
    BY <1>4, <1>5, <1>7 DEF Fresh, Mine
  <2>6. (\A q \in Producers : ppc[q] # "idle" => batch[q] # << >>)'
    BY <1>4, <1>5 DEF Fresh
  <2> QED  BY <2>1, <2>2, <2>3, <2>4, <2>5, <2>6 DEF Fresh
<1>10. Ordered'
  <2> SUFFICES ASSUME NEW q \in Producers
               PROVE  Pipeline(handed \o H, Mine(q), published, item, chan, batch'[q])
    BY <1>2 DEF Ordered, consVars, Mine
  <2>1. Pipeline(handed, Mine(q), published, item, chan, batch[q])
    BY DEF Ordered
  <2>2. CASE q = p
    BY <1>1, <1>5, <2>1, <2>2, PipeHand
  <2>3. CASE q # p
    BY <1>1, <1>4, <2>1, <2>3, PipeHand
  <2> QED  BY <2>2, <2>3
<1>11. Causes' /\ ReasonsKept'
  BY <1>2 DEF Causes, ReasonsKept, RunDone, consVars
<1> QED  BY <1>6, <1>9, <1>10, <1>11

(* Nothing is handed over, and a batch only shrinks: what was new stays so.  *)
LEMMA FreshStays ==
  ASSUME IngestTypes, Fresh, UNCHANGED <<batches, handed>>,
         \A p \in Producers : /\ ToSet(batch'[p]) \subseteq ToSet(batch[p])
                              /\ ppc'[p] # "idle" => batch'[p] # << >>
  PROVE  Fresh'
<1>1. EachOnce(batches)'
  BY DEF Fresh
<1>2. (\A p \in Producers : ToSet(batch[p]) \subseteq Mine(p))'
  BY DEF Fresh, Mine
<1> QED  BY <1>1, <1>2 DEF Fresh

(* The head of a batch leaves it, for the channel or for nowhere.            *)
LEMMA DeliveredStep ==
  ASSUME IngestIInv, NEW p \in Producers, ppc[p] # "idle", Delivered(p),
         UNCHANGED <<kind, batches, handed, closed, consVars, ctxDone, clientDone>>,
         \/ Len(chan) < Buffer /\ chan' = Append(chan, Head(batch[p])) /\ UNCHANGED dropped
         \/ kind = "discord" /\ UNCHANGED chan
  PROVE  IngestIInv'
<1> USE DEF IngestIInv
<1>1. batch[p] \in Seq(Items) /\ batch[p] # << >> /\ chan \in Seq(Items)
  BY DEF IngestTypes, Fresh
<1>2. /\ Head(batch[p]) \in Items /\ Tail(batch[p]) \in Seq(Items)
      /\ ToSet(batch[p]) = {Head(batch[p])} \union ToSet(Tail(batch[p]))
  <2>1. InOrder(<< >>, {}, batch[p])
    BY DEF InOrder
  <2> QED  BY <1>1, <2>1, TailOrder
<1>3. /\ batch'[p] = Tail(batch[p]) /\ ppc'[p] = IF Tail(batch[p]) = << >> THEN "idle" ELSE "lock"
      /\ \A q \in Producers : q # p => batch'[q] = batch[q] /\ ppc'[q] = ppc[q]
      /\ batch' \in [Producers -> Seq(Items)] /\ ppc' \in [Producers -> {"idle", "lock", "send"}]
  BY <1>2 DEF Delivered, IngestTypes, IngestTypeOK
<1>4. IngestTypes'
  <2>1. chan' \in Seq(Items) /\ Len(chan') <= Buffer
    <3>1. CASE chan' = Append(chan, Head(batch[p])) /\ Len(chan) < Buffer
      BY <1>1, <1>2, <3>1, IngestAssumption
    <3>2. CASE UNCHANGED chan
      BY <3>2 DEF IngestTypes, IngestTypeOK
    <3> QED  BY <3>1, <3>2
  <2> QED  BY <1>3, <2>1 DEF IngestTypes, IngestTypeOK, consVars
<1>5. Fresh'
  <2>1. \A q \in Producers : /\ ToSet(batch'[q]) \subseteq ToSet(batch[q])
                             /\ ppc'[q] # "idle" => batch'[q] # << >>
    <3>1. \A q \in Producers : q # p => /\ ToSet(batch'[q]) \subseteq ToSet(batch[q])
                                        /\ ppc'[q] # "idle" => batch'[q] # << >>
      BY <1>3 DEF Fresh
    <3>2. /\ ToSet(batch'[p]) \subseteq ToSet(batch[p])
          /\ ppc'[p] # "idle" => batch'[p] # << >>
      BY <1>2, <1>3
    <3> QED  BY <3>1, <3>2
  <2> QED  BY <2>1, FreshStays
<1>6. Ordered'
  <2> SUFFICES ASSUME NEW q \in Producers
               PROVE  Pipeline(handed, Mine(q), published, item, chan', batch'[q])
    BY DEF Ordered, consVars, Mine
  <2>1. Pipeline(handed, Mine(q), published, item, chan, batch[q])
    BY DEF Ordered
  <2>2. CASE chan' = Append(chan, Head(batch[p]))
    <3>1. CASE q = p
      <4>1. Pipeline(handed, Mine(q), published, item, Append(chan, Head(batch[q])), Tail(batch[q]))
        BY <1>1, <2>1, <3>1, PipeSend
      <4> QED  BY <1>3, <2>2, <3>1, <4>1
    <3>2. CASE q # p
      <4>1. Head(batch[p]) \notin Mine(q)
        BY <1>2, <3>2, OwnItems DEF Fresh
      <4> QED  BY <1>1, <1>2, <1>3, <2>1, <2>2, <3>2, <4>1, PipeOther
    <3> QED  BY <3>1, <3>2
  <2>3. CASE UNCHANGED chan
    <3>1. CASE q = p
      <4>1. Pipeline(handed, Mine(q), published, item, chan, Tail(batch[q]))
        BY <1>1, <2>1, <3>1, PipeDrop
      <4> QED  BY <1>3, <2>3, <3>1, <4>1
    <3>2. CASE q # p
      BY <1>3, <2>1, <2>3, <3>2
    <3> QED  BY <3>1, <3>2
  <2> QED  BY <2>2, <2>3
<1>7. Causes' /\ ReasonsKept'
  BY DEF Causes, ReasonsKept, RunDone, consVars
<1> QED  BY <1>4, <1>5, <1>6, <1>7

LEMMA GiveUpStep ==
  ASSUME IngestIInv, NEW p \in Producers, GiveUp(p), RunDone \/ cpc = "done"
  PROVE  IngestIInv'
<1> USE DEF IngestIInv
<1>1. /\ batch'[p] = << >> /\ ppc'[p] = "idle"
      /\ \A q \in Producers : q # p => batch'[q] = batch[q] /\ ppc'[q] = ppc[q]
      /\ batch' \in [Producers -> Seq(Items)] /\ ppc' \in [Producers -> {"idle", "lock", "send"}]
      /\ UNCHANGED <<kind, batches, handed, chan, closed, consVars, ctxDone, clientDone>>
  BY DEF GiveUp, IngestTypes, IngestTypeOK
<1>2. IngestTypes'
  BY <1>1 DEF IngestTypes, IngestTypeOK, consVars
<1>3. Fresh'
  <2>1. \A q \in Producers : /\ ToSet(batch'[q]) \subseteq ToSet(batch[q])
                             /\ ppc'[q] # "idle" => batch'[q] # << >>
    BY <1>1, EmptyOrder DEF Fresh
  <2> QED  BY <1>1, <2>1, FreshStays
<1>4. Ordered'
  <2> SUFFICES ASSUME NEW q \in Producers
               PROVE  Pipeline(handed, Mine(q), published, item, chan, batch'[q])
    BY <1>1 DEF Ordered, consVars, Mine
  <2>1. Pipeline(handed, Mine(q), published, item, chan, batch[q]) /\ batch[q] \in Seq(Items)
    BY DEF Ordered, IngestTypes
  <2>2. CASE q = p
    BY <1>1, <2>1, <2>2, PipeDrop
  <2>3. CASE q # p
    BY <1>1, <2>1, <2>3
  <2> QED  BY <2>2, <2>3
<1>5. Causes' /\ ReasonsKept'
  BY <1>1 DEF Causes, ReasonsKept, RunDone, consVars
<1> QED  BY <1>2, <1>3, <1>4, <1>5

LEMMA ProducerStep ==
  ASSUME IngestIInv, NEW p \in Producers, Deliver(p)
  PROVE  IngestIInv'
<1>1. CASE Offer(p)
  BY <1>1, DeliveredStep DEF Offer, IngestIInv
<1>2. CASE Send(p)
  BY <1>2, DeliveredStep DEF Send, IngestIInv
<1>3. CASE StreamClosed(p)
  BY <1>3, GiveUpStep DEF StreamClosed, IngestIInv, ReasonsKept
<1>4. CASE SendCancelled(p)
  BY <1>4, GiveUpStep DEF SendCancelled
<1>5. CASE ReadLock(p)
  <2> USE <1>5 DEF ReadLock, IngestIInv, consVars
  <2>1. ppc' \in [Producers -> {"idle", "lock", "send"}] /\ \A q \in Producers : q # p => ppc'[q] = ppc[q]
    BY DEF IngestTypes, IngestTypeOK
  <2>2. IngestTypes'
    BY <2>1 DEF IngestTypes, IngestTypeOK
  <2>3. Fresh'
    <3>1. \A q \in Producers : /\ ToSet(batch'[q]) \subseteq ToSet(batch[q])
                               /\ ppc'[q] # "idle" => batch'[q] # << >>
      BY <2>1 DEF Fresh
    <3> QED  BY <3>1, FreshStays
  <2>4. Ordered'
    BY DEF Ordered, Mine
  <2>5. Causes' /\ ReasonsKept'
    BY DEF Causes, ReasonsKept, RunDone
  <2> QED  BY <2>2, <2>3, <2>4, <2>5
<1> QED  BY <1>1, <1>2, <1>3, <1>4, <1>5 DEF Deliver

-----------------------------------------------------------------------------
(* The consumer's steps.                                                     *)

\* What no step of Consume touches.
LEMMA ConsumerKeeps ==
  ASSUME IngestIInv, UNCHANGED <<kind, prodVars>>
  PROVE  Fresh'
<1>1. \A p \in Producers : /\ ToSet(batch'[p]) \subseteq ToSet(batch[p])
                           /\ ppc'[p] # "idle" => batch'[p] # << >>
  BY DEF prodVars, IngestIInv, Fresh
<1> QED  BY <1>1, FreshStays DEF prodVars, IngestIInv

(* The item in hand changes to one from the channel, to a poll or to none.   *)
LEMMA ItemChanges ==
  ASSUME IngestIInv, UNCHANGED <<kind, prodVars, published>>,
         \/ chan' = chan /\ item' \in {item, "none", "poll"}
         \/ chan # << >> /\ chan' = Tail(chan) /\ item' \in {Head(chan), "none"}
  PROVE  Ordered'
<1> SUFFICES ASSUME NEW p \in Producers
             PROVE  Pipeline(handed, Mine(p), published, item', chan', batch[p])
  BY DEF Ordered, prodVars, Mine
<1>1. /\ Pipeline(handed, Mine(p), published, item, chan, batch[p])
      /\ chan \in Seq(Items) /\ batch[p] \in Seq(Items) /\ published \in Seq(Found)
  BY DEF IngestIInv, Ordered, IngestTypes
<1>2. CASE chan' = chan /\ item' = item
  BY <1>1, <1>2
<1>3. CASE chan' = chan /\ item' \in {"none", "poll"}
  BY <1>1, <1>3, PipeItem, PollsAreNoItems
<1>4. CASE chan # << >> /\ chan' = Tail(chan) /\ item' \in {Head(chan), "none"}
  <2>1. Pipeline(handed, Mine(p), published, Head(chan), chan', batch[p])
    BY <1>1, <1>4, PipeTake
  <2>2. CASE item' = "none"
    <3>1. Pipeline(handed, Mine(p), published, "none", chan', batch[p])
      BY <2>1, PipeItem, PollsAreNoItems
    <3> QED  BY <2>2, <3>1
  <2> QED  BY <1>4, <2>1, <2>2
<1> QED  BY <1>2, <1>3, <1>4

(* The loop goes on with an item it took or polled, or ends on one it cannot *)
(* map.                                                                      *)
LEMMA WorkStep ==
  ASSUME IngestIInv, NEW i \in Found, NEW y, cpc = "select", Work(i, y),
         UNCHANGED <<kind, prodVars, closed, result, published, timedOut, expired, ctxDone, clientDone>>,
         chan' \in Seq(Items), Len(chan') <= Buffer, Ordered'
  PROVE  IngestIInv'
<1> USE DEF IngestIInv
<1>1. /\ cpc' \in {"select", "handling", "closing"}
      /\ cpc' # "closing" => err' = err
      /\ cpc' = "closing" => err' = IF err = "none" THEN "error" ELSE err
      /\ item' \in {i, "none"}
  BY DEF Work, Leave
<1>2. IngestTypes'
  BY <1>1 DEF IngestTypes, IngestTypeOK, prodVars, Found
<1>3. Fresh'
  BY ConsumerKeeps
<1>4. Causes' /\ ReasonsKept'
  BY <1>1 DEF Causes, ReasonsKept, RunDone, prodVars, IngestTypes, IngestTypeOK
<1> QED  BY <1>2, <1>3, <1>4

LEMMA TakeStep ==
  ASSUME IngestIInv, TakeUpdate
  PROVE  IngestIInv'
<1>1. /\ chan \in Seq(Items) /\ chan # << >> /\ chan' = Tail(chan) /\ Head(chan) \in Items
      /\ Tail(chan) \in Seq(Items) /\ Len(chan) \in Nat /\ Len(Tail(chan)) = Len(chan) - 1
      /\ Len(chan) <= Buffer /\ Buffer \in Nat
  BY IngestAssumption DEF TakeUpdate, IngestIInv, IngestTypes, IngestTypeOK
<1>2. chan' \in Seq(Items) /\ Len(chan') <= Buffer /\ Head(chan) \in Found
  BY <1>1 DEF Found
<1>3. item' \in {Head(chan), "none"}
  BY DEF TakeUpdate, Work, Leave
<1>4. Ordered'
  BY <1>1, <1>3, ItemChanges DEF TakeUpdate
<1> QED  BY <1>2, <1>4, WorkStep DEF TakeUpdate

LEMMA PollTickKeeps ==
  ASSUME IngestIInv, PollTick
  PROVE  IngestIInv'
<1>1. PICK y \in Polls : Work("poll", y)
  BY DEF PollTick
<1>2. item' \in {item, "none", "poll"}
  BY <1>1 DEF Work, Leave
<1>3. Ordered'
  BY <1>2, ItemChanges DEF PollTick
<1>4. chan' \in Seq(Items) /\ Len(chan') <= Buffer /\ "poll" \in Found
  BY DEF PollTick, IngestIInv, IngestTypes, IngestTypeOK, Found
<1> QED  BY <1>1, <1>3, <1>4, WorkStep DEF PollTick

LEMMA PublishStep ==
  ASSUME IngestIInv, PublishOk
  PROVE  IngestIInv'
<1> USE DEF IngestIInv
<1>1. /\ cpc = "handling" /\ cpc' \in {"select", "handling"} /\ item' = item /\ err' = err
      /\ published' = Append(published, item)
      /\ UNCHANGED <<kind, prodVars, chan, closed, result, timedOut, expired, ctxDone, clientDone>>
  BY DEF PublishOk, NextUpdate
<1>2. published \in Seq(Found) /\ item \in Found /\ handed \in Seq(Items)
  BY DEF IngestTypes
<1>3. IngestTypes'
  BY <1>1, <1>2 DEF IngestTypes, IngestTypeOK, prodVars
<1>4. Fresh'
  BY <1>1, ConsumerKeeps
<1>5. Ordered'
  <2> SUFFICES ASSUME NEW p \in Producers
               PROVE  Pipeline(handed, Mine(p), Append(published, item), item, chan, batch[p])
    BY <1>1 DEF Ordered, prodVars, Mine
  <2>1. Pipeline(handed, Mine(p), published, item, chan, batch[p])
    BY DEF Ordered
  <2> QED  BY <1>2, <2>1, PipePublish
<1>6. Causes' /\ ReasonsKept'
  BY <1>1 DEF Causes, ReasonsKept, RunDone, prodVars
<1> QED  BY <1>3, <1>4, <1>5, <1>6

(* The loop ends: e is the error of the step that ended it, "none" when it    *)
(* saw its context done.                                                     *)
LEMMA LeaveStep ==
  ASSUME IngestIInv, NEW e \in {"none", "error", "deadline", "canceled"}, Leave(e),
         cpc \in {"select", "handling"}, timedOut' = (timedOut \/ e = "deadline"),
         e \in {"none", "canceled"} => RunDone,
         UNCHANGED <<kind, prodVars, chan, closed, result, published, expired, ctxDone, clientDone>>
  PROVE  IngestIInv'
<1> USE DEF IngestIInv
<1>1. cpc' = "closing" /\ item' = "none" /\ err' = IF err = "none" THEN e ELSE err
  BY DEF Leave
<1>2. IngestTypes'
  BY <1>1 DEF IngestTypes, IngestTypeOK, prodVars, Found
<1>3. Fresh'
  BY ConsumerKeeps
<1>4. Ordered'
  BY <1>1, ItemChanges
<1>5. Causes'
  <2>1. RunDone => ctxDone \/ err # "none"
    BY DEF RunDone, Causes
  <2> QED  BY <1>1, <2>1 DEF Causes, IngestTypes, IngestTypeOK
<1>6. ReasonsKept'
  BY <1>1 DEF ReasonsKept, RunDone, prodVars
<1> QED  BY <1>2, <1>3, <1>4, <1>5, <1>6

(* What ends the driver: its result tells of an error only.                  *)
LEMMA FinishStep ==
  ASSUME IngestIInv, NEW e \in {"none", "error", "deadline", "canceled"}, Finish(e),
         e = "none" => ctxDone, e = "deadline" => timedOut \/ expired', e = "canceled" => ctxDone,
         closed' \in {closed, TRUE}, expired' \in BOOLEAN, expired => expired',
         UNCHANGED <<kind, prodVars, chan, item, published, timedOut, ctxDone>>
  PROVE  IngestIInv'
<1> USE DEF IngestIInv
<1>1. /\ cpc' = "done" /\ clientDone' = TRUE /\ err' = e
      /\ result' = IF e = "error" THEN "error" ELSE "nil"
  BY DEF Finish, Outcome
<1>2. IngestTypes'
  BY <1>1 DEF IngestTypes, IngestTypeOK, prodVars
<1>3. Fresh'
  BY ConsumerKeeps
<1>4. Ordered'
  BY ItemChanges
<1>5. Causes' /\ ReasonsKept'
  BY <1>1 DEF Causes, ReasonsKept, RunDone, prodVars
<1> QED  BY <1>2, <1>3, <1>4, <1>5

LEMMA ConsumeStep ==
  ASSUME IngestIInv, Connect \/ Consume
  PROVE  IngestIInv'
<1>1. CASE ClientReady
  <2> USE <1>1 DEF ClientReady, IngestIInv
  <2>1. IngestTypes'
    BY DEF IngestTypes, IngestTypeOK, prodVars
  <2>2. Fresh'
    BY ConsumerKeeps
  <2>3. Ordered'
    BY ItemChanges
  <2>4. Causes' /\ ReasonsKept'
    BY DEF Causes, ReasonsKept, RunDone, prodVars
  <2> QED  BY <2>1, <2>2, <2>3, <2>4
<1>2. CASE ClientRefused
  <2>1. PICK e \in {"error", "deadline"} \union (IF ctxDone THEN {"canceled"} ELSE {}) :
          Finish(e) /\ expired' = (expired \/ e = "deadline")
    BY <1>2 DEF ClientRefused
  <2>2. expired \in BOOLEAN
    BY DEF IngestIInv, IngestTypes, IngestTypeOK
  <2> QED  BY <1>2, <2>1, <2>2, FinishStep DEF ClientRefused
<1>3. CASE SeesCancel
  <2>1. timedOut' = (timedOut \/ "none" = "deadline")
    BY <1>3 DEF SeesCancel, IngestIInv, IngestTypes, IngestTypeOK
  <2> QED  BY <1>3, <2>1, LeaveStep DEF SeesCancel
<1>4. CASE TakeUpdate
  BY <1>4, TakeStep
<1>5. CASE Undecodable
  <2>1. timedOut' = (timedOut \/ "error" = "deadline")
    BY <1>5 DEF Undecodable, IngestIInv, IngestTypes, IngestTypeOK
  <2> QED  BY <1>5, <2>1, LeaveStep DEF Undecodable
<1>6. CASE PublishOk
  BY <1>6, PublishStep
<1>7. CASE PublishFails
  <2>1. PICK e \in {"error", "deadline"} \union (IF RunDone THEN {"canceled"} ELSE {}) :
          Leave(e) /\ timedOut' = (timedOut \/ e = "deadline")
    BY <1>7 DEF PublishFails
  <2> QED  BY <1>7, <2>1, LeaveStep DEF PublishFails
<1>8. CASE CloseBegin
  <2> USE <1>8 DEF CloseBegin, IngestIInv
  <2>1. IngestTypes'
    BY DEF IngestTypes, IngestTypeOK, prodVars
  <2>2. Fresh'
    BY ConsumerKeeps
  <2>3. Ordered'
    BY ItemChanges
  <2>4. Causes' /\ ReasonsKept'
    BY DEF Causes, ReasonsKept, RunDone, prodVars
  <2> QED  BY <2>1, <2>2, <2>3, <2>4
<1>9. CASE CloseStream
  BY <1>9, FinishStep DEF CloseStream, IngestIInv, Causes, IngestTypes, IngestTypeOK
<1>10. CASE CloseSession
  BY <1>10, FinishStep DEF CloseSession, IngestIInv, Causes, IngestTypes, IngestTypeOK
<1> QED  BY <1>1, <1>2, <1>3, <1>4, <1>5, <1>6, <1>7, <1>8, <1>9, <1>10 DEF Connect, Consume

-----------------------------------------------------------------------------
LEMMA IngestBegins ==
  ASSUME IngestInit
  PROVE  IngestIInv
<1>1. IngestTypes
  <2>1. /\ chan = << >> /\ handed = << >> /\ published = << >> /\ item \in Found
        /\ batches = Script /\ kind \in Kinds /\ batch = [p \in Producers |-> << >>]
        /\ ppc = [p \in Producers |-> "idle"] /\ cpc = "start" /\ err = "none" /\ result = "none"
        /\ closed = FALSE /\ ctxDone = FALSE /\ clientDone = FALSE /\ timedOut = FALSE /\ expired = FALSE
    BY DEF IngestInit, Found
  <2>2. Len(<< >>) = 0 /\ 0 <= Buffer /\ Script \in [Producers -> Seq(Seq(Items))]
    BY IngestAssumption
  <2>3. \A S : << >> \in Seq(S)
    OBVIOUS
  <2>4. batch \in [Producers -> Seq(Items)] /\ ppc \in [Producers -> {"idle", "lock", "send"}]
    BY <2>1, <2>3
  <2>5. IngestTypeOK
    BY <2>1, <2>2, <2>4 DEF IngestTypeOK
  <2> QED  BY <2>1, <2>2, <2>3, <2>4, <2>5 DEF IngestTypes
<1>2. Fresh
  <2>1. ToSet(<< >>) = {} /\ Len(<< >>) = 0
    BY EmptyOrder
  <2>2. \A p \in Producers : ToSet(batch[p]) = {} /\ ppc[p] = "idle"
    BY <2>1 DEF IngestInit
  <2> QED  BY IngestAssumption, <2>1, <2>2 DEF IngestInit, Fresh
<1>3. Ordered
  <2> SUFFICES ASSUME NEW p \in Producers
               PROVE  Pipeline(<< >>, Mine(p), << >>, "none", << >>, << >>)
    BY DEF IngestInit, Ordered
  <2> QED  BY EmptyOrder, PollsAreNoItems DEF Pipeline, Follows
<1>4. Causes /\ ReasonsKept
  BY DEF IngestInit, Causes, ReasonsKept, RunDone
<1> QED  BY <1>1, <1>2, <1>3, <1>4 DEF IngestIInv

LEMMA IngestStep ==
  ASSUME IngestIInv, [IngestNext]_ingestVars
  PROVE  IngestIInv'
<1>1. CASE \E p \in Producers : Handle(p) \/ Deliver(p)
  BY <1>1, HandStep, ProducerStep
<1>2. CASE Connect \/ Consume
  BY <1>2, ConsumeStep
<1>3. CASE PollTick
  BY <1>3, PollTickKeeps
<1>4. CASE ClientFails
  <2>1. PICK e \in {"error", "deadline"} : /\ err' = IF err = "none" THEN e ELSE err
                                          /\ expired' = (expired \/ e = "deadline")
    BY <1>4 DEF ClientFails
  <2>2. /\ UNCHANGED <<kind, prodVars, chan, closed, cpc, item, todo, polls, result, published, timedOut, ctxDone>>
        /\ cpc # "done" /\ clientDone' = TRUE
    BY <1>4 DEF ClientFails
  <2>3. IngestTypes'
    BY <2>1, <2>2 DEF IngestIInv, IngestTypes, IngestTypeOK, prodVars
  <2>4. Fresh'
    BY <2>2, ConsumerKeeps
  <2>5. Ordered'
    BY <2>2, ItemChanges
  <2>6. Causes'
    BY <2>1, <2>2 DEF IngestIInv, Causes, IngestTypes, IngestTypeOK
  <2>7. ReasonsKept'
    BY <2>2 DEF IngestIInv, ReasonsKept, RunDone, prodVars
  <2> QED  BY <2>3, <2>4, <2>5, <2>6, <2>7 DEF IngestIInv
<1>5. CASE Cancel \/ UNCHANGED ingestVars
  <2>1. /\ UNCHANGED <<kind, prodVars, chan, closed, cpc, item, todo, polls, err, result,
                       published, timedOut, expired, clientDone>>
        /\ ctxDone' \in {ctxDone, TRUE}
    BY <1>5 DEF Cancel, ingestVars, prodVars, consVars
  <2>2. IngestTypes'
    BY <2>1 DEF IngestIInv, IngestTypes, IngestTypeOK, prodVars
  <2>3. Fresh'
    BY <2>1, ConsumerKeeps
  <2>4. Ordered'
    BY <2>1, ItemChanges
  <2>5. Causes' /\ ReasonsKept'
    BY <2>1 DEF IngestIInv, Causes, ReasonsKept, RunDone, prodVars, IngestTypes, IngestTypeOK
  <2> QED  BY <2>2, <2>3, <2>4, <2>5 DEF IngestIInv
<1> QED  BY <1>1, <1>2, <1>3, <1>4, <1>5 DEF IngestNext

LEMMA IngestInvariant == IngestSpec => []IngestIInv
<1>1. IngestInit => IngestIInv
  BY IngestBegins
<1>2. IngestIInv /\ [IngestNext]_ingestVars => IngestIInv'
  BY IngestStep
<1> QED  BY <1>1, <1>2, PTL DEF IngestSpec

-----------------------------------------------------------------------------
(* No goroutine of the driver is in a state the code does not have, and the  *)
(* channel never holds more than its capacity.                               *)
THEOREM IngestTypeCorrect == IngestSpec => []IngestTypeOK
<1>1. IngestIInv => IngestTypeOK
  BY DEF IngestIInv, IngestTypes
<1> QED  BY <1>1, IngestInvariant, PTL

(* Whatever the mapper, the sink and the client do, and however the callbacks *)
(* interleave: the updates of one producer reach the sink in the order in     *)
(* which they were handed over, and while its consumer runs the Telegram      *)
(* driver turns none away.                                                    *)
THEOREM IngestKeepsOrder == IngestSpec => []UpdatesArriveInOrder
<1>1. ASSUME IngestIInv
      PROVE  UpdatesArriveInOrder
  <2>1. kind = "telegram" /\ Running => dropped = {}
    BY <1>1 DEF IngestIInv, ReasonsKept, Running
  <2>2. ASSUME NEW p \in Producers, NEW m \in 1..Len(published), NEW n \in 1..Len(published),
               m < n, {published[m], published[n]} \subseteq Mine(p)
        PROVE  Position(published[m]) <= Position(published[n])
    <3>1. NotLater(handed, published[m], published[n])
      BY <1>1, <2>2 DEF IngestIInv, Ordered, Pipeline, InOrder
    <3>2. PICK k \in 1..Len(handed), l \in 1..Len(handed) :
            k <= l /\ handed[k] = published[m] /\ handed[l] = published[n]
      BY <3>1 DEF NotLater
    <3>3. \A j \in 1..Len(handed) : Position(handed[j]) = j
      <4> SUFFICES ASSUME NEW j \in 1..Len(handed)
                   PROVE  (CHOOSE i \in 1..Len(handed) : handed[i] = handed[j]) = j
        BY DEF Position
      <4>1. \A i \in 1..Len(handed) : handed[i] = handed[j] => i = j
        BY <1>1 DEF IngestIInv, Fresh
      <4> QED  BY <4>1
    <3> QED  BY <3>2, <3>3
  <2> QED  BY <2>1, <2>2 DEF UpdatesArriveInOrder
<1> QED  BY <1>1, IngestInvariant, PTL

(* Start returns nil only when its context was cancelled, a publish ran into  *)
(* the driver's own deadline, or a deadline of the client went by, the       *)
(* sign-in's among them: no other failure is swallowed.                       *)
THEOREM QuietEndsAreCaused == IngestSpec => []QuietEndHasACause
<1>1. IngestIInv => QuietEndHasACause
  BY DEF IngestIInv, Causes, QuietEndHasACause
<1> QED  BY <1>1, IngestInvariant, PTL
=============================================================================
