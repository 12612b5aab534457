-------------------------- MODULE ModerationProofs --------------------------
(***************************************************************************)
(* Members who lose their permissions: a duel mutes its losers and nobody  *)
(* else (Duel), and who puts themselves to sleep has a way back (Sleep).   *)
(* For every set of players, users, chats and handlers, every deck and every*)
(* bound.                                                                  *)
(***************************************************************************)
EXTENDS Sleep, Duel, FiniteSetTheorems, TLAPS

-----------------------------------------------------------------------------
(* Duel.  The inductive invariant.  A conversation has no game or a valid    *)
(* one, and what the last step decided is a fair verdict.                    *)
Cards == 1..13
GameRec ==
  [phase : {"lobby", "game"}, host : Players, invited : Players \union {None},
   max : Int, deadline : Nat, order : Seq(Players), deck : Seq(Cards),
   hand : [Players -> Seq(Cards)], stood : SUBSET Players]

WellFormed(g) ==
  /\ g \in GameRec /\ g.max \in 2..MaxLimit
  /\ IsInjective(g.order) /\ Joined(g) \subseteq Players \ Bots
  /\ g.stood \subseteq Joined(g)
  /\ \A p \in Players : g.hand[p] # << >> => p \in Joined(g)
Seated(g) ==
  /\ Len(g.order) <= g.max
  /\ g.phase = "game" => Len(g.order) >= 2
  /\ g.invited # None => Joined(g) \subseteq {g.host, g.invited}
\* In a lobby nobody has cards.
Undealt(g) ==
  g.phase = "lobby" => g.stood = {} /\ \A p \in Players : g.hand[p] = << >>
Open(g) == g.phase = "game" =>
  /\ \E p \in Joined(g) : CanAct(g, p)
  /\ NonBusted(g) = Joined(g) \/ Cardinality(NonBusted(g)) >= 2

ValidGame(g) == WellFormed(g) /\ Seated(g) /\ Undealt(g) /\ Open(g)

FairVerdict(v) ==
  /\ v.kind \in {"none", "canceled", "tie", "bust", "score", "timeout"}
  /\ v.kind # "none" =>
       \A l \in v.losers, s \in Joined(v.game) \ v.losers :
         /\ ~(v.kind = "timeout" /\ CanAct(v.game, s))
         /\ Busted(v.game, s) => v.game.deck = << >>
         /\ \/ Busted(v.game, l) \/ (v.kind = "timeout" /\ CanAct(v.game, l))
            \/ Score(v.game.hand[l]) < Score(v.game.hand[s]) \/ v.game.deck = << >>

SoundResult(r) == (r.game = NoGame \/ ValidGame(r.game)) /\ FairVerdict(r.verdict)

DuelIInv ==
  /\ now \in 0..MaxTime
  /\ module \in {"new", "up", "down"} /\ reaper \in {"off", "on", "gone"}
  /\ DOMAIN game = Convs /\ \A c \in Convs : game[c] = NoGame \/ ValidGame(game[c])
  /\ \A c \in Convs : FairVerdict(over[c])

(* Hands.  Raising an ace adds ten.                                          *)
LEMMA SmallIntervals ==
  /\ IsFiniteSet(1..1) /\ Cardinality(1..1) = 1
  /\ IsFiniteSet(2..11) /\ Cardinality(2..11) = 10
  /\ IsFiniteSet(1..11)
<1>1. ASSUME NEW a \in Int, NEW b \in Int, a <= b
      PROVE  IsFiniteSet(a..b) /\ Cardinality(a..b) = b - a + 1
  BY <1>1, FS_Interval
<1>2. /\ IsFiniteSet(1..1) /\ Cardinality(1..1) = 1 - 1 + 1
      /\ IsFiniteSet(2..11) /\ Cardinality(2..11) = 11 - 2 + 1
      /\ IsFiniteSet(1..11)
  <2>1. 1 \in Int /\ 2 \in Int /\ 11 \in Int /\ 1 <= 1 /\ 2 <= 11 /\ 1 <= 11
    OBVIOUS
  <2> QED  BY <1>1, <2>1, Zenon
<1>3. 1 - 1 + 1 = 1 /\ 11 - 2 + 1 = 10
  OBVIOUS
<1> QED  BY <1>2, <1>3

LEMMA HandIsFinite ==
  ASSUME NEW hand \in Seq(Cards)
  PROVE  /\ Len(hand) \in Nat /\ DOMAIN hand = 1..Len(hand) /\ IsFiniteSet(1..Len(hand))
         /\ \A i \in 1..Len(hand) : hand[i] \in Cards
         /\ Aces(hand) \subseteq 1..Len(hand) /\ IsFiniteSet(Aces(hand))
         /\ Cardinality(Aces(hand)) \in Nat
         /\ \A i \in Aces(hand) : hand[i] = 1
<1>1. /\ Len(hand) \in Nat /\ DOMAIN hand = 1..Len(hand)
      /\ \A i \in 1..Len(hand) : hand[i] \in Cards
  OBVIOUS
<1>2. IsFiniteSet(1..Len(hand))
  BY <1>1, FS_Interval
<1>3. Aces(hand) \subseteq 1..Len(hand) /\ \A i \in Aces(hand) : hand[i] = 1
  BY <1>1 DEF Aces
<1>4. IsFiniteSet(Aces(hand))
  BY <1>2, <1>3, FS_Subset
<1> QED  BY <1>1, <1>2, <1>3, <1>4, FS_CardinalityType

PipSet(hand, R) == UNION {{i} \X (1..Worth(hand[i], i \in R)) : i \in DOMAIN hand}

LEMMA PipsOf ==
  ASSUME NEW hand \in Seq(Cards), NEW R \in SUBSET Aces(hand)
  PROVE  /\ \A x : x \in PipSet(hand, R) <=>
              \E i \in 1..Len(hand) : \E k \in 1..11 :
                 x = <<i, k>> /\ k <= (IF i \in R THEN 11 ELSE Pips(hand[i]))
         /\ IsFiniteSet(PipSet(hand, R)) /\ Counted(hand, R) = Cardinality(PipSet(hand, R))
         /\ Counted(hand, R) \in Nat
<1>1. /\ Len(hand) \in Nat /\ DOMAIN hand = 1..Len(hand) /\ IsFiniteSet(1..Len(hand))
      /\ \A i \in 1..Len(hand) : hand[i] \in Cards
  BY HandIsFinite
<1>2. \A i \in 1..Len(hand) : Pips(hand[i]) \in 1..10
  BY <1>1 DEF Pips, Cards
<1>3. \A x : x \in PipSet(hand, R) <=>
        \E i \in 1..Len(hand) : x \in {i} \X (1..Worth(hand[i], i \in R))
  BY <1>1 DEF PipSet
<1>4. \A i \in 1..Len(hand) : \A x :
        x \in {i} \X (1..Worth(hand[i], i \in R)) <=>
        \E k \in 1..11 : x = <<i, k>> /\ k <= (IF i \in R THEN 11 ELSE Pips(hand[i]))
  <2> SUFFICES ASSUME NEW i \in 1..Len(hand), NEW x
               PROVE  x \in {i} \X (1..Worth(hand[i], i \in R)) <=>
                      \E k \in 1..11 : x = <<i, k>> /\ k <= (IF i \in R THEN 11 ELSE Pips(hand[i]))
    OBVIOUS
  <2>1. CASE i \in R
    <3>1. Worth(hand[i], i \in R) = 11
      BY <2>1 DEF Worth
    <3> QED  BY <2>1, <3>1
  <2>2. CASE i \notin R
    <3>1. Worth(hand[i], i \in R) = Pips(hand[i])
      BY <2>2 DEF Worth
    <3> DEFINE n == Pips(hand[i])
    <3>2. n \in 1..10
      BY <1>2
    <3>3. (IF i \in R THEN 11 ELSE Pips(hand[i])) = n
      BY <2>2
    <3>4. {i} \X (1..Worth(hand[i], i \in R)) = {i} \X (1..n)
      BY <3>1
    <3> HIDE DEF n
    <3>5. x \in {i} \X (1..n) <=> \E k \in 1..11 : x = <<i, k>> /\ k <= n
      BY <3>2
    <3> QED  BY <3>3, <3>4, <3>5
  <2> QED  BY <2>1, <2>2
<1>5. \A x : x \in PipSet(hand, R) <=>
              \E i \in 1..Len(hand) : \E k \in 1..11 :
                 x = <<i, k>> /\ k <= (IF i \in R THEN 11 ELSE Pips(hand[i]))
  BY <1>3, <1>4, Zenon
<1>6. PipSet(hand, R) \subseteq (1..Len(hand)) \X (1..11)
  BY <1>5
<1>7. IsFiniteSet((1..Len(hand)) \X (1..11))
  BY <1>1, SmallIntervals, FS_Product
<1>8. IsFiniteSet(PipSet(hand, R))
  BY <1>6, <1>7, FS_Subset
<1>9. Counted(hand, R) = Cardinality(PipSet(hand, R))
  BY DEF Counted, PipSet
<1> QED  BY <1>5, <1>8, <1>9, FS_CardinalityType

LEMMA RaisingAces ==
  ASSUME NEW hand \in Seq(Cards), NEW R \in SUBSET Aces(hand)
  PROVE  /\ Cardinality(R) \in Nat /\ Cardinality(R) <= Cardinality(Aces(hand))
         /\ Counted(hand, R) = Counted(hand, {}) + 10 * Cardinality(R)
<1> DEFINE B == PipSet(hand, {})
           A == R \X (2..11)
           T == PipSet(hand, R)
<1>1. /\ Aces(hand) \subseteq 1..Len(hand) /\ IsFiniteSet(Aces(hand))
      /\ \A i \in Aces(hand) : hand[i] = 1
  BY HandIsFinite
<1>2. /\ IsFiniteSet(R) /\ Cardinality(R) \in Nat /\ Cardinality(R) <= Cardinality(Aces(hand))
  BY <1>1, FS_Subset, FS_CardinalityType
<1>3. /\ \A x : x \in B <=> \E i \in 1..Len(hand) : \E k \in 1..11 : x = <<i, k>> /\ k <= Pips(hand[i])
      /\ IsFiniteSet(B) /\ Counted(hand, {}) = Cardinality(B) /\ Counted(hand, {}) \in Nat
  <2>1. {} \in SUBSET Aces(hand)
    OBVIOUS
  <2> HIDE DEF B
  <2>2. /\ \A x : x \in PipSet(hand, {}) <=>
              \E i \in 1..Len(hand) : \E k \in 1..11 :
                 x = <<i, k>> /\ k <= (IF i \in {} THEN 11 ELSE Pips(hand[i]))
        /\ IsFiniteSet(PipSet(hand, {})) /\ Counted(hand, {}) = Cardinality(PipSet(hand, {}))
        /\ Counted(hand, {}) \in Nat
    BY <2>1, PipsOf
  <2> QED  BY <2>2 DEF B
<1>4. /\ \A x : x \in T <=> \E i \in 1..Len(hand) : \E k \in 1..11 :
                 x = <<i, k>> /\ k <= (IF i \in R THEN 11 ELSE Pips(hand[i]))
      /\ Counted(hand, R) = Cardinality(T)
  BY PipsOf
<1>5. IsFiniteSet(2..11) /\ Cardinality(2..11) = 10
  BY SmallIntervals
<1>6. IsFiniteSet(A) /\ Cardinality(A) = Cardinality(R) * 10
  BY <1>2, <1>5, FS_Product
<1>7. \A x : x \in A <=> \E i \in R : \E k \in 2..11 : x = <<i, k>>
  OBVIOUS
<1> HIDE DEF A, B, T
<1>8. \A i \in R : i \in 1..Len(hand) /\ Pips(hand[i]) = 1
  BY <1>1 DEF Pips
<1>9. T = B \cup A
  <2>1. ASSUME NEW x \in T  PROVE x \in B \cup A
    <3>1. PICK i \in 1..Len(hand) : \E k \in 1..11 :
                 x = <<i, k>> /\ k <= (IF i \in R THEN 11 ELSE Pips(hand[i]))
      BY <1>4
    <3>2. PICK k \in 1..11 : x = <<i, k>> /\ k <= (IF i \in R THEN 11 ELSE Pips(hand[i]))
      BY <3>1
    <3>3. CASE i \in R /\ k # 1
      <4>1. k \in 2..11
        BY <3>3
      <4> QED  BY <1>7, <3>2, <3>3, <4>1
    <3>4. CASE ~(i \in R /\ k # 1)
      <4>1. k <= Pips(hand[i])
        BY <1>8, <3>2, <3>4
      <4> QED  BY <1>3, <3>2, <4>1
    <3> QED  BY <3>3, <3>4
  <2>2. ASSUME NEW x \in A  PROVE x \in T
    <3>1. PICK i \in R : \E k \in 2..11 : x = <<i, k>>
      BY <1>7, <2>2
    <3>2. PICK k \in 2..11 : x = <<i, k>>
      BY <3>1
    <3>3. i \in 1..Len(hand) /\ k \in 1..11 /\ k <= 11
      BY <1>8
    <3> QED  BY <1>4, <3>2, <3>3
  <2>3. ASSUME NEW x \in B  PROVE x \in T
    <3>1. PICK i \in 1..Len(hand) : \E k \in 1..11 : x = <<i, k>> /\ k <= Pips(hand[i])
      BY <1>3, <2>3
    <3>2. PICK k \in 1..11 : x = <<i, k>> /\ k <= Pips(hand[i])
      BY <3>1
    <3>3. k <= (IF i \in R THEN 11 ELSE Pips(hand[i]))
      BY <3>2
    <3> QED  BY <1>4, <3>2, <3>3
  <2> QED  BY <2>1, <2>2, <2>3
<1>10. B \cap A = {}
  <2> SUFFICES ASSUME NEW x, x \in B, x \in A  PROVE FALSE
    OBVIOUS
  <2>1. PICK i \in R : \E k \in 2..11 : x = <<i, k>>
    BY <1>7
  <2>2. PICK k \in 2..11 : x = <<i, k>>
    BY <2>1
  <2>3. PICK j \in 1..Len(hand) : \E m \in 1..11 : x = <<j, m>> /\ m <= Pips(hand[j])
    BY <1>3
  <2>4. PICK m \in 1..11 : x = <<j, m>> /\ m <= Pips(hand[j])
    BY <2>3
  <2>5. j = i /\ m = k
    BY <2>2, <2>4
  <2> QED  BY <1>8, <2>4, <2>5
<1>11. Cardinality(T) = Cardinality(B) + Cardinality(A) - Cardinality(B \cap A)
  BY <1>3, <1>6, <1>9, FS_Union
<1>12. Cardinality(B \cap A) = 0
  BY <1>10, FS_EmptySet
<1> QED  BY <1>2, <1>3, <1>4, <1>6, <1>11, <1>12

LEMMA AcesAreCounted ==
  ASSUME NEW hand \in Seq(Cards)
  PROVE  /\ Counted(hand, {}) \in Nat /\ Cardinality(Aces(hand)) \in Nat
         /\ Cardinality(Aces(hand)) <= Counted(hand, {})
<1>1. /\ Aces(hand) \subseteq 1..Len(hand) /\ IsFiniteSet(Aces(hand))
      /\ Cardinality(Aces(hand)) \in Nat /\ \A i \in Aces(hand) : hand[i] = 1
  BY HandIsFinite
<1> DEFINE B == PipSet(hand, {})
           A == Aces(hand) \X (1..1)
<1>2. /\ \A x : x \in B <=> \E i \in 1..Len(hand) : \E k \in 1..11 :
                 x = <<i, k>> /\ k <= (IF i \in {} THEN 11 ELSE Pips(hand[i]))
      /\ IsFiniteSet(B) /\ Counted(hand, {}) = Cardinality(B) /\ Counted(hand, {}) \in Nat
  BY PipsOf
<1>3. IsFiniteSet(1..1) /\ Cardinality(1..1) = 1
  BY SmallIntervals
<1>4. Cardinality(A) = Cardinality(Aces(hand)) * 1
  BY <1>1, <1>3, FS_Product
<1>5. \A x \in A : \E i \in Aces(hand) : x = <<i, 1>>
  OBVIOUS
<1> HIDE DEF A, B
<1>6. A \subseteq B
  <2> SUFFICES ASSUME NEW x \in A  PROVE x \in B
    OBVIOUS
  <2>1. PICK i \in Aces(hand) : x = <<i, 1>>
    BY <1>5
  <2>2. i \in 1..Len(hand) /\ 1 \in 1..11 /\ 1 <= (IF i \in {} THEN 11 ELSE Pips(hand[i]))
    BY <1>1 DEF Pips
  <2> QED  BY <1>2, <2>1, <2>2
<1>7. Cardinality(A) <= Cardinality(B)
  BY <1>2, <1>6, FS_Subset
<1> QED  BY <1>1, <1>2, <1>4, <1>7

LEMMA RaisedFacts ==
  ASSUME NEW total \in Nat, NEW aces \in Nat, aces <= total
  PROVE  LET k == RaisedAces(total, aces)
         IN /\ k \in 0..aces /\ k \in {0, 1}
            /\ k = 0 \/ total + 10 * k <= 21
            /\ k = aces \/ total + 10 * (k + 1) > 21
<1> DEFINE Ends(k) == /\ k = 0 \/ total + 10 * k <= 21
                      /\ k = aces \/ total + 10 * (k + 1) > 21
<1>1. \E k \in 0..aces : Ends(k)
  <2>1. CASE aces = 0 \/ total + 10 > 21
    <3>1. 0 \in 0..aces /\ Ends(0)
      BY <2>1
    <3> QED  BY <3>1
  <2>2. CASE ~(aces = 0 \/ total + 10 > 21)
    <3>1. 1 \in 0..aces /\ Ends(1)
      BY <2>2
    <3> QED  BY <3>1
  <2> QED  BY <2>1, <2>2
<1>2. RaisedAces(total, aces) = CHOOSE k \in 0..aces : Ends(k)
  BY DEF RaisedAces
<1> HIDE DEF Ends
<1>3. RaisedAces(total, aces) \in 0..aces /\ Ends(RaisedAces(total, aces))
  BY <1>1, <1>2
<1>4. \A k \in 0..aces : Ends(k) => k \in {0, 1}
  BY DEF Ends
<1> QED  BY <1>3, <1>4 DEF Ends

(* scoreHand gives the best reading of the aces.                             *)
LEMMA ScoreFacts ==
  ASSUME NEW hand \in Seq(Cards)
  PROVE  /\ Score(hand) \in Nat
         /\ \E R \in SUBSET Aces(hand) : Score(hand) = Counted(hand, R)
         /\ \A R \in SUBSET Aces(hand) :
              LET t == Counted(hand, R) IN
              IF Score(hand) <= 21 THEN t <= Score(hand) \/ t > 21 ELSE t >= Score(hand)
<1> DEFINE total == Counted(hand, {})
           aces == Cardinality(Aces(hand))
           k == RaisedAces(total, aces)
<1>1. total \in Nat /\ aces \in Nat /\ aces <= total
  BY AcesAreCounted
<1>2. Score(hand) = total + 10 * k
  BY DEF Score
<1> HIDE DEF total, aces
<1>3. /\ k \in 0..aces /\ k \in {0, 1}
      /\ k = 0 \/ total + 10 * k <= 21
      /\ k = aces \/ total + 10 * (k + 1) > 21
  BY <1>1, RaisedFacts
<1> HIDE DEF k
<1>4. \A R \in SUBSET Aces(hand) : /\ Cardinality(R) \in Nat /\ Cardinality(R) <= aces
                                   /\ Counted(hand, R) = total + 10 * Cardinality(R)
  BY RaisingAces DEF total, aces
<1>5. \E R \in SUBSET Aces(hand) : Score(hand) = Counted(hand, R)
  <2>1. CASE k = 0
    BY <1>1, <1>2, <2>1 DEF total
  <2>2. CASE k = 1
    <3>1. aces # 0
      BY <1>1, <1>3, <2>2
    <3>2. Aces(hand) # {}
      BY <3>1, FS_EmptySet DEF aces
    <3>3. PICK i : i \in Aces(hand)
      BY <3>2
    <3>4. {i} \in SUBSET Aces(hand) /\ Cardinality({i}) = 1
      BY <3>3, FS_Singleton
    <3>5. Counted(hand, {i}) = total + 10 * 1
      BY <1>4, <3>4
    <3> QED  BY <1>2, <2>2, <3>4, <3>5
  <2> QED  BY <1>3, <2>1, <2>2
<1>6. ASSUME NEW R \in SUBSET Aces(hand)
      PROVE  IF Score(hand) <= 21 THEN Counted(hand, R) <= Score(hand) \/ Counted(hand, R) > 21
             ELSE Counted(hand, R) >= Score(hand)
  <2> DEFINE n == Cardinality(R)
  <2>1. n \in Nat /\ n <= aces /\ Counted(hand, R) = total + 10 * n
    BY <1>4
  <2> HIDE DEF n
  <2> QED  BY <1>1, <1>2, <1>3, <2>1
<1> QED  BY <1>1, <1>2, <1>3, <1>5, <1>6

LEMMA NoCards == Score(<< >>) = 0 /\ << >> \in Seq(Cards)
<1>1. << >> \in Seq(Cards)
  OBVIOUS
<1>2. Aces(<< >>) = {}
  BY DEF Aces
<1>3. Counted(<< >>, {}) = Cardinality({})
  <2>1. DOMAIN << >> = {}
    OBVIOUS
  <2>2. UNION {{i} \X (1..Worth(<< >>[i], i \in {})) : i \in DOMAIN << >>} = {}
    BY <2>1
  <2> QED  BY <2>2 DEF Counted
<1>4. Cardinality({}) = 0
  BY FS_EmptySet
<1>5. RaisedAces(0, 0) = 0
  <2>1. RaisedAces(0, 0) \in 0..0
    BY RaisedFacts
  <2> QED  BY <2>1
<1>6. Score(<< >>) = 0 + 10 * RaisedAces(0, 0)
  BY <1>2, <1>3, <1>4 DEF Score
<1> QED  BY <1>1, <1>5, <1>6

-----------------------------------------------------------------------------
(* Games.                                                                    *)
LEMMA GameFields ==
  ASSUME NEW g \in GameRec
  PROVE  /\ g.phase \in {"lobby", "game"} /\ g.host \in Players
         /\ g.invited \in Players \union {None}
         /\ g.max \in Int /\ g.deadline \in Nat /\ g.order \in Seq(Players)
         /\ g.deck \in Seq(Cards) /\ g.hand \in [Players -> Seq(Cards)]
         /\ g.stood \in SUBSET Players
         /\ g # NoGame
BY DEF GameRec, NoGame

LEMMA OrderFacts ==
  ASSUME NEW o \in Seq(Players)
  PROVE  /\ Len(o) \in Nat /\ DOMAIN o = 1..Len(o)
         /\ Range(o) \subseteq Players /\ IsFiniteSet(Range(o))
         /\ \A p : p \in Range(o) <=> \E i \in 1..Len(o) : o[i] = p
<1>1. /\ Len(o) \in Nat /\ DOMAIN o = 1..Len(o) /\ \A i \in 1..Len(o) : o[i] \in Players
  OBVIOUS
<1>2. \A p : p \in Range(o) <=> \E i \in 1..Len(o) : o[i] = p
  BY <1>1 DEF Range
<1>3. o \in Surjection(1..Len(o), Range(o))
  <2>1. o \in [1..Len(o) -> Range(o)]
    BY <1>1, <1>2
  <2>2. \A p \in Range(o) : \E i \in 1..Len(o) : o[i] = p
    BY <1>2
  <2> QED  BY <2>1, <2>2, <1>1 DEF Surjection
<1>4. IsFiniteSet(1..Len(o))
  BY <1>1, FS_Interval
<1>5. IsFiniteSet(Range(o))
  BY <1>3, <1>4, FS_Surjection
<1> QED  BY <1>1, <1>2, <1>5

LEMMA PointsFacts ==
  ASSUME NEW g \in GameRec
  PROVE  /\ Joined(g) \subseteq Players /\ IsFiniteSet(Joined(g))
         /\ NonBusted(g) \subseteq Joined(g) /\ IsFiniteSet(NonBusted(g))
         /\ Cardinality(NonBusted(g)) \in Nat
         /\ \A p \in Players : g.hand[p] \in Seq(Cards) /\ Score(g.hand[p]) \in Nat
<1>1. g.order \in Seq(Players) /\ g.hand \in [Players -> Seq(Cards)]
  BY GameFields
<1>2. Joined(g) \subseteq Players /\ IsFiniteSet(Joined(g))
  BY <1>1, OrderFacts DEF Joined
<1>3. NonBusted(g) \subseteq Joined(g)
  BY DEF NonBusted
<1>4. IsFiniteSet(NonBusted(g)) /\ Cardinality(NonBusted(g)) \in Nat
  BY <1>2, <1>3, FS_Subset, FS_CardinalityType
<1>5. \A p \in Players : g.hand[p] \in Seq(Cards)
  BY <1>1
<1>6. \A p \in Players : Score(g.hand[p]) \in Nat
  BY <1>5, ScoreFacts
<1> QED  BY <1>2, <1>3, <1>4, <1>5, <1>6

-----------------------------------------------------------------------------
(* Verdicts.                                                                 *)
LEMMA ByScoreIsFair ==
  ASSUME NEW g \in GameRec, NonBusted(g) = Joined(g) \/ g.deck = << >>
  PROVE  FairVerdict(ByScore(g))
<1>1. /\ Joined(g) \subseteq Players /\ NonBusted(g) \subseteq Joined(g)
      /\ \A p \in Players : Score(g.hand[p]) \in Nat
  BY PointsFacts
<1>2. ASSUME NEW kind \in {"canceled", "tie"}, ByScore(g) = Verdict(g, kind, {})
      PROVE  FairVerdict(ByScore(g))
  BY <1>2 DEF FairVerdict, Verdict
<1>3. ASSUME ByScore(g) = Verdict(g, "score", Lowest(g))  PROVE FairVerdict(ByScore(g))
  <2> DEFINE v == ByScore(g)
  <2>1. v.kind = "score" /\ v.losers = Lowest(g) /\ v.game = g
    BY <1>3 DEF Verdict
  <2> HIDE DEF v
  <2> SUFFICES ASSUME NEW l \in Lowest(g), NEW s \in Joined(g) \ Lowest(g)
               PROVE  /\ Busted(g, s) => g.deck = << >>
                      /\ Score(g.hand[l]) < Score(g.hand[s]) \/ g.deck = << >>
    BY <2>1 DEF FairVerdict, v
  <2>2. CASE g.deck = << >>
    BY <2>2
  <2>3. CASE g.deck # << >>
    <3>1. s \in NonBusted(g) /\ l \in NonBusted(g)
      BY <2>3 DEF Lowest
    <3>2. PICK q \in NonBusted(g) : ~(Score(g.hand[s]) <= Score(g.hand[q]))
      BY <3>1 DEF Lowest
    <3>3. Score(g.hand[l]) <= Score(g.hand[q])
      BY DEF Lowest
    <3>4. /\ Score(g.hand[l]) \in Nat /\ Score(g.hand[s]) \in Nat /\ Score(g.hand[q]) \in Nat
      BY <1>1, <3>1
    <3>5. Score(g.hand[l]) < Score(g.hand[s])
      BY <3>2, <3>3, <3>4
    <3> QED  BY <3>1, <3>5 DEF NonBusted
  <2> QED  BY <2>2, <2>3
<1> QED  BY <1>2, <1>3 DEF ByScore

LEMMA ByBustIsFair ==
  ASSUME NEW g  PROVE FairVerdict(ByBust(g))
<1> DEFINE v == ByBust(g)
<1>1. v.kind = "bust" /\ v.losers = Joined(g) \ NonBusted(g) /\ v.game = g
  BY DEF ByBust, Verdict
<1> HIDE DEF v
<1>2. \A l \in v.losers : Busted(g, l)
  BY <1>1 DEF NonBusted
<1>3. \A s \in Joined(g) \ v.losers : ~Busted(g, s)
  BY <1>1 DEF NonBusted
<1>4. FairVerdict(v)
  BY <1>1, <1>2, <1>3 DEF FairVerdict
<1> QED  BY <1>4 DEF v

LEMMA ByTimeoutIsFair ==
  ASSUME NEW g  PROVE FairVerdict(ByTimeout(g))
<1> DEFINE v == ByTimeout(g)
<1>1. /\ v.kind = "timeout" /\ v.game = g
      /\ v.losers = (Joined(g) \ NonBusted(g)) \union {p \in Joined(g) : CanAct(g, p)}
  BY DEF ByTimeout, Verdict
<1> HIDE DEF v
<1>2. \A l \in v.losers : Busted(g, l) \/ CanAct(g, l)
  BY <1>1 DEF NonBusted
<1>3. \A s \in Joined(g) \ v.losers : ~Busted(g, s) /\ ~CanAct(g, s)
  BY <1>1 DEF NonBusted
<1>4. FairVerdict(v)
  BY <1>1, <1>2, <1>3 DEF FairVerdict
<1> QED  BY <1>4 DEF v

-----------------------------------------------------------------------------
(* Results of the handlers.                                                  *)
LEMMA Unresolved ==
  /\ FairVerdict(NoVerdict) /\ SoundResult(Removed)
  /\ \A g : (g = NoGame \/ ValidGame(g)) => SoundResult(Leaves(g))
  /\ \A v : FairVerdict(v) => SoundResult(Concludes(v))
BY DEF FairVerdict, NoVerdict, SoundResult, Removed, Leaves, Concludes

LEMMA LobbyIsValid ==
  ASSUME DuelAssumption, now \in Nat, NEW p \in Players \ Bots,
         NEW invited \in Players \union {None}, NEW max \in 2..MaxLimit
  PROVE  ValidGame(Lobby(p, invited, max))
<1> DEFINE g == Lobby(p, invited, max)
<1>1. /\ g.phase = "lobby" /\ g.host = p /\ g.invited = invited /\ g.max = max
      /\ g.order = <<p>> /\ g.stood = {} /\ g.hand = [q \in Players |-> << >>]
  BY DEF Lobby
<1>2. g \in GameRec
  <2>1. << >> \in Seq(Cards) /\ <<p>> \in Seq(Players) /\ now + JoinTimeout \in Nat
    BY DEF DuelAssumption
  <2>2. [q \in Players |-> << >>] \in [Players -> Seq(Cards)]
    BY <2>1
  <2> QED  BY <2>1, <2>2 DEF Lobby, GameRec
<1>3. <<p>> \in Seq(Players) /\ Len(<<p>>) = 1 /\ Range(<<p>>) = {p} /\ IsInjective(<<p>>)
  BY DEF Range, IsInjective
<1> HIDE DEF g
<1>4. WellFormed(g)
  BY <1>1, <1>2, <1>3 DEF WellFormed, Joined
<1>5. Seated(g)
  BY <1>1, <1>3 DEF Seated, Joined
<1>6. Undealt(g) /\ Open(g)
  BY <1>1 DEF Undealt, Open
<1>7. ValidGame(g)
  BY <1>4, <1>5, <1>6 DEF ValidGame
<1> QED  BY <1>7 DEF g

LEMMA StartedIsValid ==
  ASSUME DuelAssumption, now \in Nat, NEW g, ValidGame(g) , g.phase = "lobby",
         Len(g.order) >= 2, NEW deck \in Decks
  PROVE  ValidGame(Started(g, deck))
<1> DEFINE h == Started(g, deck)
<1>1. g \in GameRec
  BY DEF ValidGame, WellFormed
<1>2. deck \in Seq(Cards) /\ now + GameTimeout \in Nat
  BY DEF DuelAssumption, Cards
<1>3. /\ h \in GameRec /\ h.phase = "game" /\ h.host = g.host /\ h.invited = g.invited
      /\ h.max = g.max /\ h.order = g.order /\ h.stood = g.stood /\ h.hand = g.hand
  BY <1>1, <1>2 DEF Started, GameRec
<1> HIDE DEF h
<1>4. Joined(h) = Joined(g)
  BY <1>3 DEF Joined
<1>5. WellFormed(h) /\ Seated(h) /\ Undealt(h)
  BY <1>3, <1>4 DEF ValidGame, WellFormed, Seated, Undealt
<1>6. \A p \in Players : h.hand[p] = << >> /\ p \notin h.stood
  BY <1>3 DEF ValidGame, Undealt
<1>7. \A p \in Players : ~Busted(h, p) /\ CanAct(h, p)
  BY <1>6, NoCards DEF Busted, CanAct, Stood
<1>8. Joined(h) \subseteq Players
  BY <1>3, PointsFacts
<1>9. NonBusted(h) = Joined(h)
  BY <1>7, <1>8 DEF NonBusted
<1>10. \E p : p \in Joined(h)
  <2>1. g.order \in Seq(Players) /\ Len(g.order) \in Nat /\ 1 \in 1..Len(g.order)
    BY <1>1, GameFields
  <2>2. g.order[1] \in Range(g.order)
    BY <2>1, OrderFacts
  <2> QED  BY <2>2, <1>3 DEF Joined
<1>11. Open(h)
  BY <1>7, <1>8, <1>9, <1>10 DEF Open
<1>12. ValidGame(h)
  BY <1>5, <1>11 DEF ValidGame
<1> QED  BY <1>12 DEF h

LEMMA ExpiryIsSound ==
  ASSUME DuelAssumption, now \in Nat, NEW g, ValidGame(g), NEW deck \in Decks
  PROVE  /\ SoundResult(AfterExpiry(g, deck))
         /\ g.phase = "game" => AfterExpiry(g, deck).game = NoGame
<1>1. g.phase \in {"lobby", "game"} /\ Len(g.order) \in Nat
  BY GameFields DEF ValidGame, WellFormed
<1>2. CASE g.phase = "game"
  BY <1>2, ByTimeoutIsFair, Unresolved DEF AfterExpiry, Concludes
<1>3. CASE g.phase = "lobby" /\ Len(g.order) < 2
  BY <1>3, Unresolved DEF AfterExpiry
<1>4. CASE g.phase = "lobby" /\ Len(g.order) >= 2
  BY <1>4, StartedIsValid, Unresolved DEF AfterExpiry
<1> QED  BY <1>1, <1>2, <1>3, <1>4

LEMMA OpeningIsSound ==
  ASSUME DuelAssumption, now \in Nat, NEW p \in Players, NEW sent \in BOOLEAN
  PROVE  /\ \A max \in Asked \union {DefaultMax} : SoundResult(OpenLobby(NoGame, p, max, sent))
         /\ \A q \in Players \union {None} : SoundResult(OpenChallenge(NoGame, p, q, sent))
<1>1. ASSUME NEW lobby, ValidGame(lobby)  PROVE SoundResult(Opened(lobby, sent))
  BY <1>1, Unresolved DEF Opened
<1>2. SoundResult(Leaves(NoGame))
  BY Unresolved
<1>3. ASSUME NEW max \in Asked \union {DefaultMax}
      PROVE  SoundResult(OpenLobby(NoGame, p, max, sent))
  <2>1. CASE p \in Bots \/ max > MaxLimit \/ max < 2
    BY <1>2, <2>1 DEF OpenLobby
  <2>2. CASE ~(p \in Bots \/ max > MaxLimit \/ max < 2)
    <3>1. max \in 2..MaxLimit
      BY <2>2 DEF DuelAssumption
    <3>2. ValidGame(Lobby(p, None, max))
      BY <2>2, <3>1, LobbyIsValid
    <3> QED  BY <1>1, <2>2, <3>2 DEF OpenLobby
  <2> QED  BY <2>1, <2>2
<1>4. ASSUME NEW q \in Players \union {None}
      PROVE  SoundResult(OpenChallenge(NoGame, p, q, sent))
  <2>1. CASE p \in Bots \/ q \in Bots \union {p, None}
    BY <1>2, <2>1 DEF OpenChallenge
  <2>2. CASE ~(p \in Bots \/ q \in Bots \union {p, None})
    <3>1. 2 \in 2..MaxLimit
      BY DEF DuelAssumption
    <3>2. ValidGame(Lobby(p, q, 2))
      BY <2>2, <3>1, LobbyIsValid
    <3> QED  BY <1>1, <2>2, <3>2 DEF OpenChallenge
  <2> QED  BY <2>1, <2>2
<1> QED  BY <1>3, <1>4

LEMMA ControlsAreSound ==
  ASSUME DuelAssumption, now \in Nat, NEW g, ValidGame(g), NEW p \in Players, NEW deck \in Decks
  PROVE  /\ \A max \in Asked : SoundResult(SetMax(g, p, max))
         /\ SoundResult(StartEarly(g, p, deck)) /\ SoundResult(CancelLobby(g, p))
<1>1. g \in GameRec /\ SoundResult(Leaves(g)) /\ SoundResult(Removed)
  BY Unresolved DEF ValidGame, WellFormed
<1>2. ASSUME NEW max \in Asked,
             Controls(g, p) /\ g.invited = None /\ max >= Len(g.order) /\ max <= MaxLimit /\ max >= 2
      PROVE  ValidGame([g EXCEPT !.max = max])
  <2> DEFINE h == [g EXCEPT !.max = max]
  <2>1. max \in Int /\ max \in 2..MaxLimit
    BY <1>2 DEF DuelAssumption
  <2>2. /\ h \in GameRec /\ h.phase = g.phase /\ h.host = g.host /\ h.invited = g.invited
        /\ h.max = max /\ h.order = g.order /\ h.stood = g.stood /\ h.hand = g.hand
    BY <1>1, <2>1 DEF GameRec
  <2> HIDE DEF h
  <2>3. g.phase = "lobby"
    BY <1>2 DEF Controls
  <2>4. ValidGame(h)
    BY <1>2, <2>1, <2>2, <2>3 DEF ValidGame, WellFormed, Seated, Undealt, Open, Joined
  <2> QED  BY <2>4 DEF h
<1>3. \A max \in Asked : SoundResult(SetMax(g, p, max))
  BY <1>1, <1>2, Unresolved DEF SetMax
<1>4. SoundResult(StartEarly(g, p, deck))
  <2>1. CASE Controls(g, p) /\ Len(g.order) >= 2
    <3>1. ValidGame(Started(g, deck))
      BY <2>1, StartedIsValid DEF Controls
    <3> QED  BY <2>1, <3>1, Unresolved DEF StartEarly
  <2>2. CASE ~(Controls(g, p) /\ Len(g.order) >= 2)
    BY <2>2, <1>1 DEF StartEarly
  <2> QED  BY <2>1, <2>2
<1>5. SoundResult(CancelLobby(g, p))
  BY <1>1 DEF CancelLobby
<1> QED  BY <1>3, <1>4, <1>5

LEMMA JoinIsSound ==
  ASSUME DuelAssumption, now \in Nat, NEW g, ValidGame(g), NEW p \in Players, NEW deck \in Decks
  PROVE  SoundResult(Join(g, p, deck))
<1> DEFINE h == [g EXCEPT !.order = Append(@, p)]
<1>1. g \in GameRec /\ SoundResult(Leaves(g)) /\ g.order \in Seq(Players) /\ g.max \in 2..MaxLimit
  BY Unresolved, GameFields DEF ValidGame, WellFormed
<1>2. CASE ~MayJoin(g, p)
  BY <1>1, <1>2 DEF Join
<1>3. CASE MayJoin(g, p)
  <2> DEFINE o == Append(g.order, p)
  <2>1. /\ o \in Seq(Players) /\ Len(g.order) \in Nat /\ Len(o) = Len(g.order) + 1
        /\ \A i \in 1..Len(g.order) : o[i] = g.order[i]
        /\ o[Len(g.order) + 1] = p
    BY <1>1
  <2>2. h = [g EXCEPT !.order = o]
    BY <1>1 DEF GameRec
  <2> HIDE DEF h, o
  <2>3. /\ h \in GameRec /\ h.phase = g.phase /\ h.host = g.host /\ h.invited = g.invited
        /\ h.max = g.max /\ h.order = o /\ h.stood = g.stood /\ h.hand = g.hand
    BY <1>1, <2>1, <2>2 DEF GameRec
  <2>4. Joined(h) = Joined(g) \union {p}
    <3>1. \A q : q \in Joined(g) <=> \E i \in 1..Len(g.order) : g.order[i] = q
      BY <1>1, OrderFacts DEF Joined
    <3>2. \A q : q \in Joined(h) <=> \E i \in 1..Len(o) : o[i] = q
      BY <2>3, <2>1, OrderFacts DEF Joined
    <3>3. ASSUME NEW q \in Joined(h)  PROVE q \in Joined(g) \union {p}
      <4>1. PICK i \in 1..Len(o) : o[i] = q
        BY <3>2
      <4>2. i \in 1..Len(g.order) \/ i = Len(g.order) + 1
        BY <2>1
      <4> QED  BY <2>1, <3>1, <4>1, <4>2
    <3>4. ASSUME NEW q \in Joined(g)  PROVE q \in Joined(h)
      <4>1. PICK i \in 1..Len(g.order) : g.order[i] = q
        BY <3>1
      <4> QED  BY <2>1, <3>2, <4>1
    <3>5. p \in Joined(h)
      <4>1. Len(g.order) + 1 \in 1..Len(o)
        BY <2>1
      <4> QED  BY <2>1, <3>2, <4>1
    <3> QED  BY <3>3, <3>4, <3>5
  <2>5. IsInjective(o)
    <3>1. DOMAIN o = 1..Len(o) /\ DOMAIN g.order = 1..Len(g.order)
      BY <1>1, <2>1
    <3>2. \A i \in 1..Len(g.order) : g.order[i] # p
      BY <1>1, <1>3, OrderFacts DEF MayJoin, Joined
    <3>3. \A i, j \in 1..Len(g.order) : g.order[i] = g.order[j] => i = j
      BY <3>1 DEF ValidGame, WellFormed, IsInjective
    <3>4. ASSUME NEW i \in 1..Len(o), NEW j \in 1..Len(o), o[i] = o[j]  PROVE i = j
      <4>1. i \in 1..Len(g.order) \/ i = Len(g.order) + 1
        BY <2>1
      <4>2. j \in 1..Len(g.order) \/ j = Len(g.order) + 1
        BY <2>1
      <4> QED  BY <2>1, <3>2, <3>3, <3>4, <4>1, <4>2
    <3> QED  BY <3>1, <3>4 DEF IsInjective
  <2>6. g.phase = "lobby" /\ p \notin Bots /\ g.invited \in {None, p} /\ Len(g.order) < g.max
    BY <1>3 DEF MayJoin
  <2>7. WellFormed(h)
    BY <2>3, <2>4, <2>5, <2>6 DEF ValidGame, WellFormed
  <2>8. Seated(h)
    <3>1. Len(h.order) <= h.max
      BY <1>1, <2>3, <2>1, <2>6
    <3> QED  BY <2>3, <2>4, <2>6, <3>1 DEF ValidGame, Seated
  <2>9. Undealt(h) /\ Open(h)
    BY <2>3, <2>6 DEF ValidGame, Undealt, Open
  <2>10. ValidGame(h)
    BY <2>7, <2>8, <2>9 DEF ValidGame
  <2>11. CASE Len(h.order) >= g.max
    <3>1. Len(h.order) >= 2
      BY <1>1, <2>3, <2>1, <2>11
    <3>2. ValidGame(Started(h, deck))
      BY <2>3, <2>6, <2>10, <3>1, StartedIsValid
    <3>3. Join(g, p, deck) = Leaves(Started(h, deck))
      BY <1>3, <2>11 DEF Join, h
    <3> QED  BY <3>2, <3>3, Unresolved
  <2>12. CASE ~(Len(h.order) >= g.max)
    <3>1. Join(g, p, deck) = Leaves(h)
      BY <1>3, <2>12 DEF Join, h
    <3> QED  BY <3>1, <2>10, Unresolved
  <2> QED  BY <2>11, <2>12
<1> QED  BY <1>2, <1>3

\* After a move the game ends or stays open.
LEMMA SettledIsSound ==
  ASSUME NEW g, WellFormed(g), Seated(g), g.phase = "game"
  PROVE  SoundResult(Settled(g))
<1>1. g \in GameRec
  BY DEF WellFormed
<1>2. /\ NonBusted(g) \subseteq Joined(g) /\ Cardinality(NonBusted(g)) \in Nat
  BY <1>1, PointsFacts
<1>3. CASE IsOver(g)
  <2>1. CASE NonBusted(g) # Joined(g)
    BY <1>3, <2>1, ByBustIsFair, Unresolved DEF Settled, AfterAction
  <2>2. CASE NonBusted(g) = Joined(g)
    BY <1>1, <1>3, <2>2, ByScoreIsFair, Unresolved DEF Settled, AfterAction
  <2> QED  BY <2>1, <2>2
<1>4. CASE ~IsOver(g)
  <2>1. NonBusted(g) = Joined(g) \/ Cardinality(NonBusted(g)) >= 2
    BY <1>2, <1>4 DEF IsOver, LoneSurvivor
  <2>2. \E p \in Joined(g) : CanAct(g, p)
    BY <1>4 DEF IsOver, AllFinished, NonBusted, CanAct
  <2>3. ValidGame(g)
    BY <2>1, <2>2 DEF ValidGame, Undealt, Open
  <2> QED  BY <1>4, <2>3, Unresolved DEF Settled
<1> QED  BY <1>3, <1>4

LEMMA MovesAreSound ==
  ASSUME NEW g, ValidGame(g), NEW p \in Players
  PROVE  SoundResult(Hit(g, p)) /\ SoundResult(Stand(g, p))
<1>1. /\ g \in GameRec /\ SoundResult(Leaves(g)) /\ g.deck \in Seq(Cards)
      /\ g.hand \in [Players -> Seq(Cards)] /\ g.stood \in SUBSET Players
  BY Unresolved, GameFields DEF ValidGame, WellFormed
<1>2. CASE ~Playing(g, p)
  BY <1>1, <1>2 DEF Hit, Stand
<1>3. CASE Playing(g, p)
  <2>0. g.phase = "game" /\ p \in Joined(g)
    BY <1>3 DEF Playing
  <2>1. SoundResult(Stand(g, p))
    <3> DEFINE h == [g EXCEPT !.stood = @ \union {p}]
    <3>1. /\ h \in GameRec /\ h.phase = g.phase /\ h.host = g.host /\ h.invited = g.invited
          /\ h.max = g.max /\ h.order = g.order /\ h.stood = g.stood \union {p} /\ h.hand = g.hand
      BY <1>1 DEF GameRec
    <3>2. Stand(g, p) = Settled(h)
      BY <1>3 DEF Stand
    <3> HIDE DEF h
    <3>3. WellFormed(h) /\ Seated(h)
      BY <2>0, <3>1 DEF ValidGame, WellFormed, Seated, Joined
    <3> QED  BY <2>0, <3>1, <3>2, <3>3, SettledIsSound
  <2>2. SoundResult(Hit(g, p))
    <3>1. CASE g.deck = << >>
      BY <1>1, <1>3, <3>1, ByScoreIsFair, Unresolved DEF Hit
    <3>2. CASE g.deck # << >>
      <4> DEFINE h == [g EXCEPT !.hand[p] = Append(@, Head(g.deck)), !.deck = Tail(@)]
                 dealt == Append(g.hand[p], Head(g.deck))
      <4>1. Head(g.deck) \in Cards /\ Tail(g.deck) \in Seq(Cards)
        BY <1>1, <3>2
      <4>2. dealt \in Seq(Cards)
        BY <1>1, <4>1
      <4>3. /\ h.phase = g.phase /\ h.host = g.host /\ h.invited = g.invited
            /\ h.max = g.max /\ h.order = g.order /\ h.stood = g.stood
            /\ h.hand = [g.hand EXCEPT ![p] = dealt]
        BY <1>1 DEF GameRec
      <4>4. Hit(g, p) = Settled(h)
        BY <1>3, <3>2 DEF Hit
      <4>5. h \in GameRec
        <5>1. [g.hand EXCEPT ![p] = dealt] \in [Players -> Seq(Cards)]
          BY <1>1, <4>2
        <5> HIDE DEF dealt
        <5>2. h = [g EXCEPT !.hand = [g.hand EXCEPT ![p] = dealt], !.deck = Tail(g.deck)]
          BY <1>1 DEF GameRec, dealt
        <5> QED  BY <1>1, <4>1, <5>1, <5>2 DEF GameRec
      <4> HIDE DEF h, dealt
      <4>6. \A q \in Players : h.hand[q] # << >> => q \in Joined(g)
        <5> SUFFICES ASSUME NEW q \in Players, h.hand[q] # << >>, q # p  PROVE q \in Joined(g)
          BY <2>0
        <5>1. h.hand[q] = g.hand[q]
          BY <1>1, <4>3
        <5> QED  BY <5>1 DEF ValidGame, WellFormed
      <4>7. WellFormed(h) /\ Seated(h)
        BY <4>3, <4>5, <4>6 DEF ValidGame, WellFormed, Seated, Joined
      <4> QED  BY <2>0, <4>3, <4>4, <4>7, SettledIsSound
    <3> QED  BY <3>1, <3>2
  <2> QED  BY <2>1, <2>2
<1> QED  BY <1>2, <1>3

LEMMA CommandsAreSound ==
  ASSUME DuelAssumption, now \in Nat, NEW g, g = NoGame \/ ValidGame(g), NEW p \in Players,
         NEW r \in Command(g, p)
  PROVE  SoundResult(r) /\ (g = NoGame => r.game.phase # "game")
<1>1. SoundResult(Leaves(g))
  BY Unresolved
<1>2. CASE g = NoGame
  <2>1. g.phase = "none" /\ SoundResult(Leaves(g)) /\ Leaves(g).game.phase = "none"
    BY <1>1, <1>2 DEF NoGame, Leaves
  <2>2. Hit(g, p) = Leaves(g) /\ Stand(g, p) = Leaves(g) /\ \A deck \in Decks : Join(g, p, deck) = Leaves(g)
    BY <2>1 DEF Hit, Stand, Join, Playing, MayJoin
  <2>3. ASSUME NEW sent \in BOOLEAN, NEW max \in Asked \union {DefaultMax}
        PROVE  /\ SoundResult(OpenLobby(g, p, max, sent))
               /\ OpenLobby(g, p, max, sent).game.phase # "game"
    <3>1. SoundResult(OpenLobby(g, p, max, sent))
      BY <1>2, OpeningIsSound
    <3>2. OpenLobby(g, p, max, sent).game.phase # "game"
      BY <2>1 DEF OpenLobby, Opened, Leaves, Lobby, NoGame
    <3> QED  BY <3>1, <3>2
  <2>4. ASSUME NEW sent \in BOOLEAN, NEW q \in Players \union {None}
        PROVE  /\ SoundResult(OpenChallenge(g, p, q, sent))
               /\ OpenChallenge(g, p, q, sent).game.phase # "game"
    <3>1. SoundResult(OpenChallenge(g, p, q, sent))
      BY <1>2, OpeningIsSound
    <3>2. OpenChallenge(g, p, q, sent).game.phase # "game"
      BY <2>1 DEF OpenChallenge, Opened, Leaves, Lobby, NoGame
    <3> QED  BY <3>1, <3>2
  <2>5. \/ r = Leaves(g)
        \/ \E sent \in BOOLEAN : \/ \E max \in Asked \union {DefaultMax} : r = OpenLobby(g, p, max, sent)
                                 \/ \E q \in Players \union {None} : r = OpenChallenge(g, p, q, sent)
    BY <2>1, <2>2 DEF Command, DuelCommand
  <2> QED  BY <2>1, <2>3, <2>4, <2>5
<1>3. CASE ValidGame(g)
  <2>1. g # NoGame /\ g.phase # "none"
    BY <1>3, GameFields DEF ValidGame, WellFormed
  <2>2. \/ r \in {Hit(g, p), Stand(g, p), Leaves(g), CancelLobby(g, p)}
        \/ \E deck \in Decks : \/ r \in {StartEarly(g, p, deck), Join(g, p, deck)}
                               \/ \E max \in Asked : r = SetMax(g, p, max)
    BY <2>1 DEF Command, DuelCommand
  <2>3. CASE r \in {Hit(g, p), Stand(g, p), Leaves(g)}
    BY <1>1, <1>3, <2>1, <2>3, MovesAreSound
  <2>4. CASE r = CancelLobby(g, p)
    BY <1>1, <2>1, <2>4, Unresolved DEF CancelLobby
  <2>5. CASE \E deck \in Decks : \/ r \in {StartEarly(g, p, deck), Join(g, p, deck)}
                                \/ \E max \in Asked : r = SetMax(g, p, max)
    BY <1>3, <2>1, <2>5, ControlsAreSound, JoinIsSound
  <2> QED  BY <2>2, <2>3, <2>4, <2>5
<1> QED  BY <1>2, <1>3

\* What a command gives back is a game and a verdict.
LEMMA IsResult ==
  ASSUME NEW g, NEW p, NEW r \in Command(g, p)
  PROVE  r \in [game : {r.game}, verdict : {r.verdict}]
<1>1. ASSUME NEW h  PROVE Leaves(h) \in [game : {Leaves(h).game}, verdict : {Leaves(h).verdict}]
  BY DEF Leaves
<1>2. ASSUME NEW v  PROVE Concludes(v) \in [game : {Concludes(v).game}, verdict : {Concludes(v).verdict}]
  BY DEF Concludes
<1>3. (\E h : r = Leaves(h)) \/ (\E v : r = Concludes(v))
  <2>1. ASSUME NEW h  PROVE (\E x : Settled(h) = Leaves(x)) \/ (\E v : Settled(h) = Concludes(v))
    BY DEF Settled
  <2>2. /\ (\E h : Hit(g, p) = Leaves(h)) \/ (\E v : Hit(g, p) = Concludes(v))
        /\ (\E h : Stand(g, p) = Leaves(h)) \/ (\E v : Stand(g, p) = Concludes(v))
    BY <2>1 DEF Hit, Stand
  <2>3. ASSUME NEW deck, NEW sent
        PROVE  /\ \E h : Join(g, p, deck) = Leaves(h)
               /\ \E h : StartEarly(g, p, deck) = Leaves(h)
               /\ \E h : CancelLobby(g, p) = Leaves(h)
               /\ \A max : \E h : SetMax(g, p, max) = Leaves(h)
               /\ \A max : \E h : OpenLobby(g, p, max, sent) = Leaves(h)
               /\ \A q : \E h : OpenChallenge(g, p, q, sent) = Leaves(h)
    BY DEF Join, StartEarly, CancelLobby, SetMax, OpenLobby, OpenChallenge, Opened, Removed
  <2>4. \/ r \in {Hit(g, p), Stand(g, p), Leaves(g)}
        \/ \E deck, sent : \/ r \in {Join(g, p, deck), StartEarly(g, p, deck), CancelLobby(g, p)}
                           \/ \E max : r = SetMax(g, p, max)
                           \/ \E max : r = OpenLobby(g, p, max, sent)
                           \/ \E q : r = OpenChallenge(g, p, q, sent)
    BY DEF Command, DuelCommand
  <2> QED  BY <2>2, <2>3, <2>4
<1> QED  BY <1>1, <1>2, <1>3

-----------------------------------------------------------------------------
(* Steps.                                                                    *)
LEMMA PutKeeps ==
  ASSUME DuelIInv, NEW c \in Convs, NEW r, SoundResult(r), Put(c, r), UNCHANGED <<now, module, reaper>>
  PROVE  DuelIInv'
<1>1. DOMAIN game' = Convs /\ game'[c] = r.game /\ \A d \in Convs : d # c => game'[d] = game[d]
  BY DEF DuelIInv, Put
<1>2. over'[c] = r.verdict /\ \A d \in Convs : d # c => over'[d] = NoVerdict
  BY DEF Put, Quiet
<1>3. \A d \in Convs : game'[d] = NoGame \/ ValidGame(game'[d])
  BY <1>1 DEF DuelIInv, SoundResult
<1>4. \A d \in Convs : FairVerdict(over'[d])
  BY <1>2, Unresolved DEF SoundResult
<1> QED  BY <1>1, <1>3, <1>4 DEF DuelIInv

LEMMA ResultsOfLateEvents ==
  ASSUME DuelAssumption, DuelIInv, NEW c \in Convs, NEW p \in Players, HandleLateEvent(c, p)
  PROVE  \E r : Put(c, r) /\ SoundResult(r) /\ (game[c].phase = "game" => r.game.phase # "game")
<1>1. now \in Nat /\ ValidGame(game[c])
  BY DEF DuelIInv, DuelAssumption, HandleLateEvent, Expired, NoGame
<1>2. PICK deck \in Decks :
       LET e == AfterExpiry(game[c], deck) IN
       \/ Put(c, e)
       \/ \E r \in Command(e.game, p) :
            Put(c, IF r.verdict = NoVerdict
                   THEN [r EXCEPT !.verdict = e.verdict] ELSE r)
  BY DEF HandleLateEvent
<1> DEFINE e == AfterExpiry(game[c], deck)
<1>3. SoundResult(e) /\ (game[c].phase = "game" => e.game = NoGame)
  BY <1>1, ExpiryIsSound
<1>4. e = [game |-> e.game, verdict |-> e.verdict]
  BY DEF AfterExpiry, Concludes, Removed, Leaves
<1> HIDE DEF e
<1>5. CASE Put(c, e)
  BY <1>3, <1>5 DEF NoGame
<1>6. CASE \E r \in Command(e.game, p) :
            Put(c, IF r.verdict = NoVerdict THEN [r EXCEPT !.verdict = e.verdict] ELSE r)
  <2>1. PICK r \in Command(e.game, p) :
            Put(c, IF r.verdict = NoVerdict THEN [r EXCEPT !.verdict = e.verdict] ELSE r)
    BY <1>6
  <2>2. SoundResult(r) /\ (e.game = NoGame => r.game.phase # "game")
    BY <1>1, <1>3, <2>1, CommandsAreSound DEF SoundResult
  <2>3. CASE r.verdict # NoVerdict
    BY <1>3, <2>1, <2>2, <2>3
  <2>4. CASE r.verdict = NoVerdict
    <3> DEFINE s == [r EXCEPT !.verdict = e.verdict]
    <3>1. r \in [game : {r.game}, verdict : {r.verdict}]
      BY <2>1, IsResult
    <3>2. s.game = r.game /\ s.verdict = e.verdict
      BY <3>1
    <3>3. Put(c, s)
      BY <2>1, <2>4
    <3> HIDE DEF s
    <3> QED  BY <1>3, <2>2, <3>2, <3>3 DEF SoundResult
  <2> QED  BY <2>3, <2>4
<1> QED  BY <1>2, <1>5, <1>6 DEF e

LEMMA DuelBegins == DuelAssumption /\ Init => DuelIInv
  BY Unresolved DEF Init, DuelIInv, Quiet, DuelAssumption

LEMMA DuelStep ==
  ASSUME DuelAssumption, DuelIInv, [Next]_vars  PROVE DuelIInv'
<1>1. now \in Nat
  BY DEF DuelIInv, DuelAssumption
<1>2. ASSUME over' = Quiet, game' = game, now' \in 0..MaxTime,
             module' \in {"new", "up", "down"}, reaper' \in {"off", "on", "gone"}
      PROVE  DuelIInv'
  BY <1>2, Unresolved DEF DuelIInv, Quiet
<1>3. ASSUME NEW c \in Convs, NEW p \in Players, HandleEvent(c, p)  PROVE DuelIInv'
  <2>1. PICK r \in Command(game[c], p) : Put(c, r)
    BY <1>3 DEF HandleEvent
  <2>2. SoundResult(r)
    BY <1>1, CommandsAreSound DEF DuelIInv
  <2>3. UNCHANGED <<now, module, reaper>>
    BY <1>3 DEF HandleEvent
  <2> QED  BY <2>1, <2>2, <2>3, PutKeeps
<1>4. ASSUME NEW c \in Convs, NEW p \in Players, HandleLateEvent(c, p)  PROVE DuelIInv'
  <2>1. UNCHANGED <<now, module, reaper>>
    BY <1>4 DEF HandleLateEvent
  <2> QED  BY <1>4, <2>1, ResultsOfLateEvents, PutKeeps
<1>5. ASSUME Sweep  PROVE DuelIInv'
  <2>1. PICK S \in SUBSET {c \in Convs : Expired(game[c])} \ {{}} :
       \E deck \in [S -> Decks] :
         LET after == [c \in S |-> AfterExpiry(game[c], deck[c])] IN
         /\ game' = [c \in Convs |-> IF c \in S THEN after[c].game ELSE game[c]]
         /\ over' = [c \in Convs |->
                       IF c \in S THEN after[c].verdict ELSE NoVerdict]
    BY <1>5 DEF Sweep
  <2>2. PICK deck \in [S -> Decks] :
         /\ game' = [c \in Convs |-> IF c \in S THEN AfterExpiry(game[c], deck[c]).game ELSE game[c]]
         /\ over' = [c \in Convs |->
                       IF c \in S THEN AfterExpiry(game[c], deck[c]).verdict ELSE NoVerdict]
    BY <2>1
  <2>3. \A c \in S : SoundResult(AfterExpiry(game[c], deck[c]))
    <3> SUFFICES ASSUME NEW c \in S  PROVE SoundResult(AfterExpiry(game[c], deck[c]))
      OBVIOUS
    <3>1. c \in Convs /\ Expired(game[c]) /\ deck[c] \in Decks
      BY <2>1, <2>2
    <3>2. ValidGame(game[c])
      BY <3>1 DEF DuelIInv, Expired, NoGame
    <3> QED  BY <1>1, <3>1, <3>2, ExpiryIsSound
  <2>4. DOMAIN game' = Convs /\ \A c \in Convs : game'[c] = NoGame \/ ValidGame(game'[c])
    BY <2>2, <2>3 DEF DuelIInv, SoundResult
  <2>5. \A c \in Convs : FairVerdict(over'[c])
    BY <2>2, <2>3, Unresolved DEF SoundResult
  <2> QED  BY <1>5, <2>4, <2>5 DEF Sweep, DuelIInv
<1>6. CASE OnStart
  BY <1>2, <1>6 DEF OnStart, StartedReaper, DuelIInv
<1>7. CASE HookEnds
  BY <1>2, <1>7 DEF HookEnds, DuelIInv
<1>8. CASE OnShutdown
  BY <1>8, Unresolved DEF OnShutdown, DuelIInv, Quiet
<1>9. CASE Tick
  BY <1>2, <1>9 DEF Tick, DuelIInv, DuelAssumption
<1>10. CASE UNCHANGED vars
  BY <1>10 DEF vars, DuelIInv
<1> QED  BY <1>3, <1>4, <1>5, <1>6, <1>7, <1>8, <1>9, <1>10 DEF Next

LEMMA DuelInductive == Spec => []DuelIInv
<1>1. DuelAssumption
  BY DuelAssumption
<1>2. Init => DuelIInv
  BY <1>1, DuelBegins
<1>3. DuelIInv /\ [Next]_vars => DuelIInv'
  BY <1>1, DuelStep
<1> QED  BY <1>2, <1>3, PTL DEF Spec

-----------------------------------------------------------------------------
(* A conversation's game is well-formed, and what a step decides is a verdict. *)
THEOREM DuelTypes == Spec => []TypeOK
<1>1. DuelIInv => TypeOK
  <2> SUFFICES ASSUME DuelIInv PROVE TypeOK
    OBVIOUS
  <2>1. \A g \in Games : WellFormed(g) /\ g \in GameRec
    BY DEF DuelIInv, Games, ValidGame, WellFormed
  <2>2. \A c \in Convs : over[c].kind \in {"none", "canceled", "tie", "bust", "score", "timeout"}
    BY DEF DuelIInv, FairVerdict
  <2> QED  BY <2>1, <2>2, GameFields DEF DuelIInv, WellFormed, TypeOK
<1> QED  BY <1>1, DuelInductive, PTL

(* For any number of players, decks and limits: a game has its seats, a      *)
(* running game waits for somebody, nobody is spared unfairly, and a hand is *)
(* scored as well as its aces allow.                                         *)
THEOREM DuelsAreFair == Spec => []FairDuel
<1>1. DuelIInv => FairDuel
  <2> SUFFICES ASSUME DuelIInv PROVE FairDuel
    OBVIOUS
  <2>1. \A g \in Games : ValidGame(g)
    BY DEF DuelIInv, Games
  <2>2. Seats /\ GameIsOpen
    BY <2>1 DEF ValidGame, Seated, Open, Seats, GameIsOpen
  <2>3. NoneSparedUnfairly
    <3> SUFFICES ASSUME NEW c \in Convs, over[c].kind # "none",
                        NEW l \in over[c].losers, NEW s \in Joined(over[c].game) \ over[c].losers
                 PROVE  LET g == over[c].game
                            TooSlow(p) == over[c].kind = "timeout" /\ CanAct(g, p)
                        IN /\ ~TooSlow(s) /\ (Busted(g, s) => g.deck = << >>)
                           /\ \/ Busted(g, l) \/ TooSlow(l)
                              \/ Score(g.hand[l]) < Score(g.hand[s]) \/ g.deck = << >>
      BY DEF NoneSparedUnfairly
    <3> QED  BY DEF DuelIInv, FairVerdict
  <2>4. ScoreIsBest
    <3> SUFFICES ASSUME NEW g \in Games, NEW p \in Players
                 PROVE  LET hand == g.hand[p]
                            totals == {Counted(hand, R) : R \in SUBSET Aces(hand)}
                        IN /\ Score(hand) \in totals
                           /\ \A t \in totals :
                                IF Score(hand) <= 21 THEN t <= Score(hand) \/ t > 21
                                ELSE t >= Score(hand)
      BY DEF ScoreIsBest
    <3>1. g.hand[p] \in Seq(Cards)
      BY <2>1, PointsFacts DEF ValidGame, WellFormed
    <3> QED  BY <3>1, ScoreFacts
  <2> QED  BY <2>2, <2>3, <2>4 DEF FairDuel
<1> QED  BY <1>1, DuelInductive, PTL

(* No hand and no stand changes at or after the deadline of its game.        *)
THEOREM LateMovesAreVoid == Spec => LateMovesDoNotCount
<1> DEFINE InTime == \A c \in Convs :
       game[c].phase = "game" /\ game'[c].phase = "game"
         /\ (game'[c].hand # game[c].hand \/ game'[c].stood # game[c].stood)
       => now < game[c].deadline
<1>1. ASSUME DuelIInv, [Next]_vars  PROVE InTime
  <2> SUFFICES ASSUME NEW c \in Convs, game[c].phase = "game", game'[c].phase = "game",
                      game'[c] # game[c]
               PROVE  now < game[c].deadline
    OBVIOUS
  <2>0. DuelAssumption
    BY DuelAssumption
  <2>1. now \in Nat /\ ValidGame(game[c]) /\ game[c].deadline \in Nat
    <3>1. now \in Nat /\ ValidGame(game[c])
      BY <1>1, <2>0 DEF DuelIInv, NoGame, DuelAssumption
    <3> QED  BY <3>1, GameFields DEF ValidGame, WellFormed
  <2>2. ASSUME NEW d \in Convs, NEW p \in Players, HandleEvent(d, p)  PROVE now < game[c].deadline
    <3>1. d = c
      BY <1>1, <2>2 DEF HandleEvent, Put, DuelIInv
    <3> QED  BY <2>1, <2>2, <3>1 DEF HandleEvent, Expired
  <2>3. ASSUME NEW d \in Convs, NEW p \in Players, HandleLateEvent(d, p)  PROVE FALSE
    <3>1. PICK r : Put(d, r) /\ (game[d].phase = "game" => r.game.phase # "game")
      BY <1>1, <2>0, <2>3, ResultsOfLateEvents
    <3>2. d = c /\ game'[c] = r.game
      BY <1>1, <3>1 DEF Put, DuelIInv
    <3> QED  BY <3>1, <3>2
  <2>4. ASSUME Sweep  PROVE FALSE
    <3>1. PICK S \in SUBSET {d \in Convs : Expired(game[d])} \ {{}} :
         \E deck \in [S -> Decks] :
           game' = [d \in Convs |-> IF d \in S THEN [e \in S |-> AfterExpiry(game[e], deck[e])][d].game
                                    ELSE game[d]]
      BY <2>4 DEF Sweep
    <3>2. PICK deck \in [S -> Decks] :
           game' = [d \in Convs |-> IF d \in S THEN AfterExpiry(game[d], deck[d]).game ELSE game[d]]
      BY <3>1
    <3>3. c \in S /\ deck[c] \in Decks /\ game'[c] = AfterExpiry(game[c], deck[c]).game
      BY <3>2
    <3>4. game'[c] = NoGame
      BY <2>0, <2>1, <3>3, ExpiryIsSound
    <3> QED  BY <3>4 DEF NoGame
  <2>5. CASE OnStart \/ HookEnds \/ Tick \/ UNCHANGED vars
    BY <2>5 DEF OnStart, HookEnds, Tick, vars
  <2>6. CASE OnShutdown
    BY <2>6 DEF OnShutdown, NoGame
  <2> QED  BY <1>1, <2>2, <2>3, <2>4, <2>5, <2>6 DEF Next
<1>2. DuelIInv /\ [Next]_vars => [InTime]_vars
  BY <1>1
<1> QED  BY <1>2, DuelInductive, PTL DEF Spec, LateMovesDoNotCount

-----------------------------------------------------------------------------
(* Sleep.                                                                    *)
(* Rounding up never gives an earlier minute than rounding down.            *)
LEMMA MinutesAreOrdered ==
  ASSUME NEW s \in Nat, NEW t \in Nat, s <= t
  PROVE  /\ CurrentMinute(s) \in Nat /\ CeilMinute(s) \in Nat
         /\ CurrentMinute(s) <= CurrentMinute(t)
         /\ CurrentMinute(t) <= CeilMinute(t)
<1>1. Minute \in Nat \ {0}
  BY SleepAssumption
<1>2. /\ s \div Minute \in Nat /\ s \div Minute <= t \div Minute /\ t \div Minute \in Nat
  <2>1. \A x \in Nat, m \in Nat \ {0} :
          x \div m \in Nat /\ x % m \in 0..(m - 1) /\ x = m * (x \div m) + (x % m)
    OBVIOUS
  <2>2. \A m \in Nat \ {0}, p, q \in Nat : \A a, b \in 0..(m - 1) :
          m * p + a <= m * q + b => p <= q
    <3> SUFFICES ASSUME NEW m \in Nat \ {0}, NEW p \in Nat, NEW q \in Nat,
                        NEW a \in 0..(m - 1), NEW b \in 0..(m - 1), q + 1 <= p
                 PROVE  m * q + b < m * p + a
      OBVIOUS
    <3>1. PICK k \in Nat : p = q + 1 + k
      <4>1. p - q - 1 \in Nat /\ p = q + 1 + (p - q - 1)
        OBVIOUS
      <4> QED  BY <4>1
    <3>2. m * p = m * q + m + m * k /\ m * k \in Nat /\ m * q \in Nat
      BY <3>1
    <3> QED  BY <3>2
  <2> QED  BY <1>1, <2>1, <2>2
<1> QED  BY <1>1, <1>2 DEF CurrentMinute, CeilMinute

(* What a platform makes of a date: no later date, or what is made of one    *)
(* that comes too late - a second on Discord, a restriction without end on   *)
(* Telegram.                                                                 *)
LEMMA RestrictionsEndInTime ==
  ASSUME NEW until \in Nat, clock \in Nat
  PROVE  \/ RestrictedUntil(until) \in Nat /\ RestrictedUntil(until) <= until
         \/ discord /\ RestrictedUntil(until) \in Nat /\ RestrictedUntil(until) = clock + Second
         \/ ~discord /\ RestrictedUntil(until) = Forever
<1> DEFINE latest == Least({until, clock + Clamp})
<1>1. Clamp \in Nat /\ Second \in Nat
  BY SleepAssumption
<1>2. latest \in Nat /\ latest <= until
  <2>1. \E x \in {until, clock + Clamp} : \A y \in {until, clock + Clamp} : x <= y
    BY <1>1
  <2> QED  BY <1>1, <2>1 DEF Least
<1> HIDE DEF latest
<1>3. RestrictedUntil(until) = IF discord THEN IF until < clock THEN clock + Second ELSE latest
                               ELSE IF until < clock + Soon THEN Forever ELSE until
  BY DEF RestrictedUntil, latest
<1>4. CASE discord /\ until < clock
  <2>1. RestrictedUntil(until) = clock + Second
    BY <1>3, <1>4, Zenon
  <2> QED  BY <1>1, <1>4, <2>1
<1>5. CASE discord /\ ~(until < clock)
  <2>1. RestrictedUntil(until) = latest
    BY <1>3, <1>5, Zenon
  <2> QED  BY <1>2, <1>5, <2>1
<1>6. CASE ~discord
  <2>1. RestrictedUntil(until) = Forever \/ RestrictedUntil(until) = until
    BY <1>3, <1>6, Zenon
  <2> QED  BY <1>6, <2>1
<1> QED  BY <1>4, <1>5, <1>6

-----------------------------------------------------------------------------
(* Sleep.  A call that is about to restrict has posted its code, and a       *)
(* restriction that is not over has a posted code of its user and chat that  *)
(* does not expire before it, or was made late.                              *)
SleepCalls == [user : Users, chat : Chats,
               step : {"text", "code", "restrict", "lift"}, until : Nat]

SleepTypes ==
  /\ clock \in Nat /\ discord \in BOOLEAN /\ muted \in [Users -> [Chats -> Nat \cup {Forever}]]
  /\ codes \subseteq [user : Users, chat : Chats, expiry : Nat]
  /\ call \in [Handlers -> SleepCalls \cup {Nobody}]

CodesComeFirst ==
  \A h \in Handlers : At(h, "restrict") =>
    Code(call[h].user, call[h].chat, call[h].until) \in codes

CodesOutlast ==
  \A u \in Users, c \in Chats :
    \/ muted[u][c] = Forever /\ ~discord
    \/ muted[u][c] \in Nat /\ discord /\ muted[u][c] <= clock + Second
    \/ muted[u][c] \in Nat /\ muted[u][c] <= clock
    \/ /\ muted[u][c] \in Nat
       /\ \E code \in codes : /\ code.user = u /\ code.chat = c
                              /\ CurrentMinute(muted[u][c]) <= code.expiry

SleepIInv == SleepTypes /\ CodesComeFirst /\ CodesOutlast

LEMMA SleepBegins == SleepInit => SleepIInv
<1> SUFFICES ASSUME SleepInit PROVE SleepIInv
  OBVIOUS
<1>1. SleepTypes
  BY DEF SleepInit, SleepTypes
<1>2. CodesComeFirst
  BY DEF SleepInit, CodesComeFirst, At
<1>3. CodesOutlast
  BY <1>1 DEF SleepInit, SleepTypes, CodesOutlast
<1> QED  BY <1>1, <1>2, <1>3 DEF SleepIInv

(* A command: sleep and wake only begin a call, and no call begins at the    *)
(* restriction.                                                              *)
LEMMA SleepCommandStep ==
  ASSUME SleepIInv, NEW h \in Handlers, NEW u \in Users, NEW c \in Chats,
         NEW step \in {"text", "lift"}, NEW until \in Nat,
         Begin(h, u, c, step, until), UNCHANGED <<clock, muted, codes, discord>>
  PROVE  SleepIInv'
<1>1. SleepTypes'
  BY DEF SleepIInv, SleepTypes, SleepCalls, Begin
<1>2. CodesComeFirst'
  <2> SUFFICES ASSUME NEW g \in Handlers, call'[g].step = "restrict", call'[g] # Nobody
               PROVE  Code(call'[g].user, call'[g].chat, call'[g].until) \in codes
    BY DEF CodesComeFirst, At, Code, CeilMinute
  <2>1. g # h /\ call'[g] = call[g]
    BY DEF SleepIInv, SleepTypes, Begin
  <2> QED  BY <2>1 DEF SleepIInv, CodesComeFirst, At
<1>3. CodesOutlast'
  BY DEF SleepIInv, CodesOutlast, CurrentMinute
<1> QED  BY <1>1, <1>2, <1>3 DEF SleepIInv

\* A call at one of its steps goes on or ends.
LEMMA CallGoesOn ==
  ASSUME SleepTypes, NEW h \in Handlers, call[h] # Nobody,
         NEW step \in {"code", "restrict"}, Step(h, step) \/ Return(h)
  PROVE  call' \in [Handlers -> SleepCalls \cup {Nobody}]
<1>1. call \in [Handlers -> SleepCalls \cup {Nobody}] /\ call[h] \in SleepCalls
  BY DEF SleepTypes
<1>2. PICK next \in SleepCalls \cup {Nobody} : call' = [call EXCEPT ![h] = next]
  <2>1. CASE Step(h, step)
    <3>1. [call[h] EXCEPT !.step = step] \in SleepCalls
      BY <1>1 DEF SleepCalls
    <3>2. call' = [call EXCEPT ![h] = [call[h] EXCEPT !.step = step]]
      BY <2>1, <1>1 DEF Step
    <3> QED  BY <3>1, <3>2
  <2>2. CASE Return(h)
    BY <2>2 DEF Return
  <2> QED  BY <2>1, <2>2
<1> QED  BY <1>1, <1>2

(* The announcement, and a call that ends without a restriction.             *)
LEMMA PostTextStep ==
  ASSUME SleepIInv, NEW h \in Handlers, PostText(h)
  PROVE  SleepIInv'
<1>1. SleepTypes'
  <2>1. SleepTypes /\ call[h] # Nobody
    BY DEF SleepIInv, PostText, At
  <2>2. call' \in [Handlers -> SleepCalls \cup {Nobody}]
    BY <2>1, CallGoesOn DEF PostText
  <2> QED  BY <2>1, <2>2 DEF SleepTypes, PostText
<1>2. CodesComeFirst'
  <2> SUFFICES ASSUME NEW g \in Handlers, call'[g].step = "restrict", call'[g] # Nobody
               PROVE  Code(call'[g].user, call'[g].chat, call'[g].until) \in codes
    BY DEF CodesComeFirst, At, Code, CeilMinute, PostText
  <2>1. call[h] \in SleepCalls
    BY DEF SleepIInv, SleepTypes, PostText, At
  <2>2. g # h /\ call'[g] = call[g]
    BY <2>1 DEF SleepIInv, SleepTypes, SleepCalls, PostText, Step, Return
  <2> QED  BY <2>2 DEF SleepIInv, CodesComeFirst, At
<1>3. CodesOutlast'
  BY DEF SleepIInv, CodesOutlast, PostText, CurrentMinute
<1> QED  BY <1>1, <1>2, <1>3 DEF SleepIInv

(* The code: the only way to the restriction posts it.                       *)
LEMMA PostCodeStep ==
  ASSUME SleepIInv, NEW h \in Handlers, PostCode(h)
  PROVE  SleepIInv'
<1> USE DEF SleepIInv
<1>1. call[h] \in SleepCalls
  BY DEF SleepTypes, PostCode, At
<1>2. Code(call[h].user, call[h].chat, call[h].until) \in [user : Users, chat : Chats, expiry : Nat]
  BY <1>1, MinutesAreOrdered DEF SleepCalls, Code
<1>3. SleepTypes'
  <2>1. SleepTypes /\ call[h] # Nobody
    BY DEF PostCode, At
  <2>2. call' \in [Handlers -> SleepCalls \cup {Nobody}]
    BY <2>1, CallGoesOn DEF PostCode
  <2>3. codes' \subseteq [user : Users, chat : Chats, expiry : Nat]
    BY <2>1, <1>2 DEF SleepTypes, PostCode
  <2> QED  BY <2>1, <2>2, <2>3 DEF SleepTypes, PostCode
<1>4. CodesComeFirst'
  BY <1>1 DEF SleepTypes, SleepCalls, CodesComeFirst, PostCode, Step, Return, At, Code, CeilMinute
<1>5. CodesOutlast'
  BY DEF CodesOutlast, PostCode, CurrentMinute
<1> QED  BY <1>3, <1>4, <1>5

(* The restriction: its code is posted and does not expire before it.        *)
LEMMA RestrictMemberStep ==
  ASSUME SleepIInv, NEW h \in Handlers, RestrictMember(h)
  PROVE  SleepIInv'
<1> USE DEF SleepIInv
<1> DEFINE w == call[h]
           code == Code(w.user, w.chat, w.until)
<1>1. w \in SleepCalls /\ code \in codes
  BY DEF SleepTypes, CodesComeFirst, RestrictMember, At
<1>2. w.user \in Users /\ w.chat \in Chats /\ w.until \in Nat
  BY <1>1 DEF SleepCalls
<1>3. \/ RestrictedUntil(w.until) \in Nat /\ CurrentMinute(RestrictedUntil(w.until)) <= code.expiry
      \/ discord /\ RestrictedUntil(w.until) \in Nat /\ RestrictedUntil(w.until) <= clock + Second
      \/ ~discord /\ RestrictedUntil(w.until) = Forever
  <2> DEFINE end == RestrictedUntil(w.until)
  <2>1. clock \in Nat /\ Second \in Nat /\ code.expiry = CeilMinute(w.until)
    BY SleepAssumption DEF SleepTypes, Code
  <2>2. \/ end \in Nat /\ end <= w.until
        \/ discord /\ end \in Nat /\ end = clock + Second
        \/ ~discord /\ end = Forever
    BY <1>2, <2>1, RestrictionsEndInTime
  <2> HIDE DEF end, w, code
  <2>3. end \in Nat /\ end <= w.until => CurrentMinute(end) <= code.expiry
    <3>1. ASSUME end \in Nat, end <= w.until
          PROVE  /\ CurrentMinute(end) \in Nat /\ CurrentMinute(w.until) \in Nat
                 /\ CurrentMinute(end) <= CurrentMinute(w.until)
                 /\ CeilMinute(w.until) \in Nat /\ CurrentMinute(w.until) <= CeilMinute(w.until)
      BY <1>2, <3>1, MinutesAreOrdered
    <3> QED  BY <2>1, <3>1
  <2>4. end \in Nat /\ end = clock + Second => end <= clock + Second
    BY <2>1
  <2>5. \/ end \in Nat /\ CurrentMinute(end) <= code.expiry
        \/ discord /\ end \in Nat /\ end <= clock + Second
        \/ ~discord /\ end = Forever
    BY <2>2, <2>3, <2>4, Zenon
  <2> QED  BY <2>5 DEF end
<1>4. SleepTypes'
  BY <1>2, <1>3 DEF SleepTypes, RestrictMember, Return
<1>5. CodesComeFirst'
  BY DEF SleepTypes, CodesComeFirst, RestrictMember, Return, At, Code, CeilMinute
<1>6. CodesOutlast'
  <2> SUFFICES ASSUME NEW u \in Users, NEW c \in Chats
               PROVE  \/ muted'[u][c] = Forever /\ ~discord
                      \/ muted'[u][c] \in Nat /\ discord /\ muted'[u][c] <= clock + Second
                      \/ muted'[u][c] \in Nat /\ muted'[u][c] <= clock
                      \/ /\ muted'[u][c] \in Nat
                         /\ \E k \in codes : /\ k.user = u /\ k.chat = c
                                             /\ CurrentMinute(muted'[u][c]) <= k.expiry
    BY DEF CodesOutlast, RestrictMember, CurrentMinute
  <2>1. CASE muted'[u][c] = muted[u][c]
    BY <2>1 DEF CodesOutlast
  <2>2. CASE u = w.user /\ c = w.chat /\ muted'[u][c] = RestrictedUntil(w.until)
    BY <1>1, <1>3, <2>2 DEF Code
  <2> QED  BY <1>2, <2>1, <2>2 DEF SleepTypes, RestrictMember
<1> QED  BY <1>4, <1>5, <1>6

LEMMA LiftStep ==
  ASSUME SleepIInv, NEW h \in Handlers, Lift(h)
  PROVE  SleepIInv'
<1> USE DEF SleepIInv
<1>1. call[h].user \in Users /\ call[h].chat \in Chats
  BY DEF SleepTypes, SleepCalls, Lift, At
<1>2. SleepTypes'
  <2>1. call' \in [Handlers -> SleepCalls \cup {Nobody}] /\ clock' \in Nat /\ codes' = codes
    BY DEF SleepTypes, Lift, Return
  <2>2. muted' \in [Users -> [Chats -> Nat \cup {Forever}]]
    BY <1>1 DEF SleepTypes, Lift
  <2> QED  BY <2>1, <2>2 DEF SleepTypes, Lift
<1>3. CodesComeFirst'
  BY DEF SleepTypes, CodesComeFirst, Lift, Return, At, Code, CeilMinute
<1>4. CodesOutlast'
  <2> SUFFICES ASSUME NEW u \in Users, NEW c \in Chats
               PROVE  \/ muted'[u][c] = Forever /\ ~discord
                      \/ muted'[u][c] \in Nat /\ discord /\ muted'[u][c] <= clock + Second
                      \/ muted'[u][c] \in Nat /\ muted'[u][c] <= clock
                      \/ /\ muted'[u][c] \in Nat
                         /\ \E k \in codes : /\ k.user = u /\ k.chat = c
                                             /\ CurrentMinute(muted'[u][c]) <= k.expiry
    BY DEF CodesOutlast, Lift, CurrentMinute
  <2>1. muted'[u][c] = muted[u][c] \/ muted'[u][c] = 0
    BY <1>1 DEF SleepTypes, Lift
  <2>2. clock \in Nat
    BY DEF SleepTypes
  <2>3. CASE muted'[u][c] = muted[u][c]
    BY <2>3 DEF CodesOutlast
  <2>4. CASE muted'[u][c] = 0
    BY <2>2, <2>4
  <2> QED  BY <2>1, <2>3, <2>4
<1> QED  BY <1>2, <1>3, <1>4

LEMMA SleepStep == SleepIInv /\ [SleepNext]_sleepVars => SleepIInv'
<1> SUFFICES ASSUME SleepIInv, [SleepNext]_sleepVars PROVE SleepIInv'
  OBVIOUS
<1>1. CASE ClockAdvances
  <2>1. Second \in Nat /\ clock \in Nat /\ clock' = clock + 1
    BY <1>1, SleepAssumption DEF SleepIInv, SleepTypes, ClockAdvances
  <2>2. SleepTypes' /\ CodesComeFirst'
    BY <1>1, <2>1 DEF SleepIInv, SleepTypes, CodesComeFirst, ClockAdvances, At, Code, CeilMinute
  <2>3. CodesOutlast'
    BY <1>1, <2>1 DEF SleepIInv, CodesOutlast, ClockAdvances, CurrentMinute
  <2> QED  BY <2>2, <2>3 DEF SleepIInv
<1>2. ASSUME NEW h \in Handlers, NEW u \in Users, NEW c \in Chats, NEW d \in Durations,
             Sleep(h, u, c, d)
      PROVE  SleepIInv'
  <2>1. clock + d \in Nat
    BY SleepAssumption DEF SleepIInv, SleepTypes
  <2> QED  BY <1>2, <2>1, SleepCommandStep DEF Sleep
<1>3. ASSUME NEW h \in Handlers, NEW u \in Users, NEW code \in codes, Wake(h, u, code)
      PROVE  SleepIInv'
  BY <1>3, SleepCommandStep DEF Wake, SleepIInv, SleepTypes
<1>4. CASE UNCHANGED sleepVars
  BY <1>4 DEF SleepIInv, SleepTypes, CodesComeFirst, CodesOutlast, sleepVars, At, Code,
              CeilMinute, CurrentMinute
<1> QED
  BY <1>1, <1>2, <1>3, <1>4, PostTextStep, PostCodeStep, RestrictMemberStep, LiftStep DEF SleepNext

(* Whoever is restricted has a code that works at once: it is posted before  *)
(* the restriction, and rounded so that it does not expire before it.  The   *)
(* exceptions are restrictions made too late: one made after its date lasts  *)
(* a second on Discord, and one made just before it has no end on Telegram.  *)
THEOREM WayBack == SleepSpec => []AlwaysAWayBack
<1>1. SleepIInv => AlwaysAWayBack
  <2> SUFFICES ASSUME SleepIInv, NEW u \in Users, NEW c \in Chats, Restricted(u, c),
                      ~(IF discord THEN muted[u][c] <= clock + Second ELSE muted[u][c] = Forever)
               PROVE  \E code \in codes : Works(code, u, clock) /\ code.chat = c
    BY DEF AlwaysAWayBack
  <2>1. clock \in Nat /\ muted[u][c] \in Nat /\ clock < muted[u][c]
    BY SleepAssumption DEF SleepIInv, SleepTypes, CodesOutlast, Restricted
  <2>2. PICK code \in codes : /\ code.user = u /\ code.chat = c
                              /\ CurrentMinute(muted[u][c]) <= code.expiry
    BY <2>1 DEF SleepIInv, CodesOutlast
  <2>3. code.expiry \in Nat
    BY DEF SleepIInv, SleepTypes
  <2>4. CurrentMinute(clock) <= CurrentMinute(muted[u][c]) /\ CurrentMinute(clock) \in Nat /\ CurrentMinute(muted[u][c]) \in Nat
    BY <2>1, MinutesAreOrdered
  <2>5. CurrentMinute(clock) <= code.expiry
    BY <2>2, <2>3, <2>4
  <2> QED  BY <2>2, <2>5 DEF Works
<1> QED  BY <1>1, SleepBegins, SleepStep, PTL DEF SleepSpec
=============================================================================
