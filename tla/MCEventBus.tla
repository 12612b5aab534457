----------------------------- MODULE MCEventBus -----------------------------
(* Two subscriptions for TLC: s1 with worker(s) w1.., s2 with v1..          *)
EXTENDS EventBus, TLC

CONSTANTS s1, s2, w1, w2, v1, d1, d2, c1, c2, e1, e2, e3, h1, h2

\* s1 has two workers, s2 one.
SubOfTwoOne == w1 :> s1 @@ w2 :> s1 @@ v1 :> s2
SubOfOneOne == w1 :> s1 @@ v1 :> s2

\* Handlers of s1 publish h1 to s2, handlers of s2 publish h2 to s1.
InterestCross == s1 :> {e1, e2, h2} @@ s2 :> {e1, e2, h1}

\* s2 matches fewer of the drivers' events.
InterestMore == s1 :> Events @@ s2 :> {e1, e2}

\* Handlers of s1 publish h1 to s2.
InterestNested == s1 :> {e1, e2} @@ s2 :> {h1}

\* Interchangeable for safety properties.
SymDrivers == Permutations({d1, d2}) \union Permutations({e1, e2})
SymClosers == Permutations({c1, c2}) \union Permutations({w1, w2})
              \union Permutations({e1, e2})

Buffer1  == [s \in Subs |-> 1]
Buffer12 == s1 :> 1 @@ s2 :> 2

OldestNewest == s1 :> "drop_oldest" @@ s2 :> "drop_newest"
AllOldest    == [s \in Subs |-> "drop_oldest"]
AllBlock     == [s \in Subs |-> "block"]
OldestBlock  == s1 :> "drop_oldest" @@ s2 :> "block"
=============================================================================
