---------------------------------- MODULE Duel ----------------------------------
(***************************************************************************)
(* The blackjack duels of a group (modules/duel: module.go, state.go).     *)
(*                                                                         *)
(* Handlers and the reaper run under one mutex, so each is one step: it    *)
(* first expires the conversation's game, then does what the command says. *)
(* Sending or editing the board may fail; what a failure leaves behind is  *)
(* part of the step.  A deck is a sequence of ranks, the clock is bounded. *)
(***************************************************************************)
EXTENDS Integers, Sequences, FiniteSets, Functions

CONSTANTS
  Convs,        \* group conversations
  Players,      \* actors
  Bots,         \* those that are bots
  Decks,        \* the shuffles of the deck
  JoinTimeout, GameTimeout,
  DefaultMax, MaxLimit,
  Asked,        \* bound on the numbers given to --max
  HookCancels,  \* the context given to OnStart is cancelled when it returns
  MaxTime,      \* bound on the clock
  None

ASSUME DuelAssumption ==
  /\ Bots \subseteq Players
  /\ \A deck \in Decks : deck \in Seq(1 .. 13)
  /\ JoinTimeout \in Nat \ {0} /\ GameTimeout \in Nat \ {0}
  /\ MaxLimit \in Nat /\ DefaultMax \in 2 .. MaxLimit
  /\ Asked \subseteq Int
  /\ HookCancels \in BOOLEAN
  /\ MaxTime \in Nat
  /\ None \notin Players

VARIABLES
  now,     \* the clock
  game,    \* each conversation's game, or NoGame
  over,    \* the verdict the last step reached in each conversation, if any
  module,  \* "new", "up" or "down"
  reaper   \* "off", "on" or "gone"

vars == <<now, game, over, module, reaper>>

NoGame    == [phase |-> "none"]
NoVerdict == [kind |-> "none"]
Quiet     == [c \in Convs |-> NoVerdict]

Init ==
  /\ now = 0
  /\ game = [c \in Convs |-> NoGame]
  /\ over = Quiet
  /\ module = "new"
  /\ reaper = "off"

-----------------------------------------------------------------------------
(* Hands *)

Pips(rank) == IF rank >= 10 THEN 10 ELSE rank

Aces(hand) == {i \in DOMAIN hand : hand[i] = 1}

\* The worth of a hand, pip by pip, if the aces of R are read as 11.
Worth(rank, eleven) == IF eleven THEN 11 ELSE Pips(rank)
Counted(hand, R) ==
  Cardinality(UNION {{i} \X (1..Worth(hand[i], i \in R)) : i \in DOMAIN hand})

\* The loop that raises aces from 1 to 11 ends where one more would exceed 21.
RaisedAces(total, aces) ==
  CHOOSE k \in 0..aces : /\ k = 0 \/ total + 10 * k <= 21
                         /\ k = aces \/ total + 10 * (k + 1) > 21

\* scoreHand
Score(hand) ==
  LET total == Counted(hand, {})
  IN total + 10 * RaisedAces(total, Cardinality(Aces(hand)))

Busted(g, p) == Score(g.hand[p]) > 21
\* take stands a player who has 21.
Stood(g, p)  == p \in g.stood \/ Score(g.hand[p]) = 21
CanAct(g, p) == ~Busted(g, p) /\ ~Stood(g, p)

Joined(g)     == Range(g.order)
NonBusted(g)  == {p \in Joined(g) : ~Busted(g, p)}
AllFinished(g) == \A p \in NonBusted(g) : Stood(g, p)

-----------------------------------------------------------------------------
(* Verdicts *)

Verdict(g, kind, losers) ==
  [kind |-> kind, losers |-> losers, game |-> g]

\* lowestScorePlayers
Lowest(g) ==
  {p \in NonBusted(g) :
     \A q \in NonBusted(g) : Score(g.hand[p]) <= Score(g.hand[q])}

\* scoreConclusion
ByScore(g) ==
  IF NonBusted(g) = {} THEN Verdict(g, "canceled", {})
  ELSE IF Lowest(g) = NonBusted(g) THEN Verdict(g, "tie", {})
  ELSE Verdict(g, "score", Lowest(g))

\* bustConclusion
ByBust(g) == Verdict(g, "bust", Joined(g) \ NonBusted(g))

\* timeoutConclusion
ByTimeout(g) ==
  Verdict(g, "timeout",
    (Joined(g) \ NonBusted(g)) \union {p \in Joined(g) : CanAct(g, p)})

\* All but one are busted.
LoneSurvivor(g) == Cardinality(NonBusted(g)) <= 1 /\ NonBusted(g) # Joined(g)

\* conclusionAfterAction
IsOver(g) == LoneSurvivor(g) \/ AllFinished(g)

\* Mutant: the points decide although somebody is busted.
AlwaysByScore(g) == ByScore(g)

AfterAction(g) ==
  IF NonBusted(g) # Joined(g) THEN ByBust(g) ELSE ByScore(g)

-----------------------------------------------------------------------------
(* What a handler leaves behind: the game, and the verdict it reached if any *)

Leaves(g)     == [game |-> g, verdict |-> NoVerdict]
Concludes(v)  == [game |-> NoGame, verdict |-> v]
Removed       == Leaves(NoGame)

\* newLobbyState
Lobby(p, invited, max) ==
  [phase |-> "lobby", host |-> p, invited |-> invited, max |-> max,
   deadline |-> now + JoinTimeout, order |-> <<p>>, deck |-> << >>,
   hand |-> [q \in Players |-> << >>], stood |-> {}]

\* startGame
Started(g, deck) ==
  [g EXCEPT !.phase = "game", !.deadline = now + GameTimeout, !.deck = deck]

\* Mutant: the deadline's own instant still counts.
ExpiredAfter(g) == g.phase # "none" /\ now > g.deadline

Expired(g) == g.phase # "none" /\ now >= g.deadline

\* expireStateLocked
AfterExpiry(g, deck) ==
  IF g.phase = "game" THEN Concludes(ByTimeout(g))
  ELSE IF Len(g.order) < 2 THEN Removed
  ELSE Leaves(Started(g, deck))

\* A board that cannot be sent opens no game.
Opened(lobby, sent) == Leaves(IF sent THEN lobby ELSE NoGame)

\* openLobby
OpenLobby(g, p, max, sent) ==
  IF p \in Bots \/ max > MaxLimit \/ max < 2 THEN Leaves(g)
  ELSE Opened(Lobby(p, None, max), sent)

\* openDirectChallenge: the replied article's author is challenged.
OpenChallenge(g, p, author, sent) ==
  IF p \in Bots \/ author \in Bots \union {p, None} THEN Leaves(g)
  ELSE Opened(Lobby(p, author, 2), sent)

\* controlExistingLobby
Controls(g, p) == p \notin Bots /\ g.phase = "lobby" /\ g.host = p

SetMax(g, p, max) ==
  IF Controls(g, p) /\ g.invited = None
       /\ max >= Len(g.order) /\ max <= MaxLimit /\ max >= 2
  THEN Leaves([g EXCEPT !.max = max])
  ELSE Leaves(g)

StartEarly(g, p, deck) ==
  Leaves(IF Controls(g, p) /\ Len(g.order) >= 2 THEN Started(g, deck) ELSE g)

CancelLobby(g, p) == IF Controls(g, p) THEN Removed ELSE Leaves(g)

MayJoin(g, p) ==
  /\ p \notin Bots
  /\ g.phase = "lobby"
  /\ p \notin Joined(g)
  /\ g.invited \in {None, p}
  /\ Len(g.order) < g.max

\* handleJoinCommand: the last seat starts the game.
Join(g, p, deck) ==
  LET joined == [g EXCEPT !.order = Append(@, p)] IN
  IF ~MayJoin(g, p) THEN Leaves(g)
  ELSE IF Len(joined.order) >= g.max THEN Leaves(Started(joined, deck))
  ELSE Leaves(joined)

Playing(g, p) == g.phase = "game" /\ p \in Joined(g) /\ CanAct(g, p)

Settled(g) == IF IsOver(g) THEN Concludes(AfterAction(g)) ELSE Leaves(g)

\* handleHitCommand
Hit(g, p) ==
  IF ~Playing(g, p) THEN Leaves(g)
  ELSE IF g.deck = << >> THEN Concludes(ByScore(g))
  ELSE Settled([g EXCEPT !.hand[p] = Append(@, Head(g.deck)), !.deck = Tail(@)])

\* handleStandCommand
Stand(g, p) ==
  IF ~Playing(g, p) THEN Leaves(g)
  ELSE Settled([g EXCEPT !.stood = @ \union {p}])

\* handleDuelCommand for the conversation's first duel, and for a running one.
DuelCommand(g, p, deck, sent) ==
  IF g.phase = "none"
  THEN {OpenLobby(g, p, max, sent) : max \in Asked \union {DefaultMax}}
         \union {OpenChallenge(g, p, q, sent) : q \in Players \union {None}}
  ELSE {SetMax(g, p, max) : max \in Asked}
         \union {StartEarly(g, p, deck), CancelLobby(g, p), Leaves(g)}

Command(g, p) ==
  {Hit(g, p), Stand(g, p), Leaves(g)}
    \union UNION {DuelCommand(g, p, deck, sent) \union {Join(g, p, deck)} :
                    deck \in Decks, sent \in BOOLEAN}

-----------------------------------------------------------------------------
(* Actions *)

Put(c, r) ==
  /\ game' = [game EXCEPT ![c] = r.game]
  /\ over' = [Quiet EXCEPT ![c] = r.verdict]

\* handleEvent without a game to expire: the command alone.
HandleEvent(c, p) ==
  /\ module = "up"
  /\ ~Expired(game[c])
  /\ \E r \in Command(game[c], p) : Put(c, r)
  /\ UNCHANGED <<now, module, reaper>>

\* handleEvent on an expired game: the game is expired first, and the command is
\* dropped if the board could not be updated.
HandleLateEvent(c, p) ==
  /\ module = "up"
  /\ Expired(game[c])
  /\ \E deck \in Decks :
       LET e == AfterExpiry(game[c], deck) IN
       \/ Put(c, e)
       \/ \E r \in Command(e.game, p) :
            Put(c, IF r.verdict = NoVerdict
                   THEN [r EXCEPT !.verdict = e.verdict] ELSE r)
  /\ UNCHANGED <<now, module, reaper>>

\* sweepExpiredGames visits the games in any order and stops at the first one
\* whose board could not be updated.
Sweep ==
  /\ reaper = "on"
  /\ \E S \in SUBSET {c \in Convs : Expired(game[c])} \ {{}} :
       \E deck \in [S -> Decks] :
         LET after == [c \in S |-> AfterExpiry(game[c], deck[c])] IN
         /\ game' = [c \in Convs |-> IF c \in S THEN after[c].game ELSE game[c]]
         /\ over' = [c \in Convs |->
                       IF c \in S THEN after[c].verdict ELSE NoVerdict]
  /\ UNCHANGED <<now, module, reaper>>

StartedReaper == "on"

OnStart ==
  /\ module = "new"
  /\ module' = "up"
  /\ reaper' = StartedReaper
  /\ over' = Quiet
  /\ UNCHANGED <<now, game>>

\* The context the reaper was started with ends.
HookEnds ==
  /\ HookCancels
  /\ reaper = "on"
  /\ reaper' = "gone"
  /\ over' = Quiet
  /\ UNCHANGED <<now, game, module>>

\* OnShutdown waits for the reaper and forgets the games.
OnShutdown ==
  /\ module = "up"
  /\ module' = "down"
  /\ reaper' = "gone"
  /\ game' = [c \in Convs |-> NoGame]
  /\ over' = Quiet
  /\ UNCHANGED now

Tick ==
  /\ now < MaxTime
  /\ now' = now + 1
  /\ over' = Quiet
  /\ UNCHANGED <<game, module, reaper>>

Next ==
  \/ \E c \in Convs, p \in Players : HandleEvent(c, p) \/ HandleLateEvent(c, p)
  \/ Sweep \/ OnStart \/ HookEnds \/ OnShutdown \/ Tick

Spec == Init /\ [][Next]_vars

(***************************************************************************)
(* Fairness.  Time passes, the reaper's ticker fires, and the kernel       *)
(* starts the module and cancels the hook's context.  Nobody has to type.  *)
(***************************************************************************)
FairSpec ==
  /\ Spec
  /\ WF_vars(Tick) /\ WF_vars(Sweep) /\ WF_vars(OnStart) /\ WF_vars(HookEnds)

-----------------------------------------------------------------------------
(* Properties *)

Games == {game[c] : c \in Convs} \ {NoGame}

TypeOK ==
  /\ now \in 0 .. MaxTime
  /\ module \in {"new", "up", "down"} /\ reaper \in {"off", "on", "gone"}
  /\ \A g \in Games :
       /\ g.phase \in {"lobby", "game"} /\ g.host \in Players
       /\ g.invited \in Players \union {None}
       /\ g.max \in 2 .. MaxLimit /\ g.deadline \in Nat
       /\ IsInjective(g.order) /\ Joined(g) \subseteq Players \ Bots
       /\ g.stood \subseteq Joined(g)
       /\ \A p \in Players : g.hand[p] # << >> => p \in Joined(g)
  /\ \A c \in Convs : over[c].kind \in
       {"none", "canceled", "tie", "bust", "score", "timeout"}

\* The seats: never more players than the limit, at least two in a running game,
\* and nobody but the two opponents in a direct challenge
\* (handleJoinCommand, controlExistingLobby, openDirectChallenge).
Seats ==
  \A g \in Games :
    /\ Len(g.order) <= g.max
    /\ g.phase = "game" => Len(g.order) >= 2
    /\ g.invited # None => Joined(g) \subseteq {g.host, g.invited}

\* A running game waits for somebody: it never hangs until its timeout with nobody
\* left who may act, or with one player left to beat nobody (conclusionAfterAction).
GameIsOpen ==
  \A g \in Games : g.phase = "game" =>
    /\ \E p \in Joined(g) : CanAct(g, p)
    /\ NonBusted(g) = Joined(g) \/ Cardinality(NonBusted(g)) >= 2

\* No muted player did at least as well as one who was spared: unless the deck ran
\* out, a loser is busted, was too slow, or has fewer points, and a spared player is
\* neither busted nor too slow (scoreConclusion, bustConclusion, timeoutConclusion).
NoneSparedUnfairly ==
  \A c \in Convs : over[c].kind # "none" =>
    LET g == over[c].game
        losers == over[c].losers
        TooSlow(p) == over[c].kind = "timeout" /\ CanAct(g, p)
        Points(p) == Score(g.hand[p])
    IN \A l \in losers, s \in Joined(g) \ losers :
         /\ ~TooSlow(s) /\ (Busted(g, s) => g.deck = << >>)
         /\ \/ Busted(g, l) \/ TooSlow(l)
            \/ Points(l) < Points(s) \/ g.deck = << >>

\* A hand's score is the best total of 21 or less over all readings of its aces, or
\* the lowest total when there is none (scoreHand).
ScoreIsBest ==
  \A g \in Games, p \in Players :
    LET hand == g.hand[p]
        totals == {Counted(hand, R) : R \in SUBSET Aces(hand)}
    IN /\ Score(hand) \in totals
       /\ \A t \in totals :
            IF Score(hand) <= 21 THEN t <= Score(hand) \/ t > 21 ELSE t >= Score(hand)

\* A duel is fair: seats, open games, verdicts and scores (state.go, module.go).
FairDuel == Seats /\ GameIsOpen /\ NoneSparedUnfairly /\ ScoreIsBest

\* A move made at or after the deadline does not count: a hand or a stand changes
\* only before it (handleEvent expires first).
LateMovesDoNotCount ==
  [][\A c \in Convs :
       game[c].phase = "game" /\ game'[c].phase = "game"
         /\ (game'[c].hand # game[c].hand \/ game'[c].stood # game[c].stood)
       => now < game[c].deadline]_vars

\* "TestModuleOnStartReapsExpiredGamesWithoutNewEvents" (module_test.go): a game past
\* its deadline is ended or started though nobody says anything any more.
StaleGameEnds ==
  \A c \in Convs : Expired(game[c]) ~> ~Expired(game[c])
=============================================================================
