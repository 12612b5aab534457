--------------------------------- MODULE MCDuel ---------------------------------
(***************************************************************************)
(* Small groups for TLC.  The decks have what the rules tell apart: aces,  *)
(* court cards, a pair that makes 21, cards that bust a hand, and too few  *)
(* cards for everybody.                                                    *)
(***************************************************************************)
EXTENDS Duel, TLC

CONSTANTS c1, p1, p2, p3, bot

ShortDecks == {<<10, 11, 7, 1, 12>>, <<1, 1, 9, 10, 10>>}

\* The players are alike.
Alike == Permutations({p1, p2, p3})

\* One deck, enough to watch a game go stale.
OneDeck == {<<10, 11, 7>>}
=============================================================================
