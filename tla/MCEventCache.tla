------------------------------ MODULE MCEventCache ------------------------------
(***************************************************************************)
(* Feeds and queries for TLC.  The feeds hold what a platform really       *)
(* sends: articles that arrive out of order, reactions and edits before    *)
(* their article, redelivered reactions, a retraction at the end, and more *)
(* articles than the cache has room for.                                   *)
(***************************************************************************)
EXTENDS EventCache

CONSTANTS a1, b1, c1, main, side, heart

Created(id, k, th, t) == [id |-> id, kind |-> "created", art |-> k, thread |-> th, at |-> t]
Edited(id, k, t) == [id |-> id, kind |-> "edited", art |-> k, at |-> t]
Retracted(id, k) == [id |-> id, kind |-> "retracted", art |-> k]
Added(id, k) == [id |-> id, kind |-> "added", art |-> k, emoji |-> heart]
Removed(id, k) == [id |-> id, kind |-> "removed", art |-> k, emoji |-> heart]

\* Three articles for two places, one edited before it is known to be in a side thread.
Crowd == <<Created(1, a1, main, 1), Edited(2, b1, 2), Created(3, c1, main, 0), Created(4, b1, side, 1)>>
\* Reactions before, after and around the creation of their article.
Hearts == <<Added(1, a1), Created(2, a1, main, 1), Added(3, a1), Added(3, a1), Removed(4, a1)>>
\* A removal that has nothing to remove.
Cold == <<Removed(1, a1), Created(2, a1, main, 1), Removed(3, a1), Added(4, a1)>>
\* The whole life of one article beside another.
Life == <<Created(1, a1, main, 1), Created(2, b1, main, 0), Edited(3, a1, 2), Retracted(4, a1)>>

AllFeeds == {Crowd, Hearts, Cold, Life}
HeartsOnly == {<<Created(1, a1, main, 1), Added(2, a1)>>}

Ask(th, anchor, t, n, ex) == [thread |-> th, anchor |-> anchor, at |-> t, limit |-> n, exclude |-> ex]
AllQueries == {Ask(main, a1, 2, 2, {}), Ask(main, c1, 1, 1, {}), Ask(side, b1, None, 2, {}),
               Ask(side, None, 2, 2, {}), Ask(main, None, 1, 1, {c1})}
AllBatches == {<<a1>>, <<c1, a1>>, <<b1, c1>>}
NoQueries == {}
NoBatches == {}

\* One worker, or both.
OneOrBoth == {Workers, {CHOOSE w \in Workers : TRUE}}
Both == {Workers}
=============================================================================
