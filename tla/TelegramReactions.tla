-------------------------- MODULE TelegramReactions --------------------------
(***************************************************************************)
(* What the Telegram mapper remembers of articles, and what it makes of     *)
(* updates with that memory: internal/driver/telegram/gotd_mapper.go,       *)
(* reaction_resolver.go and the part of peer_cache.go it uses.  Telegram    *)
(* shows changed reactions as totals, as edits of the message that may or   *)
(* may not carry totals, or not at all; the mapper compares totals with     *)
(* those it has cached, asks the server, or guesses, and emits the          *)
(* difference as single reactions.                                         *)
(*                                                                         *)
(* One conversation.  A text stands for a whole snapshot (text, entities    *)
(* and media) and is its own fingerprint.  Consume maps one update at a     *)
(* time and polls in between, so every handler is one step; the server      *)
(* moves on while updates wait.  The answers of the server, and which       *)
(* update it sends for a change, are external.                              *)
(***************************************************************************)
EXTENDS Integers, Sequences, FiniteSets

CONSTANTS
  Articles, Emojis, Texts,
  None,
  MaxCount,    \* bound on the reactions of one emoji
  MaxChanges,  \* bound on what happens at the server
  MaxInbox,    \* bound on the updates under way
  Limit        \* reactionWatchMaxPerPoll

Counts == [Emojis -> 0..MaxCount]
Zero   == [e \in Emojis |-> 0]

ASSUME ReactionsAssumption ==
  /\ None \notin Emojis \cup Texts \cup Counts
  /\ MaxCount \in Nat /\ Limit \in Nat \ {0}

VARIABLES
  server,   \* the articles as Telegram has them: None, or text and counts
  changes,  \* how much happened there
  inbox,    \* updates on their way to the mapper, in order
  counts,   \* reactionCountCache: None or the counts last seen
  snap,     \* articleSnapshotCache: None or the text last seen
  watches,  \* reactionWatchCache
  peer,     \* peerCache knows the conversation
  seen,     \* what the events tell a reader: None, or text and reaction counts
  exact,    \* ghost: no update of the article was guessed at or given up
  out       \* the edit event of the last step: None, or its article and texts

caches == <<counts, snap, watches, peer>>
vars == <<server, changes, inbox, caches, seen, exact, out>>

Init ==
  /\ server = [a \in Articles |-> None] /\ changes = 0 /\ inbox = <<>>
  /\ counts = [a \in Articles |-> None]
  /\ snap = [a \in Articles |-> None]
  /\ watches = {} /\ peer = FALSE
  /\ seen = [a \in Articles |-> None]
  /\ exact = [a \in Articles |-> TRUE]
  /\ out = None

-----------------------------------------------------------------------------
(* Telegram.  An update has the fields of the message that decide: whether  *)
(* there is a reactions field, the counts in it, a recent or chosen         *)
(* reaction, the edit_hide flag and the edit date, and whether the          *)
(* envelope carries the conversation's access hash.                         *)

Raw(class, a, s, present, recent, hide, dated) ==
  {[class |-> class, art |-> a, text |-> s.text, present |-> present,
    counts |-> IF present THEN s.counts ELSE Zero, recent |-> recent,
    hide |-> hide, dated |-> dated, withPeer |-> w] : w \in BOOLEAN}

Tells(a, s, recent) ==
       Raw("reactions", a, s, TRUE, recent, FALSE, FALSE)
  \cup Raw("edit", a, s, s.counts # Zero, recent, TRUE, FALSE)
  \cup Raw("edit", a, s, FALSE, None, TRUE, TRUE)
  \cup Raw("edit", a, s, TRUE, None, FALSE, FALSE)

Change(a, s, updates) ==
  /\ changes < MaxChanges /\ changes' = changes + 1
  /\ server' = [server EXCEPT ![a] = s]
  /\ \/ UNCHANGED inbox
     \/ Len(inbox) < MaxInbox /\ \E u \in updates : inbox' = Append(inbox, u)
  /\ UNCHANGED <<caches, seen, exact>> /\ out' = None

Post(a, t) ==
  /\ server[a] = None /\ Len(inbox) < MaxInbox
  /\ LET s == [text |-> t, counts |-> Zero]
     IN Change(a, s, Raw("new", a, s, FALSE, None, FALSE, FALSE))

React(a, e) ==
  /\ server[a] # None /\ server[a].counts[e] < MaxCount
  /\ LET s == [server[a] EXCEPT !.counts[e] = @ + 1] IN Change(a, s, Tells(a, s, e))

Unreact(a, e) ==
  /\ server[a] # None /\ server[a].counts[e] > 0
  /\ LET s == [server[a] EXCEPT !.counts[e] = @ - 1] IN Change(a, s, Tells(a, s, None))

EditText(a, t) ==
  /\ server[a] # None /\ server[a].text # t
  /\ LET s == [server[a] EXCEPT !.text = t]
     IN Change(a, s, Raw("edit", a, s, s.counts # Zero, None, FALSE, TRUE))

-----------------------------------------------------------------------------
(* Differences of counts, as the number of single reactions to emit.        *)

\* reactionDeltasFromCountDiff; an unknown previous count is an empty one.
Known(c) == IF c = None THEN Zero ELSE c
Diff(prev, cur) == [e \in Emojis |-> cur[e] - prev[e]]

\* diffReactionCounts: the resolver's answer counts only if one reaction of
\* one emoji came or went.
OneChange(prev, cur) ==
  \E e \in Emojis : /\ Diff(prev, cur)[e] \in {-1, 1}
                    /\ \A f \in Emojis \ {e} : cur[f] = prev[f]

OnlyAdd(e) == [Zero EXCEPT ![e] = 1]

\* What a reader makes of the emitted reactions.
EmitAdded(a, deltas) ==
  seen' = IF seen[a] = None THEN seen
          ELSE [seen EXCEPT ![a].counts =
                  [e \in Emojis |-> IF deltas[e] > 0 THEN @[e] + deltas[e] ELSE @[e]]]
Emit(a, deltas) ==
  seen' = IF seen[a] = None THEN seen
          ELSE [seen EXCEPT ![a].counts = [e \in Emojis |-> @[e] + deltas[e]]]

\* isLikelyReactionOnlyEdit and the reactions that may stand for it
Likely(u)   == u.hide \/ ~u.dated
Carries(u)  == u.present /\ (u.counts # Zero \/ u.recent # None)

\* reactionFromChosenResults, without a chosen one: a single result.
Single(c) == {e \in Emojis : c[e] > 0 /\ \A f \in Emojis \ {e} : c[f] = 0}

\* reactionDeltaFromEditedMessage
Guess(u) == IF u.recent # None THEN {u.recent} ELSE Single(u.counts)

\* shouldRememberUnmappedReactionEditCounts
RememberUnmapped(u) == ~Likely(u) \/ ~u.present \/ Carries(u)

\* What the resolver returns, after all its attempts: an error, or the
\* counts the server has now.  It needs the conversation's input peer.
Resolved(a, hasPeer) == {None} \cup (IF hasPeer THEN {server[a].counts} ELSE {})

Next1(u) == /\ inbox' = Tail(inbox)
            /\ peer' = (peer \/ u.withPeer)
            /\ UNCHANGED <<server, changes>>

\* mapMessage
MapNew(u) ==
  /\ u.class = "new"
  /\ counts' = [counts EXCEPT ![u.art] = u.counts]
  /\ snap' = [snap EXCEPT ![u.art] = u.text]
  /\ seen' = [seen EXCEPT ![u.art] = [text |-> u.text, counts |-> u.counts]]
  /\ out' = None
  /\ UNCHANGED <<watches, exact>>

\* mapMessageReactionsUpdateBatch
MapReactions(u) ==
  /\ u.class = "reactions"
  /\ IF counts[u.art] # None
     THEN /\ Emit(u.art, Diff(counts[u.art], u.counts))
          /\ UNCHANGED exact
     ELSE /\ \E e \in Guess(u) \cup {None} :
               IF e = None THEN UNCHANGED seen ELSE Emit(u.art, OnlyAdd(e))
          /\ exact' = [exact EXCEPT ![u.art] = FALSE]
  /\ counts' = [counts EXCEPT ![u.art] = u.counts]
  /\ out' = None
  /\ UNCHANGED <<snap, watches>>

\* mapEditMessageBatch, first classified by mapReactionUpdatesFromEditedMessage
UsesDiff(u) == u.present /\ (~Likely(u) \/ Carries(u))
ByCounts(u) == UsesDiff(u) /\ counts[u.art] # None /\ u.counts # counts[u.art]
ByGuess(u)  == ~ByCounts(u) /\ Likely(u) /\ u.present /\ Guess(u) # {}

EditByCountsKeepsText(u) ==
  /\ u.class = "edit" /\ ByCounts(u)
  /\ Emit(u.art, Diff(counts[u.art], u.counts))
  /\ counts' = [counts EXCEPT ![u.art] = u.counts]
  /\ snap' = [snap EXCEPT ![u.art] = u.text]
  /\ out' = None
  /\ UNCHANGED <<watches, exact>>
EditByCounts(u) ==
  /\ u.class = "edit" /\ ByCounts(u)
  /\ Emit(u.art, Diff(counts[u.art], u.counts))
  /\ counts' = [counts EXCEPT ![u.art] = u.counts]
  /\ out' = None
  /\ UNCHANGED <<snap, watches, exact>>

EditByGuess(u) ==
  /\ u.class = "edit" /\ ByGuess(u)
  /\ \E e \in Guess(u) : Emit(u.art, OnlyAdd(e))
  /\ counts' = [counts EXCEPT ![u.art] = u.counts]
  /\ exact' = [exact EXCEPT ![u.art] = FALSE]
  /\ out' = None
  /\ UNCHANGED <<snap, watches>>

\* reactionDeltasFromCountCache stores counts it had not known
FirstCounts(u) ==
  IF UsesDiff(u) /\ counts[u.art] = None THEN u.counts ELSE counts[u.art]

AsksResolver(u) == Likely(u) \/ snap[u.art] = u.text

EditByResolver(u, r) ==
  /\ u.class = "edit" /\ ~ByCounts(u) /\ ~ByGuess(u) /\ AsksResolver(u)
  /\ r # None /\ OneChange(Known(FirstCounts(u)), r)
  /\ Emit(u.art, Diff(Known(FirstCounts(u)), r))
  /\ counts' = [counts EXCEPT ![u.art] = r]
  /\ watches' = watches \cup {u.art}
  /\ out' = None
  /\ UNCHANGED <<snap, exact>>

\* Not a reaction: an ambiguous edit is suppressed, any other one is an
\* edit event.  What the resolver answered is kept until the message's own
\* counts are.
EditUnmapped(u, r) ==
  /\ u.class = "edit" /\ ~ByCounts(u) /\ ~ByGuess(u)
  /\ r # None => AsksResolver(u) /\ ~OneChange(Known(FirstCounts(u)), r)
  /\ LET suppressed == u.hide /\ u.present
         resolved == IF r # None THEN r ELSE FirstCounts(u)
     IN /\ counts' = [counts EXCEPT ![u.art] =
                        IF RememberUnmapped(u) \/ ~suppressed THEN u.counts ELSE resolved]
        /\ IF suppressed
           THEN UNCHANGED <<snap, seen>> /\ out' = None
           ELSE /\ snap' = [snap EXCEPT ![u.art] = u.text]
                /\ out' = [art |-> u.art, before |-> snap[u.art], after |-> u.text]
                /\ seen' = IF seen[u.art] = None THEN seen
                           ELSE [seen EXCEPT ![u.art].text = u.text]
  /\ exact' = [exact EXCEPT ![u.art] = @ /\ counts'[u.art] = counts[u.art]]
  /\ UNCHANGED watches

MapNext ==
  /\ inbox # <<>>
  /\ LET u == Head(inbox)
     IN /\ Next1(u)
        /\ \/ MapNew(u) \/ MapReactions(u) \/ EditByCounts(u) \/ EditByGuess(u)
           \/ \E r \in Resolved(u.art, peer \/ u.withPeer) :
                 EditByResolver(u, r) \/ EditUnmapped(u, r)

\* PollReactionUpdates over the watches it takes; those it cannot resolve it
\* leaves as they are.
Poll ==
  /\ watches # {} /\ peer
  /\ \E W \in SUBSET watches :
       /\ W # {} /\ Cardinality(W) <= Limit
       /\ counts' = [a \in Articles |-> IF a \in W THEN server[a].counts ELSE counts[a]]
       /\ seen' = [a \in Articles |->
                     IF a \notin W \/ seen[a] = None THEN seen[a]
                     ELSE LET d == Diff(Known(counts[a]), server[a].counts)
                          IN [seen[a] EXCEPT !.counts = [e \in Emojis |-> @[e] + d[e]]]]
  /\ out' = None
  /\ UNCHANGED <<server, changes, inbox, snap, watches, peer, exact>>

\* takeActiveReactionWatches forgets a watch whose time is over.
Expire(a) ==
  /\ a \in watches /\ watches' = watches \ {a} /\ out' = None
  /\ UNCHANGED <<server, changes, inbox, counts, snap, peer, seen, exact>>

Next ==
  \/ \E a \in Articles, t \in Texts : Post(a, t) \/ EditText(a, t)
  \/ \E a \in Articles, e \in Emojis : React(a, e) \/ Unreact(a, e)
  \/ \E a \in Articles : Expire(a)
  \/ MapNext \/ Poll

Spec == Init /\ [][Next]_vars

-----------------------------------------------------------------------------
TypeOK ==
  /\ \A a \in Articles : counts[a] \in Counts \cup {None} /\ snap[a] \in Texts \cup {None}
  /\ watches \subseteq Articles /\ peer \in BOOLEAN
  /\ Len(inbox) <= MaxInbox

\* A reader who adds up the reaction events arrives at the counts the mapper
\* last saw, whatever mixture of totals, edits, resolver answers and polls
\* they came from and however late the totals are - unless the mapper had to
\* guess, or gave an edit up and took its counts over without an event.
ReactionsAddUp ==
  \A a \in Articles : seen[a] # None /\ exact[a] => seen[a].counts = counts[a]

\* Edit events of an article form a chain: what one says was there before is
\* what the events so far said, although edits that are taken for reactions
\* are not passed on.
EditsChain ==
  [][\A a \in Articles :
        out' # None /\ out'.art = a /\ seen[a] # None => out'.before = seen[a].text]_vars
=============================================================================
