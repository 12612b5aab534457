----------------------------- MODULE ChatContext -----------------------------
(***************************************************************************)
(* What an agent is told (modules/llmchat): which agent a message is for    *)
(* (trigger.go, reply_tags.go), which messages of the conversation go into  *)
(* the request within its budget of runes (context_builder.go), and which   *)
(* images go with them (input_media.go).                                    *)
(*                                                                         *)
(* A message is [id, text, parent, images, at]: the runes of its text after *)
(* trimming, the message it replies to or None, its image attachments       *)
(* [id, size] with size 0 for one that cannot be downloaded, and the time   *)
(* it was written, 0 if unknown.  A serialized message takes Frame runes    *)
(* besides its text, its quotes and the digits of its counts.               *)
(***************************************************************************)
EXTENDS Integers, Sequences, SequencesExt, FiniteSets, FiniteSetsExt

None == 0
Frame == 2
Envelope == 3

-----------------------------------------------------------------------------
(* The agent: a text is a sequence of words and marks, a name of words in   *)
(* one spelling; an agent is [name, names].                                 *)

CONSTANTS Marks

\* matchAgentTrigger: what follows the name, without leading punctuation
Matches(text, name) == text # <<>> /\ name # <<>> /\ IsPrefix(name, text)
RECURSIVE WithoutMarks(_)
WithoutMarks(text) ==
  IF text # <<>> /\ Head(text) \in Marks THEN WithoutMarks(Tail(text)) ELSE text
PromptAfter(text, name) == WithoutMarks(SubSeq(text, Len(name) + 1, Len(text)))

\* matchTriggeredAgent: the longest name; the first agent that has it
Triggered(agents, text) ==
  LET hits == {<<n, name>> \in (DOMAIN agents) \X UNION {a.names : a \in ToSet(agents)} :
                 name \in agents[n].names /\ Matches(text, name)}
      best == {h \in hits : \A g \in hits : Len(g[2]) <= Len(h[2])}
  IN IF hits = {} THEN {}
     ELSE LET h == CHOOSE h \in best : \A g \in best : h[1] <= g[1]
          IN {[agent |-> agents[h[1]].name, prompt |-> PromptAfter(text, h[2])]}

\* resolveTriggeredAgent: by name, or by the agent whose message is replied to
ResolveTriggeredAgent(agents, text, repliedTag) ==
  LET tagged == {a \in ToSet(agents) : a.name = repliedTag}
  IN IF Triggered(agents, text) # {} THEN Triggered(agents, text)
     ELSE {[agent |-> a.name, prompt |-> text] : a \in tagged}

-----------------------------------------------------------------------------
(* Quotes: a message that answers one which is not in the context shows it. *)

\* resolveQuotedReplyChain: the message and what it answers, up to depth and
\* up to a message known already; cache holds the remembered messages
RECURSIVE QuoteChain(_, _, _, _)
QuoteChain(cache, id, depth, known) ==
  IF depth <= 0 \/ id \notin DOMAIN cache \/ id \in known THEN <<>>
  ELSE <<cache[id]>> \o QuoteChain(cache, cache[id].parent, depth - 1, known \cup {id})

\* resolveQuotedReplies: every message of a chain may be quoted on its own
QuoteOne(cache, depth, state, id) ==
  LET chain == QuoteChain(cache, id, depth, state.known)
      ids == {chain[n].id : n \in DOMAIN chain}
      from(i) == CHOOSE n \in DOMAIN chain : chain[n].id = i
  IN [known  |-> state.known \cup ids,
      quotes |-> [i \in DOMAIN state.quotes \cup ids |->
                    IF i \in ids THEN SubSeq(chain, from(i), Len(chain)) ELSE state.quotes[i]]]

Ids(messages) == {messages[n].id : n \in DOMAIN messages}
Quotes(cache, depth, messages) ==
  FoldLeft(LAMBDA state, id : QuoteOne(cache, depth, state, id),
           [known |-> Ids(messages), quotes |-> <<>>],
           [n \in DOMAIN messages |-> messages[n].parent]).quotes

-----------------------------------------------------------------------------
(* Sizes of serialized messages.                                            *)

Least(a, b) == IF a < b THEN a ELSE b
Digits(n) == IF n < 10 THEN 1 ELSE 2
Plus(a, b) == a + b
Total(sizes) == FoldLeft(Plus, 0, sizes)

\* serializeQuotedReply: a blank message ends the quote
RECURSIVE QuoteRunes(_, _)
QuoteRunes(chain, max) ==
  IF chain = <<>> \/ Head(chain).text = 0 THEN 0
  ELSE Frame + Least(Head(chain).text, max) + QuoteRunes(Tail(chain), max)
InlineQuote(m, quotes, max) ==
  IF m.parent \in DOMAIN quotes THEN QuoteRunes(quotes[m.parent], max) ELSE 0

\* serializeReplyThreadMessage and serializeLeadingContextEntry: a message without
\* text is left out, unless images are wanted and it has one
Shown(m, images) == m.text > 0 \/ (images /\ m.images # <<>>)
Runes(m, quotes, policy) ==
  IF Shown(m, policy.images)
  THEN Frame + Least(m.text, policy.maxMessage) + InlineQuote(m, quotes, policy.maxMessage) ELSE 0

\* serializeCurrentMessage, with the counts of context_status
CurrentRunes(m, status, quotes, policy) ==
  Frame + Least(m.text, policy.maxMessage) + InlineQuote(m, quotes, policy.maxMessage)
    + Digits(status.replies) + Digits(status.repliesLeft)
    + Digits(status.leading) + Digits(status.leadingLeft)

-----------------------------------------------------------------------------
(* The selection.  A chain ends with the current message.                   *)

\* trimReplyChain: the root and the newest
TrimReplyChain(chain, max) ==
  IF Len(chain) <= max THEN chain
  ELSE IF max <= 1 THEN <<Last(chain)>>
  ELSE <<chain[1]>> \o SubSeq(chain, Len(chain) - max + 2, Len(chain))

\* loadLeadingContext: what was said before the thread, or before the message, and
\* not too long before
FilterByAge(listed, anchor, maxAge) ==
  SelectSeq(listed, LAMBDA m : anchor = 0 \/ m.at = 0 \/ m.at >= anchor - maxAge)

\* serializeLeadingContextMessage: nothing when no entry shows
Enveloped(envelope, sizes) == IF Total(sizes) = 0 THEN 0 ELSE envelope + Total(sizes)

\* where the longest run of newest that fits begins
NewestThatFit(envelope, sizes, budget) ==
  Min({k \in 1..(Len(sizes) + 1) : Enveloped(envelope, SubSeq(sizes, k, Len(sizes))) <= budget})

\* selectReplyThreadMessages: positions in the chain; the root comes in when there is room
SelectReplyThread(candidates, sizes, budget) ==
  LET from == NewestThatFit(0, sizes, budget)
      newest == SubSeq(candidates, from, Len(candidates))
      room == budget - Total(SubSeq(sizes, from, Len(sizes)))
  IN IF candidates = <<>> \/ budget <= 0 \/ newest = <<>> THEN <<>>
     ELSE IF from > 1 /\ Head(sizes) <= room THEN <<Head(candidates)>> \o newest
     ELSE newest

SelectLeading(entries, sizes, budget) ==
  IF budget <= 0 THEN <<>>
  ELSE SubSeq(entries, NewestThatFit(Envelope, sizes, budget), Len(entries))

\* Mutant: the newest reply goes first.
DropNewest(history) == Front(history)

\* the counts grow while messages are left out: first the leading context goes, then
\* the oldest replies, the root last
DropReply(history) ==
  IF Len(history) > 1 /\ Head(history) = 1 THEN <<1>> \o SubSeq(history, 3, Len(history))
  ELSE Tail(history)
Dropped(st, leadingRunes) ==
  IF leadingRunes > 0
  THEN [st EXCEPT !.entries = <<>>, !.status.leading = 0,
                  !.status.leadingLeft = @ + Len(st.entries)]
  ELSE IF st.history # <<>>
  THEN [st EXCEPT !.history = DropReply(@), !.status.replies = Len(st.history) - 1,
                  !.status.repliesLeft = @ + 1]
  ELSE st

\* totalContextRunes; c is what all selections have in common, [chain, quotes, policy]
Sizes(messages, c) == [n \in DOMAIN messages |-> Runes(messages[n], c.quotes, c.policy)]
Replies(st, c) == [n \in DOMAIN st.history |-> c.chain[st.history[n]]]
LeadingRunes(st, c) == Enveloped(Envelope, Sizes(st.entries, c))
ContextRunes(st, c) ==
  CurrentRunes(Last(c.chain), st.status, c.quotes, c.policy) + LeadingRunes(st, c)
    + Total(Sizes(Replies(st, c), c))

RECURSIVE Shrink(_, _)
Shrink(st, c) ==
  IF ContextRunes(st, c) <= c.policy.maxContext THEN st
  ELSE LET less == Dropped(st, LeadingRunes(st, c))
       IN IF LeadingRunes(less, c) = 0 /\ less.history = <<>> THEN less ELSE Shrink(less, c)

\* buildGenerateRequestWithTools, of [chain, listed, cache, at, policy]
Build(in) ==
  LET policy == in.policy
      chain == TrimReplyChain(in.chain, policy.replies)
      current == Last(chain)
      anchor == IF current.parent # None THEN in.chain[1].at ELSE in.at
      leading == FilterByAge(in.listed, anchor, policy.maxAge)
      quotes == Quotes(in.cache, policy.quoteDepth, chain \o leading)
      c == [chain |-> chain, quotes |-> quotes, policy |-> policy]
      candidates == SelectSeq([n \in 1..(Len(chain) - 1) |-> n],
                              LAMBDA n : Shown(chain[n], policy.images))
      cut == Len(in.chain) - Len(chain)
      old == Len(in.listed) - Len(leading)
      provisional == [replies |-> Len(candidates), repliesLeft |-> cut,
                      leading |-> Len(leading), leadingLeft |-> old]
      forReplies == policy.maxContext - CurrentRunes(current, provisional, quotes, policy)
      history == SelectReplyThread(candidates, Sizes([n \in DOMAIN candidates |-> chain[candidates[n]]], c),
                                   forReplies)
      used == Total(Sizes([n \in DOMAIN history |-> chain[history[n]]], c))
      entries == SelectLeading(leading, Sizes(leading, c), forReplies - used)
      start == [history |-> history, entries |-> entries,
                status  |-> [replies     |-> Len(history),
                             repliesLeft |-> cut + Len(candidates) - Len(history),
                             leading     |-> Len(entries),
                             leadingLeft |-> old + Len(leading) - Len(entries)]]
      final == Shrink(start, c)
  IN [chain |-> chain, candidates |-> candidates, leading |-> leading, quotes |-> quotes,
      history |-> final.history, entries |-> final.entries, status |-> final.status,
      runes |-> ContextRunes(final, c), leadingRunes |-> LeadingRunes(final, c)]

-----------------------------------------------------------------------------
(* Images: buildImageInputDownloadJobs, downloadImageInput and              *)
(* selectImageInputsWithinBudget.                                           *)

\* the current message first, then replies and leading messages, the newest first
ImageSources(b) ==
  <<Last(b.chain)>> \o Reverse([n \in DOMAIN b.history |-> b.chain[b.history[n]]])
    \o Reverse(b.entries)
Attachments(b) == FlattenSeq([n \in DOMAIN ImageSources(b) |-> ImageSources(b)[n].images])

\* an attachment without an id is not fetched, one seen before not again
Jobs(attachments) ==
  LET first(n) == \A k \in 1..(n - 1) : attachments[k].id # attachments[n].id
      order == SelectSeq([n \in DOMAIN attachments |-> n],
                         LAMBDA n : attachments[n].id # None /\ first(n))
  IN [n \in DOMAIN order |-> attachments[order[n]]]

TakeImage(policy, taken, image) ==
  IF Len(taken) < policy.maxImages
       /\ Total([n \in DOMAIN taken |-> taken[n].size]) + image.size <= policy.maxBytes
  THEN Append(taken, image) ELSE taken
Images(b, policy) ==
  IF ~policy.images THEN <<>>
  ELSE FoldLeft(LAMBDA taken, image : TakeImage(policy, taken, image), <<>>,
                SelectSeq(Jobs(Attachments(b)),
                          LAMBDA a : a.size > 0 /\ a.size <= policy.maxImageBytes))

-----------------------------------------------------------------------------
(* What a request must be like, whatever was said.                          *)

\* the context fits, or nothing is left but the message itself
ContextFits(in, b) ==
  b.runes <= in.policy.maxContext \/ (b.history = <<>> /\ b.leadingRunes = 0)

\* what the agent is told was included and left out is all there was
StatusAddsUp(in, b) ==
  /\ b.status.replies = Len(b.history)
  /\ b.status.replies + b.status.repliesLeft
       = Len(in.chain) - 1 - Cardinality({n \in 1..(Len(b.chain) - 1) : ~Shown(b.chain[n], in.policy.images)})
  /\ b.status.leading = Len(b.entries)
  /\ b.status.leading + b.status.leadingLeft = Len(in.listed)

\* no older message is in when a newer one is not, the root of the thread apart
NewestStay(b) ==
  /\ \A n \in DOMAIN b.candidates : b.candidates[n] \in ToSet(b.history) /\ n > 1 =>
       \A k \in (n + 1)..Len(b.candidates) : b.candidates[k] \in ToSet(b.history)
  /\ b.entries = <<>> \/ IsSuffix(b.entries, b.leading)

\* what a message answers is in the context it was chosen from, or quoted if it is
\* remembered; no message that is in it is quoted, and no quote runs on for ever
QuotesBridge(in, b) ==
  LET all == b.chain \o b.leading
  IN /\ in.policy.quoteDepth > 0 => \A n \in DOMAIN all :
          all[n].parent \in Ids(all) \cup DOMAIN b.quotes \/ all[n].parent \notin DOMAIN in.cache
     /\ DOMAIN b.quotes \cap Ids(all) = {}
     /\ \A id \in DOMAIN b.quotes : /\ Len(b.quotes[id]) <= in.policy.quoteDepth
                                    /\ IsInjective([n \in DOMAIN b.quotes[id] |-> b.quotes[id][n].id])

\* images stay in their limits, come once, and the first one of the message itself goes first
ImagesFit(in, b) ==
  LET images == Images(b, in.policy)
      own == SelectSeq(Jobs(Last(b.chain).images),
                       LAMBDA a : a.size > 0 /\ a.size <= in.policy.maxImageBytes)
  IN /\ Len(images) <= in.policy.maxImages
     /\ Total([n \in DOMAIN images |-> images[n].size]) <= in.policy.maxBytes
     /\ IsInjective([n \in DOMAIN images |-> images[n].id])
     /\ in.policy.images /\ own # <<>> => images # <<>> /\ images[1] = own[1]

RequestHolds(in) ==
  \E b \in {Build(in)} :
    ContextFits(in, b) /\ StatusAddsUp(in, b) /\ NewestStay(b) /\ QuotesBridge(in, b) /\ ImagesFit(in, b)

\* whose message it is does not depend on the order of the agents
AgentIsClear(agents, text) == Triggered(agents, text) = Triggered(Reverse(agents), text)
=============================================================================
