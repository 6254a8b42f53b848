------------------------------ MODULE Summary ------------------------------
(* Fitting text to a model's context window.  A document is cut into fragments *)
(* that are joined to overlapping chunks (daras_ai_v2/text_splitter.py), each  *)
(* chunk is summarized, and summaries are merged by twos until one is left     *)
(* (recipes/DocSummary.py); the history of a conversation is clipped from its  *)
(* old end, two messages at a time (recipes/VideoBots.py).  Lengths are in     *)
(* tokens and taken to add up.                                                 *)
EXTENDS Integers, Sequences

CONSTANTS
    Context,       \* model.llm_context_window
    Instructions,  \* prompt_token_count
    MaxTokens,     \* request.max_tokens, the bound of an answer
    Overlap,       \* chunk_overlap
    Texts          \* bound: documents, as the lengths of their fragments

ChunkSize == Context - (Instructions + MaxTokens)

\* "Please reduce the output size"; _split yields no fragment above the chunk size.
ASSUME SummaryAssumption ==
    /\ Context \in Nat /\ Instructions \in Nat /\ MaxTokens \in Nat /\ Overlap \in Nat
    /\ MaxTokens <= (Context - Instructions) \div 3
    /\ \A text \in Texts : text \in Seq(1 .. ChunkSize)

VARIABLES
    text,     \* lengths of the fragments, those up to next - 1 having been joined
    next,
    window,   \* the fragments of the chunk that is growing
    chunks,   \* chunks yielded so far, as intervals of fragments
    phase,
    docs,     \* summaries, as intervals of chunks
    extra,    \* extra_doc of the round before: <<>> or a sequence of one
    tree      \* prompt_tree: the chunks that the prompts of this round go back to

summary == <<text, next, window, chunks, phase, docs, extra, tree>>

Span(lo, hi) == [lo |-> lo, hi |-> hi]

\* The tokens of the first i fragments, and of those from lo to hi.
Upto[i \in 0 .. Len(text)] == IF i = 0 THEN 0 ELSE Upto[i - 1] + text[i]

Length(lo, hi) == IF hi < lo THEN 0 ELSE Upto[hi] - Upto[lo - 1]

TextInit ==
    /\ text \in Texts
    /\ next = 1 /\ window = Span(1, 0) /\ chunks = <<>>
    /\ phase = "join"
    /\ docs = <<>> /\ extra = <<>> /\ tree = <<>>

-----------------------------------------------------------------------------
(* _join *)

Fits(lo, hi) == Length(lo, hi) <= ChunkSize

\* Mutant of Grow: the new fragment is not counted.
GrowAnyway ==
    /\ phase = "join" /\ next <= Len(text)
    /\ Fits(window.lo, window.hi)
    /\ window' = [window EXCEPT !.hi = next]
    /\ next' = next + 1
    /\ UNCHANGED <<text, chunks, phase, docs, extra, tree>>

Grow ==
    /\ phase = "join" /\ next <= Len(text)
    /\ Fits(window.lo, next)
    /\ window' = [window EXCEPT !.hi = next]
    /\ next' = next + 1
    /\ UNCHANGED <<text, chunks, phase, docs, extra, tree>>

\* The window is yielded; the new one takes as many of its last fragments as the
\* overlap and the new fragment leave room for.
Yield ==
    /\ phase = "join" /\ next <= Len(text)
    /\ ~Fits(window.lo, next)
    /\ chunks' = Append(chunks, window)
    /\ \E lo \in window.lo .. next :
          /\ \A i \in window.lo .. next :
                i >= lo <=> Length(i, next - 1) <= Overlap /\ Fits(i, next)
          /\ window' = Span(lo, next)
    /\ next' = next + 1
    /\ UNCHANGED <<text, phase, docs, extra, tree>>

\* The leftover, and the prompts of the first round.
Joined ==
    /\ phase = "join" /\ next > Len(text)
    /\ chunks' = IF window.hi < window.lo THEN chunks ELSE Append(chunks, window)
    /\ docs' = [i \in 1 .. Len(chunks') |-> Span(i, i)]
    /\ tree' = [i \in 1 .. Len(chunks') |-> {i}]
    /\ phase' = "merge"
    /\ UNCHANGED <<text, next, window, extra>>

-----------------------------------------------------------------------------
(* _map_reduce *)

\* "reached the end"
Summarized ==
    /\ phase = "merge" /\ Len(docs) < 2
    /\ phase' = "done"
    /\ UNCHANGED <<text, next, window, chunks, docs, extra, tree>>

Leftover(ds) == IF Len(ds) % 2 = 1 THEN <<ds[Len(ds)]>> ELSE <<>>

\* Mutant of Carry: extra_doc is not reset.
CarryAgain(ds) == IF Len(ds) % 2 = 1 THEN <<ds[Len(ds)]>> ELSE extra

\* The document that a round leaves over for the next one.
Carry(ds) == Leftover(ds)

Pairs(n) == 1 .. n \div 2

\* One round: documents are merged by twos, the last may be left over.  The children of
\* a prompt are taken from the tree by the places of its documents, where a document
\* that was left over has none.
Merge ==
    /\ phase = "merge" /\ Len(docs) >= 2
    /\ extra' = Carry(docs)
    /\ docs' = [i \in Pairs(Len(docs)) |-> Span(docs[2 * i - 1].lo, docs[2 * i].hi)] \o extra'
    /\ tree' = [i \in Pairs(Len(docs)) |->
                  UNION {tree[k] : k \in {2 * i - 1, 2 * i} \cap DOMAIN tree}]
    /\ UNCHANGED <<text, next, window, chunks, phase>>

TextNext == Grow \/ Yield \/ Joined \/ Merge \/ Summarized

TextSpec == TextInit /\ [][TextNext]_summary

-----------------------------------------------------------------------------
(* convo_window_clipper *)

\* Where a history of n messages is cut if no more than max tokens may stay: before the
\* shortest suffix, by steps of two, that is too long.
Clip(n, max) ==
    LET tooLong == {i \in 1 .. n - 1 : (n - 1 - i) % 2 = 0 /\ Length(i, n) > max} IN
    IF tooLong = {} THEN 1 ELSE (CHOOSE i \in tooLong : \A k \in tooLong : k <= i) + 2

-----------------------------------------------------------------------------
TextTypes ==
    /\ text \in Texts
    /\ next \in 1 .. Len(text) + 1
    /\ \A i \in DOMAIN chunks : chunks[i].lo \in DOMAIN text /\ chunks[i].hi \in DOMAIN text
    /\ phase \in {"join", "merge", "done"}

\* Whatever the fragments, a chunk and its prompt fit the context window together with
\* the answer, chunks overlap by no more than they may, and they leave nothing out: each
\* begins inside or right after the one before, and goes beyond it.
ChunksFit ==
    /\ \A i \in DOMAIN chunks :
          /\ chunks[i].lo <= chunks[i].hi
          /\ Instructions + Length(chunks[i].lo, chunks[i].hi) + MaxTokens <= Context
          /\ chunks[i].lo = 1 \/ i > 1
    /\ \A i \in 1 .. Len(chunks) - 1 :
          /\ chunks[i].lo < chunks[i + 1].lo /\ chunks[i + 1].lo <= chunks[i].hi + 1
          /\ chunks[i].hi < chunks[i + 1].hi
          /\ Length(chunks[i + 1].lo, chunks[i].hi) <= Overlap
    /\ phase # "join" /\ text # <<>> => chunks # <<>> /\ chunks[Len(chunks)].hi = Len(text)

\* The one summary is of every chunk, once and in order.
Whole == IF chunks = <<>> THEN docs = <<>> ELSE docs = <<Span(1, Len(chunks))>>

\* A summary is made in the end and is whole, odd or even as the number of documents may
\* be in each round.
SummaryIsWhole == <>(phase = "done" /\ Whole)

\* An even history, as pairs of messages make it, is cut to what fits, and by no more than needed.
HistoryFits ==
    \A n \in DOMAIN text, max \in 0 .. Context : n % 2 = 0 =>
        LET at == Clip(n, max) IN
        /\ Length(at, n) <= max
        /\ at > 2 => Length(at - 2, n) > max

\* Chunks and histories fit the context window and leave nothing out.
FitsWindow == ChunksFit /\ HistoryFits
=============================================================================
