------------------------------ MODULE Timeline ------------------------------
(***************************************************************************)
(* The reading engine (core/src/lib.rs): how a text becomes the timeline   *)
(* of display words every client plays, and the two other views that must  *)
(* line up with it word by word, paragraphs() behind GET /text and the     *)
(* pages of the MCP tool get_book_text (server/src/mcp.rs).                *)
(*                                                                         *)
(* A text is a sequence of paragraphs, a paragraph a sequence of tokens    *)
(* (split_whitespace).  A token is what the engine looks at: how many      *)
(* characters lead and trail its core, the core's length and which of its  *)
(* characters are letters or digits, vowels, digits, capitals and hyphens, *)
(* which frequency factor each language's table gives it, what punctuation *)
(* ends it.  Weights are integers, in thousandths; the f32 sum over a text *)
(* is rounded after each addition as an f32 is.                            *)
(***************************************************************************)
EXTENDS Integers, Sequences, SequencesExt, FiniteSets

CONSTANTS
    Tokens,        \* the tokens a text is made of
    MaxTokens,     \* bound: tokens in a text
    SplitAbove,    \* SPLIT_ABOVE, 14 in the code
    ChunkLen,      \* CHUNK_LEN, 10 in the code
    NormalizeMin,  \* NORMALIZE_MIN_WORDS, 20 in the code
    DetectWindow,  \* tokens that decide the language, 500 in the code
    LongSentence,  \* a longer sentence earns the larger wrap-up, 7 in the code
    Significand,   \* an f32 holds integers exactly below 2^24
    Exponents,     \* how often its spacing may double, 104 for an f32
    PageSizes      \* the max_words a client of get_book_text asks for

Langs == {"en", "de", "es"}

ASSUME TimelineAssumption ==
    /\ ChunkLen \in Nat \ {0} /\ SplitAbove \in Nat /\ ChunkLen <= SplitAbove
    /\ 2 * (SplitAbove + 1 - ChunkLen) >= ChunkLen
    /\ NormalizeMin \in Nat \ {0}
    /\ Significand \in Nat \ {0} /\ Exponents \in Nat
    /\ PageSizes \subseteq Nat \ {0}
    /\ \A t \in Tokens :
          /\ t.lead \in Nat /\ t.trail \in Nat /\ t.len \in Nat \ {0}
          /\ t.letters \subseteq 1..t.len
          /\ IF t.letters = {} THEN t.lead = 0 /\ t.trail = 0 ELSE {1, t.len} \subseteq t.letters
          /\ t.vowels \union t.digits \union t.capitals \subseteq t.letters
          /\ t.hyphens \subseteq (1..t.len) \ t.letters
          /\ t.marks \subseteq Langs
          /\ t.freq \in [Langs \ {"es"} -> {85, 92, 100, 112, 122, 128}]
          /\ t.tail \in {"none", "clause", "sentence"} /\ t.closers \in Nat

VARIABLE text

timelineVars == <<text>>

TimelineInit == text = <<>>

-----------------------------------------------------------------------------
(* display_tokens: a token, or the chunks of a long one.  A chunk is the   *)
(* range of the token's core it shows, with what leads and trails it.      *)

\* Mutant: the cap is tested against the whole core, never against the rest.
Take_WholeCore(t, pos) ==
    IF t.len <= SplitAbove THEN t.len
    ELSE IF t.len - pos + 1 < ChunkLen THEN t.len - pos + 1 ELSE ChunkLen

\* The characters the chunk at pos takes: the rest when it fits, otherwise up to
\* a vowel near the cap, otherwise up to the cap.
Take(t, pos) ==
    LET rest == t.len - pos + 1
        cuts == {c \in (ChunkLen - 3)..ChunkLen : c >= 4 /\ pos + c - 1 \in t.vowels}
    IN  IF rest <= SplitAbove THEN rest
        ELSE IF cuts = {} THEN ChunkLen
        ELSE CHOOSE c \in cuts : \A d \in cuts : d <= c

\* Leading punctuation stays on the first chunk, trailing on the last; every
\* other chunk ends in a hyphen of its own.
Chunk(t, from, to) ==
    [of |-> t, from |-> from, to |-> to,
     lead |-> IF from = 1 THEN t.lead ELSE 0,
     trail |-> IF to = t.len THEN t.trail ELSE 1]

DisplayTokens(t) ==
    LET cut[pos \in 1..(t.len + 1)] ==
            IF pos > t.len THEN <<>>
            ELSE <<Chunk(t, pos, pos + Take(t, pos) - 1)>> \o cut[pos + Take(t, pos)]
    IN  cut[1]

\* How much of its token's core a chunk shows, and how much it shows in all.
Part(c) == c.to - c.from + 1

Width(c) == c.lead + Part(c) + c.trail

\* core_bounds of a chunk, which is none of its token's: punctuation at the ends
\* of the chunk is outside, what stands between letters inside.
Letters(c) == c.of.letters \intersect (c.from..c.to)

Core(c) == IF Letters(c) = {} THEN c.from..c.to ELSE Min(Letters(c))..Max(Letters(c))

\* Without letters it is the whole chunk, the hyphen that ends it included.
CoreLen(c) ==
    IF Letters(c) = {} THEN Width(c) ELSE Max(Letters(c)) - Min(Letters(c)) + 1

CoreStart(c) == IF Letters(c) = {} THEN 0 ELSE c.lead + Min(Letters(c)) - c.from

\* orp_index: where the pivot of a chunk is, counted from 0.
OrpIndex(c) ==
    LET n == CoreLen(c)
        offset == CASE n <= 1 -> 0
                    [] n \in 2..5 -> 1
                    [] n \in 6..9 -> 2
                    [] n \in 10..13 -> 3
                    [] OTHER -> 4
    IN  CoreStart(c) + offset

-----------------------------------------------------------------------------
(* Language, frequency and the raw weight of a chunk.                      *)

\* split_paragraphs: the paragraphs that hold a token.
SplitParagraphs ==
    FlattenSeq([p \in DOMAIN text |-> IF text[p] = <<>> THEN <<>> ELSE <<text[p]>>])

\* detect_lang: function words among the first tokens; ties are English.
DetectLang ==
    LET all == FlattenSeq(SplitParagraphs)
        hits(l) == Cardinality({k \in DOMAIN all : k <= DetectWindow /\ l \in all[k].marks})
    IN  IF hits("es") > hits("en") /\ hits("es") > hits("de") THEN "es"
        ELSE IF hits("de") > hits("en") THEN "de"
        ELSE "en"

\* freq_factor, in hundredths; Spanish has no table.
FreqFactor(t, lang) == IF lang = "es" THEN 100 ELSE t.freq[lang]

Clamp(w, low, high) == IF w < low THEN low ELSE IF w > high THEN high ELSE w

\* Digits and capitals exclude each other, a hyphen inside stacks; in hundredths.
Counted(c) ==
    IF c.of.digits \intersect Core(c) # {} THEN 150
    ELSE IF CoreLen(c) >= 2 /\ Core(c) \subseteq c.of.capitals THEN 118
    ELSE 100

Hyphened(c) ==
    IF c.of.hyphens \intersect Core(c) # {} \/ (Letters(c) = {} /\ c.to # c.of.len)
    THEN 108 ELSE 100

Kind(c) == (Counted(c) * Hyphened(c)) \div 100

\* tail_punct: what the last chunk ends in, behind its closing quotes and brackets.
Ending(c) == IF c.of.closers < Width(c) THEN c.of.tail ELSE "none"

\* Paragraph over sentence over clause, on the last chunk only; in tenths.
WrapUp(c, endsParagraph, sentenceLen) ==
    CASE c.to # c.of.len -> 10
      [] endsParagraph -> 28
      [] Ending(c) = "sentence" -> IF sentenceLen > LongSentence THEN 23 ELSE 19
      [] Ending(c) = "clause" -> 15
      [] OTHER -> 10

\* raw_weight.
RawWeight(c, lang, endsParagraph, sentenceLen, afterRare) ==
    LET n == CoreLen(c)
        length == 1000 + 55 * (IF n > 6 THEN n - 6 ELSE 0)
        spill == IF afterRare THEN 106 ELSE 100
        paced == (length * FreqFactor(c.of, lang)) \div 100
        kinded == (paced * Kind(c)) \div 100
        wrapped == (kinded * WrapUp(c, endsParagraph, sentenceLen)) \div 10
    IN  Clamp((wrapped * spill) \div 100, 450, 3400)

-----------------------------------------------------------------------------
(* tokenize.                                                               *)

\* The tokens in reading order, each with whether it ends its paragraph; the
\* text's last paragraph has no end.
Marked ==
    LET paras == SplitParagraphs
        mark(p) == [k \in DOMAIN paras[p] |->
                        [tok |-> paras[p][k],
                         ends |-> k = Len(paras[p]) /\ p # Len(paras)]]
    IN  FlattenSeq([p \in DOMAIN paras |-> mark(p)])

\* Where sentence_len and after_rare are reset.
Ends(m) == m.tok.tail = "sentence" \/ m.ends

\* after_rare for the next token.
Spills(lang, m, before) == FreqFactor(m.tok, lang) >= 122 /\ ~Ends(m)

\* One token of the loop: st is <<words, sentence_len, after_rare>>.
Step(lang, st, m) ==
    LET len == st[2] + 1
        chunks == DisplayTokens(m.tok)
        word(k) ==
            [chunk |-> chunks[k], orp |-> OrpIndex(chunks[k]),
             weight |-> RawWeight(chunks[k], lang, m.ends, len, st[3] /\ k = 1)]
    IN  <<st[1] \o [k \in DOMAIN chunks |-> word(k)],
          IF Ends(m) THEN 0 ELSE len,
          Spills(lang, m, st[3])>>

RawWords ==
    LET lang == DetectLang
        read == Marked
        after[k \in 0..Len(read)] ==
            IF k = 0 THEN <<<<>>, 0, FALSE>> ELSE Step(lang, after[k - 1], read[k])
    IN  after[Len(read)][1]

TotalOf(words) == FoldFunction(+, 0, [k \in DOMAIN words |-> words[k].weight])

\* The distance of the floats around x: it doubles with x beyond Significand.
Spacing(x) ==
    LET gap[e \in 0..Exponents] ==
            IF e = 0 THEN 1
            ELSE IF x < Significand * gap[e - 1] THEN gap[e - 1] ELSE 2 * gap[e - 1]
    IN  gap[Exponents]

\* The float that stands for x: the nearer one, of two the even one.
Nearest(x) ==
    LET gap == Spacing(x)
        below == x \div gap
        over == x - below * gap
        up == 2 * over > gap \/ (2 * over = gap /\ below % 2 = 1)
    IN  (IF up THEN below + 1 ELSE below) * gap

\* iter().sum::<f32>(): one word after the other, rounded each time.
FloatSum(words) ==
    LET sum[k \in 0..Len(words)] ==
            IF k = 0 THEN 0 ELSE Nearest(sum[k - 1] + words[k].weight)
    IN  sum[Len(words)]

\* Mutant: the mean is taken over the tokens, not over the display words.
Mean_OfTokens(words) == FloatSum(words) \div Len(Marked)

Mean(words) == FloatSum(words) \div Len(words)

\* The document's mean becomes 1.0, unless it is a snippet.
Normalized(words) ==
    IF Len(words) < NormalizeMin THEN words
    ELSE LET mean == Mean(words)
         IN  [k \in DOMAIN words |-> [words[k] EXCEPT !.weight = (@ * 1000) \div mean]]

\* Clamped, and rounded to hundredths.
Hundredths(w) == ((Clamp(w, 400, 3600) + 5) \div 10) * 10

Words ==
    LET words == Normalized(RawWords)
    IN  [k \in DOMAIN words |-> [words[k] EXCEPT !.weight = Hundredths(@)]]

-----------------------------------------------------------------------------
(* The text as paragraphs of the same words, and as pages of it.           *)

Paragraphs ==
    LET paras == SplitParagraphs
    IN  [p \in DOMAIN paras |-> FlattenSeq([k \in DOMAIN paras[p] |-> DisplayTokens(paras[p][k])])]

\* Mutant: the offset of the position is applied to every paragraph.
Start_EveryParagraph(from, skipped) == from

\* Where in its paragraph the page starts: from.saturating_sub(skipped).
Start(from, skipped) == IF from > skipped THEN from - skipped ELSE 0

\* The loop of get_book_text over the paragraphs: pg is <<words, skipped>>.
PageStep(from, limit, pg, para) ==
    LET skipped == pg[2] + Len(para)
        rest == SubSeq(para, Start(from, pg[2]) + 1, Len(para))
        room == limit - Len(pg[1])
    IN  IF skipped <= from THEN <<pg[1], skipped>>
        ELSE <<pg[1] \o SubSeq(rest, 1, IF room < Len(rest) THEN room ELSE Len(rest)), skipped>>

\* get_book_text {from_position, max_words}, of a text of these paragraphs.
Page(paras, from, limit) ==
    LET after[p \in 0..Len(paras)] ==
            IF p = 0 THEN <<<<>>, 0>> ELSE PageStep(from, limit, after[p - 1], paras[p])
    IN  after[Len(paras)][1]

\* One more call of a client that has read so far: next_position is how much
\* that is, as long as there is more of the total.
Follow(paras, total, limit, sofar) ==
    IF Len(sofar) < total THEN sofar \o Page(paras, Len(sofar), limit) ELSE sofar

\* What a client reads that follows next_position to its end.
ReadByPages(limit) ==
    LET paras == Paragraphs
        total == Len(FlattenSeq(paras))
        read[k \in 0..total] ==
            IF k = 0 THEN <<>> ELSE Follow(paras, total, limit, read[k - 1])
    IN  read[total]

-----------------------------------------------------------------------------
(* A text grows by a token, on its last paragraph or on a new one; empty   *)
(* paragraphs come from blank lines.                                       *)

Size == Len(FlattenSeq(text))

Write(t) ==
    /\ text # <<>>
    /\ text' = [text EXCEPT ![Len(text)] = Append(@, t)]

\* No more than two empty paragraphs in a row (a bound).
Break ==
    /\ ~(Len(text) > 1 /\ text[Len(text)] = <<>>)
    /\ text' = Append(text, <<>>)

TimelineNext ==
    \/ Size < MaxTokens /\ \E t \in Tokens : Write(t)
    \/ Size < MaxTokens /\ Break

TimelineSpec == TimelineInit /\ [][TimelineNext]_timelineVars

-----------------------------------------------------------------------------
(* Properties.                                                             *)

\* Splitting loses nothing and leaves no stubs: the chunks of a token cover its
\* core in order and without overlap, keep its punctuation at the two ends, and
\* when there are several, each shows at least half a chunk of the core; all but
\* the last show at most CHUNK_LEN of it, and the last no more than a word that is
\* not split.  The pivot of each is a character it shows, and if it shows a letter
\* or a digit, one between its first and its last: never the punctuation around
\* them, though a cut may leave some at either end.
SplitsWell ==
    \A t \in Range(FlattenSeq(text)) :
        LET cs == DisplayTokens(t)
        IN  /\ FlattenSeq([k \in DOMAIN cs |-> [j \in 1..Part(cs[k]) |-> cs[k].from + j - 1]])
                 = [j \in 1..t.len |-> j]
            /\ cs[1].lead = t.lead /\ cs[Len(cs)].trail = t.trail
            /\ \A k \in DOMAIN cs :
                  /\ Len(cs) > 1 => 2 * Part(cs[k]) >= ChunkLen
                  /\ Part(cs[k]) <= IF k < Len(cs) THEN ChunkLen ELSE SplitAbove
                  /\ OrpIndex(cs[k]) \in 0..(Width(cs[k]) - 1)
                  /\ Letters(cs[k]) # {} =>
                        \E i, j \in Letters(cs[k]) :
                            cs[k].from + OrpIndex(cs[k]) - cs[k].lead \in i..j

\* "Flattening the result yields exactly the text fields of the timeline, in
\* the same order and count": a reading position means the same word in the
\* timeline, in /text, and to a client that pages through get_book_text with
\* any page size, which sees every word once.
ViewsAlign ==
    LET ws == Words
        spans == [k \in DOMAIN ws |-> ws[k].chunk]
    IN  /\ FlattenSeq(Paragraphs) = spans
        /\ \A limit \in PageSizes : ReadByPages(limit) = spans

\* "N words at wpm take exactly N/wpm minutes": the mean weight of a document
\* long enough to be normalized is 1.0, as long as no word runs into the final
\* clamp, but for the rounding of each word and for what the running f32 sum loses:
\* twice as many parts in 2^24 as the document has words, for up to 2^21 of them.
HonestPace ==
    LET ws == Words
        n == Len(ws)
        off == Significand * (TotalOf(ws) - 1000 * n)
        slack == 10 * n * Significand + 2000 * n * n
    IN  (/\ n >= NormalizeMin /\ 8 * n <= Significand
         /\ \A k \in DOMAIN ws : ws[k].weight \in 401..3599)
        => off \in (-slack)..slack
=============================================================================
