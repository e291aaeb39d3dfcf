------------------------------ MODULE MCReader -------------------------------
(* Small instances of what a reader meets: texts of one token of every     *)
(* kind that the engine treats differently, with words that split in       *)
(* different places; and days and sessions around the calendar's edges.    *)
(* The two share no state, so one of them moves while the other rests      *)
(* where it begins: what each does is explored in full, and nothing twice. *)
EXTENDS Timeline, Reading

\* A token of letters only, at one frequency for English.
Plain(len, vowels, en) ==
    [lead |-> 0, len |-> len, trail |-> 0, letters |-> 1..len, vowels |-> vowels,
     digits |-> {}, capitals |-> {}, hyphens |-> {}, tail |-> "none", closers |-> 0,
     freq |-> [en |-> en, de |-> 128], marks |-> {}]

\* "I'm." and "(12-30),": something between the letters.
Im ==
    [Plain(3, {1}, 85) EXCEPT
        !.letters = {1, 3}, !.trail = 1, !.tail = "sentence", !.marks = {"en"}]
Range30 ==
    [Plain(5, {}, 100) EXCEPT
        !.lead = 1, !.trail = 2, !.letters = {1, 2, 4, 5}, !.digits = {1, 2, 4, 5},
        !.hyphens = {3}, !.tail = "clause", !.marks = {"es"}]
\* Splits at a vowel, 9 + 7.
Compound == [Plain(16, {2, 9}, 122) EXCEPT !.lead = 1, !.marks = {"de"}]
\* A cut on either side of punctuation: 10 + 10, in capitals and with digits.
Address ==
    [Plain(20, {3}, 128) EXCEPT
        !.letters = (1..20) \ {9, 10, 11, 12}, !.capitals = 1..8, !.digits = {20},
        !.hyphens = {11, 12}, !.trail = 2, !.tail = "sentence", !.closers = 1]
\* A row of dashes, 10 + 11, whose pushed hyphen is part of its core.
Rule == [Plain(21, {}, 100) EXCEPT !.letters = {}, !.hyphens = 1..21]

FewTokens == {Im, Range30, Compound, Address, Rule}
Pages == {1, 2, 5}

\* 2000-02-27, 2024-02-27, 2024-12-30, 2100-02-28.
Edges == {11014, 19780, 20087, 47540}
Counts == {-1, 0, 1, 5}

\* 1970, the first of January 2025, and the middle of a year long gone by or to come.
Moments == {0, 20089, 47662}

\* A short one with too many words, a long one with too few; and one refused.
Summaries == {[time |-> 1, words |-> 9, wpm |-> 9], [time |-> 9, words |-> 0, wpm |-> 1],
              [time |-> 0, words |-> 1, wpm |-> 1]}

ReaderInit == TimelineInit /\ ReadingInit

ReaderNext ==
    \/ TimelineNext /\ ReadingInit /\ first = 11014 /\ UNCHANGED readingVars
    \/ ReadingNext /\ TimelineInit /\ UNCHANGED timelineVars

ReaderSpec == ReaderInit /\ [][ReaderNext]_<<timelineVars, readingVars>>
=============================================================================
