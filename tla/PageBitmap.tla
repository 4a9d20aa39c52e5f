----------------------------- MODULE PageBitmap -----------------------------
(***************************************************************************)
(* common/bitset.c: ranges of bits in an array of words.  A word is the    *)
(* set of the positions of its ones, so that |, & and ~ are union,         *)
(* intersection and difference.  The loops over words are unrolled: an     *)
(* operator with a parameter k says what a loop does in its k-th round.    *)
(***************************************************************************)
EXTENDS Integers, FiniteSetsExt

CONSTANT UintptrBits \* bits of a word

ASSUME WordsHaveBits == UintptrBits \in Nat \ {0}

Bit == 0..UintptrBits - 1
NotFound == -1       \* SIZE_MAX
-----------------------------------------------------------------------------
(* ert_bitset_set_range, ert_bitset_reset_range *)

BitsPerWord(pos, k) == IF k = 0 THEN UintptrBits - (pos % UintptrBits) ELSE UintptrBits
Remaining(pos, count, k) ==
    IF k = 0 THEN count ELSE count - BitsPerWord(pos, 0) - (k - 1) * UintptrBits

\* the first word taken from its start
Mask_FromWordStart(pos, k) == Bit
Mask(pos, k) == IF k = 0 THEN {b \in Bit : b >= pos % UintptrBits} ELSE Bit

\* What the range covers of a word: the loop takes words as long as they are full,
\* then comes the last one, of which the range covers the lower bits.
RangeMask(pos, count, w) ==
    LET k == w - pos \div UintptrBits
        remaining == Remaining(pos, count, k)
    IN  IF k < 0 \/ remaining <= 0 THEN {}
        ELSE IF remaining >= BitsPerWord(pos, k) THEN Mask(pos, k)
        ELSE Mask(pos, k) \cap {b \in Bit : b < (pos + count) % UintptrBits}

SetRange(words, pos, count) == [w \in DOMAIN words |-> words[w] \cup RangeMask(pos, count, w)]
ResetRange(words, pos, count) == [w \in DOMAIN words |-> words[w] \ RangeMask(pos, count, w)]
-----------------------------------------------------------------------------
(* _find_next_bit *)

\* A word as it is looked at: its ones, or with invert its zeros.
Look(words, w, invert) == IF invert THEN Bit \ words[w] ELSE words[w]

\* The search begins in the word of pos, without the bits before pos.
Word(words, pos, k, invert) ==
    {b \in Look(words, pos \div UintptrBits + k, invert) : k = 0 => b >= pos % UintptrBits}
\* without going back to the start of the first word
WordStart_FromPos(pos, k) == pos + k * UintptrBits
WordStart(pos, k) == pos - (pos % UintptrBits) + k * UintptrBits

\* The loop ends in the first of these rounds, or behind the bitset.
Hits(words, bitsetSize, pos, invert) ==
    {k \in DOMAIN words : WordStart(pos, k) < bitsetSize /\ Word(words, pos, k, invert) # {}}
BitFound(words, bitsetSize, pos, invert) ==
    LET k == Min(Hits(words, bitsetSize, pos, invert))
    IN  WordStart(pos, k) + Min(Word(words, pos, k, invert))

\* The first one (or with invert, zero) at or behind pos, or the size.
FindNextBit(words, bitsetSize, pos, invert) ==
    IF \/ pos >= bitsetSize \/ Hits(words, bitsetSize, pos, invert) = {}
       \/ BitFound(words, bitsetSize, pos, invert) >= bitsetSize
    THEN bitsetSize
    ELSE BitFound(words, bitsetSize, pos, invert)
-----------------------------------------------------------------------------
\* The search goes on behind the one that ends a range of zeros that is too short.
FindUnsetRange(words, bitsetSize, count) ==
    LET from[i \in 0..bitsetSize] ==
            LET pos0 == FindNextBit(words, bitsetSize, i, TRUE)
                pos1 == FindNextBit(words, bitsetSize, pos0, FALSE)
            IN  IF pos0 + count > bitsetSize THEN NotFound
                ELSE IF pos1 >= pos0 + count THEN pos0
                ELSE from[pos1 + 1]
    IN  from[0]

\* The first range of ones at or behind pos: its position and its length.
FindSetRange(words, bitsetSize, pos) ==
    LET pos0 == FindNextBit(words, bitsetSize, pos, FALSE)
    IN  IF pos0 = bitsetSize THEN <<NotFound, 0>>
        ELSE <<pos0, FindNextBit(words, bitsetSize, pos0, TRUE) - pos0>>
=============================================================================
