-------------------------------- MODULE Mman --------------------------------
(* libc/mman.c: the enclave's heap as pages that mmap hands out, with a bitmap in its first pages.  *)
(* All calls hold one spinlock, so each is one step. Addresses and lengths are in pages: the calls   *)
(* round lengths up and refuse addresses inside a page. What is in the pages is modelled as far as   *)
(* it is the bitmap: for some sizes of the heap the bitmap is longer than the pages reserved for it, *)
(* and its end lies in pages that are handed out.                                                    *)
EXTENDS PageBitmap

CONSTANTS HeapPages, \* the sizes that the heap may have: __oe_get_heap_size() / OE_PAGE_SIZE
          CharBit,   \* CHAR_BIT
          PageSize   \* OE_PAGE_SIZE, in bytes

PageBits == PageSize * CharBit

ASSUME PositiveSizes == HeapPages \subseteq Nat \ {0} /\ CharBit \in Nat \ {0} /\ PageSize \in Nat \ {0}
ASSUME WordsFillPages == PageBits % UintptrBits = 0

VARIABLES fullSize, \* size of the heap, in pages
          size,     \* _size, in pages
          words,    \* the words of the bitmap
          owners    \* history: whether each page is in none (0), one (1) or several (2) of the
              \* program's mappings

heapVars == <<fullSize, size, words, owners>>

\* The bitmap's size in pages: a byte for CHAR_BIT pages, rounded up to pages.
BitmapPages(pages) == ((pages \div CharBit) + PageSize - 1) \div PageSize
Managed(pages) == pages - BitmapPages(pages)
WordCount(bits) == (bits + UintptrBits - 1) \div UintptrBits

Page == 0..size - 1
Pages(pos, count) == pos..pos + count - 1

\* The bits that lie in the bitmap's own pages. The code does not ensure that these are as many as
\* there are pages (theorem FitExact).
Reserved == 0..BitmapPages(fullSize) * PageBits - 1

\* The page of which a word of the bitmap is part: negative in the bitmap's own pages.
PageOf(w) == ((w * UintptrBits) \div PageBits) - BitmapPages(fullSize)
\* memset(addr, 0, length)
Cleared(ws, pages) == [w \in DOMAIN ws |-> IF PageOf(w) \in pages THEN {} ELSE ws[w]]

LengthInRange(count) == 0 < count /\ count < size
AddrInRange(pos, count) == 0 <= pos /\ pos + count <= size

\* _map: the first free range, or ENOMEM
Map(count) ==
    LET pos == FindUnsetRange(words, size, count)
    IN  /\ LengthInRange(count)
        /\ pos # NotFound
        /\ words' = Cleared(SetRange(words, pos, count), Pages(pos, count))
        /\ owners' = [p \in Page |-> IF p \notin Pages(pos, count) THEN owners[p]
                                    ELSE IF owners[p] = 0 THEN 1 ELSE 2]
        /\ UNCHANGED <<fullSize, size>>

\* _map_fixed: what was mapped there is discarded.
MapFixed(pos, count) ==
    /\ LengthInRange(count) /\ AddrInRange(pos, count)
    /\ words' = Cleared(SetRange(words, pos, count), Pages(pos, count))
    /\ owners' = [p \in Page |-> IF p \in Pages(pos, count) THEN 1 ELSE owners[p]]
    /\ UNCHANGED <<fullSize, size>>

Unmap(pos, count) ==
    /\ LengthInRange(count) /\ AddrInRange(pos, count)
    /\ words' = ResetRange(words, pos, count)
    /\ owners' = [p \in Page |-> IF p \in Pages(pos, count) THEN 0 ELSE owners[p]]
    /\ UNCHANGED <<fullSize, size>>

\* ert_madvise with MADV_DONTNEED, of pages that may not even be mapped
Advise(pos, count) ==
    /\ LengthInRange(count) /\ AddrInRange(pos, count)
    /\ words' = Cleared(words, Pages(pos, count))
    /\ UNCHANGED <<fullSize, size, owners>>

\* The program stores something in a page that it has mapped, here where it is also the bitmap.
Store(w, value) ==
    /\ PageOf(w) \in Page /\ owners[PageOf(w)] > 0
    /\ words' = [words EXCEPT ![w] = value]
    /\ UNCHANGED <<fullSize, size, owners>>

\* The state after _init, which the first mmap calls; no call changes anything before. _init clears
\* the bitmap's pages, and the others are still as the enclave is loaded, zero.
HeapInit ==
    /\ fullSize \in HeapPages
    /\ size = Managed(fullSize)
    /\ words = [w \in 0..WordCount(size) - 1 |-> {}]
    /\ owners = [p \in Page |-> 0]

HeapNext ==
    \/ \E count \in 1..size : Map(count)
    \/ \E pos \in Page, count \in 1..size :
          MapFixed(pos, count) \/ Unmap(pos, count) \/ Advise(pos, count)
    \/ \E w \in DOMAIN words, value \in SUBSET Bit : Store(w, value)

HeapSpec == HeapInit /\ [][HeapNext]_heapVars
--------------------------------------------------------------------------------------------------
\* the ones of all words, also behind the last page
Ones == UNION {{w * UintptrBits + b : b \in words[w]} : w \in DOMAIN words}

\* However mappings are cut, joined and replaced across the words of the bitmap, and whatever the
\* program writes to its memory: of the pages that have their bit in the bitmap's own pages, exactly
\* those that the program has mapped are marked ("1 if the page is in use, 0 otherwise", mman.c:6-7),
\* and none is in two mappings, so that no memory is handed out twice.
BitmapExact ==
    /\ Ones \cap Reserved = {p \in Page \cap Reserved : owners[p] > 0}
    /\ \A p \in Page \cap Reserved : owners[p] <= 1

\* The search finds the first range of zeros that is long enough, whatever the bitmap has come to
\* be: no mmap fails with ENOMEM while there is one. find_set_range returns the next range of ones,
\* not shortened by a word's end and not beyond the heap's.
Fits(pos, count) == AddrInRange(pos, count) /\ Pages(pos, count) \cap Ones = {}
SearchExact ==
    /\ \A count \in 1..size :
          LET fits == {p \in Page : Fits(p, count)}
          IN  FindUnsetRange(words, size, count) = IF fits = {} THEN NotFound ELSE Min(fits)
    /\ \A pos \in Page :
          LET ahead == {p \in Ones : p >= pos /\ p < size}
              first == Min(ahead)
              end == Min({p \in first..size : p = size \/ p \notin Ones})
          IN  FindSetRange(words, size, pos) = IF ahead = {} THEN <<NotFound, 0>>
                                               ELSE <<first, end - first>>
=============================================================================
