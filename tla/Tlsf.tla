-------------------------------- MODULE Tlsf --------------------------------
(***************************************************************************)
(* The allocator of the foreign memory pools, src/contrib/tlsf/src/tlsf.c, *)
(* built as src/src/compile-clib.lisp does: with statistics, without locks *)
(* and without sbrk or mmap, so a pool has one area.                       *)
(*                                                                         *)
(* The area is a sequence of blocks that ends with an empty used one.  A   *)
(* free block is in the list of its class, two indexes made from its size; *)
(* two bitmaps say which lists are not empty.  An address is the offset of *)
(* a header.  The lists of free blocks are sequences, their links are not  *)
(* modelled, nor is max_size.  prev_hdr is only valid after a free block,  *)
(* so it is Null elsewhere.  A definition D_Fault is D with a fault that   *)
(* no action has.                                                          *)
(***************************************************************************)
EXTENDS Integers, Sequences, FiniteSets, SequencesExt, FiniteSetsExt

CONSTANTS MaxFli,       \* MAX_FLI
          Log2Sli,      \* MAX_LOG2_SLI
          FliOffset,    \* FLI_OFFSET
          Align,        \* BLOCK_ALIGN
          MinBlock,     \* MIN_BLOCK_SIZE
          Overhead,     \* BHDR_OVERHEAD
          AreaSize,     \* size of the first block
          Admin,        \* the rest of the pool: tlsf_t and three headers
          Sizes,        \* that callers ask for
          MaxBlocks     \* bound of the blocks that callers hold

\* 1 << i
Bit[i \in 0 .. MaxFli] == IF i = 0 THEN 1 ELSE 2 * Bit[i - 1]

MaxSli == Bit[Log2Sli]
SmallBlock == Bit[FliOffset + 1]
SizeofBhdr == Overhead + MinBlock

\* A list of small blocks has blocks of one size: sizes are multiples of the
\* overhead, and the smallest block can be divided by it too.
ASSUME TlsfAssumption ==
    /\ {MaxFli, Log2Sli, FliOffset, Align, MinBlock, Overhead, AreaSize, Admin, MaxBlocks}
           \subseteq Nat \ {0}
    /\ Sizes \subseteq Nat \ {0} /\ FliOffset < MaxFli /\ Log2Sli <= MaxFli
    /\ SmallBlock % MaxSli = 0 /\ Overhead % (SmallBlock \div MaxSli) = 0
    /\ Align % Overhead = 0 /\ MinBlock % Overhead = 0 /\ AreaSize % Align = 0
    /\ MinBlock <= AreaSize                  \* init_memory_pool refuses a smaller pool
    /\ \A size \in Sizes \cup {AreaSize} :   \* no index past the table
          2 * (size + Align) <= Bit[MaxFli]

VARIABLES hdr,       \* the headers: address to size, state, state and address of the previous
          matrix,    \* the free lists
          fl, sl,    \* fl_bitmap, sl_bitmap
          used,      \* used_size
          asked,     \* history: what callers have asked for, by address
          refused    \* history: the last request, rounded, that found no block

heap == [hdr |-> hdr, matrix |-> matrix, fl |-> fl, sl |-> sl, used |-> used]
tlsfVars == <<hdr, matrix, fl, sl, used, asked, refused>>

Null == -1
End == Overhead + AreaSize
Next_(h, b) == b + Overhead + h.hdr[b].size     \* GET_NEXT_BLOCK

\* The heap of the last step of an operation is the new state.
Becomes(h) == /\ hdr' = h.hdr /\ matrix' = h.matrix /\ fl' = h.fl /\ sl' = h.sl
              /\ used' = h.used

-----------------------------------------------------------------------------
(* Classes *)

MsBit(x) == CHOOSE i \in 0 .. MaxFli : Bit[i] <= x /\ x < 2 * Bit[i]

MappingInsert(r) ==
    IF r < SmallBlock THEN <<0, r \div (SmallBlock \div MaxSli)>>
    ELSE <<MsBit(r) - FliOffset, (r \div Bit[MsBit(r) - Log2Sli]) - MaxSli>>

MappingSearch_RoundDown(r) == [size |-> r, class |-> MappingInsert(r)]

\* The size goes up to the next class, whose blocks are all large enough.
MappingSearch(r) ==
    IF r < SmallBlock THEN [size |-> r, class |-> MappingInsert(r)]
    ELSE LET width == Bit[MsBit(r) - Log2Sli]
             up == r + width - 1
         IN  [size |-> up - (up % width),
              class |-> <<MsBit(up) - FliOffset, (up \div Bit[MsBit(up) - Log2Sli]) - MaxSli>>]

MaxFl == MaxFli - FliOffset - 1
Classes == (0 .. MaxFl) \X (0 .. MaxSli - 1)

FindSuitableBlock_SameLevel(h, class) ==
    LET same == {s \in h.sl[class[1]] : s >= class[2]}
    IN  IF same # {} THEN <<class[1], Min(same)>> ELSE <<>>

\* The first list that is not empty from the class up, or none.
FindSuitableBlock(h, class) ==
    LET same == {s \in h.sl[class[1]] : s >= class[2]}
        above == {f \in h.fl : f > class[1]}
    IN  IF same # {} THEN <<class[1], Min(same)>>
        ELSE IF above # {} THEN <<Min(above), Min(h.sl[Min(above)])>> ELSE <<>>

-----------------------------------------------------------------------------
(* Lists of free blocks *)

\* f with the value e at x.
With(f, x, e) == [y \in DOMAIN f \cup {x} |-> IF y = x THEN e ELSE f[y]]

\* The bits of a class after a block was taken out of its list.
ClearBits(h, class) ==
    IF h.matrix[class] # <<>> THEN h
    ELSE LET bits == h.sl[class[1]] \ {class[2]}
         IN  [h EXCEPT !.sl[class[1]] = bits,
                       !.fl = IF bits = {} THEN @ \ {class[1]} ELSE @]

ExtractBlockHdr(h, class) == ClearBits([h EXCEPT !.matrix[class] = Tail(@)], class)

ExtractBlock(h, b) ==
    LET class == MappingInsert(h.hdr[b].size)
    IN  ClearBits([h EXCEPT !.matrix[class] = RemoveAt(@, CHOOSE k \in DOMAIN @ : @[k] = b)], class)

InsertBlock(h, b) ==
    LET class == MappingInsert(h.hdr[b].size)
    IN  [h EXCEPT !.matrix[class] = <<b>> \o @,
                  !.sl[class[1]] = @ \cup {class[2]},
                  !.fl = @ \cup {class[1]}]

AddSize(h, b) == [h EXCEPT !.used = @ + h.hdr[b].size + Overhead]

RemoveSize(h, b) == [h EXCEPT !.used = @ - h.hdr[b].size - Overhead]

\* A header that has become part of another block is no header any more.
AbsorbIn(hd, b, taken) ==
    [x \in DOMAIN hd \ {taken} |->
        IF x = b THEN [hd[b] EXCEPT !.size = @ + hd[taken].size + Overhead] ELSE hd[x]]

Absorb(h, b, taken) == [h EXCEPT !.hdr = AbsorbIn(@, b, taken)]

\* What the header n says of the block before it.
LinkBack(hd, n, isFree, previous) == [hd EXCEPT ![n].prevFree = isFree, ![n].prev = previous]

-----------------------------------------------------------------------------
(* Initial state: process_area and the first free_ex of init_memory_pool *)

TlsfInit ==
    LET class == MappingInsert(AreaSize)
    IN  /\ hdr = [b \in {0, End} |->
                    IF b = 0 THEN [size |-> AreaSize, free |-> TRUE, prevFree |-> FALSE, prev |-> Null]
                    ELSE [size |-> 0, free |-> FALSE, prevFree |-> TRUE, prev |-> 0]]
        /\ matrix = [c \in Classes |-> IF c = class THEN <<0>> ELSE <<>>]
        /\ fl = {class[1]}
        /\ sl = [f \in 0 .. MaxFl |-> IF f = class[1] THEN {class[2]} ELSE {}]
        /\ used = Admin
        /\ asked = [x \in {} |-> 0] /\ refused = 0

RoundUpSize(r) == ((r + Align - 1) \div Align) * Align
Adjusted(size) == IF size < MinBlock THEN MinBlock ELSE RoundUpSize(size)

\* The rest of a block after its first bytes becomes a free block.
SplitBlock(h, b, size) ==
    LET next == Next_(h, b)
        rest == h.hdr[b].size - size - Overhead
        b2 == b + Overhead + size
        split == With([LinkBack(h.hdr, next, TRUE, b2) EXCEPT ![b].size = size, ![b].free = FALSE],
                      b2, [size |-> rest, free |-> TRUE, prevFree |-> FALSE, prev |-> Null])
    IN  InsertBlock([h EXCEPT !.hdr = split], b2)

CanSplit(h, b, size) == h.hdr[b].size - size >= SizeofBhdr

\* malloc_ex: the new heap and the address of the block.
MallocEx(h, request) ==
    LET search == MappingSearch(Adjusted(request))
        class == FindSuitableBlock(h, search.class)
    IN  IF class = <<>> THEN [heap |-> h, ptr |-> Null]
        ELSE LET b == Head(h.matrix[class])
                 h1 == ExtractBlockHdr(h, class)
                 h2 == IF CanSplit(h1, b, search.size) THEN SplitBlock(h1, b, search.size)
                       ELSE [h1 EXCEPT !.hdr = [LinkBack(@, Next_(h1, b), FALSE, Null)
                                                   EXCEPT ![b].free = FALSE]]
             IN  [heap |-> AddSize(h2, b), ptr |-> b]

\* The block absorbs the next one when that is free.
JoinNext(h, b) ==
    LET next == Next_(h, b)
    IN  IF h.hdr[next].free THEN Absorb(ExtractBlock(h, next), b, next) ELSE h

\* The previous one absorbs the block when it is free, and is the first of the two.
FirstOf(h, b) == IF h.hdr[b].prevFree THEN h.hdr[b].prev ELSE b
JoinPrevious(h, b) ==
    LET first == FirstOf(h, b)
    IN  IF first # b THEN Absorb(ExtractBlock(h, first), first, b) ELSE h

PutBack(h, b) ==
    LET listed == InsertBlock(h, b)
    IN  [listed EXCEPT !.hdr = LinkBack(@, Next_(listed, b), TRUE, b)]

FreeEx_NoPrevious(h, b) == PutBack(JoinNext(RemoveSize([h EXCEPT !.hdr[b].free = TRUE], b), b), b)

FreeEx(h, b) ==
    LET joined == JoinNext(RemoveSize([h EXCEPT !.hdr[b].free = TRUE], b), b)
    IN  PutBack(JoinPrevious(joined, b), FirstOf(joined, b))

\* The block and a free one after it are large enough.
ReallocFits(h, b, size) ==
    h.hdr[Next_(h, b)].free /\ size <= h.hdr[b].size + h.hdr[Next_(h, b)].size

Trim(h, b, size) == IF CanSplit(h, b, size) THEN SplitBlock(h, b, size) ELSE h

\* realloc_ex of a pointer and a size that are not null.
ReallocEx(h, b, request) ==
    LET size == Adjusted(request)
        joined == JoinNext(RemoveSize(h, b), b)
        grown == [joined EXCEPT !.hdr = LinkBack(@, Next_(joined, b), FALSE, Null)]
        moved == MallocEx(h, size)
    IN  IF size <= h.hdr[b].size
        THEN [heap |-> AddSize(Trim(joined, b, size), b), ptr |-> b]
        ELSE IF ReallocFits(h, b, size)
        THEN [heap |-> AddSize(Trim(grown, b, size), b), ptr |-> b]
        ELSE IF moved.ptr = Null THEN moved ELSE [moved EXCEPT !.heap = FreeEx(@, b)]

-----------------------------------------------------------------------------
Held == DOMAIN asked
Refuse(result, request) ==
    refused' = IF result.ptr = Null THEN MappingSearch(Adjusted(request)).size ELSE 0

\* malloc_ex, and calloc_ex, which clears the block.
Malloc(request) ==
    LET result == MallocEx(heap, request)
    IN  /\ Cardinality(Held) < MaxBlocks
        /\ Becomes(result.heap) /\ Refuse(result, request)
        /\ asked' = IF result.ptr = Null THEN asked ELSE With(asked, result.ptr, request)

\* free_ex, and realloc_ex to the size zero.
Free(b) ==
    /\ Becomes(FreeEx(heap, b)) /\ refused' = 0
    /\ asked' = [x \in Held \ {b} |-> asked[x]]

Realloc(b, request) ==
    LET result == ReallocEx(heap, b, request)
    IN  /\ Becomes(result.heap) /\ Refuse(result, request)
        /\ asked' = IF result.ptr = Null THEN asked
                    ELSE With([x \in Held \ {b} |-> asked[x]], result.ptr, request)

TlsfNext == \/ \E request \in Sizes : Malloc(request)
            \/ \E b \in Held : Free(b)
            \/ \E b \in Held, request \in Sizes : Realloc(b, request)

TlsfSpec == TlsfInit /\ [][TlsfNext]_tlsfVars

-----------------------------------------------------------------------------
(* Properties *)

\* Sizes stay in the area, lists and bitmaps have the indexes of the table,
\* and used_size stays in the pool but for one header.
TlsfTypeOK ==
    /\ \A b \in DOMAIN hdr : hdr[b].size \in 0 .. AreaSize
    /\ DOMAIN matrix = Classes /\ fl \subseteq 0 .. MaxFl
    /\ used \in 0 .. Admin + AreaSize + Overhead

\* The blocks cover the area without a hole and without an overlap: from
\* every block but the last the next header is the nearest one, and a block
\* that a caller holds is a used one.
Tiled ==
    /\ {0, End} \subseteq DOMAIN hdr
    /\ \A b \in DOMAIN hdr \ {End} :
          /\ Next_(heap, b) \in DOMAIN hdr
          /\ \A x \in DOMAIN hdr : x > b => x >= Next_(heap, b)
    /\ {b \in DOMAIN hdr : ~hdr[b].free} = Held \cup {End}

\* Two free blocks are never neighbours, and what a header says of the block
\* before it is true: a later free_ex absorbs the right bytes.
Coalesced ==
    \A b \in DOMAIN hdr \ {End} :
        LET next == hdr[Next_(heap, b)]
        IN  /\ next.prevFree = hdr[b].free
            /\ hdr[b].free => next.prev = b /\ ~next.free

\* A free block is in the list of its class and in no other, once, and the
\* bitmaps name the lists that are not empty.
ListsExact ==
    /\ \A c \in Classes :
          /\ Range(matrix[c]) = {b \in DOMAIN hdr : hdr[b].free /\ MappingInsert(hdr[b].size) = c}
          /\ IsInjective(matrix[c])
          /\ (c[2] \in sl[c[1]]) = (matrix[c] # <<>>)
    /\ \A f \in 0 .. MaxFl : (f \in fl) = (sl[f] # {})

\* A block that a caller holds is as large as its last request, also when the
\* search has taken the first block of a class without a look at its size.
LargeEnough == \A b \in Held : hdr[b].size >= asked[b]

\* A request is refused only when no free block has the size of its class:
\* the search by bitmaps misses nothing.
RefusedOnlyWhenFull == refused > 0 => \A b \in DOMAIN hdr : hdr[b].free => hdr[b].size < refused

\* used_size is exact whatever the order of splits, merges and moves.
UsedExact ==
    used = Admin + MapThenSumSet(LAMBDA b : hdr[b].size + Overhead, Held)

\* Blocks, headers, lists, bitmaps and used_size agree after any sequence of
\* malloc_ex, free_ex and realloc_ex.
PoolInv == TlsfTypeOK /\ Tiled /\ Coalesced /\ ListsExact /\ UsedExact
=============================================================================
