-------------------------- MODULE MemoryPool_proofs --------------------------
(***************************************************************************)
(* Proofs about MemoryPool, for any number of threads and blocks and any   *)
(* sizes of objects, blocks and pages.  What concerns the memory is proved *)
(* of the pool without its checks: with them, new blocks get slots of      *)
(* another size.                                                           *)
(***************************************************************************)
EXTENDS MemoryPool, FiniteSetTheorems, WellFoundedInduction, TLAPS

----------------------------------------------------------------------------
(* Numbers                                                                 *)

\* A set of numbers that is not empty has a least one.
LEMMA LeastNumber ==
  ASSUME NEW T \in SUBSET Nat, T # {}
  PROVE  \E x \in T : \A y \in T : x <= y
<1> DEFINE R == OpToRel(<, Nat)
<1>1. IsWellFoundedOn(R, Nat)
  BY NatLessThanWellFounded, Zenon
<1>2. \A x, y \in Nat : y < x => <<y, x>> \in R
  BY DEF OpToRel
<1> HIDE DEF R
<1>3. PICK x \in T : \A y \in T : <<y, x>> \notin R
  BY <1>1, WFMin
<1>4. \A y \in T : ~(y < x)
  BY <1>2, <1>3
<1> QED
  BY <1>4

\* A product grows with its factors.
LEMMA ProductGrows ==
  ASSUME NEW i \in Nat, NEW j \in Nat, NEW s \in Nat, i <= j
  PROVE  i * s \in Nat /\ j * s \in Nat /\ i * s <= j * s
<1>1. PICK d \in Nat : j = i + d
  <2>1. j - i \in Nat /\ j = i + (j - i)
    OBVIOUS
  <2> QED
    BY <2>1
<1>2. j * s = i * s + d * s
  BY <1>1
<1>3. d * s \in Nat /\ i * s \in Nat
  OBVIOUS
<1> QED
  BY <1>2, <1>3

\* How often s fits into a.
LEMMA Quotient ==
  ASSUME NEW a \in Nat, NEW s \in Nat, s > 0
  PROVE  /\ a \div s \in Nat
         /\ (a \div s) * s <= a
         /\ a < (a \div s + 1) * s
OBVIOUS

\* What fits n times fits at least n times.
LEMMA QuotientAtLeast ==
  ASSUME NEW a \in Nat, NEW s \in Nat, s > 0, NEW n \in Nat, n * s <= a
  PROVE  a \div s >= n
<1> SUFFICES ASSUME a \div s < n PROVE FALSE
  BY Quotient
<1>1. (a \div s) + 1 <= n /\ (a \div s) \in Nat
  BY Quotient
<1>2. ((a \div s) + 1) * s <= n * s
  BY <1>1, ProductGrows
<1> QED
  BY <1>2, Quotient

\* A block has room for the link and the minimum number of objects.
LEMMA RoomForObjects ==
  ASSUME NEW s \in Nat, s > 0
  PROVE  /\ BlockSize(s) \in Nat /\ BlockSize(s) > 0
         /\ (BlockSize(s) - 1) \div s \in Nat
         /\ (BlockSize(s) - 1) \div s >= NumObjects
<1> USE NumbersType
<1>1. CASE (PageSize - 1) \div s < NumObjects
  <2> DEFINE a == s * NumObjects + 1
  <2>1. a \in Nat /\ NumObjects * s \in Nat /\ a = NumObjects * s + 1
    OBVIOUS
  <2> HIDE DEF a
  <2>2. BlockSize(s) = (a \div PageSize + 1) * PageSize
    BY <1>1 DEF BlockSize, a
  <2>3. a < BlockSize(s) /\ BlockSize(s) \in Nat
    BY <2>1, <2>2, Quotient
  <2>4. NumObjects * s <= BlockSize(s) - 1 /\ BlockSize(s) - 1 \in Nat
    BY <2>1, <2>3
  <2> QED
    BY <2>3, <2>4, QuotientAtLeast, Quotient
<1>2. CASE ~((PageSize - 1) \div s < NumObjects)
  <2>1. BlockSize(s) = PageSize /\ PageSize - 1 \in Nat
    BY <1>2 DEF BlockSize
  <2> QED
    BY <1>2, <2>1, Quotient
<1> QED
  BY <1>1, <1>2

----------------------------------------------------------------------------
(* Lists in memory                                                         *)

\* A chain is any function that follows the links as Chain does.
LEMMA ChainIs ==
  ASSUME NEW first, NEW link, NEW n \in Nat, NEW f,
         f = [i \in 0 .. n |->
                IF i = 0 THEN first
                ELSE IF f[i - 1] = Null THEN Null ELSE At(Plus(f[i - 1], link))]
  PROVE  Chain(first, link, n) = f
<1> DEFINE at == Chain(first, link, n)
<1>1. at = [i \in 0 .. n |->
              IF i = 0 THEN first
              ELSE IF at[i - 1] = Null THEN Null ELSE At(Plus(at[i - 1], link))]
  BY DEF Chain
<1> HIDE DEF at
<1>2. \A i \in 0 .. n : at[i] = f[i]
  <2> DEFINE T == {i \in 0 .. n : at[i] # f[i]}
  <2> SUFFICES ASSUME T # {} PROVE FALSE
    OBVIOUS
  <2>1. T \in SUBSET Nat
    OBVIOUS
  <2>2. PICK x \in T : \A y \in T : x <= y
    BY <2>1, LeastNumber
  <2>3. x \in 0 .. n /\ at[x] # f[x]
    OBVIOUS
  <2>4. x # 0
    BY <1>1, <2>3
  <2>5. x - 1 \in 0 .. n /\ x - 1 \notin T
    BY <2>2, <2>3, <2>4
  <2>6. at[x - 1] = f[x - 1]
    BY <2>5
  <2> QED
    BY <1>1, <2>3, <2>4, <2>6
<1>3. at = f
  BY <1>1, <1>2
<1> QED
  BY <1>3 DEF at

----------------------------------------------------------------------------
(* Memory and its slots                                                    *)

\* Memory in which the blocks of H have been given out, with bs words each.
Shaped(m, bs, H) ==
  /\ m = [b \in Block |-> m[b]]
  /\ \A b \in Block \ H : m[b] = NoMemory
  /\ \A b \in H : m[b] = [o \in 0 .. bs - 1 |-> m[b][o]]

\* Which blocks are given out can be told from the memory.
LEMMA ShapeTells ==
  ASSUME NEW m, NEW bs \in Nat, bs > 0, NEW H \in SUBSET Block, Shaped(m, bs, H)
  PROVE  {b \in Block : m[b] # NoMemory} = H
<1>1. ASSUME NEW b \in H PROVE m[b] # NoMemory
  <2>1. DOMAIN m[b] = 0 .. bs - 1
    BY DEF Shaped
  <2>2. DOMAIN NoMemory = {}
    BY DEF NoMemory
  <2>3. 0 \in 0 .. bs - 1
    OBVIOUS
  <2> QED
    BY <2>1, <2>2, <2>3
<1> QED
  BY <1>1 DEF Shaped

\* A store changes the words it is for and no other, and no block.
LEMMA StoreIs ==
  ASSUME NEW m, NEW bs \in Nat, bs > 0, NEW H \in SUBSET Block, Shaped(m, bs, H),
         NEW S, NEW v
  PROVE  /\ Shaped(Store(m, S, v), bs, H)
         /\ \A b \in H, o \in 0 .. bs - 1 :
              Store(m, S, v)[b][o] = IF <<b, o>> \in S THEN v ELSE m[b][o]
<1> DEFINE r == Store(m, S, v)
<1>1. r = [b \in Block |-> [o \in DOMAIN m[b] |-> IF <<b, o>> \in S THEN v ELSE m[b][o]]]
  BY DEF Store
<1> HIDE DEF r
<1>2. r = [b \in Block |-> r[b]]
  BY <1>1
<1>3. ASSUME NEW b \in Block \ H PROVE r[b] = NoMemory
  <2>1. DOMAIN m[b] = {}
    BY DEF Shaped, NoMemory
  <2>2. r[b] = [o \in DOMAIN m[b] |-> IF <<b, o>> \in S THEN v ELSE m[b][o]]
    BY <1>1
  <2> QED
    BY <2>1, <2>2 DEF NoMemory
<1>4. ASSUME NEW b \in H
      PROVE  r[b] = [o \in 0 .. bs - 1 |-> IF <<b, o>> \in S THEN v ELSE m[b][o]]
  <2>1. DOMAIN m[b] = 0 .. bs - 1
    BY DEF Shaped
  <2> QED
    BY <1>1, <2>1
<1>5. Shaped(r, bs, H)
  BY <1>2, <1>3, <1>4 DEF Shaped
<1>6. \A b \in H, o \in 0 .. bs - 1 : r[b][o] = IF <<b, o>> \in S THEN v ELSE m[b][o]
  BY <1>4
<1> QED
  BY <1>5, <1>6 DEF r

\* The slots of a block lie one after the other, after the link.
LEMMA SlotIs ==
  ASSUME NEW b, NEW bs \in Nat, bs > 0, NEW s \in Nat, s > 0,
         NEW p \in Slots(b, bs, s)
  PROVE  \E i \in 0 .. (bs - 1) \div s - 1 :
           /\ p = <<b, 1 + i * s>>
           /\ i * s \in Nat /\ i * s + s <= bs - 1
<1>1. PICK i \in 0 .. (bs - 1) \div s - 1 : p = <<b, 1 + i * s>>
  BY DEF Slots
<1>2. (bs - 1) \div s \in Nat /\ ((bs - 1) \div s) * s <= bs - 1
  BY Quotient
<1>3. i \in Nat /\ i + 1 \in Nat /\ i + 1 <= (bs - 1) \div s
  BY <1>2
<1>4. i * s \in Nat /\ (i + 1) * s <= ((bs - 1) \div s) * s
  BY <1>2, <1>3, ProductGrows
<1>5. (i + 1) * s = i * s + s /\ ((bs - 1) \div s) * s \in Nat
  BY <1>2, <1>3
<1>6. i * s + s <= bs - 1
  BY <1>2, <1>4, <1>5
<1> QED
  BY <1>1, <1>4, <1>6

\* The words of an object are in its block, and after the link.
LEMMA WordsInBlock ==
  ASSUME NEW b, NEW bs \in Nat, bs > 0, NEW s \in Nat, s > 0,
         NEW p \in Slots(b, bs, s), NEW a \in Words(p, s)
  PROVE  /\ p[1] = b /\ a = <<b, a[2]>> /\ a[1] = b
         /\ a[2] \in 1 .. bs - 1 /\ p[2] \in 1 .. bs - 1
         /\ p[2] <= a[2] /\ a[2] < p[2] + s
<1>1. PICK i \in Nat : p = <<b, 1 + i>> /\ i + s <= bs - 1
  BY SlotIs
<1>2. PICK j \in 0 .. s - 1 : a = <<p[1], p[2] + j>>
  BY DEF Words, Plus
<1> QED
  BY <1>1, <1>2

\* Different slots have no word in common.
LEMMA SlotsApart ==
  ASSUME NEW b, NEW c, NEW bs \in Nat, bs > 0, NEW s \in Nat, s > 0,
         NEW p \in Slots(b, bs, s), NEW q \in Slots(c, bs, s), p # q,
         NEW a \in Words(p, s)
  PROVE  a \notin Words(q, s)
<1> SUFFICES ASSUME a \in Words(q, s) PROVE FALSE
  OBVIOUS
<1>1. /\ a[1] = b /\ p[2] <= a[2] /\ a[2] < p[2] + s
      /\ a[1] = c /\ q[2] <= a[2] /\ a[2] < q[2] + s
      /\ a[2] \in Nat
  BY WordsInBlock
<1>2. PICK i \in 0 .. (bs - 1) \div s - 1 : p = <<b, 1 + i * s>> /\ i * s \in Nat
  BY SlotIs
<1>3. PICK j \in 0 .. (bs - 1) \div s - 1 : q = <<b, 1 + j * s>> /\ j * s \in Nat
  BY <1>1, SlotIs
<1>4. i # j /\ i \in Nat /\ j \in Nat
  BY <1>2, <1>3, Quotient
<1>5. p[2] = 1 + i * s /\ q[2] = 1 + j * s
  BY <1>2, <1>3
<1>6. ASSUME NEW k \in Nat, NEW l \in Nat, k < l PROVE k * s + s <= l * s
  <2>1. k + 1 \in Nat /\ k + 1 <= l
    BY <1>6
  <2>2. (k + 1) * s <= l * s
    BY <2>1, ProductGrows
  <2>3. (k + 1) * s = k * s + s
    OBVIOUS
  <2> QED
    BY <2>2, <2>3
<1>7. CASE i < j
  <2>1. i * s + s <= j * s
    BY <1>4, <1>6, <1>7
  <2> QED
    BY <1>1, <1>2, <1>3, <1>5, <2>1
<1>8. CASE j < i
  <2>1. j * s + s <= i * s
    BY <1>4, <1>6, <1>8
  <2> QED
    BY <1>1, <1>2, <1>3, <1>5, <2>1
<1> QED
  BY <1>4, <1>7, <1>8

----------------------------------------------------------------------------
(* The invariant                                                           *)

\* Block h points to the one before it.
Link(h) == IF h = 0 THEN Null ELSE <<h, 0>>

\* There are blocks only once their size is known, and it fits the objects.
SizesInv ==
  /\ request \in Nat /\ size \in Nat /\ request <= size
  /\ block_size \in Nat
  /\ block_size = 0 => Heap = {}
  /\ block_size > 0 => size > 0 /\ block_size = BlockSize(size)

\* The blocks were taken one after the other, and each links to the last.
HeapIs(h) ==
  /\ Shaped(mem, block_size, 1 .. h)
  /\ Heap = 1 .. h
  /\ block = Link(h)
  /\ \A b \in 1 .. h : mem[b][0] = Link(b - 1)

HeapInv == \E h \in 0 .. MaxBlocks : HeapIs(h)

\* What can be in a word.
Word == Address \cup {Null, One, Data}

WordsTyped == \A b \in Heap : \A o \in 0 .. block_size - 1 : mem[b][o] \in Word

\* s is the free list from its end, n objects long.
Stack(s, n) ==
  /\ s \in [1 .. n -> AllSlots \ used]
  /\ \A p \in AllSlots \ used : \E i \in 1 .. n : s[i] = p
  /\ \A i, j \in 1 .. n : s[i] = s[j] => i = j
  /\ next = IF n = 0 THEN Null ELSE s[n]
  /\ \A i \in 1 .. n : At(s[i]) = IF i = 1 THEN Null ELSE s[i - 1]

ListInv ==
  /\ total_allocs - current_allocs \in Nat
  /\ \E s : Stack(s, total_allocs - current_allocs)

\* The objects in use are slots, counted, and not written to before they are
\* cleared.
UseInv ==
  /\ used \subseteq AllSlots
  /\ IsFiniteSet(used)
  /\ Cardinality(used) = current_allocs
  /\ total_allocs \in Nat
  /\ clearing \in [Client -> used \cup {Null}]
  /\ filled \subseteq used
  /\ \A c \in Client : clearing[c] \notin filled

OwnInv ==
  /\ aborted = FALSE
  /\ replaced \in 0 .. 2
  /\ misfreed \in BOOLEAN
  /\ late \in BOOLEAN

\* A thread that waits for the lock with a new has no object to clear.  What is
\* on its way to delete is in use, cleared, and deleted by one thread only.
CallsInv ==
  /\ entering \in [Client -> {"none", "new", "release"}]
  /\ deleting \in [Client -> used \cup {Null}]
  /\ \A c \in Client : entering[c] = "new" => clearing[c] = Null
  /\ \A c, d \in Client : deleting[c] # Null => deleting[c] # clearing[d]
  /\ \A c, d \in Client : c # d /\ deleting[c] # Null => deleting[c] # deleting[d]

PoolInv ==
  /\ request \in ObjectSizes
  /\ SizesInv /\ HeapInv /\ WordsTyped /\ ListInv /\ UseInv /\ OwnInv
  /\ ObjectsIntact

\* A slot is in a block, and its words are words of the block after the link.
LEMMA SlotType ==
  ASSUME SizesInv, NEW p \in AllSlots
  PROVE  /\ block_size > 0 /\ size > 0
         /\ p[1] \in Heap /\ p[1] \in Block
         /\ p \in Slots(p[1], block_size, size)
         /\ p = <<p[1], p[2]>> /\ p[2] \in 1 .. block_size - 1
         /\ p \in Address /\ p # Null
         /\ p \in Words(p, size) /\ Plus(p, 0) = p
         /\ \A a \in Words(p, size) :
              a[1] = p[1] /\ a = <<a[1], a[2]>> /\ a[2] \in 1 .. block_size - 1
<1>1. PICK b \in Heap : p \in Slots(b, block_size, size)
  BY DEF AllSlots
<1>2. block_size > 0 /\ size > 0 /\ block_size \in Nat /\ size \in Nat
  BY <1>1 DEF SizesInv
<1>3. PICK i \in 0 .. (block_size - 1) \div size - 1 :
        p = <<b, 1 + i * size>> /\ i * size \in Nat /\ i * size + size <= block_size - 1
  BY <1>1, <1>2, SlotIs
<1>4. p[1] = b /\ p = <<p[1], p[2]>> /\ p[2] \in 1 .. block_size - 1
  BY <1>2, <1>3
<1>5. b \in Block /\ p # Null /\ p \in Address
  BY <1>4 DEF Heap, Block, Null, Address
<1>6. Plus(p, 0) = p /\ 0 \in 0 .. size - 1
  BY <1>2, <1>4 DEF Plus
<1>7. p \in Words(p, size)
  BY <1>6 DEF Words
<1>8. \A a \in Words(p, size) :
        a[1] = p[1] /\ a = <<a[1], a[2]>> /\ a[2] \in 1 .. block_size - 1
  BY <1>1, <1>2, <1>4, WordsInBlock
<1> QED
  BY <1>1, <1>2, <1>4, <1>5, <1>6, <1>7, <1>8

\* Objects do not share words.
LEMMA ObjectsApart ==
  ASSUME SizesInv, NEW p \in AllSlots, NEW q \in AllSlots, p # q,
         NEW a \in Words(p, size)
  PROVE  a \notin Words(q, size)
<1>1. block_size \in Nat /\ size \in Nat /\ block_size > 0 /\ size > 0
  BY SlotType DEF SizesInv
<1>2. p \in Slots(p[1], block_size, size) /\ q \in Slots(q[1], block_size, size)
  BY SlotType
<1> QED
  BY <1>1, <1>2, SlotsApart

\* The words the program sees are words of the slot.
LEMMA RequestedWords ==
  ASSUME SizesInv, NEW p
  PROVE  Words(p, request) \subseteq Words(p, size)
<1>1. 0 .. request - 1 \subseteq 0 .. size - 1
  BY DEF SizesInv
<1> QED
  BY <1>1 DEF Words

\* A store within one slot changes that slot alone.
LEMMA StoreInSlot ==
  ASSUME SizesInv, HeapInv, WordsTyped,
         NEW p \in AllSlots, NEW S \in SUBSET Words(p, size), NEW v \in Word,
         mem' = Store(mem, S, v),
         UNCHANGED <<request, size, block_size, block>>
  PROVE  /\ SizesInv' /\ HeapInv' /\ WordsTyped'
         /\ Heap' = Heap /\ AllSlots' = AllSlots /\ Address' = Address
         /\ \A q \in AllSlots \ {p} : \A a \in Words(q, size) : At(a)' = At(a)
         /\ \A a \in Words(p, size) : At(a)' = IF a \in S THEN v ELSE At(a)
<1>1. PICK h \in 0 .. MaxBlocks : HeapIs(h)
  BY DEF HeapInv
<1> DEFINE H == 1 .. h
<1>2. H \in SUBSET Block /\ Heap = H /\ Shaped(mem, block_size, H)
  BY <1>1, NumbersType DEF HeapIs, Block
<1>3. block_size \in Nat /\ block_size > 0 /\ size \in Nat /\ size > 0
  BY SlotType DEF SizesInv
<1> HIDE DEF H
<1>4. /\ Shaped(mem', block_size, H)
      /\ \A b \in H, o \in 0 .. block_size - 1 :
           mem'[b][o] = IF <<b, o>> \in S THEN v ELSE mem[b][o]
  BY <1>2, <1>3, StoreIs
<1>5. Heap' = H
  BY <1>2, <1>3, <1>4, ShapeTells DEF Heap
<1>6. Heap' = Heap /\ AllSlots' = AllSlots /\ Address' = Address
  BY <1>2, <1>5 DEF AllSlots, Address
<1>7. SizesInv'
  BY <1>6 DEF SizesInv
<1>8. HeapInv'
  <2>1. ASSUME NEW b \in H PROVE mem'[b][0] = mem[b][0]
    <3>1. <<b, 0>> \notin S
      <4> SUFFICES ASSUME <<b, 0>> \in S PROVE FALSE
        OBVIOUS
      <4>1. <<b, 0>>[2] \in 1 .. block_size - 1
        BY SlotType
      <4> QED
        BY <4>1
    <3>2. 0 \in 0 .. block_size - 1
      BY <1>3
    <3> QED
      BY <1>4, <3>1, <3>2
  <2>2. HeapIs(h)'
    BY <1>1, <1>4, <1>5, <2>1 DEF HeapIs, H
  <2> QED
    BY <2>2 DEF HeapInv
<1>9. WordsTyped'
  <2>1. Word' = Word
    BY <1>6 DEF Word
  <2>2. ASSUME NEW b \in H, NEW o \in 0 .. block_size - 1 PROVE mem'[b][o] \in Word
    BY <1>2, <1>4 DEF WordsTyped
  <2> QED
    BY <1>5, <2>1, <2>2 DEF WordsTyped
<1>10. ASSUME NEW q \in AllSlots, NEW a \in Words(q, size)
       PROVE  At(a)' = IF a \in S THEN v ELSE At(a)
  <2>1. a[1] \in H /\ a = <<a[1], a[2]>> /\ a[2] \in 0 .. block_size - 1
    BY <1>2, SlotType
  <2> QED
    BY <1>4, <2>1 DEF At
<1>11. ASSUME NEW q \in AllSlots \ {p}, NEW a \in Words(q, size) PROVE a \notin S
  BY ObjectsApart
<1> QED
  BY <1>6, <1>7, <1>8, <1>9, <1>10, <1>11

----------------------------------------------------------------------------
(* Functions replaced, objects freed                                       *)

\* Once both functions are set in time, the pool's objects are all back and no
\* more of them are on their way.
FreedInv ==
  /\ misfreed => late
  /\ entering \in [Client -> {"none", "new", "release"}]
  /\ replaced = 2 /\ ~late =>
       used = {} /\ \A c \in Client : entering[c] # "new"

\* mm.h: an object goes back to what it was made by, unless objects were in use
\* when the second function was set, or a new was between its look at the
\* functions and its lock.  Here for a pool with and without checks.
THEOREM NothingMisfreed == Spec => []FreedWhereMade
<1>1. Init => FreedInv
  BY DEF Init, FreedInv
<1>2. FreedInv /\ [Next]_vars => FreedInv'
  <2> SUFFICES ASSUME FreedInv, [Next]_vars PROVE FreedInv'
    OBVIOUS
  <2>1. ASSUME UNCHANGED <<used, entering, own>> PROVE FreedInv'
    BY <2>1 DEF FreedInv, own
  \* A call that waits for the lock gets it, and makes an object or does not.
  <2>2. ASSUME NEW c \in Client, NEW call, Enter(c, call), UNCHANGED own,
               call = "new" \/ UNCHANGED used
        PROVE  FreedInv'
    <3>1. /\ entering[c] = call
          /\ entering' = [entering EXCEPT ![c] = "none"]
      BY <2>2 DEF Enter
    <3>2. entering' \in [Client -> {"none", "new", "release"}]
      BY <3>1 DEF FreedInv
    <3>3. \A d \in Client : entering'[d] = "new" => entering[d] = "new"
      BY <3>1 DEF FreedInv
    <3> QED
      BY <2>2, <3>1, <3>2, <3>3 DEF FreedInv, own
  <2>3. ASSUME NEW c \in Client, BeginNew(c) PROVE FreedInv'
    <3>1. ~Replaced /\ UNCHANGED own /\ entering' = [entering EXCEPT ![c] = "new"]
      BY <2>3 DEF BeginNew, Pooled
    <3>2. entering' \in [Client -> {"none", "new", "release"}]
      BY <3>1 DEF FreedInv
    <3> QED
      BY <3>1, <3>2 DEF Replaced, FreedInv, own
  <2>4. ASSUME NEW c \in Client, New0(c) PROVE FreedInv'
    <3>1. CASE Zero(c)
      BY <3>1, <2>1 DEF Zero, calls
    <3>2. CASE NewFromList(c) \/ NewFromBlock(c) \/ NewFail(c)
      <4>1. Enter(c, "new") /\ UNCHANGED own
        BY <3>2 DEF NewFromList, NewFromBlock, NewFail
      <4> QED
        BY <2>2, <4>1
    <3> QED
      BY <2>3, <2>4, <3>1, <3>2 DEF New0
  <2>5. ASSUME NEW c \in Client, NEW p \in used, BeginDelete(c, p) PROVE FreedInv'
    BY <2>1, <2>5 DEF BeginDelete
  <2>6. ASSUME NEW c \in Client, NEW p \in used, Delete(c, p) PROVE FreedInv'
    <3>1. used' = used \ {p} /\ UNCHANGED <<entering, own>>
      BY <2>6 DEF Delete
    <3> QED
      BY <3>1 DEF FreedInv, own
  <2>7. ASSUME NEW c \in Client, BeginRelease(c) PROVE FreedInv'
    <3>1. ~Replaced /\ UNCHANGED own /\ entering' = [entering EXCEPT ![c] = "release"]
      BY <2>7 DEF BeginRelease, Pooled
    <3>2. entering' \in [Client -> {"none", "new", "release"}]
      BY <3>1 DEF FreedInv
    <3> QED
      BY <3>1, <3>2 DEF Replaced, FreedInv, own
  <2>8. ASSUME NEW c \in Client, Release(c) PROVE FreedInv'
    <3>1. Enter(c, "release") /\ UNCHANGED own /\ UNCHANGED used
      BY <2>8 DEF Release
    <3> QED
      BY <2>2, <3>1
  <2>9. ASSUME NEW p \in used, Fill(p) PROVE FreedInv'
    BY <2>1, <2>9 DEF Fill, calls
  <2>10. ASSUME NEW p \in used, Misfree(p) PROVE FreedInv'
    BY <2>10 DEF Misfree, Replaced, FreedInv, calls
  <2>11. ASSUME SetFunction PROVE FreedInv'
    <3> DEFINE inTime == used = {} /\ \A c \in Client : entering[c] # "new"
    <3>2. CASE replaced' = 2 /\ ~inTime
      <4>1. late'
        BY <2>11, <3>2 DEF SetFunction
      <4> QED
        BY <2>11, <4>1 DEF SetFunction, calls, FreedInv
    <3>3. CASE ~(replaced' = 2 /\ ~inTime)
      BY <2>11, <3>3 DEF SetFunction, calls, FreedInv, Running
    <3> QED
      BY <3>2, <3>3
  <2>12. ASSUME PassBy \/ UNCHANGED vars PROVE FreedInv'
    BY <2>1, <2>12 DEF PassBy, vars, calls
  <2> QED
    BY <2>4, <2>5, <2>6, <2>7, <2>8, <2>9, <2>10, <2>11, <2>12 DEF Next
<1>3. FreedInv => FreedWhereMade
  BY DEF FreedInv, FreedWhereMade
<1> QED
  BY <1>1, <1>2, <1>3, PTL DEF Spec

----------------------------------------------------------------------------
(* Steps of the pool without its checks                                    *)

\* What is written into an object in use does not touch the lists.
LEMMA ObjectWritten ==
  ASSUME PoolInv, NEW p \in used, NEW S \in SUBSET Words(p, size), NEW v \in Word,
         mem' = Store(mem, S, v),
         UNCHANGED <<request, size, block_size, block, next, total_allocs,
                     current_allocs, used>>
  PROVE  /\ SizesInv' /\ HeapInv' /\ WordsTyped' /\ ListInv'
         /\ AllSlots' = AllSlots
         /\ \A q \in AllSlots \ {p} : \A a \in Words(q, size) : At(a)' = At(a)
         /\ \A a \in Words(p, size) : At(a)' = IF a \in S THEN v ELSE At(a)
<1>1. p \in AllSlots
  BY DEF PoolInv, UseInv
<1>2. /\ SizesInv' /\ HeapInv' /\ WordsTyped' /\ AllSlots' = AllSlots
      /\ \A q \in AllSlots \ {p} : \A a \in Words(q, size) : At(a)' = At(a)
      /\ \A a \in Words(p, size) : At(a)' = IF a \in S THEN v ELSE At(a)
  BY <1>1, StoreInSlot DEF PoolInv
<1> DEFINE n == total_allocs - current_allocs
<1>3. PICK s : Stack(s, n)
  BY DEF PoolInv, ListInv
<1>4. n' = n /\ n \in Nat
  BY DEF PoolInv, ListInv
<1> HIDE DEF n
<1>5. ASSUME NEW i \in 1 .. n PROVE At(s[i])' = At(s[i])
  <2>1. s[i] \in AllSlots \ {p}
    BY <1>3 DEF Stack
  <2>2. s[i] \in Words(s[i], size)
    BY <2>1, SlotType DEF PoolInv
  <2> QED
    BY <1>2, <2>1, <2>2
<1>6. Stack(s, n)'
  BY <1>2, <1>3, <1>4, <1>5 DEF Stack
<1>7. ListInv'
  BY <1>4, <1>6 DEF ListInv, n
<1> QED
  BY <1>2, <1>7

\* new0 clears an object.
LEMMA ZeroStep ==
  ASSUME ~Checks, PoolInv, NEW c \in Client, Zero(c)
  PROVE  PoolInv'
<1> DEFINE p == clearing[c]
           S == Words(p, size)
<1>1. p \in used /\ p \in AllSlots /\ Null \in Word /\ S \in SUBSET Words(p, size)
  BY DEF PoolInv, UseInv, Zero, Word
<1>2. size \in Nat /\ size - Head = size
  BY DEF Head, PoolInv, SizesInv
<1>3. mem' = Store(mem, S, Null)
  BY <1>2 DEF Zero
<1>4. UNCHANGED <<request, size, block_size, block, next, total_allocs,
                  current_allocs, used>>
  BY DEF Zero, pool
<1>5. UNCHANGED <<filled, aborted, replaced, misfreed, late>>
      /\ clearing' = [clearing EXCEPT ![c] = Null]
  BY DEF Zero, own
<1> HIDE DEF p, S
<1>6. /\ SizesInv' /\ HeapInv' /\ WordsTyped' /\ ListInv'
      /\ AllSlots' = AllSlots
      /\ \A q \in AllSlots \ {p} : \A a \in Words(q, size) : At(a)' = At(a)
      /\ \A a \in Words(p, size) : At(a)' = IF a \in S THEN Null ELSE At(a)
  BY <1>1, <1>3, <1>4, ObjectWritten
<1>7. Null \notin filled /\ p \notin filled
  <2>1. ASSUME NEW q \in filled PROVE q # Null
    BY SlotType DEF PoolInv, UseInv
  <2> QED
    BY <2>1 DEF PoolInv, UseInv, p
<1>8. UseInv'
  <2>1. clearing' \in [Client -> used \cup {Null}]
    BY <1>5 DEF PoolInv, UseInv
  <2>2. \A d \in Client : clearing'[d] \notin filled
    BY <1>5, <1>7 DEF PoolInv, UseInv
  <2> QED
    BY <1>4, <1>5, <1>6, <2>1, <2>2 DEF PoolInv, UseInv
<1>9. ObjectsIntact'
  <2> SUFFICES ASSUME NEW q \in Owned', NEW a \in Words(q, request)
               PROVE  At(a)' = IF q \in filled THEN Data ELSE Null
    BY <1>4, <1>5 DEF ObjectsIntact
  <2>1. q \in used /\ q \in AllSlots /\ a \in Words(q, size)
    BY <1>4, RequestedWords DEF PoolInv, UseInv, Owned
  <2>2. CASE q = p
    BY <1>6, <1>7, <2>1, <2>2 DEF S
  <2>3. CASE q # p
    <3>1. \A d \in Client : clearing[d] # q
      BY <1>5, <2>3 DEF Owned, PoolInv, UseInv, p
    <3>2. q \in Owned
      BY <2>1, <3>1 DEF Owned
    <3>3. At(a) = IF q \in filled THEN Data ELSE Null
      BY <3>2 DEF PoolInv, ObjectsIntact
    <3> QED
      BY <1>6, <2>1, <2>3, <3>3
  <2> QED
    BY <2>2, <2>3
<1>10. OwnInv' /\ (request \in ObjectSizes)'
  BY <1>4, <1>5 DEF PoolInv, OwnInv
<1> QED
  BY <1>6, <1>8, <1>9, <1>10 DEF PoolInv

\* The program writes to an object.
LEMMA FillStep ==
  ASSUME PoolInv, NEW p \in used, Fill(p)
  PROVE  PoolInv'
<1> DEFINE S == Words(p, request)
<1>1. /\ p \in used /\ p \in AllSlots /\ p \in Owned /\ Data \in Word
      /\ S \in SUBSET Words(p, size)
  BY RequestedWords DEF PoolInv, UseInv, Fill, Held, Word
<1>2. mem' = Store(mem, S, Data)
  BY DEF Fill
<1>3. UNCHANGED <<request, size, block_size, block, next, total_allocs,
                  current_allocs, used, clearing>>
  BY DEF Fill, pool
<1>4. UNCHANGED <<aborted, replaced, misfreed, late>> /\ filled' = filled \cup {p}
  BY DEF Fill, own
<1> HIDE DEF S
<1>5. /\ SizesInv' /\ HeapInv' /\ WordsTyped' /\ ListInv'
      /\ AllSlots' = AllSlots
      /\ \A q \in AllSlots \ {p} : \A a \in Words(q, size) : At(a)' = At(a)
      /\ \A a \in Words(p, size) : At(a)' = IF a \in S THEN Data ELSE At(a)
  BY <1>1, <1>2, <1>3, ObjectWritten
<1>6. UseInv'
  <2>1. \A c \in Client : clearing[c] \notin filled \cup {p}
    BY <1>1 DEF PoolInv, UseInv, Owned
  <2> QED
    BY <1>1, <1>3, <1>4, <1>5, <2>1 DEF PoolInv, UseInv
<1>7. ObjectsIntact'
  <2> SUFFICES ASSUME NEW q \in Owned, NEW a \in Words(q, request)
               PROVE  At(a)' = IF q \in filled \cup {p} THEN Data ELSE Null
    BY <1>3, <1>4 DEF ObjectsIntact, Owned
  <2>1. q \in used /\ q \in AllSlots /\ a \in Words(q, size)
    BY RequestedWords DEF PoolInv, UseInv, Owned
  <2>2. CASE q = p
    BY <1>5, <2>1, <2>2 DEF S
  <2>3. CASE q # p
    <3>1. At(a) = IF q \in filled THEN Data ELSE Null
      BY DEF PoolInv, ObjectsIntact
    <3> QED
      BY <1>5, <2>1, <2>3, <3>1
  <2> QED
    BY <2>2, <2>3
<1>8. OwnInv' /\ (request \in ObjectSizes)'
  BY <1>3, <1>4 DEF PoolInv, OwnInv
<1> QED
  BY <1>5, <1>6, <1>7, <1>8 DEF PoolInv

\* What taking the object in slot p off the list does.
LEMMA TakeIs ==
  ASSUME ~Checks, NEW c, NEW m, NEW p, NEW total, Plus(p, 0) = p,
         Take(c, m, p, total)
  PROVE  /\ next' = m[p[1]][p[2]]
         /\ mem' = Store(m, {p}, Null)
         /\ current_allocs' = current_allocs + 1
         /\ used' = used \cup {p}
         /\ clearing' = [clearing EXCEPT ![c] = p]
         /\ UNCHANGED aborted
<1>1. Plus(p, Head) = p /\ {p, p} = {p}
  BY DEF Head
<1> QED
  BY <1>1 DEF Take

\* A thread gets an object that was not in use, and has yet to clear it.
HandsOut(c) ==
  \E p : /\ p \notin used
         /\ used' = used \cup {p}
         /\ clearing' = [clearing EXCEPT ![c] = p]

\* The first free object is handed out.
LEMMA NewFromListStep ==
  ASSUME ~Checks, PoolInv, CallsInv, NEW c \in Client, NewFromList(c)
  PROVE  PoolInv' /\ HandsOut(c)
<1>0. PICK n \in Nat : n = total_allocs - current_allocs /\ \E s : Stack(s, n)
  BY DEF PoolInv, ListInv
<1>1. PICK s : n = total_allocs - current_allocs /\ Stack(s, n)
  BY <1>0
<1>2. n > 0 /\ next = s[n] /\ s[n] \in AllSlots \ used
  BY <1>1 DEF PoolInv, ListInv, Stack, NewFromList
<1> DEFINE p == next
<1>3. /\ p \in AllSlots /\ p \notin used /\ Plus(p, 0) = p /\ p \in Words(p, size)
      /\ {p} \in SUBSET Words(p, size) /\ Null \in Word
  BY <1>2, SlotType DEF PoolInv, Word
<1>4. /\ next' = At(p)
      /\ mem' = Store(mem, {p}, Null)
      /\ current_allocs' = current_allocs + 1
      /\ used' = used \cup {p}
      /\ clearing' = [clearing EXCEPT ![c] = p]
      /\ UNCHANGED aborted
  <2>1. Take(c, mem, p, total_allocs)
    BY DEF NewFromList
  <2> QED
    BY <1>3, <2>1, TakeIs DEF At
<1>5. UNCHANGED <<request, size, block_size, block, total_allocs, filled, replaced,
                  misfreed, late>>
  BY DEF NewFromList, own
<1> HIDE DEF p
<1>6. /\ SizesInv' /\ HeapInv' /\ WordsTyped' /\ AllSlots' = AllSlots
      /\ \A q \in AllSlots \ {p} : \A a \in Words(q, size) : At(a)' = At(a)
  BY <1>3, <1>4, <1>5, StoreInSlot DEF PoolInv
<1>7. total_allocs - current_allocs' = n - 1 /\ current_allocs' \in Nat
  <2>1. total_allocs \in Nat /\ current_allocs \in Nat
    BY FS_CardinalityType DEF PoolInv, UseInv
  <2> QED
    BY <1>1, <1>4, <2>1
<1>8. ListInv'
  <2> DEFINE t == [i \in 1 .. n - 1 |-> s[i]]
  <2>1. \A i \in 1 .. n - 1 : i \in 1 .. n /\ i # n /\ t[i] = s[i] /\ s[i] # p
    BY <1>1, <1>2 DEF Stack, p
  <2>2. t \in [1 .. n - 1 -> AllSlots \ (used \cup {p})]
    BY <1>1, <2>1 DEF Stack
  <2>3. ASSUME NEW q \in AllSlots \ (used \cup {p})
        PROVE  \E i \in 1 .. n - 1 : t[i] = q
    <3>1. PICK i \in 1 .. n : s[i] = q
      BY <1>1 DEF Stack
    <3>2. i # n
      BY <1>2, <3>1 DEF p
    <3>3. i \in 1 .. n - 1
      BY <1>2, <3>1, <3>2
    <3> QED
      BY <2>1, <3>1, <3>3
  <2>4. \A i, j \in 1 .. n - 1 : t[i] = t[j] => i = j
    BY <1>1, <2>1 DEF Stack
  <2>5. next' = IF n - 1 = 0 THEN Null ELSE t[n - 1]
    <3>1. next' = IF n = 1 THEN Null ELSE s[n - 1]
      BY <1>1, <1>2, <1>4 DEF Stack, p
    <3> QED
      BY <1>2, <3>1
  <2>6. ASSUME NEW i \in 1 .. n - 1
        PROVE  At(t[i])' = IF i = 1 THEN Null ELSE t[i - 1]
    <3>1. s[i] \in AllSlots \ {p} /\ s[i] \in Words(s[i], size)
      BY <1>1, <2>1, SlotType DEF Stack, PoolInv
    <3>2. At(s[i])' = At(s[i])
      BY <1>6, <3>1
    <3>3. At(s[i]) = IF i = 1 THEN Null ELSE s[i - 1]
      BY <1>1, <2>1 DEF Stack
    <3>4. i # 1 => s[i - 1] = t[i - 1]
      <4>1. ASSUME i # 1 PROVE i - 1 \in 1 .. n - 1
        BY <1>2, <4>1
      <4> QED
        BY <4>1
    <3>5. t[i] = s[i]
      OBVIOUS
    <3> QED
      BY <3>2, <3>3, <3>4, <3>5
  <2>u. n - 1 \in Nat
    BY <1>2
  <2> HIDE DEF t
  <2>7. Stack(t, n - 1)'
    BY <1>4, <1>6, <2>2, <2>3, <2>4, <2>5, <2>6 DEF Stack
  <2> QED
    BY <1>5, <1>7, <2>7, <2>u DEF ListInv
<1>9. UseInv'
  <2>1. IsFiniteSet(used') /\ Cardinality(used') = current_allocs'
    BY <1>3, <1>4, FS_AddElement DEF PoolInv, UseInv
  <2>2. clearing' \in [Client -> used' \cup {Null}]
    BY <1>4 DEF PoolInv, UseInv
  <2>3. \A d \in Client : clearing'[d] \notin filled
    BY <1>3, <1>4 DEF PoolInv, UseInv
  <2> QED
    BY <1>3, <1>4, <1>5, <1>6, <2>1, <2>2, <2>3 DEF PoolInv, UseInv
<1>10. ObjectsIntact'
  <2> SUFFICES ASSUME NEW q \in Owned', NEW a \in Words(q, request)
               PROVE  At(a)' = IF q \in filled THEN Data ELSE Null
    BY <1>5 DEF ObjectsIntact
  <2>1. q \in used /\ q # p /\ \A d \in Client : clearing[d] # q
    <3>1. clearing[c] = Null /\ clearing'[c] = p
      BY <1>4 DEF NewFromList, Enter, CallsInv, PoolInv, UseInv
    <3>2. q \in used /\ q # p
      BY <1>4, <3>1 DEF Owned
    <3>3. q # Null
      BY <3>2, SlotType DEF PoolInv, UseInv
    <3>4. \A d \in Client : d # c => clearing'[d] = clearing[d]
      BY <1>4 DEF PoolInv, UseInv
    <3> QED
      BY <3>1, <3>2, <3>3, <3>4 DEF Owned
  <2>2. q \in Owned /\ q \in AllSlots /\ a \in Words(q, size)
    BY <2>1, RequestedWords DEF PoolInv, UseInv, Owned
  <2>3. At(a) = IF q \in filled THEN Data ELSE Null
    BY <2>2 DEF PoolInv, ObjectsIntact
  <2> QED
    BY <1>6, <2>1, <2>2, <2>3
<1>11. OwnInv' /\ (request \in ObjectSizes)'
  BY <1>4, <1>5 DEF PoolInv, OwnInv
<1> QED
  BY <1>3, <1>4, <1>6, <1>8, <1>9, <1>10, <1>11 DEF PoolInv, HandsOut

\* Without blocks there is no slot, and nothing in use.
LEMMA Emptied ==
  ASSUME PoolInv, FreeBlocks, used' = {}, filled' = {},
         \A c \in Client : clearing[c] = Null,
         UNCHANGED <<request, size, block_size, clearing, aborted, own>>
  PROVE  PoolInv'
<1>1. Heap' = {}
  BY DEF FreeBlocks, Heap
<1>2. AllSlots' = {} /\ 1 .. 0 = {} /\ 0 \in 0 .. MaxBlocks
  BY <1>1, NumbersType DEF AllSlots
<1>3. SizesInv'
  BY <1>1 DEF PoolInv, SizesInv
<1>4. HeapInv'
  <2>1. Shaped(mem', block_size', 1 .. 0)
    BY <1>2 DEF FreeBlocks, Shaped
  <2>2. HeapIs(0)'
    BY <1>1, <1>2, <2>1 DEF FreeBlocks, HeapIs, Link
  <2> QED
    BY <1>2, <2>2 DEF HeapInv
<1>5. WordsTyped'
  BY <1>1 DEF WordsTyped
<1>6. ListInv'
  <2>1. total_allocs' - current_allocs' = 0
    BY DEF FreeBlocks
  <2> DEFINE s == [i \in 1 .. 0 |-> Null]
  <2>2. s \in [1 .. 0 -> (AllSlots \ used)']
    BY <1>2
  <2>3. Stack(s, 0)'
    BY <1>2, <2>2 DEF Stack, FreeBlocks
  <2> QED
    BY <2>1, <2>3 DEF ListInv
<1>7. UseInv'
  BY <1>2, FS_EmptySet DEF FreeBlocks, PoolInv, UseInv
<1>8. OwnInv' /\ (request \in ObjectSizes)'
  BY DEF PoolInv, OwnInv, own
<1>9. ObjectsIntact'
  BY DEF ObjectsIntact, Owned
<1> QED
  BY <1>3, <1>4, <1>5, <1>6, <1>7, <1>8, <1>9 DEF PoolInv

\* The program releases the pool.
LEMMA ReleaseStep ==
  ASSUME PoolInv, NEW c \in Client, Release(c)
  PROVE  PoolInv'
<1>1. \A d \in Client : clearing[d] = Null
  BY DEF PoolInv, UseInv, Release
<1>2. filled' = {} /\ used' = {}
  BY DEF PoolInv, UseInv, Release
<1> QED
  BY <1>1, <1>2, Emptied DEF Release

\* An object goes back to the list, or the last one takes the blocks with it.
LEMMA DeleteStep ==
  ASSUME ~Checks, PoolInv, CallsInv, NEW c \in Client, NEW p \in used, Delete(c, p)
  PROVE  PoolInv'
<1>1. /\ p \in AllSlots /\ p \in Owned /\ Plus(p, -Head) = p
      /\ {p} \in SUBSET Words(p, size)
  <2>1. p \in AllSlots /\ p # Null
    BY SlotType DEF PoolInv, UseInv
  <2>2. p \in Owned
    BY <2>1 DEF Delete, CallsInv, Owned
  <2> QED
    BY <2>1, <2>2, SlotType DEF PoolInv, Head
<1>2. UNCHANGED <<request, size, block_size, clearing, own, aborted>>
      /\ used' = used \ {p} /\ filled' = filled \ {p}
  BY DEF Delete
<1>3. current_allocs \in Nat /\ current_allocs > 0
  BY FS_CardinalityType, FS_EmptySet DEF PoolInv, UseInv
<1>4. \A d \in Client : clearing[d] # p
  BY <1>1 DEF Owned
<1>5. CASE Releasable(current_allocs - 1)
  <2>1. FreeBlocks
    BY <1>5 DEF Delete
  <2>2. Cardinality(used) = 1
    BY <1>3, <1>5 DEF Releasable, PoolInv, UseInv
  <2>3. used = {p}
    BY <2>2, FS_Singleton DEF PoolInv, UseInv
  <2>4. used' = {} /\ filled' = {}
    BY <1>2, <2>3 DEF PoolInv, UseInv
  <2>5. \A d \in Client : clearing[d] = Null
    BY <1>4, <2>3 DEF PoolInv, UseInv
  <2> QED
    BY <1>2, <2>1, <2>4, <2>5, Emptied
<1>6. CASE ~Releasable(current_allocs - 1)
  <2>1. /\ mem' = Store(mem, {p}, next)
        /\ next' = p
        /\ current_allocs' = current_allocs - 1
        /\ UNCHANGED <<block, total_allocs>>
    BY <1>1, <1>6 DEF Delete
  <2>0. PICK n \in Nat : n = total_allocs - current_allocs /\ \E s : Stack(s, n)
    BY DEF PoolInv, ListInv
  <2>2. PICK s : n = total_allocs - current_allocs /\ Stack(s, n)
    BY <2>0
  <2>3. next \in Word
    <3>1. CASE n = 0
      BY <2>2, <3>1 DEF Stack, Word
    <3>2. CASE n # 0
      <4>1. next \in AllSlots
        BY <2>2, <3>2 DEF Stack
      <4> QED
        BY <4>1, SlotType DEF PoolInv, Word
    <3> QED
      BY <3>1, <3>2
  <2>4. /\ SizesInv' /\ HeapInv' /\ WordsTyped' /\ AllSlots' = AllSlots
        /\ \A q \in AllSlots \ {p} : \A a \in Words(q, size) : At(a)' = At(a)
        /\ \A a \in Words(p, size) : At(a)' = IF a \in {p} THEN next ELSE At(a)
    BY <1>1, <1>2, <2>1, <2>3, StoreInSlot DEF PoolInv
  <2>5. total_allocs' - current_allocs' = n + 1 /\ n + 1 \in Nat
    BY <1>3, <2>1, <2>2 DEF PoolInv, UseInv
  <2>6. ListInv'
    <3> DEFINE t == [i \in 1 .. n + 1 |-> IF i = n + 1 THEN p ELSE s[i]]
    <3>1. \A i \in 1 .. n + 1 : i # n + 1 => i \in 1 .. n
      OBVIOUS
    <3>2. \A i \in 1 .. n : i \in 1 .. n + 1 /\ i # n + 1 /\ s[i] \in AllSlots \ used
                            /\ s[i] # p /\ t[i] = s[i]
      BY <2>2 DEF Stack
    <3>3. n + 1 \in 1 .. n + 1 /\ t[n + 1] = p
      OBVIOUS
    <3>4. t \in [1 .. n + 1 -> AllSlots \ (used \ {p})]
      BY <1>1, <3>1, <3>2
    <3>5. ASSUME NEW q \in AllSlots \ (used \ {p})
          PROVE  \E i \in 1 .. n + 1 : t[i] = q
      <4>1. CASE q = p
        BY <3>3, <4>1
      <4>2. CASE q # p
        <5>1. PICK i \in 1 .. n : s[i] = q
          BY <2>2, <4>2 DEF Stack
        <5> QED
          BY <3>2, <5>1
      <4> QED
        BY <4>1, <4>2
    <3>6. ASSUME NEW i \in 1 .. n + 1, NEW j \in 1 .. n + 1, t[i] = t[j] PROVE i = j
      BY <2>2, <3>1, <3>2, <3>3, <3>6 DEF Stack
    <3>7. ASSUME NEW i \in 1 .. n + 1
          PROVE  At(t[i])' = IF i = 1 THEN Null ELSE t[i - 1]
      <4>1. CASE i = n + 1
        <5>1. At(t[i])' = next
          BY <1>1, <2>4, <3>3, <4>1
        <5>2. n # 0 => n \in 1 .. n /\ t[n] = s[n]
          BY <3>2
        <5>3. next = IF n = 0 THEN Null ELSE s[n]
          BY <2>2 DEF Stack
        <5> HIDE DEF t
        <5>4. n = 0 <=> i = 1
          BY <4>1
        <5>5. i - 1 = n
          BY <4>1
        <5> QED
          BY <5>1, <5>2, <5>3, <5>4, <5>5
      <4>2. CASE i # n + 1
        <5>1. i \in 1 .. n /\ t[i] = s[i] /\ s[i] \in AllSlots \ {p}
          BY <3>1, <3>2, <4>2
        <5>2. s[i] \in Words(s[i], size)
          BY <5>1, SlotType DEF PoolInv
        <5>3. At(s[i])' = At(s[i])
          BY <2>4, <5>1, <5>2
        <5>4. At(s[i]) = IF i = 1 THEN Null ELSE s[i - 1]
          BY <2>2, <5>1 DEF Stack
        <5>5. i # 1 => i - 1 \in 1 .. n
          BY <5>1
        <5>6. i # 1 => t[i - 1] = s[i - 1]
          BY <3>2, <5>5
        <5> HIDE DEF t
        <5> QED
          BY <5>1, <5>3, <5>4, <5>6
      <4> QED
        BY <4>1, <4>2
    <3>8. next' = IF n + 1 = 0 THEN Null ELSE t[n + 1]
      BY <2>1, <3>3
    <3> HIDE DEF t
    <3>9. Stack(t, n + 1)'
      BY <1>2, <2>4, <3>4, <3>5, <3>6, <3>7, <3>8 DEF Stack
    <3> QED
      BY <2>5, <3>9 DEF ListInv
  <2>7. UseInv'
    <3>1. IsFiniteSet(used') /\ Cardinality(used') = current_allocs'
      BY <1>2, <2>1, FS_RemoveElement DEF PoolInv, UseInv
    <3>2. clearing' \in [Client -> used' \cup {Null}]
      BY <1>2, <1>4 DEF PoolInv, UseInv
    <3> QED
      BY <1>2, <2>1, <2>4, <3>1, <3>2 DEF PoolInv, UseInv
  <2>8. ObjectsIntact'
    <3> SUFFICES ASSUME NEW q \in Owned', NEW a \in Words(q, request)
                 PROVE  At(a)' = IF q \in filled' THEN Data ELSE Null
      BY <1>2 DEF ObjectsIntact
    <3>1. q \in Owned /\ q # p /\ q \in AllSlots /\ a \in Words(q, size)
      BY <1>2, RequestedWords DEF PoolInv, UseInv, Owned
    <3>2. At(a) = IF q \in filled THEN Data ELSE Null
      BY <3>1 DEF PoolInv, ObjectsIntact
    <3>3. q \in filled' <=> q \in filled
      BY <1>2, <3>1
    <3> QED
      BY <2>4, <3>1, <3>2, <3>3
  <2>9. OwnInv' /\ (request \in ObjectSizes)'
    BY <1>2 DEF PoolInv, OwnInv, own
  <2> QED
    BY <2>4, <2>6, <2>7, <2>8, <2>9 DEF PoolInv
<1> QED
  BY <1>5, <1>6

\* What libdbo_mm_new makes of the sizes before it asks for a block.
SizesSet ==
  /\ size' = SlotSize
  /\ block_size' = IF block_size = 0 THEN BlockSize(size') ELSE block_size
  /\ UNCHANGED request

\* Setting the sizes leaves the memory there is as it was.
LEMMA SizesFit ==
  ASSUME ~Checks, SizesInv, HeapInv, WordsTyped, SizesSet,
         NEW h \in 0 .. MaxBlocks, HeapIs(h)
  PROVE  /\ size' \in Nat /\ size' > 0 /\ request <= size' /\ request \in Nat
         /\ block_size' \in Nat /\ block_size' > 0
         /\ block_size' = BlockSize(size')
         /\ Shaped(mem, block_size', 1 .. h)
         /\ AllSlots = UNION {Slots(b, block_size', size') : b \in 1 .. h}
         /\ Word = {<<b, o>> : b \in 1 .. h, o \in 0 .. block_size' - 1}
                     \cup {Null, One, Data}
         /\ \A b \in 1 .. h : \A o \in 0 .. block_size' - 1 : mem[b][o] \in Word
<1>1. Head = 0 /\ request \in Nat /\ size \in Nat /\ Heap = 1 .. h
  BY DEF Head, SizesInv, HeapIs
<1>2. size' = IF size < 1 THEN 1 ELSE size
  BY <1>1 DEF SizesSet, SlotSize
<1>3. size' \in Nat /\ size' > 0 /\ request <= size'
  BY <1>1, <1>2 DEF SizesInv
<1>4. BlockSize(size') \in Nat /\ BlockSize(size') > 0
  BY <1>3, RoomForObjects
<1>5. CASE block_size = 0
  <2>1. 1 .. h = {} /\ block_size' = BlockSize(size')
    BY <1>1, <1>5 DEF SizesInv, SizesSet
  <2>2. Shaped(mem, block_size', 1 .. h)
    BY <2>1 DEF HeapIs, Shaped
  <2>3. AllSlots = {} /\ Address = {}
    BY <1>1, <2>1 DEF AllSlots, Address
  <2>4. UNION {Slots(b, block_size', size') : b \in 1 .. h} = {}
        /\ {<<b, o>> : b \in 1 .. h, o \in 0 .. block_size' - 1} = {}
    BY <2>1
  <2> QED
    BY <1>1, <1>3, <1>4, <2>1, <2>2, <2>3, <2>4 DEF Word
<1>6. CASE block_size # 0
  <2>1. block_size > 0 /\ block_size = BlockSize(size) /\ size > 0
    BY <1>6 DEF SizesInv
  <2>2. size' = size /\ block_size' = block_size
    BY <1>1, <1>2, <2>1 DEF SizesSet
  <2> QED
    BY <1>1, <1>3, <1>4, <2>1, <2>2 DEF HeapIs, AllSlots, Address, Word, WordsTyped
<1> QED
  BY <1>5, <1>6

\* malloc has no memory: nothing but the sizes changes.
LEMMA NewFailStep ==
  ASSUME ~Checks, PoolInv, NEW c \in Client, NewFail(c)
  PROVE  PoolInv'
<1>1. PICK h \in 0 .. MaxBlocks : HeapIs(h)
  BY DEF PoolInv, HeapInv
<1>2. SizesSet
  BY DEF SizesSet, NewFail
<1>3. UNCHANGED <<request, block, next, total_allocs, current_allocs, mem, clearing,
                  used, filled, aborted, own>>
  BY DEF NewFail
<1>4. /\ size' \in Nat /\ size' > 0 /\ request <= size' /\ request \in Nat
      /\ block_size' \in Nat /\ block_size' > 0
      /\ block_size' = BlockSize(size')
      /\ Shaped(mem, block_size', 1 .. h)
      /\ AllSlots = UNION {Slots(b, block_size', size') : b \in 1 .. h}
      /\ Word = {<<b, o>> : b \in 1 .. h, o \in 0 .. block_size' - 1}
                  \cup {Null, One, Data}
      /\ \A b \in 1 .. h : \A o \in 0 .. block_size' - 1 : mem[b][o] \in Word
  BY <1>1, <1>2, SizesFit DEF PoolInv
<1>5. Heap' = 1 .. h /\ Heap = 1 .. h
  BY <1>1, <1>3 DEF HeapIs, Heap
<1>6. AllSlots' = AllSlots
  BY <1>4, <1>5 DEF AllSlots
<1>7. Word' = Word
  BY <1>4, <1>5 DEF Address, Word
<1>8. SizesInv'
  BY <1>3, <1>4 DEF SizesInv
<1>9. HeapInv'
  <2>1. HeapIs(h)'
    BY <1>1, <1>3, <1>4, <1>5 DEF HeapIs
  <2> QED
    BY <2>1 DEF HeapInv
<1>10. WordsTyped'
  BY <1>3, <1>4, <1>5, <1>7 DEF WordsTyped
<1>11. ListInv'
  <2>0. PICK n \in Nat : n = total_allocs - current_allocs /\ \E s : Stack(s, n)
    BY DEF PoolInv, ListInv
  <2>1. PICK s : n = total_allocs - current_allocs /\ Stack(s, n)
    BY <2>0
  <2>2. \A a : At(a)' = At(a)
    BY <1>3 DEF At
  <2>3. Stack(s, n)'
    BY <1>3, <1>6, <2>1, <2>2 DEF Stack
  <2> QED
    BY <1>3, <2>1, <2>3 DEF ListInv
<1>12. UseInv'
  BY <1>3, <1>6 DEF PoolInv, UseInv
<1>13. ObjectsIntact'
  BY <1>3 DEF PoolInv, ObjectsIntact, Owned, At
<1>14. OwnInv' /\ (request \in ObjectSizes)'
  BY <1>3 DEF PoolInv, OwnInv, own
<1> QED
  BY <1>8, <1>9, <1>10, <1>11, <1>12, <1>13, <1>14 DEF PoolInv

\* Multiples of a size are in order, and a size apart.
LEMMA Multiples ==
  ASSUME NEW i \in Nat, NEW j \in Nat, NEW s \in Nat, s > 0
  PROVE  /\ i * s \in Nat
         /\ i * s = j * s => i = j
         /\ i > 0 => i * s >= s /\ i * s - s = (i - 1) * s
<1>1. i * s \in Nat /\ j * s \in Nat
  OBVIOUS
<1>2. ASSUME NEW k \in Nat, NEW l \in Nat, k < l PROVE k * s < l * s
  <2>1. k + 1 \in Nat /\ k + 1 <= l
    BY <1>2
  <2>2. (k + 1) * s <= l * s /\ l * s \in Nat
    BY <2>1, ProductGrows
  <2>3. (k + 1) * s = k * s + s /\ k * s \in Nat
    OBVIOUS
  <2> QED
    BY <2>2, <2>3
<1>3. i * s = j * s => i = j
  <2>1. i < j => i * s < j * s
    BY <1>2
  <2>2. j < i => j * s < i * s
    BY <1>2
  <2> QED
    BY <1>1, <2>1, <2>2
<1>4. ASSUME i > 0 PROVE i * s >= s /\ i * s - s = (i - 1) * s
  <2>1. PICK k \in Nat : i = k + 1
    <3>1. i - 1 \in Nat /\ i = (i - 1) + 1
      BY <1>4
    <3> QED
      BY <3>1
  <2>2. i * s = k * s + s /\ k * s \in Nat /\ i - 1 = k
    BY <2>1
  <2> QED
    BY <2>2
<1> QED
  BY <1>1, <1>3, <1>4

\* The i-th object of block b.
SlotAt(b, i, s) == <<b, 1 + i * s>>

\* What a fresh block holds: the link, and slots each linked to the one before.
LEMMA FreshBlock ==
  ASSUME ~Checks, NEW b, NEW bs \in Nat, bs > 0, NEW s \in Nat, s > 0
  PROVE  /\ NewBlock(b, bs, s) = [o \in 0 .. bs - 1 |-> NewBlock(b, bs, s)[o]]
         /\ NewBlock(b, bs, s)[0] = block
         /\ \A i \in 0 .. (bs - 1) \div s - 1 :
              /\ SlotAt(b, i, s) \in Slots(b, bs, s)
              /\ i * s \in Nat /\ 1 + i * s \in 1 .. bs - 1
              /\ NewBlock(b, bs, s)[1 + i * s]
                   = IF i = 0 THEN Null ELSE SlotAt(b, i - 1, s)
         /\ \A o \in 0 .. bs - 1 :
              NewBlock(b, bs, s)[o]
                \in {block, Null, Data} \cup {<<b, k>> : k \in 0 .. bs - 1}
<1> DEFINE f == NewBlock(b, bs, s)
<1>1. f = [o \in 0 .. bs - 1 |->
             IF o = 0 THEN block
             ELSE IF <<b, o>> \in Slots(b, bs, s)
                    THEN IF o = 1 THEN Null ELSE <<b, o - s>>
                    ELSE Data]
  <2>1. ASSUME NEW o \in 0 .. bs - 1
        PROVE  f[o] = IF o = 0 THEN block
                      ELSE IF <<b, o>> \in Slots(b, bs, s)
                             THEN IF o = 1 THEN Null ELSE <<b, o - s>>
                             ELSE Data
    <3>1. Head = 0 /\ o - Head = o
      BY DEF Head
    <3>2. o = 0 => <<b, o>> \notin Slots(b, bs, s)
      <4> SUFFICES ASSUME o = 0, <<b, o>> \in Slots(b, bs, s) PROVE FALSE
        OBVIOUS
      <4>1. PICK i \in 0 .. (bs - 1) \div s - 1 :
              <<b, o>> = <<b, 1 + i * s>> /\ i * s \in Nat
        BY SlotIs
      <4> QED
        BY <4>1
    <3> QED
      BY <3>1, <3>2 DEF NewBlock
  <2> QED
    BY <2>1 DEF NewBlock
<1> HIDE DEF f
<1>2. ASSUME NEW i \in 0 .. (bs - 1) \div s - 1
      PROVE  /\ SlotAt(b, i, s) \in Slots(b, bs, s)
             /\ i * s \in Nat /\ 1 + i * s \in 1 .. bs - 1
             /\ f[1 + i * s] = IF i = 0 THEN Null ELSE SlotAt(b, i - 1, s)
  <2>1. (bs - 1) \div s \in Nat /\ ((bs - 1) \div s) * s <= bs - 1
    BY Quotient
  <2>2. i \in Nat /\ i + 1 \in Nat /\ i + 1 <= (bs - 1) \div s
    BY <2>1
  <2>3. SlotAt(b, i, s) \in Slots(b, bs, s)
    BY DEF SlotAt, Slots
  <2>4. /\ i * s \in Nat
        /\ i > 0 => i * s >= s /\ i * s - s = (i - 1) * s
    BY <2>2, Multiples
  <2>5. (i + 1) * s <= ((bs - 1) \div s) * s /\ (i + 1) * s = i * s + s
        /\ ((bs - 1) \div s) * s \in Nat
    BY <2>1, <2>2, ProductGrows
  <2>6. 1 + i * s \in 1 .. bs - 1
    BY <2>1, <2>4, <2>5
  <2>7. f[1 + i * s] = IF 1 + i * s = 1 THEN Null ELSE <<b, 1 + i * s - s>>
    BY <1>1, <2>3, <2>6, <2>4, SMTT(40) DEF SlotAt
  <2>8. CASE i = 0
    <3>1. i * s = 0
      BY <2>8
    <3>2. 1 + i * s = 1
      BY <3>1
    <3> QED
      BY <2>3, <2>4, <2>6, <2>7, <2>8, <3>2
  <2>9. CASE i # 0
    <3>1. i > 0 /\ (i - 1) * s \in Nat
      BY <2>2, <2>4, <2>9
    <3>2. 1 + i * s # 1 /\ 1 + i * s - s = 1 + (i - 1) * s
      BY <2>4, <3>1
    <3> QED
      BY <2>3, <2>4, <2>6, <2>7, <2>9, <3>2 DEF SlotAt
  <2> QED
    BY <2>8, <2>9
<1>3. f[0] = block
  BY <1>1
<1>4. ASSUME NEW o \in 0 .. bs - 1
      PROVE  f[o] \in {block, Null, Data} \cup {<<b, k>> : k \in 0 .. bs - 1}
  <2>1. CASE o # 0 /\ <<b, o>> \in Slots(b, bs, s)
    <3>1. PICK i \in 0 .. (bs - 1) \div s - 1 : <<b, o>> = <<b, 1 + i * s>>
      BY <2>1 DEF Slots
    <3>2. o = 1 + i * s
      BY <3>1
    <3>3. (bs - 1) \div s \in Nat
      BY Quotient
    <3>4. f[o] = IF i = 0 THEN Null ELSE SlotAt(b, i - 1, s)
      BY <1>2, <3>2
    <3>5. i # 0 => i - 1 \in 0 .. (bs - 1) \div s - 1
      BY <3>3
    <3>6. i # 0 => 1 + (i - 1) * s \in 1 .. bs - 1
      BY <1>2, <3>5
    <3>7. i # 0 => 1 + (i - 1) * s \in 0 .. bs - 1
      BY <3>6
    <3> QED
      BY <3>4, <3>7 DEF SlotAt
  <2>2. CASE ~(o # 0 /\ <<b, o>> \in Slots(b, bs, s))
    BY <1>1, <2>2
  <2> QED
    BY <2>1, <2>2
<1>5. f = [o \in 0 .. bs - 1 |-> f[o]]
  BY <1>1
<1> QED
  BY <1>2, <1>3, <1>4, <1>5 DEF f

\* A new block joins the others, and its last object is handed out.
LEMMA NewFromBlockStep ==
  ASSUME ~Checks, PoolInv, CallsInv, NEW c \in Client, NewFromBlock(c)
  PROVE  PoolInv' /\ HandsOut(c)
<1>1. PICK h \in 0 .. MaxBlocks : HeapIs(h)
  BY DEF PoolInv, HeapInv
<1>2. SizesSet
  BY DEF SizesSet, NewFromBlock
<1>0. PICK bs, sz, b : bs = block_size' /\ sz = size' /\ b = h + 1
  OBVIOUS
<1> DEFINE H == 1 .. b
           n == (bs - 1) \div sz
           p == SlotAt(b, n - 1, sz)
           fresh == [mem EXCEPT ![b] = NewBlock(b, bs, sz)]
<1>3. /\ sz \in Nat /\ sz > 0 /\ request <= sz /\ request \in Nat
      /\ bs \in Nat /\ bs > 0
      /\ bs = BlockSize(sz)
      /\ Shaped(mem, bs, 1 .. h)
      /\ AllSlots = UNION {Slots(a, bs, sz) : a \in 1 .. h}
      /\ Word = {<<a, o>> : a \in 1 .. h, o \in 0 .. bs - 1}
                  \cup {Null, One, Data}
      /\ \A a \in 1 .. h : \A o \in 0 .. bs - 1 : mem[a][o] \in Word
  BY <1>0, <1>1, <1>2, SizesFit, SMTT(40) DEF PoolInv
<1>4. n \in Nat /\ n > 0
  BY <1>3, RoomForObjects, NumbersType
<1>5. Heap = 1 .. h /\ block = Link(h) /\ h \in Nat
  BY <1>1, NumbersType DEF HeapIs
<1>6. PICK a \in Block \ Heap :
        /\ \A d \in Block \ Heap : a <= d
        /\ block' = <<a, 0>>
        /\ LET k == (bs - 1) \div sz
               m == [mem EXCEPT ![a] = NewBlock(a, bs, sz)]
           IN /\ total_allocs' = total_allocs + k
              /\ IF k > 0
                   THEN Take(c, m, <<a, 1 + (k - 1) * sz>>, total_allocs')
                   ELSE /\ mem' = m
                        /\ UNCHANGED <<next, current_allocs, clearing, used, aborted>>
  BY <1>0 DEF NewFromBlock
<1>7. a = b /\ b \in Block
  <2>1. a \in Nat /\ a > h /\ a <= MaxBlocks
    BY <1>5, <1>6, NumbersType DEF Block
  <2>2. h + 1 \in Block \ Heap
    BY <1>5, <2>1, NumbersType DEF Block
  <2>3. a <= h + 1
    BY <1>6, <2>2
  <2> QED
    BY <1>0, <1>5, <2>1, <2>2, <2>3
<1>8. /\ block' = <<b, 0>>
      /\ total_allocs' = total_allocs + n
      /\ Take(c, fresh, p, total_allocs')
  BY <1>4, <1>6, <1>7 DEF SlotAt
<1>9. /\ clearing[c] = Null /\ next = Null
      /\ UNCHANGED <<request, filled, replaced, misfreed, late>>
  BY DEF NewFromBlock, Enter, CallsInv, own
\* The fresh block.
<1>10. /\ NewBlock(b, bs, sz)
            = [o \in 0 .. bs - 1 |-> NewBlock(b, bs, sz)[o]]
       /\ NewBlock(b, bs, sz)[0] = block
       /\ \A i \in 0 .. n - 1 :
            /\ SlotAt(b, i, sz) \in Slots(b, bs, sz)
            /\ i * sz \in Nat /\ 1 + i * sz \in 1 .. bs - 1
            /\ NewBlock(b, bs, sz)[1 + i * sz]
                 = IF i = 0 THEN Null ELSE SlotAt(b, i - 1, sz)
       /\ \A o \in 0 .. bs - 1 :
            NewBlock(b, bs, sz)[o]
              \in {block, Null, Data} \cup {<<b, k>> : k \in 0 .. bs - 1}
  <2>1. bs \in Nat /\ bs > 0 /\ sz \in Nat /\ sz > 0
    BY <1>3
  <2> QED
    BY <2>1, FreshBlock, ZenonT(40)
<1> DEFINE F == NewBlock(b, bs, sz)
<1> HIDE DEF n, F
<1>11. n - 1 \in 0 .. n - 1
  BY <1>4
<1>12. /\ p \in Slots(b, bs, sz)
       /\ p[1] = b /\ p[2] = 1 + (n - 1) * sz /\ p[2] \in 1 .. bs - 1
       /\ Plus(p, 0) = p
  <2>1. p \in Slots(b, bs, sz) /\ 1 + (n - 1) * sz \in 1 .. bs - 1
    BY <1>10, <1>11
  <2>2. p[1] = b /\ p[2] = 1 + (n - 1) * sz /\ p = <<p[1], p[2]>>
    BY DEF SlotAt
  <2> QED
    BY <2>1, <2>2 DEF Plus
<1>13. H \in SUBSET Block /\ H = 1 .. h \cup {b} /\ b \notin 1 .. h
  BY <1>0, <1>5, <1>7, NumbersType DEF Block
<1>14. /\ Shaped(fresh, bs, H)
       /\ fresh[b] = F
       /\ \A d \in 1 .. h : fresh[d] = mem[d]
  <2>1. mem = [d \in Block |-> mem[d]]
    BY <1>3 DEF Shaped
  <2>2. fresh = [d \in Block |-> IF d = b THEN F ELSE mem[d]]
    BY <2>1 DEF F
  <2>3. fresh[b] = F /\ \A d \in Block \ {b} : fresh[d] = mem[d]
    BY <1>7, <2>2
  <2>4. fresh = [d \in Block |-> fresh[d]]
    BY <2>2
  <2> HIDE DEF fresh
  <2>5. \A d \in 1 .. h : d \in Block \ {b}
    BY <1>13
  <2>6. \A d \in Block \ H : fresh[d] = NoMemory
    BY <1>3, <1>13, <2>3 DEF Shaped
  <2>7. \A d \in 1 .. h : fresh[d] = [o \in 0 .. bs - 1 |-> fresh[d][o]]
    BY <1>3, <2>3, <2>5 DEF Shaped
  <2>8. fresh[b] = [o \in 0 .. bs - 1 |-> fresh[b][o]]
    BY <1>10, <2>3 DEF F
  <2>9. \A d \in H : fresh[d] = [o \in 0 .. bs - 1 |-> fresh[d][o]]
    BY <1>13, <2>7, <2>8
  <2>10. Shaped(fresh, bs, H)
    BY <2>4, <2>6, <2>9 DEF Shaped
  <2> QED
    BY <2>3, <2>5, <2>10
<1>15. /\ next' = fresh[p[1]][p[2]]
       /\ mem' = Store(fresh, {p}, Null)
       /\ current_allocs' = current_allocs + 1
       /\ used' = used \cup {p}
       /\ clearing' = [clearing EXCEPT ![c] = p]
       /\ UNCHANGED aborted
  BY <1>8, <1>12, TakeIs
<1> HIDE DEF fresh, p, H
<1>16. next' = F[1 + (n - 1) * sz]
  BY <1>12, <1>14, <1>15
<1>17. /\ Shaped(mem', bs, H)
       /\ \A d \in H, o \in 0 .. bs - 1 :
            mem'[d][o] = IF <<d, o>> \in {p} THEN Null ELSE fresh[d][o]
  <2>1. bs \in Nat /\ bs > 0 /\ H \in SUBSET Block
    BY <1>3, <1>13
  <2>2. PICK f, T : f = fresh /\ T = {p}
    OBVIOUS
  <2>3. Shaped(f, bs, H)
    BY <1>14, <2>2
  <2>4. /\ Shaped(Store(f, T, Null), bs, H)
        /\ \A d \in H, o \in 0 .. bs - 1 :
             Store(f, T, Null)[d][o] = IF <<d, o>> \in T THEN Null ELSE f[d][o]
    BY <2>1, <2>3, StoreIs
  <2>5. mem' = Store(f, T, Null)
    BY <1>15, <2>2
  <2> QED
    BY <2>2, <2>4, <2>5
<1>18. Heap' = H
  BY <1>3, <1>13, <1>17, ShapeTells, SMTT(40) DEF Heap
<1>19. AllSlots' = AllSlots \cup Slots(b, bs, sz)
  BY <1>0, <1>3, <1>13, <1>18 DEF AllSlots
<1>20. \A q \in AllSlots : q[1] \in 1 .. h /\ q # p
  <2>1. \A q \in AllSlots : q[1] \in 1 .. h
    BY <1>5, SlotType DEF PoolInv
  <2> QED
    BY <1>12, <1>13, <2>1
<1>21. \A d \in 1 .. h, o \in 0 .. bs - 1 : mem'[d][o] = mem[d][o]
  <2> TAKE d \in 1 .. h, o \in 0 .. bs - 1
  <2>1. <<d, o>> # p /\ d \in H
    <3>1. <<d, o>>[1] = d
      OBVIOUS
    <3> QED
      BY <1>12, <1>13, <3>1
  <2> QED
    BY <1>14, <1>17, <2>1
<1>22. \A o \in 0 .. bs - 1 : <<b, o>> # p => mem'[b][o] = F[o]
  BY <1>13, <1>14, <1>17
<1>23. SizesInv'
  BY <1>0, <1>3, <1>9 DEF SizesInv
<1>24. HeapInv'
  <2>1. 0 \in 0 .. bs - 1
    BY <1>3
  <2>2. <<b, 0>> # p
    <3>1. <<b, 0>>[2] = 0
      OBVIOUS
    <3> QED
      BY <1>12, <3>1
  <2>3. mem'[b][0] = Link(h)
    BY <1>5, <1>10, <1>22, <2>1, <2>2 DEF F
  <2>4. \A d \in 1 .. h : mem'[d][0] = Link(d - 1)
    BY <1>1, <1>21, <2>1 DEF HeapIs
  <2>5. b - 1 = h /\ b # 0 /\ b \in 0 .. MaxBlocks
    BY <1>0, <1>5, <1>7, NumbersType DEF Block
  <2>6. \A d \in H : mem'[d][0] = Link(d - 1)
    BY <1>13, <2>3, <2>4, <2>5
  <2>7. block' = Link(b)
    BY <1>8, <2>5 DEF Link
  <2>8. HeapIs(b)'
    BY <1>0, <1>17, <1>18, <2>6, <2>7 DEF HeapIs, H
  <2> QED
    BY <2>5, <2>8 DEF HeapInv
<1>25. Word' = {<<d, o>> : d \in H, o \in 0 .. bs - 1} \cup {Null, One, Data}
  BY <1>0, <1>18 DEF Word, Address
<1>26. WordsTyped'
  <2>1. ASSUME NEW d \in 1 .. h, NEW o \in 0 .. bs - 1
        PROVE  mem'[d][o] \in Word'
    <3>1. mem'[d][o] \in Word
      BY <1>3, <1>21
    <3> QED
      BY <1>3, <1>13, <1>25, <3>1, SMTT(40)
  <2>2. block \in Word'
    <3>1. 0 \in 0 .. bs - 1 /\ (h # 0 => h \in 1 .. h)
      BY <1>3, <1>5
    <3> QED
      BY <1>5, <1>13, <1>25, <3>1 DEF Link
  <2>3. ASSUME NEW o \in 0 .. bs - 1 PROVE mem'[b][o] \in Word'
    <3>1. CASE <<b, o>> = p
      <4>1. mem'[b][o] = Null
        BY <1>13, <1>17, <3>1
      <4> QED
        BY <1>25, <4>1
    <3>2. CASE <<b, o>> # p
      <4>1. mem'[b][o] = F[o]
        BY <1>22, <3>2
      <4>2. F[o] \in {block, Null, Data} \cup {<<b, k>> : k \in 0 .. bs - 1}
        BY <1>10 DEF F
      <4>3. b \in H
        BY <1>13
      <4> QED
        BY <1>25, <2>2, <4>1, <4>2, <4>3
    <3> QED
      BY <3>1, <3>2
  <2>4. \A d \in H : \A o \in 0 .. bs - 1 : mem'[d][o] \in Word'
    BY <1>13, <2>1, <2>3
  <2> QED
    BY <1>0, <1>18, <2>4 DEF WordsTyped
\* There was no free object.
<1>27. total_allocs - current_allocs = 0 /\ AllSlots \ used = {}
  <2>0. PICK k \in Nat : k = total_allocs - current_allocs /\ \E s : Stack(s, k)
    BY DEF PoolInv, ListInv
  <2>1. PICK s : k = total_allocs - current_allocs /\ Stack(s, k)
    BY <2>0
  <2>2. k = 0
    <3> SUFFICES ASSUME k # 0 PROVE FALSE
      OBVIOUS
    <3>1. s[k] \in AllSlots /\ s[k] = Null
      BY <1>9, <2>1 DEF Stack
    <3> QED
      BY <3>1, SlotType DEF PoolInv
  <2>3. 1 .. k = {}
    BY <2>2
  <2> QED
    BY <2>1, <2>2, <2>3 DEF Stack
<1>28. current_allocs \in Nat /\ total_allocs \in Nat
  BY FS_CardinalityType DEF PoolInv, UseInv
<1>29. total_allocs' - current_allocs' = n - 1 /\ n - 1 \in Nat
  BY <1>4, <1>8, <1>15, <1>27, <1>28
<1>30. p \in Slots(b, bs, sz) /\ p = SlotAt(b, n - 1, sz)
  BY <1>12 DEF p
<1>31. ListInv'
  <2> DEFINE t == [i \in 1 .. n - 1 |-> SlotAt(b, i - 1, sz)]
  <2>1. \A i \in 0 .. n - 1, j \in 0 .. n - 1 :
          SlotAt(b, i, sz) = SlotAt(b, j, sz) => i = j
    <3> SUFFICES ASSUME NEW i \in 0 .. n - 1, NEW j \in 0 .. n - 1,
                        SlotAt(b, i, sz) = SlotAt(b, j, sz)
                 PROVE  i = j
      OBVIOUS
    <3>1. 1 + i * sz = 1 + j * sz
      BY DEF SlotAt
    <3>2. i \in Nat /\ j \in Nat
      BY <1>4
    <3>3. i * sz \in Nat /\ j * sz \in Nat /\ (i * sz = j * sz => i = j)
      BY <1>3, <3>2, Multiples
    <3> QED
      BY <3>1, <3>3
  <2>2. ASSUME NEW i \in 0 .. n - 1, i # n - 1
        PROVE  /\ SlotAt(b, i, sz) \in AllSlots' \ used'
               /\ SlotAt(b, i, sz) # p
    <3>1. SlotAt(b, i, sz) \in Slots(b, bs, sz)
      BY <1>10
    <3>2. SlotAt(b, i, sz) # p
      BY <1>11, <1>30, <2>1, <2>2
    <3>3. SlotAt(b, i, sz)[1] = b
      BY DEF SlotAt
    <3>4. SlotAt(b, i, sz) \notin used
      BY <1>13, <1>20, <3>3 DEF PoolInv, UseInv
    <3> QED
      BY <1>15, <1>19, <3>1, <3>2, <3>4
  <2>3. \A i \in 1 .. n - 1 : i - 1 \in 0 .. n - 1 /\ i - 1 # n - 1 /\ 1 \in 1 .. n - 1
    BY <1>4
  <2>4. t \in [1 .. n - 1 -> AllSlots' \ used']
    BY <2>2, <2>3
  <2>5. ASSUME NEW q \in AllSlots' \ used' PROVE \E i \in 1 .. n - 1 : t[i] = q
    <3>1. q \in Slots(b, bs, sz) /\ q # p
      BY <1>15, <1>19, <1>27
    <3>2. PICK i \in 0 .. n - 1 : q = SlotAt(b, i, sz)
      BY <3>1 DEF Slots, SlotAt, n
    <3>3. i # n - 1
      BY <1>30, <3>1, <3>2
    <3>4. i + 1 \in 1 .. n - 1 /\ (i + 1) - 1 = i
      BY <1>4, <3>2, <3>3
    <3>5. t[i + 1] = q
      BY <3>2, <3>4
    <3> QED
      BY <3>4, <3>5
  <2>6. ASSUME NEW i \in 1 .. n - 1, NEW j \in 1 .. n - 1, t[i] = t[j] PROVE i = j
    <3>1. i - 1 = j - 1
      BY <2>1, <2>3, <2>6
    <3> QED
      BY <3>1
  <2>7. next' = IF n - 1 = 0 THEN Null ELSE t[n - 1]
    <3>1. next' = IF n - 1 = 0 THEN Null ELSE SlotAt(b, n - 1 - 1, sz)
      BY <1>10, <1>11, <1>16 DEF F
    <3>2. n - 1 # 0 => n - 1 \in 1 .. n - 1
      BY <1>4
    <3> QED
      BY <3>1, <3>2
  <2>8. ASSUME NEW i \in 1 .. n - 1
        PROVE  mem'[t[i][1]][t[i][2]] = IF i = 1 THEN Null ELSE t[i - 1]
    <3>1. t[i][1] = b /\ t[i][2] = 1 + (i - 1) * sz /\ t[i] = <<t[i][1], t[i][2]>>
      BY DEF SlotAt
    <3>2. 1 + (i - 1) * sz \in 1 .. bs - 1
      BY <1>10, <2>3
    <3>3. 1 + (i - 1) * sz \in 0 .. bs - 1
      BY <3>2
    <3>4. t[i] # p
      BY <2>2, <2>3
    <3>5. mem'[b][1 + (i - 1) * sz] = F[1 + (i - 1) * sz]
      BY <1>22, <3>1, <3>3, <3>4
    <3>6. F[1 + (i - 1) * sz]
            = IF i - 1 = 0 THEN Null ELSE SlotAt(b, i - 1 - 1, sz)
      BY <1>10, <2>3 DEF F
    <3>7. i # 1 => i - 1 \in 1 .. n - 1
      BY <1>4
    <3>8. i # 1 => t[i - 1] = SlotAt(b, i - 1 - 1, sz)
      BY <3>7
    <3>9. mem'[t[i][1]][t[i][2]] = IF i - 1 = 0 THEN Null ELSE SlotAt(b, i - 1 - 1, sz)
      BY <3>1, <3>5, <3>6
    <3> HIDE DEF t
    <3>10. i - 1 = 0 <=> i = 1
      BY <1>4
    <3> QED
      BY <3>8, <3>9, <3>10
  <2> HIDE DEF t
  <2>9. \E s : /\ s \in [1 .. n - 1 -> AllSlots' \ used']
               /\ \A q \in AllSlots' \ used' : \E i \in 1 .. n - 1 : s[i] = q
               /\ \A i, j \in 1 .. n - 1 : s[i] = s[j] => i = j
               /\ next' = IF n - 1 = 0 THEN Null ELSE s[n - 1]
               /\ \A i \in 1 .. n - 1 :
                    mem'[s[i][1]][s[i][2]] = IF i = 1 THEN Null ELSE s[i - 1]
    BY <2>4, <2>5, <2>6, <2>7, <2>8
  <2>10. PICK k : k = n - 1
    OBVIOUS
  <2>11. \E s : Stack(s, k)'
    BY <2>9, <2>10 DEF Stack, At
  <2> QED
    BY <1>29, <2>10, <2>11 DEF ListInv
<1>32. p \notin used /\ p # Null
  <2>1. p \notin used
    BY <1>20 DEF PoolInv, UseInv
  <2>2. p # Null
    BY <1>7, <1>12 DEF Block, Null
  <2> QED
    BY <2>1, <2>2
<1>33. UseInv'
  <2>1. IsFiniteSet(used') /\ Cardinality(used') = current_allocs'
    BY <1>15, <1>32, FS_AddElement DEF PoolInv, UseInv
  <2>2. clearing' \in [Client -> used' \cup {Null}]
    BY <1>15 DEF PoolInv, UseInv
  <2>3. \A d \in Client : clearing'[d] \notin filled
    BY <1>15, <1>32 DEF PoolInv, UseInv
  <2>4. used' \subseteq AllSlots'
    BY <1>15, <1>19, <1>30 DEF PoolInv, UseInv
  <2>5. total_allocs' \in Nat
    BY <1>4, <1>8, <1>28
  <2> QED
    BY <1>9, <1>15, <2>1, <2>2, <2>3, <2>4, <2>5 DEF PoolInv, UseInv
<1>34. ObjectsIntact'
  <2> SUFFICES ASSUME NEW q \in Owned', NEW a1 \in Words(q, request)
               PROVE  At(a1)' = IF q \in filled THEN Data ELSE Null
    BY <1>9 DEF ObjectsIntact
  <2>1. q \in used /\ \A d \in Client : clearing[d] # q
    <3>1. clearing[c] = Null /\ clearing'[c] = p
      BY <1>9, <1>15 DEF PoolInv, UseInv
    <3>2. q \in used /\ q # p
      BY <1>15, <3>1 DEF Owned
    <3>3. q # Null
      BY <3>2, SlotType DEF PoolInv, UseInv
    <3>4. \A d \in Client : d # c => clearing'[d] = clearing[d]
      BY <1>15 DEF PoolInv, UseInv
    <3> QED
      BY <3>1, <3>2, <3>3, <3>4 DEF Owned
  <2>2. q \in Owned /\ q \in AllSlots /\ a1 \in Words(q, size)
    BY <2>1, RequestedWords DEF PoolInv, UseInv, Owned
  <2>3. At(a1) = IF q \in filled THEN Data ELSE Null
    BY <2>2 DEF PoolInv, ObjectsIntact
  <2>4. a1[1] \in 1 .. h /\ a1[2] \in 0 .. block_size - 1 /\ block_size > 0
    BY <1>5, <2>2, SlotType DEF PoolInv
  <2>5. bs = block_size
    BY <1>0, <1>2, <2>4 DEF SizesSet
  <2>6. At(a1)' = At(a1)
    BY <1>21, <2>4, <2>5 DEF At
  <2> QED
    BY <2>3, <2>6
<1>35. OwnInv' /\ (request \in ObjectSizes)'
  BY <1>9, <1>15 DEF PoolInv, OwnInv
<1> QED
  BY <1>15, <1>23, <1>24, <1>26, <1>31, <1>32, <1>33, <1>34, <1>35
     DEF PoolInv, HandsOut

\* A pool starts without blocks.
LEMMA PoolInit ==
  ASSUME Init
  PROVE  PoolInv
<1>1. Heap = {}
  BY DEF Init, Heap
<1>2. AllSlots = {} /\ 1 .. 0 = {} /\ 0 \in 0 .. MaxBlocks
  BY <1>1, NumbersType DEF AllSlots
<1>3. SizesInv /\ request \in ObjectSizes
  BY <1>1, SizesType DEF Init, SizesInv
<1>4. HeapInv
  <2>1. Shaped(mem, block_size, 1 .. 0)
    BY <1>2 DEF Init, Shaped
  <2>2. HeapIs(0)
    BY <1>1, <1>2, <2>1 DEF Init, HeapIs, Link
  <2> QED
    BY <1>2, <2>2 DEF HeapInv
<1>5. WordsTyped
  BY <1>1 DEF WordsTyped
<1>6. ListInv
  <2>1. total_allocs - current_allocs = 0
    BY DEF Init
  <2> DEFINE s == [i \in 1 .. 0 |-> Null]
  <2>2. s \in [1 .. 0 -> AllSlots \ used]
    BY <1>2
  <2>3. Stack(s, 0)
    BY <1>2, <2>2 DEF Stack, Init
  <2> QED
    BY <2>1, <2>3 DEF ListInv
<1>7. UseInv
  BY <1>2, FS_EmptySet DEF Init, UseInv
<1>8. OwnInv
  <2>1. 0 \in 0 .. 2 /\ FALSE \in BOOLEAN
    OBVIOUS
  <2> QED
    BY <2>1, Zenon DEF Init, OwnInv
<1>9. ObjectsIntact
  BY DEF Init, ObjectsIntact, Owned
<1> QED
  BY <1>3, <1>4, <1>5, <1>6, <1>7, <1>8, <1>9 DEF PoolInv

\* Steps that leave the pool and its objects alone.
LEMMA QuietStep ==
  ASSUME PoolInv, OwnInv',
         UNCHANGED <<request, pool, mem, clearing, used, filled>>
  PROVE  PoolInv'
<1>1. Heap' = Heap /\ AllSlots' = AllSlots /\ Address' = Address
  BY DEF Heap, AllSlots, Address, pool
<1>2. SizesInv' /\ WordsTyped' /\ UseInv' /\ ObjectsIntact'
  BY <1>1 DEF PoolInv, SizesInv, WordsTyped, UseInv, ObjectsIntact, Word, Owned,
              At, pool
<1>3. HeapInv'
  BY <1>1 DEF PoolInv, HeapInv, HeapIs, pool
<1>4. ListInv'
  <2>0. PICK n \in Nat : n = total_allocs - current_allocs /\ \E s : Stack(s, n)
    BY DEF PoolInv, ListInv
  <2>1. PICK s : n = total_allocs - current_allocs /\ Stack(s, n)
    BY <2>0
  <2>2. Stack(s, n)'
    BY <1>1, <2>1 DEF Stack, At, pool
  <2> QED
    BY <2>1, <2>2 DEF ListInv, pool
<1> QED
  BY <1>2, <1>3, <1>4 DEF PoolInv

\* Steps of a call on its way to the lock, or of the program.
LEMMA ApartStep ==
  ASSUME PoolInv, UNCHANGED <<request, pool, mem, clearing, used, filled, aborted, own>>
  PROVE  PoolInv'
<1>1. OwnInv'
  BY DEF PoolInv, OwnInv, own
<1> QED
  BY <1>1, QuietStep

\* Every step of the program keeps the invariant of the memory.
LEMMA PoolStep ==
  ASSUME ~Checks, PoolInv, CallsInv, [Next]_vars
  PROVE  PoolInv'
<1>1. ASSUME NEW c \in Client, New0(c) PROVE PoolInv'
  <2>1. CASE BeginNew(c)
    BY <2>1, ApartStep DEF BeginNew
  <2> QED
    BY <1>1, <2>1, NewFromListStep, NewFromBlockStep, NewFailStep, ZeroStep DEF New0
<1>2. ASSUME NEW c \in Client, NEW p \in used, BeginDelete(c, p) PROVE PoolInv'
  BY <1>2, ApartStep DEF BeginDelete
<1>3. ASSUME NEW c \in Client, NEW p \in used, Delete(c, p) PROVE PoolInv'
  BY <1>3, DeleteStep
<1>4. ASSUME NEW c \in Client, BeginRelease(c) PROVE PoolInv'
  BY <1>4, ApartStep DEF BeginRelease
<1>5. ASSUME NEW c \in Client, Release(c) PROVE PoolInv'
  BY <1>5, ReleaseStep
<1>6. ASSUME NEW p \in used, Fill(p) PROVE PoolInv'
  BY <1>6, FillStep
<1>7. ASSUME NEW p \in used, Misfree(p) PROVE PoolInv'
  <2>1. OwnInv'
    BY <1>7 DEF PoolInv, OwnInv, Misfree
  <2>2. UNCHANGED <<request, pool, mem, clearing, used, filled>>
    BY <1>7 DEF Misfree
  <2> QED
    BY <2>1, <2>2, QuietStep
<1>8. CASE SetFunction
  <2>1. OwnInv'
    <3>1. late' \in BOOLEAN
      <4> DEFINE atWork == /\ replaced' = 2
                           /\ used # {} \/ \E c \in Client : entering[c] = "new"
      <4>1. late' = (late \/ atWork)
        BY <1>8 DEF SetFunction
      <4>2. late \in BOOLEAN
        BY DEF PoolInv, OwnInv
      <4> QED
        BY <4>1, <4>2, Zenon
    <3>2. replaced' \in 0 .. 2
      BY <1>8 DEF PoolInv, OwnInv, SetFunction
    <3> QED
      BY <1>8, <3>1, <3>2 DEF PoolInv, OwnInv, SetFunction
  <2>2. UNCHANGED <<request, pool, mem, clearing, used, filled>>
    BY <1>8 DEF SetFunction
  <2> QED
    BY <2>1, <2>2, QuietStep
<1>9. CASE PassBy \/ UNCHANGED vars
  BY <1>9, ApartStep DEF PassBy, vars
<1> QED
  BY <1>1, <1>2, <1>3, <1>4, <1>5, <1>6, <1>7, <1>8, <1>9 DEF Next

\* Every step of the program keeps the invariant of the calls.
LEMMA CallsStep ==
  ASSUME ~Checks, PoolInv, CallsInv, [Next]_vars
  PROVE  CallsInv'
<1>0. Null \notin used
  BY SlotType DEF PoolInv, UseInv
<1>1. ASSUME UNCHANGED <<calls, clearing, used>> PROVE CallsInv'
  BY <1>1 DEF CallsInv, calls
\* What a call does to the objects when it has the lock.
<1>2. ASSUME NEW c \in Client, NEW call, Enter(c, call), UNCHANGED <<clearing, used>>
      PROVE  CallsInv'
  <2>1. entering' = [entering EXCEPT ![c] = "none"] /\ UNCHANGED deleting
    BY <1>2 DEF Enter
  <2> QED
    BY <1>2, <2>1 DEF CallsInv
<1>3. ASSUME NEW c \in Client, Enter(c, "new"), HandsOut(c) PROVE CallsInv'
  <2>1. entering' = [entering EXCEPT ![c] = "none"] /\ UNCHANGED deleting
    BY <1>3 DEF Enter
  <2>2. PICK p : /\ p \notin used
                 /\ used' = used \cup {p}
                 /\ clearing' = [clearing EXCEPT ![c] = p]
    BY <1>3 DEF HandsOut
  <2>3. \A d \in Client : clearing'[d] = IF d = c THEN p ELSE clearing[d]
    BY <2>2 DEF PoolInv, UseInv
  <2>4. \A d \in Client : deleting[d] # Null => deleting[d] # p
    BY <2>2 DEF CallsInv
  <2>5. \A d \in Client : entering'[d] = "new" => d # c /\ entering[d] = "new"
    BY <2>1 DEF CallsInv
  <2>6. \A d \in Client : entering'[d] = "new" => clearing'[d] = Null
    BY <2>3, <2>5 DEF CallsInv
  <2>7. \A d, e \in Client : deleting'[d] # Null => deleting'[d] # clearing'[e]
    BY <2>1, <2>3, <2>4 DEF CallsInv
  <2>8. entering' \in [Client -> {"none", "new", "release"}]
        /\ deleting' \in [Client -> used' \cup {Null}]
    BY <2>1, <2>2 DEF CallsInv
  <2> QED
    BY <2>1, <2>6, <2>7, <2>8 DEF CallsInv
<1>4. ASSUME NEW c \in Client, BeginNew(c) \/ BeginRelease(c) PROVE CallsInv'
  <2>1. PICK call \in {"new", "release"} :
          /\ entering' = [entering EXCEPT ![c] = call]
          /\ clearing[c] = Null
          /\ UNCHANGED <<deleting, clearing, used>>
    BY <1>4 DEF BeginNew, BeginRelease, Idle
  <2> QED
    BY <2>1 DEF CallsInv
<1>5. ASSUME NEW c \in Client, New0(c) PROVE CallsInv'
  <2>1. CASE NewFromList(c)
    BY <1>3, <2>1, NewFromListStep DEF NewFromList
  <2>2. CASE NewFromBlock(c)
    BY <1>3, <2>2, NewFromBlockStep DEF NewFromBlock
  <2>3. CASE NewFail(c)
    BY <1>2, <2>3 DEF NewFail
  <2>4. CASE Zero(c)
    <3>1. UNCHANGED <<entering, deleting, used>>
          /\ clearing' = [clearing EXCEPT ![c] = Null]
      BY <2>4 DEF Zero, calls
    <3>2. \A d \in Client : clearing'[d] = IF d = c THEN Null ELSE clearing[d]
      BY <3>1 DEF PoolInv, UseInv
    <3> QED
      BY <3>1, <3>2 DEF CallsInv
  <2> QED
    BY <1>4, <1>5, <2>1, <2>2, <2>3, <2>4 DEF New0
<1>6. ASSUME NEW c \in Client, NEW p \in used, BeginDelete(c, p) PROVE CallsInv'
  <2>1. /\ deleting' = [deleting EXCEPT ![c] = p]
        /\ p \in Held
        /\ UNCHANGED <<entering, clearing, used>>
    BY <1>6 DEF BeginDelete
  <2>2. \A d \in Client : p # clearing[d] /\ p # deleting[d]
    BY <2>1 DEF Held, Owned
  <2>3. \A d \in Client : deleting'[d] = IF d = c THEN p ELSE deleting[d]
    BY <2>1 DEF CallsInv
  <2>4. deleting' \in [Client -> used' \cup {Null}]
    BY <2>1 DEF CallsInv
  <2> QED
    BY <2>1, <2>2, <2>3, <2>4 DEF CallsInv
<1>7. ASSUME NEW c \in Client, NEW p \in used, Delete(c, p) PROVE CallsInv'
  <2>1. /\ deleting[c] = p /\ p # Null
        /\ deleting' = [deleting EXCEPT ![c] = Null]
        /\ used' = used \ {p}
        /\ UNCHANGED <<entering, clearing>>
    BY <1>0, <1>7 DEF Delete
  <2>2. \A d \in Client : deleting'[d] = IF d = c THEN Null ELSE deleting[d]
    BY <2>1 DEF CallsInv
  <2>3. \A d \in Client : d # c => deleting[d] # p
    BY <2>1 DEF CallsInv
  <2>4. deleting' \in [Client -> used' \cup {Null}]
    BY <2>1, <2>3 DEF CallsInv
  <2> QED
    BY <2>1, <2>2, <2>4 DEF CallsInv
<1>8. ASSUME NEW c \in Client, Release(c) PROVE CallsInv'
  BY <1>2, <1>8 DEF Release
<1>9. ASSUME NEW p \in used, Fill(p) \/ Misfree(p) PROVE CallsInv'
  BY <1>1, <1>9 DEF Fill, Misfree
<1>10. CASE SetFunction \/ PassBy \/ UNCHANGED vars
  BY <1>1, <1>10 DEF SetFunction, PassBy, vars
<1> QED
  BY <1>4, <1>5, <1>6, <1>7, <1>8, <1>9, <1>10 DEF Next

\* The invariants of the memory and of the calls need each other.
LEMMA PoolInvariant == ~Checks => (Spec => [](PoolInv /\ CallsInv))
<1> SUFFICES ASSUME ~Checks PROVE Spec => [](PoolInv /\ CallsInv)
  OBVIOUS
<1>1. Init => PoolInv /\ CallsInv
  <2>1. Init => CallsInv
    BY DEF Init, CallsInv
  <2> QED
    BY <2>1, PoolInit
<1>2. PoolInv /\ CallsInv /\ [Next]_vars => PoolInv' /\ CallsInv'
  BY PoolStep, CallsStep
<1> QED
  BY <1>1, <1>2, PTL DEF Spec

----------------------------------------------------------------------------
(* What the invariant says                                                 *)

LEMMA PoolTyped ==
  ASSUME PoolInv, CallsInv
  PROVE  TypeOK
<1>1. PICK h \in 0 .. MaxBlocks : HeapIs(h)
  BY DEF PoolInv, HeapInv
<1>0. PICK n \in Nat : n = total_allocs - current_allocs /\ \E s : Stack(s, n)
  BY DEF PoolInv, ListInv
<1>2. PICK s : n = total_allocs - current_allocs /\ Stack(s, n)
  BY <1>0
<1>3. \A b \in Heap : DOMAIN mem[b] = 0 .. block_size - 1
  BY <1>1 DEF HeapIs, Shaped
<1>4. \A b \in Heap : \A o \in DOMAIN mem[b] :
        mem[b][o] \in Address \cup {Null, One, Data}
  BY <1>3 DEF PoolInv, WordsTyped, Word
<1>5. block \in Address \cup {Null}
  <2>1. CASE h = 0
    BY <1>1, <2>1 DEF HeapIs, Link
  <2>2. CASE h # 0
    <3>1. h \in Heap
      BY <1>1, <2>2, NumbersType DEF HeapIs
    <3>2. 0 \in 0 .. block_size - 1
      BY <3>1 DEF PoolInv, SizesInv
    <3>3. <<h, 0>> \in Address
      BY <3>1, <3>2 DEF Address
    <3> QED
      BY <1>1, <2>2, <3>3 DEF HeapIs, Link
  <2> QED
    BY <2>1, <2>2
<1>6. next \in Address \cup {Null}
  <2>1. n # 0 => next \in AllSlots
    BY <1>2 DEF Stack
  <2>2. n = 0 => next = Null
    BY <1>2 DEF Stack
  <2> QED
    BY <2>1, <2>2, SlotType DEF PoolInv
<1>7. total_allocs \in Nat /\ current_allocs \in 0 .. total_allocs
  <2>1. total_allocs \in Nat /\ current_allocs \in Nat
    BY FS_CardinalityType DEF PoolInv, UseInv
  <2> QED
    BY <1>2, <2>1
<1>8. used \subseteq Address
  BY SlotType DEF PoolInv, UseInv
<1>9. /\ request \in ObjectSizes /\ size \in Nat /\ block_size \in Nat
      /\ entering \in [Client -> {"none", "new", "release"}]
      /\ deleting \in [Client -> used \cup {Null}]
      /\ clearing \in [Client -> used \cup {Null}] /\ filled \subseteq used
      /\ aborted \in BOOLEAN /\ replaced \in 0 .. 2
      /\ misfreed \in BOOLEAN /\ late \in BOOLEAN
  BY DEF PoolInv, CallsInv, SizesInv, UseInv, OwnInv
<1> QED
  BY <1>3, <1>4, <1>5, <1>6, <1>7, <1>8, <1>9 DEF TypeOK

\* Counting by a list without repetitions.
LEMMA ListedCount ==
  ASSUME NEW T, NEW n \in Nat, NEW s \in [1 .. n -> T],
         \A x \in T : \E i \in 1 .. n : s[i] = x,
         \A i, j \in 1 .. n : s[i] = s[j] => i = j
  PROVE  IsFiniteSet(T) /\ Cardinality(T) = n
<1>1. s \in Injection(1 .. n, T)
  BY DEF Injection, IsInjective
<1>2. s \in Surjection(1 .. n, T)
  BY DEF Surjection
<1>3. ExistsBijection(1 .. n, T)
  BY <1>1, <1>2 DEF Bijection, ExistsBijection
<1>4. IsFiniteSet(1 .. n) /\ Cardinality(1 .. n) = n
  BY FS_Interval
<1> QED
  BY <1>3, <1>4, FS_Bijection

LEMMA FreeListIs ==
  ASSUME ~Checks, PoolInv
  PROVE  FreeListRight
<1>0. PICK n \in Nat : n = total_allocs - current_allocs /\ \E s : Stack(s, n)
  BY DEF PoolInv, ListInv
<1>1. PICK s : n = total_allocs - current_allocs /\ Stack(s, n)
  BY <1>0
<1> DEFINE f == [i \in 0 .. n |-> IF i < n THEN s[n - i] ELSE Null]
<1>2. \A i \in 1 .. n : s[i] \in AllSlots \ used /\ s[i] # Null /\ Plus(s[i], 0) = s[i]
  BY <1>1, SlotType DEF Stack, PoolInv
<1>3. Head = 0
  BY DEF Head
<1>4. \A i \in 0 .. n : i < n => n - i \in 1 .. n /\ f[i] = s[n - i]
  OBVIOUS
<1>5. f[n] = Null
  OBVIOUS
<1>6. ASSUME NEW i \in 0 .. n
      PROVE  f[i] = IF i = 0 THEN next
                    ELSE IF f[i - 1] = Null THEN Null ELSE At(Plus(f[i - 1], Head))
  <2>1. CASE i = 0
    <3>1. next = IF n = 0 THEN Null ELSE s[n]
      BY <1>1 DEF Stack
    <3>2. n # 0 => f[0] = s[n]
      OBVIOUS
    <3>3. n = 0 => f[0] = Null
      BY <1>5
    <3> HIDE DEF f
    <3> QED
      BY <2>1, <3>1, <3>2, <3>3
  <2>2. CASE i # 0
    <3> DEFINE k == n - (i - 1)
    <3>1. k \in 1 .. n /\ f[i - 1] = s[k]
      <4>1. i - 1 \in 0 .. n /\ i - 1 < n
        BY <2>2
      <4> QED
        BY <1>4, <4>1
    <3>2. f[i] = IF k = 1 THEN Null ELSE s[k - 1]
      <4>1. k = 1 <=> i = n
        OBVIOUS
      <4>2. i # n => i < n /\ k - 1 = n - i
        OBVIOUS
      <4>3. i # n => f[i] = s[k - 1]
        BY <1>4, <4>2
      <4> HIDE DEF f, k
      <4> QED
        BY <1>5, <4>1, <4>3
    <3>3. At(s[k]) = IF k = 1 THEN Null ELSE s[k - 1]
      BY <1>1, <3>1 DEF Stack
    <3> HIDE DEF f, k
    <3>4. At(Plus(f[i - 1], Head)) = f[i] /\ f[i - 1] # Null
      BY <1>2, <1>3, <3>1, <3>2, <3>3
    <3> QED
      BY <2>2, <3>4
  <2> QED
    BY <2>1, <2>2
<1>7. f = [i \in 0 .. n |->
             IF i = 0 THEN next
             ELSE IF f[i - 1] = Null THEN Null ELSE At(Plus(f[i - 1], Head))]
  <2>1. f = [i \in 0 .. n |-> f[i]]
    OBVIOUS
  <2> HIDE DEF f
  <2> QED
    BY <1>6, <2>1
<1>8. {f[i] : i \in 0 .. n} \ {Null} = AllSlots \ used
  <2>1. ASSUME NEW q \in AllSlots \ used PROVE \E i \in 0 .. n : f[i] = q /\ q # Null
    <3>1. PICK k \in 1 .. n : s[k] = q
      BY <1>1 DEF Stack
    <3>2. n - k \in 0 .. n /\ n - k < n /\ n - (n - k) = k
      OBVIOUS
    <3>3. f[n - k] = q
      BY <3>1, <3>2
    <3> QED
      BY <1>2, <3>1, <3>2, <3>3
  <2>2. ASSUME NEW i \in 0 .. n, f[i] # Null PROVE f[i] \in AllSlots \ used
    BY <1>2, <1>4, <1>5, <2>2
  <2> HIDE DEF f
  <2> QED
    BY <2>1, <2>2
<1> HIDE DEF f
<1>9. Chain(next, Head, n) = f
  BY <1>7, ChainIs
<1>10. Cardinality(AllSlots \ used) = n
  <2>1. /\ s \in [1 .. n -> AllSlots \ used]
        /\ \A q \in AllSlots \ used : \E i \in 1 .. n : s[i] = q
        /\ \A i, j \in 1 .. n : s[i] = s[j] => i = j
    BY <1>1 DEF Stack
  <2> QED
    BY <2>1, ListedCount
<1>11. {Plus(p, -Head) : p \in used} = used
  <2>1. \A p \in used : Plus(p, -Head) = p
    BY <1>3, SlotType DEF PoolInv, UseInv
  <2> QED
    BY <2>1
<1>12. Cardinality(used) = current_allocs /\ used \subseteq AllSlots
  BY DEF PoolInv, UseInv
<1> DEFINE N == total_allocs - current_allocs
           at == Chain(next, Head, N)
           free == {at[i] : i \in 0 .. N} \ {Null}
           taken == {Plus(p, -Head) : p \in used}
<1>13. N = n /\ at = f /\ taken = used
  BY <1>1, <1>9, <1>11
<1>14. free = AllSlots \ used
  BY <1>8, <1>13
<1> HIDE DEF N, at, free, taken
<1>15. at[N] = Null /\ Cardinality(free) = N /\ Cardinality(taken) = current_allocs
  BY <1>5, <1>10, <1>12, <1>13, <1>14
<1>16. free \cap taken = {} /\ free \cup taken = AllSlots
  BY <1>12, <1>13, <1>14
<1> QED
  BY <1>15, <1>16 DEF FreeListRight, N, at, free, taken

LEMMA BlocksAre ==
  ASSUME PoolInv
  PROVE  BlocksReachable
<1>1. PICK h \in 0 .. MaxBlocks : HeapIs(h)
  BY DEF PoolInv, HeapInv
<1>2. h \in Nat /\ Heap = 1 .. h
  BY <1>1, NumbersType DEF HeapIs
<1>3. Cardinality(Heap) = h
  BY <1>2, FS_Interval
<1> DEFINE f == [i \in 0 .. h |-> IF i < h THEN <<h - i, 0>> ELSE Null]
<1>4. \A i \in 0 .. h : i < h => h - i \in 1 .. h /\ f[i] = <<h - i, 0>>
  BY <1>2
<1>5. f[h] = Null
  BY <1>2
<1>6. \A b \in 1 .. h : <<b, 0>> # Null /\ Plus(<<b, 0>>, 0) = <<b, 0>>
                        /\ At(<<b, 0>>) = Link(b - 1)
  BY <1>1 DEF HeapIs, At, Plus, Null
<1>7. ASSUME NEW i \in 0 .. h
      PROVE  f[i] = IF i = 0 THEN block
                    ELSE IF f[i - 1] = Null THEN Null ELSE At(Plus(f[i - 1], 0))
  <2>1. f[i] = Link(h - i)
    BY <1>2 DEF Link
  <2>2. CASE i = 0
    <3>1. h - 0 = h
      BY <1>2
    <3> HIDE DEF f
    <3> QED
      BY <1>1, <2>1, <2>2, <3>1 DEF HeapIs
  <2>3. CASE i # 0
    <3>1. i - 1 \in 0 .. h /\ i - 1 < h /\ h - (i - 1) - 1 = h - i
      BY <1>2, <2>3
    <3>2. h - (i - 1) \in 1 .. h /\ f[i - 1] = <<h - (i - 1), 0>>
      BY <1>4, <3>1
    <3> HIDE DEF f
    <3>3. f[i - 1] # Null /\ At(Plus(f[i - 1], 0)) = Link(h - i)
      BY <1>6, <3>1, <3>2
    <3> QED
      BY <2>1, <2>3, <3>3
  <2> QED
    BY <2>2, <2>3
<1>8. f = [i \in 0 .. h |->
             IF i = 0 THEN block
             ELSE IF f[i - 1] = Null THEN Null ELSE At(Plus(f[i - 1], 0))]
  <2>1. f = [i \in 0 .. h |-> f[i]]
    OBVIOUS
  <2> HIDE DEF f
  <2> QED
    BY <1>7, <2>1
<1>9. {f[i] : i \in 0 .. h} \ {Null} = {<<b, 0>> : b \in Heap}
  <2>1. ASSUME NEW b \in Heap PROVE \E i \in 0 .. h : f[i] = <<b, 0>> /\ <<b, 0>> # Null
    <3>1. h - b \in 0 .. h /\ h - b < h /\ h - (h - b) = b
      BY <1>2
    <3>2. f[h - b] = <<b, 0>>
      BY <3>1
    <3> HIDE DEF f
    <3> QED
      BY <1>2, <1>6, <3>1, <3>2
  <2>2. ASSUME NEW i \in 0 .. h, f[i] # Null PROVE \E b \in Heap : f[i] = <<b, 0>>
    BY <1>2, <1>4, <1>5, <2>2
  <2> HIDE DEF f
  <2> QED
    BY <2>1, <2>2
<1> HIDE DEF f
<1>10. Chain(block, 0, h) = f
  BY <1>2, <1>8, ChainIs
<1>11. ASSUME NEW b \in Heap
       PROVE  Cardinality(Slots(b, block_size, size)) >= NumObjects
  <2>1. /\ block_size \in Nat /\ block_size > 0 /\ block_size = BlockSize(size)
        /\ size \in Nat /\ size > 0
    BY DEF PoolInv, SizesInv
  <2>2. PICK n \in Nat : n = (block_size - 1) \div size /\ n >= NumObjects
    BY <2>1, RoomForObjects
  <2>3. PICK z \in Nat : z = size /\ z > 0
    BY <2>1
  <2> DEFINE T == Slots(b, block_size, size)
             g == [i \in 1 .. n |-> SlotAt(b, i - 1, z)]
  <2>4. \A i \in 1 .. n : i - 1 \in 0 .. n - 1 /\ i - 1 \in Nat
    OBVIOUS
  <2>5. g \in [1 .. n -> T]
    BY <2>2, <2>3, <2>4 DEF Slots, SlotAt
  <2>6. ASSUME NEW q \in T PROVE \E i \in 1 .. n : g[i] = q
    <3>1. PICK i \in 0 .. n - 1 : q = SlotAt(b, i, z)
      BY <2>2, <2>3 DEF Slots, SlotAt
    <3>2. i + 1 \in 1 .. n /\ (i + 1) - 1 = i
      OBVIOUS
    <3>3. g[i + 1] = q
      BY <3>1, <3>2
    <3> QED
      BY <3>2, <3>3
  <2>7. ASSUME NEW i \in 1 .. n, NEW j \in 1 .. n, g[i] = g[j] PROVE i = j
    <3> DEFINE k == i - 1
               l == j - 1
    <3>1. k \in Nat /\ l \in Nat
      BY <2>4
    <3>2. 1 + k * z = 1 + l * z
      BY <2>7 DEF SlotAt
    <3> HIDE DEF k, l
    <3>3. k * z \in Nat /\ l * z \in Nat /\ (k * z = l * z => k = l)
      BY <2>3, <3>1, Multiples
    <3>4. k = l
      BY <3>2, <3>3
    <3> QED
      BY <3>4 DEF k, l
  <2> HIDE DEF T, g
  <2>8. Cardinality(T) = n
    BY <2>5, <2>6, <2>7, ListedCount
  <2> QED
    BY <2>2, <2>8, NumbersType DEF T
<1> QED
  BY <1>3, <1>5, <1>9, <1>10, <1>11 DEF BlocksReachable

----------------------------------------------------------------------------
(* The theorems about the memory                                           *)

\* Type correctness of the pool without its checks: every pointer it keeps, in
\* its structure and in its memory, is NULL or points into a block malloc gave
\* out and has not got back, and no more objects are counted in use than made.
THEOREM TypeCorrect == ~Checks => (Spec => []TypeOK)
<1> SUFFICES ASSUME ~Checks PROVE Spec => []TypeOK
  OBVIOUS
<1>1. PoolInv /\ CallsInv => TypeOK
  BY PoolTyped
<1>2. Spec => [](PoolInv /\ CallsInv)
  BY PoolInvariant
<1> QED
  BY <1>1, <1>2, PTL

\* libdbo_mm_new and libdbo_mm_delete: the free list ends and runs through every
\* object not in use, once, and the counters agree with it.
THEOREM FreeListKept == ~Checks => (Spec => []FreeListRight)
<1> SUFFICES ASSUME ~Checks PROVE Spec => []FreeListRight
  OBVIOUS
<1>1. PoolInv => FreeListRight
  BY FreeListIs
<1>2. Spec => [](PoolInv /\ CallsInv)
  BY PoolInvariant
<1> QED
  BY <1>1, <1>2, PTL

\* libdbo_mm_release frees the blocks it can reach from alloc->block, and these
\* are all of them, each with room for num_objects objects.
THEOREM NoBlockLost == ~Checks => (Spec => []BlocksReachable)
<1> SUFFICES ASSUME ~Checks PROVE Spec => []BlocksReachable
  OBVIOUS
<1>1. PoolInv => BlocksReachable
  BY BlocksAre
<1>2. Spec => [](PoolInv /\ CallsInv)
  BY PoolInvariant
<1> QED
  BY <1>1, <1>2, PTL

\* libdbo_mm_new0: an object is zero when the program gets it and nobody else
\* writes to it after that, however the threads interleave.
THEOREM NobodyElseWrites == ~Checks => (Spec => []ObjectsIntact)
<1> SUFFICES ASSUME ~Checks PROVE Spec => []ObjectsIntact
  OBVIOUS
<1>1. PoolInv => ObjectsIntact
  BY DEF PoolInv
<1>2. Spec => [](PoolInv /\ CallsInv)
  BY PoolInvariant
<1> QED
  BY <1>1, <1>2, PTL

=============================================================================
