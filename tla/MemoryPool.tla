----------------------------- MODULE MemoryPool -----------------------------
(***************************************************************************)
(* The memory pool of libdbo_mm.c, in the build that uses it               *)
(* (USE_LIBDBO_MM), with and without its checks (USE_LIBDBO_MM_CHECKS).    *)
(*                                                                         *)
(* Memory is modelled word by word, a word being what holds a pointer, for *)
(* the pool keeps its lists in the memory it hands out: the first word of  *)
(* a block links the blocks, a word of each free object links the free     *)
(* objects, and with the checks the word before an object tells whether it *)
(* is free.                                                                *)
(*                                                                         *)
(* new, delete and release look whether the functions of the program are   *)
(* to be used, and only then wait for the pool's lock: two steps.  What    *)
(* they do under the lock is one.  new0 clears the object after it has let *)
(* go of the lock.                                                         *)
(*                                                                         *)
(* A program can replace malloc and free, after which the pool is not used *)
(* any more.  The objects made from then on are no part of the model.      *)
(***************************************************************************)
EXTENDS Integers, FiniteSets

CONSTANTS
  Client,       \* threads that allocate
  Checks,       \* is USE_LIBDBO_MM_CHECKS defined?
  ObjectSizes,  \* sizes a pool can be made for; 0 is less than a pointer
  NumObjects,   \* num_objects
  PageSize,     \* libdbo_mm_pagesize()
  MaxBlocks,    \* bound: blocks malloc has memory for
  Scarce        \* may malloc fail before that?

ASSUME SizesType == ObjectSizes \subseteq Nat /\ ObjectSizes # {}
ASSUME NumbersType ==
  /\ Checks \in BOOLEAN /\ Scarce \in BOOLEAN
  /\ NumObjects \in Nat /\ NumObjects > 0
  /\ PageSize \in Nat /\ PageSize > 2
  /\ MaxBlocks \in Nat

VARIABLES
  request,         \* the size of the objects the pool was made for
  size,            \* alloc->size
  block_size,      \* alloc->block_size
  block,           \* alloc->block, the newest block
  next,            \* alloc->next, the first free object
  total_allocs,    \* alloc->total_allocs
  current_allocs,  \* alloc->current_allocs
  mem,             \* the words of each block malloc has given out
  entering,        \* the call, new or release, a thread waits with for the lock
  deleting,        \* the object whose delete a thread waits with for the lock
  clearing,        \* the object a thread in new0 has still to clear
  used,            \* the objects in the hands of the program
  filled,          \* those of them the program has written to
  aborted,         \* has an assertion failed?
  replaced,        \* how many of __malloc and __free are set
  misfreed,        \* has an object of the pool gone to the program's free?
  late             \* history: were both set when objects were in use or
                   \* about to be made?

own == <<replaced, misfreed, late>>
calls == <<entering, deleting>>
pool == <<size, block_size, block, next, total_allocs, current_allocs>>
vars == <<request, pool, mem, calls, clearing, used, filled, aborted, own>>

----------------------------------------------------------------------------
(* Memory                                                                  *)

Block == 1 .. MaxBlocks

\* Addresses, and what else a word can hold: NULL and zero, the value 1 of a
\* check word, anything the program or malloc leaves in it.
Null == <<0, 0>>
One == <<0, 1>>
Data == <<0, 2>>
NoMemory == [o \in {} |-> Null]

Heap == {b \in Block : mem[b] # NoMemory}
Address == {<<b, o>> : b \in Heap, o \in 0 .. block_size - 1}

Plus(a, n) == <<a[1], a[2] + n>>
At(a) == mem[a[1]][a[2]]
Words(a, n) == {Plus(a, i) : i \in 0 .. n - 1}

\* Memory with the addresses of a set changed to v.
Store(m, S, v) ==
  [b \in Block |-> [o \in DOMAIN m[b] |->
                      IF <<b, o>> \in S THEN v ELSE m[b][o]]]

\* Where in an object's slot the object starts, after its check word.
Head == IF Checks THEN 1 ELSE 0

\* Mutant: one of the functions is enough.
EitherReplaced == replaced > 0

\* Both functions are set: a new, delete or release that begins now passes the
\* pool by.
Replaced == replaced = 2

\* Nothing is said of the program after an assertion or a wrong free.
Running == ~aborted /\ ~misfreed

Pooled == Running /\ ~Replaced

\* The thread is in none of the pool's functions.
Idle(c) == entering[c] = "none" /\ deleting[c] = Null /\ clearing[c] = Null

TypeOK ==
  /\ request \in ObjectSizes
  /\ size \in Nat /\ block_size \in Nat
  /\ \A b \in Heap : /\ DOMAIN mem[b] = 0 .. block_size - 1
                     /\ \A o \in DOMAIN mem[b] :
                          mem[b][o] \in Address \cup {Null, One, Data}
  /\ block \in Address \cup {Null}
  /\ next \in Address \cup {Null}
  /\ total_allocs \in Nat
  /\ current_allocs \in 0 .. total_allocs
  /\ entering \in [Client -> {"none", "new", "release"}]
  /\ deleting \in [Client -> used \cup {Null}]
  /\ clearing \in [Client -> used \cup {Null}]
  /\ used \subseteq Address
  /\ filled \subseteq used
  /\ aborted \in BOOLEAN
  /\ replaced \in 0 .. 2
  /\ misfreed \in BOOLEAN
  /\ late \in BOOLEAN

Init ==
  /\ request \in ObjectSizes
  /\ size = request
  /\ block_size = 0
  /\ block = Null
  /\ next = Null
  /\ total_allocs = 0
  /\ current_allocs = 0
  /\ mem = [b \in Block |-> NoMemory]
  /\ entering = [c \in Client |-> "none"]
  /\ deleting = [c \in Client |-> Null]
  /\ clearing = [c \in Client |-> Null]
  /\ used = {}
  /\ filled = {}
  /\ aborted = FALSE
  /\ replaced = 0
  /\ misfreed = FALSE
  /\ late = FALSE

----------------------------------------------------------------------------
(* libdbo_mm_new                                                           *)

\* The functions are not both set.  They may be by the time the lock is taken.
BeginNew(c) ==
  /\ Pooled /\ Idle(c)
  /\ entering' = [entering EXCEPT ![c] = "new"]
  /\ UNCHANGED <<request, pool, mem, deleting, clearing, used, filled, aborted,
                 own>>

\* The lock is taken and let go again: the call is over.
Enter(c, call) ==
  /\ Running /\ entering[c] = call
  /\ entering' = [entering EXCEPT ![c] = "none"]
  /\ UNCHANGED deleting

\* The size of an object's slot in a block made now.  It is only ever looked at
\* when there is no free object: with the checks it grows each time.
SlotSize == (IF size < 1 THEN 1 ELSE size) + Head

\* Mutant: the word that links the blocks is left out of a block's size.
BlockSizeBare(s) ==
  IF PageSize \div s < NumObjects
    THEN ((s * NumObjects) \div PageSize + 1) * PageSize
    ELSE PageSize

BlockSize(s) ==
  IF (PageSize - 1) \div s < NumObjects
    THEN ((s * NumObjects + 1) \div PageSize + 1) * PageSize
    ELSE PageSize

\* The slots of block b.
Slots(b, bs, s) == {<<b, 1 + i * s>> : i \in 0 .. (bs - 1) \div s - 1}

\* A fresh block: linked to the blocks there are, its slots linked to each
\* other, the last one first.
NewBlock(b, bs, s) ==
  [o \in 0 .. bs - 1 |->
     CASE o = 0 -> block
       [] <<b, o - Head>> \in Slots(b, bs, s) ->
            IF o - Head = 1 THEN Null ELSE <<b, o - Head - s>>
       [] Checks /\ <<b, o>> \in Slots(b, bs, s) -> One
       [] OTHER -> Data]

\* The object in slot p of memory m is taken off the list.
Take(c, m, p, total) ==
  IF Checks /\ (m[p[1]][p[2]] # One \/ current_allocs >= total)
    THEN /\ aborted' = TRUE
         /\ UNCHANGED <<next, current_allocs, mem, clearing, used>>
    ELSE LET ptr == Plus(p, Head) IN
         /\ next' = m[ptr[1]][ptr[2]]
         /\ mem' = Store(m, {p, ptr}, Null)
         /\ current_allocs' = current_allocs + 1
         /\ used' = used \cup {ptr}
         /\ clearing' = [clearing EXCEPT ![c] = ptr]
         /\ UNCHANGED aborted

NewFromList(c) ==
  /\ Enter(c, "new")
  /\ next # Null
  /\ Take(c, mem, next, total_allocs)
  /\ UNCHANGED <<request, size, block_size, block, total_allocs, filled, own>>

NewFromBlock(c) ==
  /\ Enter(c, "new")
  /\ next = Null
  /\ size' = SlotSize
  /\ block_size' = IF block_size = 0 THEN BlockSize(size') ELSE block_size
  /\ \E b \in Block \ Heap :
       /\ \A a \in Block \ Heap : b <= a
       /\ block' = <<b, 0>>
       /\ LET n == (block_size' - 1) \div size'
              fresh == [mem EXCEPT ![b] = NewBlock(b, block_size', size')]
          IN /\ total_allocs' = total_allocs + n
             /\ IF n > 0
                  THEN Take(c, fresh, <<b, 1 + (n - 1) * size'>>, total_allocs')
                  ELSE /\ mem' = fresh
                       /\ UNCHANGED <<next, current_allocs, clearing, used,
                                      aborted>>
  /\ UNCHANGED <<request, filled, own>>

\* malloc has no memory: NULL is returned, the sizes are set all the same.
NewFail(c) ==
  /\ Enter(c, "new")
  /\ next = Null
  /\ Scarce \/ Heap = Block
  /\ size' = SlotSize
  /\ block_size' = IF block_size = 0 THEN BlockSize(size') ELSE block_size
  /\ UNCHANGED <<request, block, next, total_allocs, current_allocs, mem,
                 clearing, used, filled, aborted, own>>

\* Mutant: the object is cleared by the size of a whole slot and its link.
ZeroMore(c) ==
  /\ Running /\ clearing[c] # Null
  /\ mem' = Store(mem, Words(clearing[c], size + 1), Null)
  /\ clearing' = [clearing EXCEPT ![c] = Null]
  /\ UNCHANGED <<request, pool, calls, used, filled, aborted, own>>

\* libdbo_mm_new0, without the lock.
Zero(c) ==
  /\ Running /\ clearing[c] # Null
  /\ mem' = Store(mem, Words(clearing[c], size - Head), Null)
  /\ clearing' = [clearing EXCEPT ![c] = Null]
  /\ UNCHANGED <<request, pool, calls, used, filled, aborted, own>>

----------------------------------------------------------------------------
(* libdbo_mm_delete and libdbo_mm_release                                  *)

\* The objects new has returned, and those the program may still use.
Owned == used \ {clearing[c] : c \in Client}
Held == Owned \ {deleting[c] : c \in Client}

\* The program writes all over an object it has.
Fill(p) ==
  /\ Running /\ p \in Held \ filled
  /\ mem' = Store(mem, Words(p, request), Data)
  /\ filled' = filled \cup {p}
  /\ UNCHANGED <<request, pool, calls, clearing, used, aborted, own>>

\* Mutant: the objects of the blocks are still counted.
FreeBlocksUncounted ==
  /\ block' = Null
  /\ next' = Null
  /\ current_allocs' = 0
  /\ mem' = [b \in Block |-> NoMemory]
  /\ UNCHANGED total_allocs

\* Every block is given back.
FreeBlocks ==
  /\ block' = Null
  /\ next' = Null
  /\ total_allocs' = 0
  /\ current_allocs' = 0
  /\ mem' = [b \in Block |-> NoMemory]

\* Mutant: all blocks are given back when there are several of them.
SeveralBlocks(remaining) == block # Null /\ At(block) # Null

\* No object is left and there is more than one block.
Releasable(remaining) == remaining = 0 /\ block # Null /\ At(block) # Null

\* The functions are not both set.
BeginDelete(c, p) ==
  /\ Pooled /\ Idle(c) /\ p \in Held
  /\ deleting' = [deleting EXCEPT ![c] = p]
  /\ UNCHANGED <<request, pool, mem, entering, clearing, used, filled, aborted,
                 own>>

\* The object is linked into the list before its check word is looked at.
Delete(c, p) ==
  /\ Running /\ p \in used /\ deleting[c] = p
  /\ deleting' = [deleting EXCEPT ![c] = Null]
  /\ used' = used \ {p}
  /\ filled' = filled \ {p}
  /\ IF Checks /\ (current_allocs = 0 \/ At(Plus(p, -Head)) # Null)
       THEN /\ aborted' = TRUE
            /\ UNCHANGED <<block, next, total_allocs, current_allocs, mem>>
       ELSE /\ IF Releasable(current_allocs - 1)
                 THEN FreeBlocks
                 ELSE /\ mem' = LET m == Store(mem, {p}, next) IN
                                IF Checks THEN Store(m, {Plus(p, -Head)}, One)
                                          ELSE m
                      /\ next' = Plus(p, -Head)
                      /\ current_allocs' = current_allocs - 1
                      /\ UNCHANGED <<block, total_allocs>>
            /\ UNCHANGED aborted
  /\ UNCHANGED <<request, size, block_size, entering, clearing, own>>

\* The program releases a pool when it has given all objects back, and sees to
\* it that they are until the release is done.
BeginRelease(c) ==
  /\ Pooled /\ Idle(c) /\ used = {}
  /\ entering' = [entering EXCEPT ![c] = "release"]
  /\ UNCHANGED <<request, pool, mem, deleting, clearing, used, filled, aborted,
                 own>>

Release(c) ==
  /\ Enter(c, "release")
  /\ used = {}
  /\ FreeBlocks
  /\ UNCHANGED <<request, size, block_size, clearing, used, filled, aborted,
                 own>>

----------------------------------------------------------------------------
(* Replacing malloc and free                                               *)

\* libdbo_mm_set_malloc or libdbo_mm_set_free, in either order.  Each of them is
\* accepted once.
SetFunction ==
  /\ Running /\ replaced < 2
  /\ replaced' = replaced + 1
  /\ late' = (late \/ (replaced' = 2
                       /\ (used # {} \/ \E c \in Client : entering[c] = "new")))
  /\ UNCHANGED <<request, pool, mem, calls, clearing, used, filled, aborted,
                 misfreed>>

\* new, release, and delete of what was made by the program's malloc, when they
\* find both functions set.
PassBy == Replaced /\ UNCHANGED vars

\* An object of the pool is handed to the program's free.
Misfree(p) ==
  /\ Running /\ Replaced /\ p \in Held
  /\ misfreed' = TRUE
  /\ UNCHANGED <<request, pool, mem, calls, clearing, used, filled, aborted,
                 replaced, late>>

----------------------------------------------------------------------------

New0(c) ==
  BeginNew(c) \/ NewFromList(c) \/ NewFromBlock(c) \/ NewFail(c) \/ Zero(c)

Next ==
  \/ \E c \in Client : New0(c)
  \/ \E c \in Client, p \in used : BeginDelete(c, p) \/ Delete(c, p)
  \/ \E c \in Client : BeginRelease(c) \/ Release(c)
  \/ \E p \in used : Fill(p) \/ Misfree(p)
  \/ SetFunction \/ PassBy

Spec == Init /\ [][Next]_vars

----------------------------------------------------------------------------
(* Properties                                                              *)

\* The free list and the list of blocks, as far as they go in n steps.
Chain(first, link, n) ==
  LET at[i \in 0 .. n] ==
        IF i = 0 THEN first
        ELSE IF at[i - 1] = Null THEN Null ELSE At(Plus(at[i - 1], link))
  IN at

AllSlots == UNION {Slots(b, block_size, size) : b \in Heap}

(***************************************************************************)
(* The free list of libdbo_mm.c ends, runs through every object that is    *)
(* not in use and through no other, and the counters count them.           *)
(***************************************************************************)
FreeListRight ==
  LET n == total_allocs - current_allocs
      at == Chain(next, Head, n)
      free == {at[i] : i \in 0 .. n} \ {Null}
      taken == {Plus(p, -Head) : p \in used}
  IN /\ at[n] = Null
     /\ Cardinality(free) = n
     /\ Cardinality(taken) = current_allocs
     /\ free \cap taken = {}
     /\ free \cup taken = AllSlots

(***************************************************************************)
(* Every block malloc has given out can be reached from alloc->block, so   *)
(* that a release gives all of them back; there is no other; and each has  *)
(* room for the minimum number of objects.                                 *)
(***************************************************************************)
BlocksReachable ==
  LET n == Cardinality(Heap)
      at == Chain(block, 0, n)
  IN /\ at[n] = Null
     /\ {at[i] : i \in 0 .. n} \ {Null} = {<<b, 0>> : b \in Heap}
     /\ \A b \in Heap : Cardinality(Slots(b, block_size, size)) >= NumObjects

(***************************************************************************)
(* An object is zero when libdbo_mm_new0 returns it and then what the      *)
(* program made of it, whatever other threads allocate, clear and delete.  *)
(***************************************************************************)
ObjectsIntact ==
  \A p \in Owned : \A a \in Words(p, request) :
    At(a) = (IF p \in filled THEN Data ELSE Null)

(***************************************************************************)
(* mm.h: "both malloc and free function pointers needs to be set in [or-   *)
(* der] for them to be called".  An object goes back to what it was made   *)
(* by, whichever of the functions was set first and whatever was made and  *)
(* deleted between the two, unless objects were in use when the second one *)
(* was set, or a new had found it unset and had yet to take its object.    *)
(***************************************************************************)
FreedWhereMade == misfreed => late

(***************************************************************************)
(* libdbo_mm.c, the assertions of the build with checks: an object on the  *)
(* free list has not been written to, and one that is deleted is in use.   *)
(***************************************************************************)
AssertionsHold == ~aborted

=============================================================================
