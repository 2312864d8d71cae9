------------------------------- MODULE MemPool -------------------------------
(***************************************************************************)
(* The memory pool of lib_mrt behind M_alloc and M_free: mem_pool.c.       *)
(*                                                                         *)
(* Requests of up to 32 KB are rounded up to a class of 32 bytes.  Each    *)
(* class has a list of freed blocks and a mutex; where the list is empty a *)
(* block is carved from the master arena, under the mutex of the class     *)
(* alone.  A slave arena is fetched when the master runs low and takes its *)
(* place when it is nearly used up.  Larger requests go to malloc.         *)
(*                                                                         *)
(* What a block holds is abstracted; memory_realloc is an Alloc, a copy    *)
(* and a Free.                                                             *)
(***************************************************************************)
EXTENDS Integers, Sequences, Functions

CONSTANTS
    Thread,
    Class,      \* block classes: a class c is c + 1 units wide
    Arena, Block,   \* bounds: arenas and blocks in one behaviour
    Nobody,
    Header,     \* sizeof(block_t)
    ArenaSize,  \* 16 MB
    RunsLow,    \* 128 KB
    UsedUp      \* 32 KB, the width of the last class

ASSUME PoolAssumption ==
    /\ Class \subseteq Nat
    /\ Header \in Nat /\ ArenaSize \in Nat /\ RunsLow \in Nat /\ UsedUp \in Nat
    /\ \A c \in Class : c + 1 <= UsedUp
    /\ UsedUp <= RunsLow /\ RunsLow <= ArenaSize
    /\ Nobody \notin Thread \cup Arena \cup Block

VARIABLES
    uses,       \* the classes each thread allocates from: part of the program
    master, slave,
    used,       \* memory_t.used; memory_t.free is what is left of ArenaSize
    fetched,    \* memory_list: the arenas that have been allocated
    arenaOf, off, cls,  \* where each carved block lies, and its class
    carved,     \* the blocks that have been carved
    freeList,   \* free_blst[c].head
    lock,       \* free_blst[c].mtx
    holder,     \* who was given the block
    carving     \* block_alloc: the block whose size is not yet added to used

poolVars == <<uses, master, slave, used, fetched, arenaOf, off, cls, carved,
              freeList, lock, holder, carving>>

BlockSize(c) == Header + c + 1

End(b) == off[b] + BlockSize(cls[b])

-----------------------------------------------------------------------------
\* The servers have one thread; the pool is also safe where all threads
\* allocate from the same class.
OneUser == \E t \in Thread : \A s \in Thread \ {t} : uses[s] = {}
OneClass == \E c \in Class : \A t \in Thread : uses[t] \subseteq {c}

\* memory_pool_init.
PoolInit ==
    /\ uses \in [Thread -> SUBSET Class] /\ (OneUser \/ OneClass)
    /\ master \in Arena /\ slave = Nobody
    /\ used = [a \in Arena |-> 0] /\ fetched = {master}
    /\ arenaOf = [b \in Block |-> Nobody]
    /\ off = [b \in Block |-> 0] /\ cls = [b \in Block |-> 0]
    /\ carved = {}
    /\ freeList = [c \in Class |-> <<>>]
    /\ lock = [c \in Class |-> Nobody]
    /\ holder = [b \in Block |-> Nobody]
    /\ carving = [t \in Thread |-> Nobody]

\* memory_alloc with a freed block at hand: under the mutex from first to last.
Reuse(t, c) ==
    /\ c \in uses[t] /\ carving[t] = Nobody
    /\ lock[c] = Nobody
    /\ freeList[c] # <<>>
    /\ freeList' = [freeList EXCEPT ![c] = Tail(@)]
    /\ holder' = [holder EXCEPT ![Head(freeList[c])] = t]
    /\ UNCHANGED <<uses, master, slave, used, fetched, arenaOf, off, cls, carved,
                   lock, carving>>

FreeIn(a) == ArenaSize - used[a]

\* Variant: the master is left only when nothing is left in it.
SwitchArenaLate(next) ==
    /\ slave' = IF FreeIn(master) <= 0 THEN Nobody ELSE next
    /\ master' = IF FreeIn(master) <= 0 THEN next ELSE master

\* next is the slave, if there is one.
SwitchArena(next) ==
    /\ slave' = IF FreeIn(master) < UsedUp THEN Nobody ELSE next
    /\ master' = IF FreeIn(master) < UsedUp THEN next ELSE master

\* block_alloc up to the place of the block.  malloc gives an arena that
\* nobody has.
FindArena ==
    IF FreeIn(master) >= RunsLow THEN UNCHANGED <<master, slave, fetched>>
    ELSE \E a \in Arena :
        /\ IF slave = Nobody THEN a \notin fetched ELSE a = slave
        /\ fetched' = fetched \cup {a}
        /\ SwitchArena(a)

Carve(t, c, b) ==
    /\ c \in uses[t] /\ carving[t] = Nobody
    /\ lock[c] = Nobody
    /\ freeList[c] = <<>>
    /\ b \notin carved
    /\ FindArena
    /\ carved' = carved \cup {b}
    /\ arenaOf' = [arenaOf EXCEPT ![b] = master']
    /\ off' = [off EXCEPT ![b] = used[master']]
    /\ cls' = [cls EXCEPT ![b] = c]
    /\ lock' = [lock EXCEPT ![c] = t]
    /\ carving' = [carving EXCEPT ![t] = b]
    /\ UNCHANGED <<uses, used, freeList, holder>>

\* Variant: the header is not counted.
CarvedBare(t) ==
    /\ carving[t] # Nobody
    /\ LET b == carving[t] IN
       /\ used' = [used EXCEPT ![master] = @ + cls[b] + 1]
       /\ lock' = [lock EXCEPT ![cls[b]] = Nobody]
       /\ holder' = [holder EXCEPT ![b] = t]
    /\ carving' = [carving EXCEPT ![t] = Nobody]
    /\ UNCHANGED <<uses, master, slave, fetched, arenaOf, off, cls, carved, freeList>>

\* The end of block_alloc, which looks at memory_pool.master again, and of
\* memory_alloc.
Carved(t) ==
    /\ carving[t] # Nobody
    /\ LET b == carving[t] IN
       /\ used' = [used EXCEPT ![master] = @ + BlockSize(cls[b])]
       /\ lock' = [lock EXCEPT ![cls[b]] = Nobody]
       /\ holder' = [holder EXCEPT ![b] = t]
    /\ carving' = [carving EXCEPT ![t] = Nobody]
    /\ UNCHANGED <<uses, master, slave, fetched, arenaOf, off, cls, carved, freeList>>

\* malloc has no arena: memory_alloc returns with the mutex locked.
OutOfMemory(t, c) ==
    /\ c \in uses[t] /\ carving[t] = Nobody
    /\ lock[c] = Nobody
    /\ freeList[c] = <<>>
    /\ FreeIn(master) < RunsLow /\ slave = Nobody
    /\ lock' = [lock EXCEPT ![c] = t]
    /\ UNCHANGED <<uses, master, slave, used, fetched, arenaOf, off, cls, carved,
                   freeList, holder, carving>>

\* memory_free: back to the list of its class.
Free(t, b) ==
    LET c == cls[b] IN
    /\ holder[b] = t /\ carving[t] = Nobody
    /\ lock[c] = Nobody
    /\ freeList' = [freeList EXCEPT ![c] = <<b>> \o @]
    /\ holder' = [holder EXCEPT ![b] = Nobody]
    /\ UNCHANGED <<uses, master, slave, used, fetched, arenaOf, off, cls, carved,
                   lock, carving>>

PoolNext ==
    \E t \in Thread :
        \/ Carved(t)
        \/ \E c \in Class : Reuse(t, c) \/ OutOfMemory(t, c) \/ \E b \in Block : Carve(t, c, b)
        \/ \E b \in Block : Free(t, b)

PoolSpec == PoolInit /\ [][PoolNext]_poolVars

-----------------------------------------------------------------------------
(* Properties.                                                             *)

\* No byte belongs to two blocks, whatever arena the program is at and however
\* many threads are in the allocator of one class.
BlocksApart ==
    \A a, b \in carved :
        a # b /\ arenaOf[a] = arenaOf[b] => End(a) <= off[b] \/ End(b) <= off[a]

\* A block lies in its arena.  Only one whose class, with the header, is wider
\* than the 32 KB that make the pool leave an arena may reach past the end, by
\* less than a header and by what it is wider.
InsideArena ==
    \A b \in carved :
        End(b) <= ArenaSize + (IF BlockSize(cls[b]) <= UsedUp THEN 0 ELSE BlockSize(cls[b]) - UsedUp)

\* A block that is handed out again is in nobody's hands, is in one list once
\* and has the width of its class.
FreeListSound ==
    \A c \in Class :
        /\ IsInjective(freeList[c])
        /\ \A b \in Range(freeList[c]) :
            b \in carved /\ cls[b] = c /\ holder[b] = Nobody /\ b \notin Range(carving)
=============================================================================
