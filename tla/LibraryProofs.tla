------------------------------ MODULE LibraryProofs -----------------------------
(***************************************************************************)
(* Theorems about lib_mrt, one part after the other:                       *)
(*                                                                         *)
(*   - the memory pool hands out no byte twice, for any classes, sizes of  *)
(*     the arena and number of threads, provided that one thread allocates *)
(*     or that all allocate from one class;                                *)
(*   - the heap of timers stays in order, however many timers there are    *)
(*     and whenever they end;                                              *)
(*   - the event loop keeps the timers, the descriptors and the counter of *)
(*     its connections together, and leaves none that has been idle;       *)
(*   - a hash table finds what has been entered and not deleted, through   *)
(*     all the sizes it grows to, and counts each cell in use once.        *)
(***************************************************************************)
EXTENDS HashTable, MemPool, TimerHeap, EventCenter,
        SequenceTheorems, FiniteSetTheorems, WellFoundedInduction, TLAPS

-----------------------------------------------------------------------------
(* The memory pool.                                                        *)

\* What the variables hold, and which arenas are untouched.
PoolTyped ==
    /\ uses \in [Thread -> SUBSET Class] /\ (OneUser \/ OneClass)
    /\ master \in fetched /\ fetched \subseteq Arena
    /\ slave \in (fetched \ {master}) \cup {Nobody}
    /\ used \in [Arena -> Nat]
    /\ \A a \in Arena : a \notin fetched \/ a = slave => used[a] = 0
    /\ arenaOf \in [Block -> Arena \cup {Nobody}]
    /\ off \in [Block -> Nat] /\ cls \in [Block -> Nat]
    /\ carved \subseteq Block
    /\ \A b \in carved : arenaOf[b] \in fetched /\ cls[b] \in Class
    /\ lock \in [Class -> Thread \cup {Nobody}]
    /\ carving \in [Thread -> Block \cup {Nobody}]

\* A block whose size is not yet counted lies at the end of the master, and
\* its carver has the mutex of its class.
CarvingKept ==
    \A t \in Thread : carving[t] # Nobody =>
        /\ carving[t] \in carved
        /\ arenaOf[carving[t]] = master /\ off[carving[t]] = used[master]
        /\ cls[carving[t]] \in uses[t] /\ lock[cls[carving[t]]] = t

\* All other blocks are counted.
Counted ==
    \A b \in carved : (\E t \in Thread : carving[t] = b) \/ End(b) <= used[arenaOf[b]]

PoolIInv == PoolTyped /\ CarvingKept /\ Counted /\ BlocksApart /\ InsideArena

-----------------------------------------------------------------------------
\* At most one thread is inside block_alloc: the mutexes of two classes do not
\* exclude each other, one user or one class does.
LEMMA OneCarver ==
    ASSUME PoolTyped, CarvingKept,
           NEW s \in Thread, NEW t \in Thread, carving[s] # Nobody, carving[t] # Nobody
    PROVE  s = t
<1>1. cls[carving[s]] \in uses[s] /\ cls[carving[t]] \in uses[t]
  BY DEF CarvingKept
<1>2. CASE OneUser
  BY <1>1, <1>2 DEF OneUser
<1>3. CASE OneClass
  <2>1. cls[carving[s]] = cls[carving[t]]
    BY <1>1, <1>3 DEF OneClass
  <2>2. QED BY <2>1 DEF CarvingKept
<1>4. QED BY <1>2, <1>3 DEF PoolTyped

\* And nobody is, when a thread finds the mutex of one of its classes free.
LEMMA NoCarver ==
    ASSUME PoolTyped, CarvingKept,
           NEW t \in Thread, NEW c \in uses[t], carving[t] = Nobody, lock[c] = Nobody
    PROVE  \A s \in Thread : carving[s] = Nobody
<1>1. SUFFICES ASSUME NEW s \in Thread, carving[s] # Nobody PROVE FALSE
  OBVIOUS
<1>2. cls[carving[s]] \in uses[s] /\ lock[cls[carving[s]]] = s
  BY <1>1 DEF CarvingKept
<1>3. Nobody \notin Thread
  BY PoolAssumption
<1>4. CASE OneUser
  BY <1>1, <1>2, <1>4 DEF OneUser
<1>5. CASE OneClass
  BY <1>2, <1>3, <1>5 DEF OneClass
<1>6. QED BY <1>4, <1>5 DEF PoolTyped

\* The arena block_alloc settles on has room for the widest class, and is
\* unused unless it was the master before.
LEMMA RoomInMaster ==
    ASSUME PoolTyped, FindArena
    PROVE  /\ master' \in fetched' /\ fetched \subseteq fetched' /\ fetched' \subseteq Arena
           /\ slave' \in (fetched' \ {master'}) \cup {Nobody}
           /\ used[master'] + UsedUp <= ArenaSize
           /\ \A a \in Arena : a \notin fetched' \/ a = slave' => used[a] = 0
<1> USE PoolAssumption DEF PoolTyped, FreeIn
<1>1. CASE FreeIn(master) >= RunsLow
  <2>1. UNCHANGED <<master, slave, fetched>>
    BY <1>1 DEF FindArena
  <2>2. used[master] \in Nat
    OBVIOUS
  <2>3. QED BY <1>1, <2>1, <2>2
<1>2. CASE ~(FreeIn(master) >= RunsLow)
  <2>1. PICK a \in Arena :
          /\ IF slave = Nobody THEN a \notin fetched ELSE a = slave
          /\ fetched' = fetched \cup {a}
          /\ SwitchArena(a)
    BY <1>2 DEF FindArena
  <2>2. a # master /\ used[a] = 0 /\ a # Nobody
    BY <2>1
  <2>3. used[master] \in Nat
    OBVIOUS
  <2>4. CASE FreeIn(master) < UsedUp
    <3>1. master' = a /\ slave' = Nobody
      BY <2>1, <2>4 DEF SwitchArena
    <3>2. \A x \in Arena : x \notin fetched' => used[x] = 0
      BY <2>1
    <3>3. used[master'] + UsedUp <= ArenaSize
      BY <2>2, <3>1
    <3>4. QED BY <2>1, <3>1, <3>2, <3>3
  <2>5. CASE ~(FreeIn(master) < UsedUp)
    <3>1. master' = master /\ slave' = a
      BY <2>1, <2>5 DEF SwitchArena
    <3>2. \A x \in Arena : x \notin fetched' \/ x = slave' => used[x] = 0
      BY <2>1, <2>2, <3>1
    <3>3. used[master'] + UsedUp <= ArenaSize
      BY <2>3, <2>5, <3>1
    <3>4. QED BY <2>1, <2>2, <3>1, <3>2, <3>3
  <2>6. QED BY <2>4, <2>5
<1>3. QED BY <1>1, <1>2

-----------------------------------------------------------------------------
LEMMA PoolInitHolds == PoolInit => PoolIInv
<1>1. SUFFICES ASSUME PoolInit PROVE PoolIInv
  OBVIOUS
<1>2. PoolTyped
  BY <1>1, PoolAssumption DEF PoolInit, PoolTyped
<1>3. CarvingKept /\ Counted /\ BlocksApart /\ InsideArena
  BY <1>1 DEF PoolInit, CarvingKept, Counted, BlocksApart, InsideArena
<1>4. QED BY <1>2, <1>3 DEF PoolIInv

\* Steps that carve nothing.
LEMMA QuietStep ==
    ASSUME PoolIInv,
           UNCHANGED <<uses, master, slave, used, fetched, arenaOf, off, cls, carved, carving>>,
           lock' \in [Class -> Thread \cup {Nobody}],
           \A c \in Class : lock[c] # Nobody => lock'[c] = lock[c]
    PROVE  PoolIInv'
<1> USE DEF PoolIInv
<1>1. PoolTyped'
  BY DEF PoolTyped, OneUser, OneClass
<1>2. CarvingKept'
  BY PoolAssumption DEF CarvingKept, PoolTyped
<1>3. Counted' /\ BlocksApart' /\ InsideArena'
  BY DEF Counted, BlocksApart, InsideArena, End
<1>4. QED BY <1>1, <1>2, <1>3

LEMMA CarveStep ==
    ASSUME PoolIInv, NEW t \in Thread, NEW c \in Class, NEW b \in Block, Carve(t, c, b)
    PROVE  PoolIInv'
<1> USE DEF PoolIInv
<1>1. \A s \in Thread : carving[s] = Nobody
  BY NoCarver DEF Carve
<1>2. /\ master' \in fetched' /\ fetched \subseteq fetched' /\ fetched' \subseteq Arena
      /\ slave' \in (fetched' \ {master'}) \cup {Nobody}
      /\ used[master'] + UsedUp <= ArenaSize
      /\ \A a \in Arena : a \notin fetched' \/ a = slave' => used[a] = 0
  BY RoomInMaster DEF Carve
<1>3. master' \in Arena /\ used[master'] \in Nat
  BY <1>2 DEF PoolTyped
<1>4. PoolTyped'
  <2>1. uses' = uses /\ (OneUser \/ OneClass)'
    BY DEF PoolTyped, Carve, OneUser, OneClass
  <2>2. used' = used /\ used' \in [Arena -> Nat]
    BY DEF PoolTyped, Carve
  <2>3. /\ arenaOf' \in [Block -> Arena \cup {Nobody}]
        /\ off' \in [Block -> Nat] /\ cls' \in [Block -> Nat]
    BY <1>3, PoolAssumption DEF PoolTyped, Carve
  <2>4. carved' \subseteq Block
    BY DEF PoolTyped, Carve
  <2>5. \A x \in carved' : arenaOf'[x] \in fetched' /\ cls'[x] \in Class
    BY <1>2 DEF PoolTyped, Carve
  <2>6. /\ lock' \in [Class -> Thread \cup {Nobody}]
        /\ carving' \in [Thread -> Block \cup {Nobody}]
    BY DEF PoolTyped, Carve
  <2>7. uses' \in [Thread -> SUBSET Class]
    BY <2>1 DEF PoolTyped
  <2>8. QED BY <1>2, <2>1, <2>2, <2>3, <2>4, <2>5, <2>6, <2>7 DEF PoolTyped
<1>5. /\ arenaOf'[b] = master' /\ off'[b] = used[master'] /\ cls'[b] = c
      /\ \A x \in carved : /\ x # b /\ arenaOf'[x] = arenaOf[x]
                           /\ off'[x] = off[x] /\ cls'[x] = cls[x]
      /\ carving'[t] = b /\ lock'[c] = t
      /\ \A s \in Thread \ {t} : carving'[s] = Nobody
  BY <1>1 DEF PoolTyped, Carve
<1>6. CarvingKept'
  BY <1>1, <1>5 DEF CarvingKept, PoolTyped, Carve
<1>7. \A x \in carved : End(x)' = End(x) /\ End(x) <= used[arenaOf[x]]
  <2>1. \A x \in carved : x # Nobody
    BY PoolAssumption DEF PoolTyped
  <2>2. QED BY <1>1, <1>5, <2>1 DEF Counted, End
<1>8. Counted'
  BY <1>5, <1>7 DEF Counted, Carve, PoolTyped
<1>9. BlocksApart'
  <2>1. SUFFICES ASSUME NEW x \in carved', NEW y \in carved', x # y, arenaOf'[x] = arenaOf'[y]
                 PROVE  End(x)' <= off'[y] \/ End(y)' <= off'[x]
    BY DEF BlocksApart
  <2>2. CASE x # b /\ y # b
    <3>1. x \in carved /\ y \in carved
      BY <2>2 DEF Carve
    <3>2. QED BY <1>5, <1>7, <2>1, <3>1 DEF BlocksApart
  <2>3. CASE x = b
    <3>1. y \in carved
      BY <2>1, <2>3 DEF Carve
    <3>2. QED BY <1>5, <1>7, <2>1, <2>3, <3>1
  <2>4. CASE y = b
    <3>1. x \in carved
      BY <2>1, <2>4 DEF Carve
    <3>2. QED BY <1>5, <1>7, <2>1, <2>4, <3>1
  <2>5. QED BY <2>2, <2>3, <2>4
<1>10. InsideArena'
  <2>1. SUFFICES ASSUME NEW x \in carved'
                 PROVE  End(x)' <= ArenaSize + (IF BlockSize(cls'[x]) <= UsedUp THEN 0
                                                ELSE BlockSize(cls'[x]) - UsedUp)
    BY DEF InsideArena
  <2>2. CASE x = b
    <3>1. End(x)' = used[master'] + BlockSize(c)
      BY <1>5, <2>2 DEF End
    <3>2. BlockSize(c) \in Nat
      BY PoolAssumption DEF BlockSize
    <3>3. QED BY <1>2, <1>3, <1>5, <2>2, <3>1, <3>2, PoolAssumption
  <2>3. CASE x # b
    <3>1. x \in carved
      BY <2>3 DEF Carve
    <3>2. QED BY <1>5, <1>7, <3>1 DEF InsideArena
  <2>4. QED BY <2>2, <2>3
<1>11. QED BY <1>4, <1>6, <1>8, <1>9, <1>10

LEMMA CarvedStep ==
    ASSUME PoolIInv, NEW t \in Thread, Carved(t)
    PROVE  PoolIInv'
<1> USE DEF PoolIInv
<1> DEFINE b == carving[t]
<1>1. /\ b \in carved /\ b \in Block /\ cls[b] \in Class /\ lock[cls[b]] = t
      /\ arenaOf[b] = master /\ off[b] = used[master]
  BY DEF Carved, CarvingKept, PoolTyped
<1>2. \A s \in Thread : s # t => carving[s] = Nobody
  BY OneCarver DEF Carved
<1>3. BlockSize(cls[b]) \in Nat
  <2>1. \A c \in Class : BlockSize(c) \in Nat
    BY PoolAssumption DEF BlockSize
  <2>2. QED BY <1>1, <2>1
<1>4. /\ used' \in [Arena -> Nat] /\ master \in Arena
      /\ used'[master] = used[master] + BlockSize(cls[b])
      /\ \A a \in Arena : a # master => used'[a] = used[a]
  <2>1. used' = [used EXCEPT ![master] = @ + BlockSize(cls[b])]
    BY DEF Carved
  <2>2. used \in [Arena -> Nat] /\ master \in Arena
    BY DEF PoolTyped
  <2>3. used[master] + BlockSize(cls[b]) \in Nat
    BY <1>3, <2>2
  <2>4. ASSUME NEW n \in Nat, used' = [used EXCEPT ![master] = n]
        PROVE  /\ used' \in [Arena -> Nat] /\ used'[master] = n
               /\ \A a \in Arena : a # master => used'[a] = used[a]
    BY <2>2, <2>4
  <2> HIDE DEF b
  <2>5. QED BY <2>1, <2>2, <2>3, <2>4
<1>5. PoolTyped'
  <2>1. uses' = uses /\ (OneUser \/ OneClass)'
    BY DEF PoolTyped, Carved, OneUser, OneClass
  <2>2. UNCHANGED <<master, slave, fetched, arenaOf, off, cls, carved>>
    BY DEF Carved
  <2>3. /\ lock' \in [Class -> Thread \cup {Nobody}]
        /\ carving' \in [Thread -> Block \cup {Nobody}]
    BY DEF PoolTyped, Carved
  <2>4. \A a \in Arena : a \notin fetched \/ a = slave => used'[a] = 0
    <3>1. master \in fetched /\ master # slave
      BY PoolAssumption DEF PoolTyped
    <3>2. QED BY <1>4, <3>1 DEF PoolTyped
  <2>5. QED BY <1>4, <2>1, <2>2, <2>3, <2>4 DEF PoolTyped
<1>6. \A s \in Thread : carving'[s] = Nobody
  BY <1>2 DEF Carved, PoolTyped
<1>7. CarvingKept'
  BY <1>6 DEF CarvingKept
<1>8. \A x \in carved : End(x)' = End(x) /\ End(x) <= used'[arenaOf[x]]
  <2>1. SUFFICES ASSUME NEW x \in carved PROVE End(x)' = End(x) /\ End(x) <= used'[arenaOf[x]]
    OBVIOUS
  <2>2. End(x)' = End(x)
    BY DEF End, Carved
  <2>3. CASE x = b
    BY <1>1, <1>4, <2>2, <2>3 DEF End
  <2>4. CASE x # b
    <3>1. \A s \in Thread : carving[s] # x
      BY <1>2, <2>4, PoolAssumption DEF PoolTyped
    <3>2. End(x) <= used[arenaOf[x]] /\ arenaOf[x] \in Arena
      BY <3>1 DEF Counted, PoolTyped
    <3>3. End(x) \in Int
      BY PoolAssumption DEF End, BlockSize, PoolTyped
    <3>4. used[arenaOf[x]] \in Nat /\ used'[arenaOf[x]] >= used[arenaOf[x]]
      BY <1>3, <1>4, <3>2 DEF PoolTyped
    <3>5. QED BY <1>4, <2>2, <3>2, <3>3, <3>4
  <2>5. QED BY <2>3, <2>4
<1>9. Counted' /\ BlocksApart' /\ InsideArena'
  BY <1>8 DEF Counted, BlocksApart, InsideArena, Carved
<1>10. QED BY <1>5, <1>7, <1>9

LEMMA PoolStep == PoolIInv /\ [PoolNext]_poolVars => PoolIInv'
<1>1. SUFFICES ASSUME PoolIInv, [PoolNext]_poolVars PROVE PoolIInv'
  OBVIOUS
<1>2. ASSUME NEW t \in Thread, NEW c \in Class, Reuse(t, c) PROVE PoolIInv'
  BY <1>1, <1>2, QuietStep DEF Reuse, PoolIInv, PoolTyped
<1>3. ASSUME NEW t \in Thread, NEW c \in Class, OutOfMemory(t, c) PROVE PoolIInv'
  BY <1>1, <1>3, QuietStep DEF OutOfMemory, PoolIInv, PoolTyped
<1>4. ASSUME NEW t \in Thread, NEW b \in Block, Free(t, b) PROVE PoolIInv'
  BY <1>1, <1>4, QuietStep DEF Free, PoolIInv, PoolTyped
<1>5. ASSUME NEW t \in Thread, NEW c \in Class, NEW b \in Block, Carve(t, c, b) PROVE PoolIInv'
  BY <1>1, <1>5, CarveStep
<1>6. ASSUME NEW t \in Thread, Carved(t) PROVE PoolIInv'
  BY <1>1, <1>6, CarvedStep
<1>7. CASE UNCHANGED poolVars
  BY <1>1, <1>7, QuietStep DEF poolVars, PoolIInv, PoolTyped
<1>8. QED
  BY <1>1, <1>2, <1>3, <1>4, <1>5, <1>6, <1>7 DEF PoolNext

LEMMA PoolInvariant == PoolSpec => []PoolIInv
<1>1. QED BY PoolInitHolds, PoolStep, PTL DEF PoolSpec

\* M_alloc never gives the same byte to two owners.
THEOREM NoByteTwice == PoolSpec => []BlocksApart
<1>1. PoolIInv => BlocksApart
  BY DEF PoolIInv
<1>2. QED BY <1>1, PoolInvariant, PTL

\* How far a block may reach past its arena, for every size of header, class
\* and arena: not at all, where a class and its header fit into 32 KB.
THEOREM BlocksInside == PoolSpec => []InsideArena
<1>1. PoolIInv => InsideArena
  BY DEF PoolIInv
<1>2. QED BY <1>1, PoolInvariant, PTL

-----------------------------------------------------------------------------
(* The lists of freed blocks.                                              *)

LEMMA TailSound ==
    ASSUME NEW s \in Seq(Block), s # <<>>, IsInjective(s)
    PROVE  /\ Tail(s) \in Seq(Block) /\ IsInjective(Tail(s))
           /\ Head(s) \in Range(s) /\ Head(s) \in Block
           /\ \A x \in Range(Tail(s)) : x \in Range(s) /\ x # Head(s)
<1>1. Len(s) \in Nat \ {0} /\ DOMAIN s = 1..Len(s) /\ Head(s) = s[1]
  OBVIOUS
<1>2. /\ Tail(s) \in Seq(Block) /\ DOMAIN Tail(s) = 1..(Len(s) - 1)
      /\ \A i \in 1..(Len(s) - 1) : Tail(s)[i] = s[i + 1]
  OBVIOUS
<1>3. IsInjective(Tail(s))
  <2>1. SUFFICES ASSUME NEW i \in 1..(Len(s) - 1), NEW j \in 1..(Len(s) - 1), Tail(s)[i] = Tail(s)[j]
                 PROVE  i = j
    BY <1>2 DEF IsInjective
  <2>2. s[i + 1] = s[j + 1] /\ i + 1 \in DOMAIN s /\ j + 1 \in DOMAIN s
    BY <1>1, <1>2, <2>1
  <2>3. i + 1 = j + 1
    BY <2>2 DEF IsInjective
  <2>4. QED BY <2>3
<1>4. \A x \in Range(Tail(s)) : x \in Range(s) /\ x # Head(s)
  <2>1. SUFFICES ASSUME NEW i \in 1..(Len(s) - 1) PROVE s[i + 1] \in Range(s) /\ s[i + 1] # s[1]
    BY <1>1, <1>2 DEF Range
  <2>2. i + 1 \in DOMAIN s /\ 1 \in DOMAIN s /\ i + 1 # 1
    BY <1>1
  <2>3. QED BY <2>2 DEF IsInjective, Range
<1>5. Head(s) \in Range(s) /\ Head(s) \in Block
  BY <1>1 DEF Range
<1>6. QED BY <1>2, <1>3, <1>4, <1>5

LEMMA ConsSound ==
    ASSUME NEW s \in Seq(Block), NEW b \in Block, IsInjective(s), b \notin Range(s)
    PROVE  /\ <<b>> \o s \in Seq(Block) /\ IsInjective(<<b>> \o s)
           /\ \A x \in Range(<<b>> \o s) : x = b \/ x \in Range(s)
<1>1. Len(s) \in Nat /\ DOMAIN s = 1..Len(s)
  OBVIOUS
<1>2. /\ <<b>> \o s \in Seq(Block) /\ DOMAIN (<<b>> \o s) = 1..(Len(s) + 1)
      /\ \A i \in 1..(Len(s) + 1) : (<<b>> \o s)[i] = IF i = 1 THEN b ELSE s[i - 1]
  OBVIOUS
<1>3. \A i \in 1..(Len(s) + 1) : i # 1 => i - 1 \in DOMAIN s /\ s[i - 1] # b
  BY <1>1 DEF Range
<1>4. IsInjective(<<b>> \o s)
  <2>1. SUFFICES ASSUME NEW i \in 1..(Len(s) + 1), NEW j \in 1..(Len(s) + 1),
                        (<<b>> \o s)[i] = (<<b>> \o s)[j]
                 PROVE  i = j
    BY <1>2 DEF IsInjective
  <2>2. CASE i = 1 \/ j = 1
    BY <1>2, <1>3, <2>1, <2>2
  <2>3. CASE i # 1 /\ j # 1
    <3>1. s[i - 1] = s[j - 1]
      BY <1>2, <2>1, <2>3
    <3>2. i - 1 = j - 1
      BY <1>3, <2>3, <3>1 DEF IsInjective
    <3>3. QED BY <3>2
  <2>4. QED BY <2>2, <2>3
<1>5. \A x \in Range(<<b>> \o s) : x = b \/ x \in Range(s)
  <2>1. SUFFICES ASSUME NEW i \in 1..(Len(s) + 1)
                 PROVE  (<<b>> \o s)[i] = b \/ (<<b>> \o s)[i] \in Range(s)
    BY <1>2 DEF Range
  <2>2. QED BY <1>2, <1>3 DEF Range
<1>6. QED BY <1>2, <1>4, <1>5

\* A block that somebody has was carved, and is not being carved.
HeldKept ==
    /\ freeList \in [Class -> Seq(Block)]
    /\ holder \in [Block -> Thread \cup {Nobody}]
    /\ \A b \in Block : holder[b] # Nobody => b \in carved /\ b \notin Range(carving)

FreeIInv == PoolIInv /\ HeldKept /\ FreeListSound

LEMMA FreeInitHolds == PoolInit => FreeIInv
<1>1. SUFFICES ASSUME PoolInit PROVE HeldKept /\ FreeListSound
  BY PoolInitHolds DEF FreeIInv
<1>2. /\ freeList = [c \in Class |-> <<>>]
      /\ holder = [b \in Block |-> Nobody]
  BY <1>1 DEF PoolInit
<1>3. \A c \in Class : freeList[c] \in Seq(Block) /\ DOMAIN freeList[c] = {}
  BY <1>2
<1>4. freeList \in [Class -> Seq(Block)]
  BY <1>2, <1>3
<1>5. HeldKept
  BY <1>2, <1>4 DEF HeldKept
<1>6. FreeListSound
  BY <1>3 DEF FreeListSound, IsInjective, Range
<1>7. QED BY <1>5, <1>6

\* The block that is handed out again leaves its list.
LEMMA ReuseFree ==
    ASSUME FreeIInv, NEW t \in Thread, NEW c \in Class, Reuse(t, c)
    PROVE  HeldKept' /\ FreeListSound'
<1> DEFINE b == Head(freeList[c])
<1>1. freeList[c] \in Seq(Block) /\ freeList[c] # <<>> /\ IsInjective(freeList[c])
  BY DEF Reuse, FreeIInv, HeldKept, FreeListSound
<1>2. /\ Tail(freeList[c]) \in Seq(Block) /\ IsInjective(Tail(freeList[c]))
      /\ b \in Range(freeList[c]) /\ b \in Block
      /\ \A x \in Range(Tail(freeList[c])) : x \in Range(freeList[c]) /\ x # b
  BY <1>1, TailSound
<1>3. b \in carved /\ cls[b] = c /\ b \notin Range(carving)
  BY <1>2 DEF FreeIInv, FreeListSound
<1>4. /\ freeList' = [freeList EXCEPT ![c] = Tail(freeList[c])]
      /\ holder' = [holder EXCEPT ![b] = t]
      /\ UNCHANGED <<cls, carved, carving>>
  BY DEF Reuse
<1> HIDE DEF b
<1>5. HeldKept'
  BY <1>2, <1>3, <1>4 DEF FreeIInv, HeldKept
<1>6. ASSUME NEW d \in Class PROVE IsInjective(freeList'[d])
  BY <1>2, <1>4 DEF FreeIInv, HeldKept, FreeListSound
<1>7. ASSUME NEW d \in Class, NEW x \in Range(freeList'[d])
      PROVE  x \in carved' /\ cls'[x] = d /\ holder'[x] = Nobody /\ x \notin Range(carving')
  <2>1. x \in Range(freeList[d]) /\ x # b
    <3>1. CASE d = c
      BY <1>2, <1>4, <1>7, <3>1 DEF FreeIInv, HeldKept
    <3>2. CASE d # c
      <4>1. x \in Range(freeList[d])
        BY <1>4, <1>7, <3>2 DEF FreeIInv, HeldKept
      <4>2. cls[x] = d
        BY <4>1 DEF FreeIInv, FreeListSound
      <4>3. QED BY <1>3, <3>2, <4>1, <4>2
    <3>3. QED BY <3>1, <3>2
  <2>2. x \in carved /\ cls[x] = d /\ holder[x] = Nobody /\ x \notin Range(carving)
    BY <2>1 DEF FreeIInv, FreeListSound
  <2>3. holder'[x] = Nobody
    BY <1>2, <1>4, <2>1, <2>2 DEF FreeIInv, HeldKept
  <2>4. QED BY <1>4, <2>2, <2>3
<1>8. QED BY <1>5, <1>6, <1>7 DEF FreeListSound

\* The block that is freed was in no list.
LEMMA FreeFree ==
    ASSUME FreeIInv, NEW t \in Thread, NEW b \in Block, Free(t, b)
    PROVE  HeldKept' /\ FreeListSound'
<1> DEFINE c == cls[b]
<1>1. t # Nobody
  BY PoolAssumption
<1>2. b \in carved /\ b \notin Range(carving) /\ holder[b] # Nobody /\ c \in Class
  BY <1>1 DEF Free, FreeIInv, HeldKept, PoolIInv, PoolTyped
<1>3. \A d \in Class : b \notin Range(freeList[d])
  BY <1>2 DEF FreeIInv, FreeListSound
<1>4. freeList[c] \in Seq(Block) /\ IsInjective(freeList[c])
  BY <1>2 DEF FreeIInv, HeldKept, FreeListSound
<1>5. /\ <<b>> \o freeList[c] \in Seq(Block) /\ IsInjective(<<b>> \o freeList[c])
      /\ \A x \in Range(<<b>> \o freeList[c]) : x = b \/ x \in Range(freeList[c])
  BY <1>2, <1>3, <1>4, ConsSound
<1>6. /\ freeList' = [freeList EXCEPT ![c] = <<b>> \o freeList[c]]
      /\ holder' = [holder EXCEPT ![b] = Nobody]
      /\ UNCHANGED <<cls, carved, carving>>
  BY DEF Free
<1>7. cls[b] = c
  OBVIOUS
<1> HIDE DEF c
<1>8. HeldKept'
  BY <1>2, <1>5, <1>6 DEF FreeIInv, HeldKept
<1>9. ASSUME NEW d \in Class PROVE IsInjective(freeList'[d])
  BY <1>5, <1>6 DEF FreeIInv, HeldKept, FreeListSound
<1>10. ASSUME NEW d \in Class, NEW x \in Range(freeList'[d])
       PROVE  x \in carved' /\ cls'[x] = d /\ holder'[x] = Nobody /\ x \notin Range(carving')
  <2>1. x \in Range(freeList[d]) \/ (x = b /\ d = c)
    BY <1>2, <1>5, <1>6, <1>10 DEF FreeIInv, HeldKept
  <2>2. CASE x = b /\ d = c
    BY <1>2, <1>6, <1>7, <2>2 DEF FreeIInv, HeldKept
  <2>3. CASE x \in Range(freeList[d])
    <3>1. x \in carved /\ cls[x] = d /\ holder[x] = Nobody /\ x \notin Range(carving)
      BY <2>3 DEF FreeIInv, FreeListSound
    <3>2. holder'[x] = Nobody
      BY <1>3, <1>6, <2>3, <3>1 DEF FreeIInv, HeldKept
    <3>3. QED BY <1>6, <3>1, <3>2
  <2>4. QED BY <2>1, <2>2, <2>3
<1>11. QED BY <1>8, <1>9, <1>10 DEF FreeListSound

\* A carved block is new: nobody has it and it is in no list.
LEMMA CarveFree ==
    ASSUME FreeIInv, NEW t \in Thread, NEW c \in Class, NEW b \in Block, Carve(t, c, b)
    PROVE  HeldKept' /\ FreeListSound'
<1>1. /\ b \notin carved /\ carved' = carved \cup {b}
      /\ cls' = [cls EXCEPT ![b] = c] /\ carving' = [carving EXCEPT ![t] = b]
      /\ UNCHANGED <<freeList, holder>>
  BY DEF Carve
<1>2. carving \in [Thread -> Block \cup {Nobody}] /\ cls \in [Block -> Nat]
  BY DEF FreeIInv, PoolIInv, PoolTyped
<1>3. \A x : x \in Range(carving') => x = b \/ x \in Range(carving)
  BY <1>1, <1>2 DEF Range
<1>4. \A x \in Block : holder[x] # Nobody => x # b /\ x \notin Range(carving')
  BY <1>1, <1>3 DEF FreeIInv, HeldKept
<1>5. HeldKept'
  BY <1>1, <1>4 DEF FreeIInv, HeldKept
<1>6. ASSUME NEW d \in Class, NEW x \in Range(freeList[d])
      PROVE  x \in carved' /\ cls'[x] = d /\ holder'[x] = Nobody /\ x \notin Range(carving')
  <2>1. x \in carved /\ cls[x] = d /\ holder[x] = Nobody /\ x \notin Range(carving)
    BY <1>6 DEF FreeIInv, FreeListSound
  <2>2. x # b /\ x \in Block
    BY <1>1, <2>1 DEF FreeIInv, PoolIInv, PoolTyped
  <2>3. QED BY <1>1, <1>2, <1>3, <2>1, <2>2
<1>7. QED BY <1>1, <1>5, <1>6 DEF FreeIInv, FreeListSound

\* It is given to the thread that has carved it, and to no other.
LEMMA CarvedFree ==
    ASSUME FreeIInv, NEW t \in Thread, Carved(t)
    PROVE  HeldKept' /\ FreeListSound'
<1> DEFINE b == carving[t]
<1>1. /\ b # Nobody /\ holder' = [holder EXCEPT ![b] = t]
      /\ carving' = [carving EXCEPT ![t] = Nobody]
      /\ UNCHANGED <<freeList, cls, carved>>
  BY DEF Carved
<1>2. carving \in [Thread -> Block \cup {Nobody}] /\ b \in carved /\ b \in Block
  BY <1>1 DEF FreeIInv, PoolIInv, PoolTyped, CarvingKept
<1>3. \A s \in Thread : carving[s] # Nobody => s = t
  BY <1>1, OneCarver DEF FreeIInv, PoolIInv
<1>4. \A x \in Block : x \notin Range(carving')
  BY <1>1, <1>2, <1>3, PoolAssumption DEF Range
<1>5. b \in Range(carving)
  BY <1>2 DEF Range
<1>6. HeldKept'
  BY <1>1, <1>2, <1>4 DEF FreeIInv, HeldKept
<1>7. ASSUME NEW d \in Class, NEW x \in Range(freeList[d])
      PROVE  x \in carved /\ cls[x] = d /\ holder'[x] = Nobody /\ x \notin Range(carving')
  <2>1. x \in carved /\ cls[x] = d /\ holder[x] = Nobody /\ x \notin Range(carving)
    BY <1>7 DEF FreeIInv, FreeListSound
  <2>2. x # b /\ x \in Block
    BY <1>5, <2>1 DEF FreeIInv, PoolIInv, PoolTyped
  <2>3. QED BY <1>1, <1>2, <1>4, <2>1, <2>2 DEF FreeIInv, HeldKept
<1> HIDE DEF b
<1>8. QED BY <1>1, <1>6, <1>7 DEF FreeIInv, FreeListSound

LEMMA FreeStep == FreeIInv /\ [PoolNext]_poolVars => FreeIInv'
<1>1. SUFFICES ASSUME FreeIInv, [PoolNext]_poolVars PROVE HeldKept' /\ FreeListSound'
  BY PoolStep DEF FreeIInv
<1>2. CASE UNCHANGED <<freeList, holder, carved, carving, cls>>
  BY <1>1, <1>2 DEF FreeIInv, HeldKept, FreeListSound
<1>3. ASSUME NEW t \in Thread, NEW c \in Class, Reuse(t, c) PROVE HeldKept' /\ FreeListSound'
  BY <1>1, <1>3, ReuseFree
<1>4. ASSUME NEW t \in Thread, NEW c \in Class, OutOfMemory(t, c) PROVE HeldKept' /\ FreeListSound'
  BY <1>2, <1>4 DEF OutOfMemory
<1>5. ASSUME NEW t \in Thread, NEW b \in Block, Free(t, b) PROVE HeldKept' /\ FreeListSound'
  BY <1>1, <1>5, FreeFree
<1>6. ASSUME NEW t \in Thread, NEW c \in Class, NEW b \in Block, Carve(t, c, b)
      PROVE  HeldKept' /\ FreeListSound'
  BY <1>1, <1>6, CarveFree
<1>7. ASSUME NEW t \in Thread, Carved(t) PROVE HeldKept' /\ FreeListSound'
  BY <1>1, <1>7, CarvedFree
<1>8. CASE UNCHANGED poolVars
  BY <1>2, <1>8 DEF poolVars
<1>9. QED
  BY <1>1, <1>3, <1>4, <1>5, <1>6, <1>7, <1>8 DEF PoolNext

\* A block M_free has taken back is given out once before it is freed again,
\* and always for a request of its own class.
THEOREM FreedOnce == PoolSpec => []FreeListSound
<1>1. FreeIInv => FreeListSound
  BY DEF FreeIInv
<1>2. QED BY <1>1, FreeInitHolds, FreeStep, PTL DEF PoolSpec

-----------------------------------------------------------------------------
(* The heap of timers.  Places are counted from 1 here, and d is due.      *)

\* The place above one.
Above(i) == i \div 2

LEMMA AboveIs ==
    ASSUME NEW i \in Nat
    PROVE  /\ Above(i) \in Nat /\ (i = 2 * Above(i) \/ i = 2 * Above(i) + 1)
           /\ i >= 2 => Above(i) >= 1 /\ Above(i) < i
           /\ \A j \in Nat : i = 2 * j \/ i = 2 * j + 1 => Above(i) = j
           /\ i >= 1 => (i - 2) \div 2 + 1 = Above(i)
  BY DEF Above

HeapType(E) == [pool : Seq(E), idx : [E -> Int], due : [E -> Nat]]

Due0(h, i) == h.due[h.pool[i]]
Others(h, x) == (1..Len(h.pool)) \ {x}

\* A heap with a hole at x, which belongs to e: the timers S are in the other
\* places, and those above and below the hole are in order.
Hole(h, x, e, S) ==
    /\ x \in 1..Len(h.pool) /\ e \notin S
    /\ \A i \in Others(h, x) : h.pool[i] \in S /\ h.idx[h.pool[i]] = i - 1
    /\ \A f \in S : \E i \in Others(h, x) : h.pool[i] = f
    /\ \A i \in Others(h, x) : i >= 2 /\ Above(i) # x => Due0(h, Above(i)) <= Due0(h, i)
    /\ \A i \in Others(h, x) : Above(i) = x /\ x >= 2 => Due0(h, Above(x)) <= Due0(h, i)

\* e may be below what is above the hole; above what is below it.
FitsBelow(h, x, e) == x >= 2 => Due0(h, Above(x)) <= h.due[e]
FitsAbove(h, x, e) == \A i \in Others(h, x) : Above(i) = x => h.due[e] <= Due0(h, i)

\* Only timers of S have been told another place.
Alike(h, g, E, S) ==
    /\ g \in HeapType(E) /\ Len(g.pool) = Len(h.pool) /\ g.due = h.due
    /\ \A f \in E \ S : g.idx[f] = h.idx[f]

LEMMA PlacedIs ==
    ASSUME NEW E, NEW h \in HeapType(E), NEW x \in 1..Len(h.pool), NEW f \in E
    PROVE  LET g == Placed(h, x - 1, f)
           IN  /\ g \in HeapType(E) /\ Len(g.pool) = Len(h.pool) /\ g.due = h.due
               /\ \A i \in 1..Len(h.pool) : g.pool[i] = IF i = x THEN f ELSE h.pool[i]
               /\ \A k \in E : g.idx[k] = IF k = f THEN x - 1 ELSE h.idx[k]
<1>1. h.pool \in Seq(E) /\ h.idx \in [E -> Int] /\ h.due \in [E -> Nat]
  BY DEF HeapType
<1>2. Len(h.pool) \in Nat /\ x - 1 < Len(h.pool) /\ (x - 1) + 1 = x /\ x - 1 \in Int
  BY <1>1, LenProperties
<1> DEFINE p == [h.pool EXCEPT ![x] = f]
           q == [h.idx EXCEPT ![f] = x - 1]
<1>3. p \in Seq(E) /\ Len(p) = Len(h.pool)
      /\ \A i \in 1..Len(h.pool) : p[i] = IF i = x THEN f ELSE h.pool[i]
  BY <1>1, ExceptSeq
<1>4. q \in [E -> Int] /\ \A k \in E : q[k] = IF k = f THEN x - 1 ELSE h.idx[k]
  BY <1>1, <1>2
<1>5. Placed(h, x - 1, f) = [pool |-> p, idx |-> q, due |-> h.due]
  <2>1. h = [pool |-> h.pool, idx |-> h.idx, due |-> h.due]
    BY DEF HeapType
  <2>2. Placed(h, x - 1, f) = [h EXCEPT !.idx[f] = x - 1, !.pool = p]
    BY <1>2 DEF Placed
  <2>3. QED BY <2>1, <2>2
<1> HIDE DEF p, q
<1> DEFINE g == Placed(h, x - 1, f)
<1>6. g.pool = p /\ g.idx = q /\ g.due = h.due
  BY <1>5
<1>7. g \in HeapType(E)
  <2>1. p \in Seq(E) /\ q \in [E -> Int] /\ h.due \in [E -> Nat]
    BY <1>1, <1>3, <1>4
  <2>2. [pool |-> p, idx |-> q, due |-> h.due] \in HeapType(E)
    BY <2>1 DEF HeapType
  <2>3. QED BY <1>5, <2>2
<1> HIDE DEF g
<1>8. /\ g \in HeapType(E) /\ Len(g.pool) = Len(h.pool) /\ g.due = h.due
      /\ \A i \in 1..Len(h.pool) : g.pool[i] = IF i = x THEN f ELSE h.pool[i]
      /\ \A k \in E : g.idx[k] = IF k = f THEN x - 1 ELSE h.idx[k]
  BY <1>3, <1>4, <1>6, <1>7
<1>9. QED BY <1>8 DEF g

LEMMA HoleMoves ==
    ASSUME NEW E, NEW S \in SUBSET E, NEW h \in HeapType(E), NEW e \in E, NEW x,
           Hole(h, x, e, S)
    PROVE  /\ Len(h.pool) \in Nat /\ x \in 1..Len(h.pool) /\ x \in Nat
           /\ \A i \in 1..Len(h.pool) : h.pool[i] \in E /\ Due0(h, i) \in Nat
           /\ h.due[e] \in Nat
<1>1. h.pool \in Seq(E) /\ h.due \in [E -> Nat] /\ x \in 1..Len(h.pool)
  BY DEF HeapType, Hole
<1>2. Len(h.pool) \in Nat /\ \A i \in 1..Len(h.pool) : h.pool[i] \in E
  BY <1>1, LenProperties, ElementOfSeq
<1>3. QED BY <1>1, <1>2 DEF Due0

LEMMA HoleApart ==
    ASSUME NEW h, NEW e, NEW x, NEW S, Hole(h, x, e, S)
    PROVE  \A i, j \in Others(h, x) : h.pool[i] = h.pool[j] => i = j
<1>1. \A i \in Others(h, x) : h.idx[h.pool[i]] = i - 1 /\ i \in Int
  BY DEF Hole, Others
<1>2. QED BY <1>1

LEMMA RaiseRound ==
    ASSUME NEW E, NEW S \in SUBSET E, NEW h \in HeapType(E), NEW e \in E, NEW x,
           Hole(h, x, e, S), FitsAbove(h, x, e)
    PROVE  LET t == RaisedOnce([heap |-> h, hole |-> x - 1], e)
           IN  \/ FitsBelow(h, x, e) /\ t = [heap |-> h, hole |-> x - 1]
               \/ \E g, y : /\ t = [heap |-> g, hole |-> y - 1] /\ y \in 1..(x - 1) /\ ~FitsBelow(h, x, e)
                            /\ Hole(g, y, e, S) /\ FitsAbove(g, y, e) /\ Alike(h, g, E, S)
<1> DEFINE s == [heap |-> h, hole |-> x - 1]
           t == RaisedOnce(s, e)
           y == Above(x)
           f == h.pool[y]
           g == Placed(h, x - 1, f)
           n == Len(h.pool)
<1>1. n \in Nat /\ x \in 1..n /\ x \in Nat /\ h.due[e] \in Nat
      /\ \A i \in 1..n : h.pool[i] \in E /\ Due0(h, i) \in Nat
  BY HoleMoves
<1>apart. \A i, j \in Others(h, x) : h.pool[i] = h.pool[j] => i = j
  BY HoleApart
<1>2. (x - 1 - 1) \div 2 + 1 = y /\ s.heap = h /\ s.hole = x - 1
  BY <1>1 DEF Above
<1>3. t = IF x - 1 > 0 /\ h.due[f] > h.due[e]
          THEN [heap |-> Placed(h, x - 1, f), hole |-> (x - 1 - 1) \div 2] ELSE s
  BY <1>2 DEF RaisedOnce
<1>4. CASE ~(x - 1 > 0 /\ h.due[f] > h.due[e])
  <2>1. x >= 2 => y \in 1..n
    BY <1>1, AboveIs
  <2>2. x >= 2 => Due0(h, y) <= h.due[e]
    BY <1>1, <1>4, <2>1 DEF Due0
  <2>3. FitsBelow(h, x, e)
    BY <2>2 DEF FitsBelow
  <2>4. QED BY <1>3, <1>4, <2>3
<1>5. CASE x - 1 > 0 /\ h.due[f] > h.due[e]
  <2>1. x >= 2 /\ y \in 1..(x - 1) /\ y \in Nat /\ y \in Others(h, x) /\ y \in 1..n /\ y < x
    <3>1. x >= 2
      BY <1>1, <1>5
    <3>2. y \in Nat /\ y >= 1 /\ y < x
      BY <1>1, <3>1, AboveIs
    <3> HIDE DEF y
    <3>3. y \in 1..(x - 1) /\ y \in 1..n /\ y # x
      BY <1>1, <3>1, <3>2
    <3>4. QED BY <3>1, <3>2, <3>3 DEF Others
  <2>2. t = [heap |-> g, hole |-> y - 1]
    <3>1. (x - 1 - 1) \div 2 = y - 1
      BY <1>1, <1>2, <2>1
    <3>2. QED BY <1>3, <1>5, <3>1
  <2>3. f \in S /\ f \in E /\ Due0(h, y) > h.due[e]
    BY <1>5, <2>1 DEF Hole, Due0
  <2>4. /\ g \in HeapType(E) /\ Len(g.pool) = n /\ g.due = h.due
        /\ \A i \in 1..n : g.pool[i] = IF i = x THEN f ELSE h.pool[i]
        /\ \A k \in E : g.idx[k] = IF k = f THEN x - 1 ELSE h.idx[k]
    BY <1>1, <2>3, PlacedIs, SMTT(30)
  <2> HIDE DEF g, f, t, y
  <2>5. Alike(h, g, E, S)
    BY <2>3, <2>4 DEF Alike
  <2>6. \A i \in 1..n : Due0(g, i) = IF i = x THEN Due0(h, y) ELSE Due0(h, i)
    BY <2>1, <2>4 DEF Due0, f
  <2>7. Others(g, y) = (Others(h, x) \ {y}) \cup {x}
    BY <1>1, <2>1, <2>4 DEF Others
  <2>8. \A i \in Others(g, y) : g.pool[i] \in S /\ g.idx[g.pool[i]] = i - 1
    <3>1. ASSUME NEW i \in Others(g, y), i # x PROVE g.pool[i] \in S /\ g.idx[g.pool[i]] = i - 1
      <4>1. i \in Others(h, x) /\ i # y /\ i \in 1..n
        BY <2>7, <3>1 DEF Others
      <4>2. g.pool[i] = h.pool[i] /\ h.pool[i] \in S /\ h.idx[h.pool[i]] = i - 1
        BY <2>4, <3>1, <4>1 DEF Hole
      <4>3. h.pool[i] # f
        BY <1>apart, <2>1, <4>1 DEF f
      <4>4. QED BY <2>4, <4>2, <4>3
    <3>2. g.pool[x] = f /\ g.idx[f] = x - 1
      BY <1>1, <2>3, <2>4
    <3>3. QED BY <2>3, <3>1, <3>2
  <2>9. \A k \in S : \E i \in Others(g, y) : g.pool[i] = k
    <3>1. SUFFICES ASSUME NEW k \in S PROVE \E i \in Others(g, y) : g.pool[i] = k
      OBVIOUS
    <3>2. PICK i \in Others(h, x) : h.pool[i] = k
      BY DEF Hole
    <3>3. CASE i = y
      BY <1>1, <2>4, <2>7, <3>2, <3>3 DEF f
    <3>4. CASE i # y
      <4>1. i \in Others(g, y) /\ i # x /\ i \in 1..n
        BY <2>7, <3>4 DEF Others
      <4>2. QED BY <2>4, <3>2, <4>1
    <3>5. QED BY <3>3, <3>4
  <2>10. \A i \in Others(g, y) : i >= 2 /\ Above(i) # y => Due0(g, Above(i)) <= Due0(g, i)
    <3>1. SUFFICES ASSUME NEW i \in Others(g, y), i >= 2, Above(i) # y
                   PROVE  Due0(g, Above(i)) <= Due0(g, i)
      OBVIOUS
    <3>2. i \in Others(h, x) /\ i # x /\ i \in 1..n
      BY <2>7, <3>1 DEF Others, y
    <3>3. Above(i) \in 1..n
      BY <1>1, <3>1, <3>2, AboveIs
    <3>4. CASE Above(i) = x
      <4>1. Due0(h, y) <= Due0(h, i)
        BY <2>1, <3>2, <3>4 DEF Hole, y
      <4>2. QED BY <2>6, <3>2, <3>4, <4>1, <1>1
    <3>5. CASE Above(i) # x
      <4>1. Due0(h, Above(i)) <= Due0(h, i)
        BY <3>1, <3>2, <3>5 DEF Hole
      <4>2. QED BY <2>6, <3>2, <3>3, <3>5, <4>1
    <3>6. QED BY <3>4, <3>5
  <2>11. \A i \in Others(g, y) : Above(i) = y =>
            Due0(h, y) <= Due0(g, i) /\ Due0(g, i) \in Nat
    <3>1. SUFFICES ASSUME NEW i \in Others(g, y), Above(i) = y
                   PROVE  Due0(h, y) <= Due0(g, i) /\ Due0(g, i) \in Nat
      OBVIOUS
    <3>2. CASE i = x
      BY <1>1, <2>1, <2>6, <3>2
    <3>3. CASE i # x
      <4>1. i \in Others(h, x) /\ i \in 1..n /\ Above(i) # x
        BY <2>1, <2>7, <3>1, <3>3 DEF Others
      <4>2. i >= 2
        <5>1. i = 1 => Above(i) = 0
          BY AboveIs
        <5>2. QED BY <1>1, <2>1, <3>1, <4>1, <5>1
      <4>3. Due0(h, y) <= Due0(h, i)
        BY <3>1, <4>1, <4>2 DEF Hole
      <4>4. QED BY <1>1, <2>6, <3>3, <4>1, <4>3
    <3>4. QED BY <3>2, <3>3
  <2>12. \A i \in Others(g, y) : Above(i) = y /\ y >= 2 => Due0(g, Above(y)) <= Due0(g, i)
    <3>1. SUFFICES ASSUME NEW i \in Others(g, y), Above(i) = y, y >= 2
                   PROVE  Due0(g, Above(y)) <= Due0(g, i)
      OBVIOUS
    <3>2. Above(y) \in 1..n /\ Above(y) < y /\ Above(y) # x
      <4>1. y \in Nat /\ y < x /\ y \in 1..n
        BY <2>1
      <4>2. Above(y) \in Nat /\ Above(y) >= 1 /\ Above(y) < y
        BY <3>1, <4>1, AboveIs
      <4>3. QED BY <1>1, <4>1, <4>2
    <3>3. Due0(h, Above(y)) <= Due0(h, y)
      BY <2>1, <3>1, <3>2 DEF Hole
    <3>4. Due0(h, y) <= Due0(g, i) /\ Due0(g, i) \in Nat
      BY <2>11, <3>1
    <3>5. Due0(g, Above(y)) = Due0(h, Above(y)) /\ Due0(h, Above(y)) \in Nat
      BY <1>1, <2>6, <3>2
    <3>6. QED BY <1>1, <2>1, <3>3, <3>4, <3>5
  <2>13. Hole(g, y, e, S)
    BY <2>1, <2>4, <2>8, <2>9, <2>10, <2>12 DEF Hole
  <2>14. FitsAbove(g, y, e)
    <3>1. SUFFICES ASSUME NEW i \in Others(g, y), Above(i) = y PROVE h.due[e] <= Due0(g, i)
      BY <2>4 DEF FitsAbove
    <3>2. Due0(h, y) <= Due0(g, i) /\ Due0(g, i) \in Nat
      BY <2>11, <3>1
    <3>3. QED BY <1>1, <2>1, <2>3, <3>2
  <2>15. ~FitsBelow(h, x, e)
    BY <1>1, <2>1, <2>3 DEF FitsBelow, y
  <2>16. QED BY <2>1, <2>2, <2>5, <2>13, <2>14, <2>15 DEF t
<1>6. QED BY <1>4, <1>5

LEMMA LowerRound ==
    ASSUME NEW E, NEW S \in SUBSET E, NEW h \in HeapType(E), NEW e \in E, NEW x,
           Hole(h, x, e, S), FitsBelow(h, x, e)
    PROVE  LET t == LoweredOnce([heap |-> h, hole |-> x - 1], e)
           IN  \/ FitsAbove(h, x, e) /\ t = [heap |-> h, hole |-> x - 1]
               \/ \E g, y : /\ t = [heap |-> g, hole |-> y - 1] /\ y \in (x + 1)..Len(h.pool) /\ ~FitsAbove(h, x, e)
                            /\ Hole(g, y, e, S) /\ FitsBelow(g, y, e) /\ Alike(h, g, E, S)
<1> DEFINE s == [heap |-> h, hole |-> x - 1]
           t == LoweredOnce(s, e)
           n == Len(h.pool)
           left == 2 * x = n \/ h.due[h.pool[2 * x + 1]] > h.due[h.pool[2 * x]]
           y == IF left THEN 2 * x ELSE 2 * x + 1
           f == h.pool[y]
           g == Placed(h, x - 1, f)
<1>1. n \in Nat /\ x \in 1..n /\ x \in Nat /\ h.due[e] \in Nat
      /\ \A i \in 1..n : h.pool[i] \in E /\ Due0(h, i) \in Nat
  BY HoleMoves
<1>apart. \A i, j \in Others(h, x) : h.pool[i] = h.pool[j] => i = j
  BY HoleApart
<1>2. s.heap = h /\ s.hole = x - 1
  OBVIOUS
<1>3. t = IF 2 * x <= n /\ h.due[e] > h.due[f]
          THEN [heap |-> Placed(h, x - 1, f), hole |-> y - 1] ELSE s
  <2>1. 2 * (x - 1 + 1) = 2 * x
    BY <1>1
  <2> DEFINE child == IF left THEN 2 * x - 1 ELSE 2 * x
  <2>2. t = IF 2 * x <= n /\ h.due[e] > h.due[h.pool[child + 1]]
            THEN [heap |-> Placed(h, x - 1, h.pool[child + 1]), hole |-> child] ELSE s
    BY <1>2, <2>1 DEF LoweredOnce
  <2>3. child + 1 = y /\ child = y - 1
    <3> HIDE DEF left
    <3>1. CASE left
      BY <1>1, <3>1
    <3>2. CASE ~left
      BY <1>1, <3>2
    <3>3. QED BY <3>1, <3>2
  <2> HIDE DEF child, y, left, t
  <2>4. QED BY <2>2, <2>3
<1>4. ASSUME 2 * x <= n
      PROVE  /\ y \in Nat /\ y \in 1..n /\ y > x /\ Above(y) = x /\ y \in Others(h, x)
             /\ \A i \in 1..n : Above(i) = x => Due0(h, y) <= Due0(h, i)
  <2>1. left => y = 2 * x
    OBVIOUS
  <2>2. ~left => y = 2 * x + 1 /\ 2 * x # n /\ ~(Due0(h, 2 * x + 1) > Due0(h, 2 * x))
    BY DEF Due0
  <2>3. left => 2 * x = n \/ Due0(h, 2 * x + 1) > Due0(h, 2 * x)
    BY DEF Due0
  <2> HIDE DEF left, y
  <2>4. y \in Nat /\ y \in 1..n /\ y > x /\ (y = 2 * x \/ y = 2 * x + 1)
    <3>1. n \in Nat /\ x \in Nat /\ x >= 1 /\ 2 * x <= n
      BY <1>1, <1>4
    <3>2. y = 2 * x \/ (y = 2 * x + 1 /\ 2 * x # n)
      BY <2>1, <2>2
    <3> HIDE DEF n
    <3>3. QED BY <3>1, <3>2
  <2>5. Above(y) = x /\ y \in Others(h, x)
    <3>1. x \in Nat /\ y # x
      BY <1>1, <2>4
    <3>2. Above(y) = x
      BY <2>4, <3>1, AboveIs
    <3>3. QED BY <2>4, <3>1, <3>2 DEF Others
  <2>6. ASSUME NEW i \in 1..n, Above(i) = x PROVE Due0(h, y) <= Due0(h, i)
    <3>1. i = 2 * x \/ i = 2 * x + 1
      BY <1>1, <2>6, AboveIs
    <3>2. i \in 1..n /\ Due0(h, i) \in Nat /\ Due0(h, y) \in Nat /\ Due0(h, 2 * x) \in Nat
      BY <1>1, <1>4, <2>4
    <3>3. CASE left
      <4>1. CASE i = 2 * x
        BY <2>1, <3>2, <3>3, <4>1
      <4>2. CASE i = 2 * x + 1
        <5>1. 2 * x # n
          BY <1>1, <3>2, <4>2
        <5>2. QED BY <2>1, <2>3, <3>2, <3>3, <4>2, <5>1
      <4>3. QED BY <3>1, <4>1, <4>2
    <3>4. CASE ~left
      BY <2>2, <3>1, <3>2, <3>4
    <3>5. QED BY <3>3, <3>4
  <2>7. QED BY <2>4, <2>5, <2>6
<1> HIDE DEF left, y
<1>5. CASE ~(2 * x <= n /\ h.due[e] > h.due[f])
  <2>1. ASSUME NEW i \in Others(h, x), Above(i) = x PROVE h.due[e] <= Due0(h, i)
    <3>1. i \in 1..n /\ i \in Nat
      BY <1>1 DEF Others
    <3>2. i = 2 * x \/ i = 2 * x + 1
      BY <2>1, <3>1, AboveIs
    <3>3. 2 * x <= n
      BY <1>1, <3>1, <3>2
    <3>4. Due0(h, y) <= Due0(h, i) /\ Due0(h, y) \in Nat /\ Due0(h, i) \in Nat
      BY <1>1, <1>4, <2>1, <3>1, <3>3
    <3>5. ~(h.due[e] > Due0(h, y))
      BY <1>5, <3>3 DEF Due0
    <3>6. QED BY <1>1, <3>4, <3>5
  <2>2. FitsAbove(h, x, e)
    BY <2>1 DEF FitsAbove
  <2>3. QED BY <1>3, <1>5, <2>2
<1>6. CASE 2 * x <= n /\ h.due[e] > h.due[f]
  <2>1. /\ y \in Nat /\ y \in 1..n /\ y > x /\ Above(y) = x /\ y \in Others(h, x)
        /\ \A i \in 1..n : Above(i) = x => Due0(h, y) <= Due0(h, i)
    BY <1>4, <1>6
  <2>2. t = [heap |-> g, hole |-> y - 1]
    BY <1>3, <1>6
  <2>3. f \in S /\ f \in E /\ h.due[e] > Due0(h, y)
    BY <1>6, <2>1 DEF Hole, Due0
  <2>4. /\ g \in HeapType(E) /\ Len(g.pool) = n /\ g.due = h.due
        /\ \A i \in 1..n : g.pool[i] = IF i = x THEN f ELSE h.pool[i]
        /\ \A k \in E : g.idx[k] = IF k = f THEN x - 1 ELSE h.idx[k]
    BY <1>1, <2>3, PlacedIs, SMTT(30)
  <2> HIDE DEF g, f, t
  <2>5. Alike(h, g, E, S)
    BY <2>3, <2>4 DEF Alike
  <2>6. \A i \in 1..n : Due0(g, i) = IF i = x THEN Due0(h, y) ELSE Due0(h, i)
    BY <2>1, <2>4 DEF Due0, f
  <2>7. Others(g, y) = (Others(h, x) \ {y}) \cup {x}
    BY <1>1, <2>1, <2>4 DEF Others
  <2>8. \A i \in Others(g, y) : g.pool[i] \in S /\ g.idx[g.pool[i]] = i - 1
    <3>1. ASSUME NEW i \in Others(g, y), i # x PROVE g.pool[i] \in S /\ g.idx[g.pool[i]] = i - 1
      <4>1. i \in Others(h, x) /\ i # y /\ i \in 1..n
        BY <2>7, <3>1 DEF Others
      <4>2. g.pool[i] = h.pool[i] /\ h.pool[i] \in S /\ h.idx[h.pool[i]] = i - 1
        BY <2>4, <3>1, <4>1 DEF Hole
      <4>3. h.pool[i] # f
        BY <1>apart, <2>1, <4>1 DEF f
      <4>4. QED BY <2>4, <4>2, <4>3
    <3>2. g.pool[x] = f /\ g.idx[f] = x - 1
      BY <1>1, <2>3, <2>4
    <3>3. QED BY <2>3, <3>1, <3>2
  <2>9. \A k \in S : \E i \in Others(g, y) : g.pool[i] = k
    <3>1. SUFFICES ASSUME NEW k \in S PROVE \E i \in Others(g, y) : g.pool[i] = k
      OBVIOUS
    <3>2. PICK i \in Others(h, x) : h.pool[i] = k
      BY DEF Hole
    <3>3. CASE i = y
      BY <1>1, <2>4, <2>7, <3>2, <3>3 DEF f
    <3>4. CASE i # y
      <4>1. i \in Others(g, y) /\ i # x /\ i \in 1..n
        BY <2>7, <3>4 DEF Others
      <4>2. QED BY <2>4, <3>2, <4>1
    <3>5. QED BY <3>3, <3>4
  <2>10. \A i \in Others(g, y) : i >= 2 /\ Above(i) # y => Due0(g, Above(i)) <= Due0(g, i)
    <3>1. SUFFICES ASSUME NEW i \in Others(g, y), i >= 2, Above(i) # y
                   PROVE  Due0(g, Above(i)) <= Due0(g, i)
      OBVIOUS
    <3>2. i \in 1..n /\ i \in Nat /\ i # y
      BY <1>1, <2>4 DEF Others
    <3>3. Above(i) \in 1..n /\ Above(i) < i
      BY <1>1, <3>1, <3>2, AboveIs
    <3>4. CASE i = x
      <4>1. Due0(h, Above(x)) <= Due0(h, y)
        BY <2>1, <3>1, <3>4 DEF Hole
      <4>2. Above(x) # x
        BY <1>1, <3>3, <3>4
      <4>3. QED BY <2>6, <3>2, <3>3, <3>4, <4>1, <4>2
    <3>5. CASE i # x /\ Above(i) = x
      <4>1. Due0(h, y) <= Due0(h, i)
        BY <2>1, <3>2, <3>5
      <4>2. QED BY <2>6, <3>2, <3>3, <3>5, <4>1
    <3>6. CASE i # x /\ Above(i) # x
      <4>1. i \in Others(h, x)
        BY <2>7, <3>6
      <4>2. Due0(h, Above(i)) <= Due0(h, i)
        BY <3>1, <3>6, <4>1 DEF Hole
      <4>3. QED BY <2>6, <3>2, <3>3, <3>6, <4>2
    <3>7. QED BY <3>4, <3>5, <3>6
  <2>11. \A i \in Others(g, y) : Above(i) = y /\ y >= 2 => Due0(g, Above(y)) <= Due0(g, i)
    <3>1. SUFFICES ASSUME NEW i \in Others(g, y), Above(i) = y
                   PROVE  Due0(g, x) <= Due0(g, i)
      BY <2>1
    <3>2. i \in 1..n /\ i \in Nat /\ i # y
      BY <1>1, <2>4 DEF Others
    <3>3. i >= 2 /\ i > y
      <4>1. i = 2 * y \/ i = 2 * y + 1
        BY <3>1, <3>2, AboveIs
      <4>2. QED BY <1>1, <2>1, <4>1
    <3>4. i \in Others(h, x) /\ Above(i) # x /\ i # x
      BY <1>1, <2>1, <2>7, <3>1, <3>2, <3>3
    <3>5. Due0(h, y) <= Due0(h, i)
      BY <3>1, <3>3, <3>4 DEF Hole
    <3>6. QED BY <1>1, <2>6, <3>2, <3>4, <3>5
  <2>12. Hole(g, y, e, S)
    BY <2>1, <2>4, <2>8, <2>9, <2>10, <2>11 DEF Hole
  <2>13. FitsBelow(g, y, e)
    <3>1. Due0(g, x) = Due0(h, y)
      BY <1>1, <2>6
    <3>2. Due0(h, y) <= h.due[e]
      BY <1>1, <2>1, <2>3
    <3>3. QED BY <2>1, <2>4, <3>1, <3>2 DEF FitsBelow
  <2>14. y \in (x + 1)..n
    BY <1>1, <2>1
  <2>15. ~FitsAbove(h, x, e)
    BY <1>1, <2>1, <2>3 DEF FitsAbove
  <2>16. QED BY <2>2, <2>5, <2>12, <2>13, <2>14, <2>15 DEF t
<1>7. QED BY <1>5, <1>6

\* What a heap is once every timer has its place.
Sound(g, h, E, S) ==
    /\ g \in HeapType(E) /\ HeapSound(g) /\ Range(g.pool) = S /\ g.due = h.due
    /\ \A f \in E \ S : g.idx[f] = h.idx[f]

LEMMA Filled ==
    ASSUME NEW E, NEW S \in SUBSET E, NEW h \in HeapType(E), NEW e \in E, NEW x,
           Hole(h, x, e, S), FitsBelow(h, x, e), FitsAbove(h, x, e)
    PROVE  Sound(Placed(h, x - 1, e), h, E, S \cup {e})
<1> DEFINE n == Len(h.pool)
           g == Placed(h, x - 1, e)
<1>1. n \in Nat /\ x \in 1..n /\ x \in Nat
  BY HoleMoves
<1>2. /\ g \in HeapType(E) /\ Len(g.pool) = n /\ g.due = h.due
      /\ \A i \in 1..n : g.pool[i] = IF i = x THEN e ELSE h.pool[i]
      /\ \A k \in E : g.idx[k] = IF k = e THEN x - 1 ELSE h.idx[k]
  BY <1>1, PlacedIs
<1> HIDE DEF g
<1>3. g.pool \in Seq(E) /\ DOMAIN g.pool = 1..n /\ Range(g.pool) = {g.pool[i] : i \in 1..n}
  <2>1. g.pool \in Seq(E)
    BY <1>2 DEF HeapType
  <2>2. DOMAIN g.pool = 1..n
    BY <1>2, <2>1, LenProperties
  <2>3. QED BY <2>1, <2>2 DEF Range
<1>4. ASSUME NEW i \in 1..n, i # x
      PROVE  i \in Others(h, x) /\ g.pool[i] = h.pool[i] /\ h.pool[i] \in S
             /\ g.pool[i] # e /\ g.idx[g.pool[i]] = i - 1
  <2>1. i \in Others(h, x)
    BY <1>4 DEF Others
  <2>2. h.pool[i] \in S /\ h.idx[h.pool[i]] = i - 1 /\ e \notin S
    BY <2>1 DEF Hole
  <2>3. QED BY <1>2, <1>4, <2>1, <2>2
<1>5. g.pool[x] = e /\ g.idx[e] = x - 1
  BY <1>1, <1>2
<1>6. \A i \in 1..n : g.idx[g.pool[i]] = i - 1
  BY <1>4, <1>5
<1>7. IsInjective(g.pool)
  <2>1. \A i, j \in 1..n : g.pool[i] = g.pool[j] => i = j
    BY <1>6
  <2>2. QED BY <1>3, <2>1 DEF IsInjective
<1>8. \A i \in 2..n : g.due[g.pool[i \div 2]] <= g.due[g.pool[i]]
  <2>1. SUFFICES ASSUME NEW i \in 2..n
                 PROVE  g.due[g.pool[Above(i)]] <= g.due[g.pool[i]]
    BY DEF Above
  <2>2. i \in Nat /\ i >= 2 /\ i \in 1..n
    BY <1>1
  <2>3. Above(i) \in 1..n /\ Above(i) # i
    <3>1. Above(i) \in Nat /\ Above(i) >= 1 /\ Above(i) < i
      BY <2>2, AboveIs
    <3>2. QED BY <1>1, <2>2, <3>1
  <2>4. CASE i = x
    <3>1. Due0(h, Above(i)) <= h.due[e]
      BY <2>2, <2>4 DEF FitsBelow
    <3>2. g.pool[Above(i)] = h.pool[Above(i)]
      BY <1>2, <2>3, <2>4
    <3>3. QED BY <1>2, <1>5, <2>4, <3>1, <3>2 DEF Due0
  <2>5. CASE i # x /\ Above(i) = x
    <3>1. h.due[e] <= Due0(h, i)
      BY <1>4, <2>2, <2>5 DEF FitsAbove
    <3>2. QED BY <1>2, <1>4, <1>5, <2>2, <2>5, <3>1 DEF Due0
  <2>6. CASE i # x /\ Above(i) # x
    <3>1. i \in Others(h, x)
      BY <1>4, <2>2, <2>6
    <3>2. Due0(h, Above(i)) <= Due0(h, i)
      BY <2>2, <2>6, <3>1 DEF Hole
    <3>3. QED BY <1>2, <2>2, <2>3, <2>6, <3>2 DEF Due0
  <2>7. QED BY <2>4, <2>5, <2>6
<1>9. HeapSound(g)
  BY <1>2, <1>3, <1>6, <1>7, <1>8 DEF HeapSound
<1>10. Range(g.pool) = S \cup {e}
  <2>1. ASSUME NEW f \in S PROVE f \in Range(g.pool)
    <3>1. PICK i \in Others(h, x) : h.pool[i] = f
      BY DEF Hole
    <3>2. i \in 1..n /\ i # x
      BY DEF Others
    <3>3. QED BY <1>3, <1>4, <3>1, <3>2
  <2>2. QED BY <1>1, <1>3, <1>4, <1>5, <2>1
<1>11. \A f \in E \ (S \cup {e}) : g.idx[f] = h.idx[f]
  BY <1>2
<1>12. Sound(g, h, E, S \cup {e})
  BY <1>2, <1>9, <1>10, <1>11 DEF Sound
<1>13. QED BY <1>12 DEF g

-----------------------------------------------------------------------------
(* The loops that move a hole.                                             *)

\* Induction over a set of numbers.
LEMMA Climb ==
    ASSUME NEW S, 0 \in S, \A k \in Nat : k \in S => k + 1 \in S
    PROVE  Nat \subseteq S
<1>1. SUFFICES ASSUME Nat \ S # {} PROVE FALSE
  OBVIOUS
<1>2. PICK m \in Nat \ S : \A k \in Nat \ S : <<k, m>> \notin OpToRel(<, Nat)
  BY <1>1, NatLessThanWellFounded, WFMin
<1>3. m \in Nat /\ m \notin S /\ m # 0
  BY <1>2
<1>4. m - 1 \in Nat /\ m - 1 < m /\ (m - 1) + 1 = m
  BY <1>3
<1>5. m - 1 \notin S
  BY <1>3, <1>4
<1>6. <<m - 1, m>> \in OpToRel(<, Nat)
  BY <1>3, <1>4 DEF OpToRel
<1>7. QED BY <1>2, <1>4, <1>5, <1>6

Round(way, s, e) == IF way = "up" THEN RaisedOnce(s, e) ELSE LoweredOnce(s, e)

Rounds(f, way, h, hole, e, n) ==
    [k \in 0..n |-> IF k = 0 THEN [heap |-> h, hole |-> hole] ELSE Round(way, f[k - 1], e)]

LEMMA RoundsExist ==
    ASSUME NEW way, NEW h, NEW hole, NEW e, NEW n \in Nat
    PROVE  \E f : f = Rounds(f, way, h, hole, e, n)
<1> DEFINE S == {k \in Nat : \E f : f = Rounds(f, way, h, hole, e, k)}
<1>1. 0 \in S
  <2> DEFINE f == [k \in 0..0 |-> [heap |-> h, hole |-> hole]]
  <2>1. f = Rounds(f, way, h, hole, e, 0)
    BY DEF Rounds
  <2>2. QED BY <2>1
<1>2. ASSUME NEW k \in Nat, k \in S PROVE k + 1 \in S
  <2>1. PICK f : f = Rounds(f, way, h, hole, e, k)
    BY <1>2
  <2> DEFINE g == [i \in 0..(k + 1) |-> IF i = k + 1 THEN Round(way, f[k], e) ELSE f[i]]
             rule(i) == IF i = 0 THEN [heap |-> h, hole |-> hole] ELSE Round(way, g[i - 1], e)
  <2>2. ASSUME NEW i \in 0..(k + 1) PROVE g[i] = rule(i)
    <3>1. CASE i = k + 1
      <4>1. i # 0 /\ i - 1 = k /\ i - 1 \in 0..(k + 1) /\ i - 1 # k + 1
        BY <3>1
      <4>2. g[i - 1] = f[k]
        BY <4>1
      <4>3. g[i] = Round(way, f[k], e)
        BY <3>1
      <4> HIDE DEF g
      <4>4. QED BY <4>1, <4>2, <4>3
    <3>2. CASE i # k + 1
      <4>1. i \in 0..k
        BY <3>2
      <4>2. f[i] = IF i = 0 THEN [heap |-> h, hole |-> hole] ELSE Round(way, f[i - 1], e)
        BY <2>1, <4>1 DEF Rounds
      <4>3. g[i] = f[i]
        BY <3>2
      <4>4. i # 0 => g[i - 1] = f[i - 1]
        <5>1. i # 0 => i - 1 \in 0..(k + 1) /\ i - 1 # k + 1
          BY <4>1
        <5>2. QED BY <5>1
      <4> HIDE DEF g
      <4>5. QED BY <4>2, <4>3, <4>4
    <3>3. QED BY <3>1, <3>2
  <2>3. g = Rounds(g, way, h, hole, e, k + 1)
    <3>1. g = [i \in 0..(k + 1) |-> g[i]]
      OBVIOUS
    <3> HIDE DEF g
    <3>2. g = [i \in 0..(k + 1) |-> rule(i)]
      BY <2>2, <3>1
    <3>3. QED BY <3>2 DEF Rounds
  <2> HIDE DEF g
  <2>4. k + 1 \in Nat
    OBVIOUS
  <2>5. QED BY <2>3, <2>4
<1> HIDE DEF S
<1>3. n \in S
  BY <1>1, <1>2, Climb
<1>4. QED BY <1>3 DEF S

\* Where the loop is after each round.
After(way, h, hole, e) == CHOOSE f : f = Rounds(f, way, h, hole, e, Len(h.pool))

LEMMA AfterIs ==
    ASSUME NEW way, NEW h, NEW hole, NEW e, Len(h.pool) \in Nat
    PROVE  LET a == After(way, h, hole, e)
           IN  /\ a[0] = [heap |-> h, hole |-> hole]
               /\ \A k \in 1..Len(h.pool) : a[k] = Round(way, a[k - 1], e)
<1> DEFINE a == After(way, h, hole, e)
           n == Len(h.pool)
<1>1. a = Rounds(a, way, h, hole, e, n)
  BY RoundsExist DEF After
<1> HIDE DEF a
<1>2. a[0] = [heap |-> h, hole |-> hole]
  BY <1>1 DEF Rounds
<1>3. \A k \in 1..n : a[k] = Round(way, a[k - 1], e)
  BY <1>1 DEF Rounds
<1>4. QED BY <1>2, <1>3 DEF a

LEMMA ShiftsAre ==
    ASSUME NEW h, NEW hole, NEW e
    PROVE  LET a == After("up", h, hole, e)
               b == After("down", h, hole, e)
               n == Len(h.pool)
           IN  /\ ShiftUp(h, hole, e) = Placed(a[n].heap, a[n].hole, e)
               /\ ShiftDown(h, hole, e) = Placed(b[n].heap, b[n].hole, e)
<1> DEFINE n == Len(h.pool)
<1>1. After("up", h, hole, e) =
        CHOOSE f : f = [k \in 0..n |-> IF k = 0 THEN [heap |-> h, hole |-> hole]
                                       ELSE RaisedOnce(f[k - 1], e)]
  BY DEF After, Rounds, Round
<1>2. After("down", h, hole, e) =
        CHOOSE f : f = [k \in 0..n |-> IF k = 0 THEN [heap |-> h, hole |-> hole]
                                       ELSE LoweredOnce(f[k - 1], e)]
  BY DEF After, Rounds, Round
<1>3. QED BY <1>1, <1>2 DEF ShiftUp, ShiftDown

LEMMA FilledIn ==
    ASSUME NEW E, NEW S \in SUBSET E, NEW h, NEW g, NEW e \in E, NEW y,
           Alike(h, g, E, S), Hole(g, y, e, S), FitsBelow(g, y, e), FitsAbove(g, y, e)
    PROVE  Sound(Placed(g, y - 1, e), h, E, S \cup {e})
<1>1. g \in HeapType(E) /\ g.due = h.due /\ \A f \in E \ S : g.idx[f] = h.idx[f]
  BY DEF Alike
<1>2. Sound(Placed(g, y - 1, e), g, E, S \cup {e})
  BY <1>1, Filled
<1>3. QED BY <1>1, <1>2 DEF Sound

LEMMA AlikeTwice ==
    ASSUME NEW E, NEW S, NEW h, NEW g, NEW k, Alike(h, g, E, S), Alike(g, k, E, S)
    PROVE  Alike(h, k, E, S)
  BY DEF Alike

\* The hole rises until e may be filled in.
LEMMA RaiseEnds ==
    ASSUME NEW E, NEW S \in SUBSET E, NEW h \in HeapType(E), NEW e \in E, NEW x,
           Hole(h, x, e, S), FitsAbove(h, x, e)
    PROVE  Sound(ShiftUp(h, x - 1, e), h, E, S \cup {e})
<1> DEFINE n == Len(h.pool)
           a == After("up", h, x - 1, e)
           At(k, g, y) == /\ a[k] = [heap |-> g, hole |-> y - 1]
                          /\ Hole(g, y, e, S) /\ FitsAbove(g, y, e) /\ Alike(h, g, E, S)
                          /\ FitsBelow(g, y, e) \/ y <= x - k
           K == {k \in Nat : k <= n => \E g, y : At(k, g, y)}
<1>1. n \in Nat /\ x \in 1..n /\ x \in Nat
  BY HoleMoves
<1>2. /\ a[0] = [heap |-> h, hole |-> x - 1]
      /\ \A k \in 1..n : a[k] = RaisedOnce(a[k - 1], e)
      /\ ShiftUp(h, x - 1, e) = Placed(a[n].heap, a[n].hole, e)
  <2>1. /\ a[0] = [heap |-> h, hole |-> x - 1]
        /\ \A k \in 1..n : a[k] = Round("up", a[k - 1], e)
    <3> DEFINE hole == x - 1
    <3> HIDE DEF hole
    <3>1. Len(h.pool) \in Nat
      BY <1>1
    <3>2. LET b == After("up", h, hole, e)
          IN  /\ b[0] = [heap |-> h, hole |-> hole]
              /\ \A k \in 1..Len(h.pool) : b[k] = Round("up", b[k - 1], e)
      BY <3>1, AfterIs
    <3>3. QED BY <3>2 DEF hole
  <2>2. ShiftUp(h, x - 1, e) = Placed(a[n].heap, a[n].hole, e)
    BY ShiftsAre
  <2> HIDE DEF a
  <2>3. QED BY <2>1, <2>2 DEF Round
<1> HIDE DEF a
<1>3. 0 \in K
  <2>1. Alike(h, h, E, S)
    BY DEF Alike
  <2>2. At(0, h, x)
    BY <1>1, <1>2, <2>1
  <2> HIDE DEF At
  <2>3. QED BY <2>2
<1>4. ASSUME NEW k \in Nat, k \in K PROVE k + 1 \in K
  <2>1. SUFFICES ASSUME k + 1 <= n PROVE \E g, y : At(k + 1, g, y)
    BY <1>4
  <2>2. k <= n /\ k + 1 \in 1..n /\ (k + 1) - 1 = k
    BY <1>1, <2>1
  <2>3. PICK g, y : At(k, g, y)
    BY <1>4, <2>2
  <2>4. g \in HeapType(E) /\ Len(g.pool) = n
    BY <2>3 DEF Alike
  <2>5. y \in 1..n /\ y \in Nat
    BY <1>1, <2>3, <2>4 DEF Hole
  <2>6. a[k + 1] = RaisedOnce([heap |-> g, hole |-> y - 1], e)
    BY <1>2, <2>2, <2>3
  <2>7. \/ FitsBelow(g, y, e) /\ a[k + 1] = [heap |-> g, hole |-> y - 1]
        \/ \E g1, y1 : /\ a[k + 1] = [heap |-> g1, hole |-> y1 - 1]
                       /\ y1 \in 1..(y - 1) /\ ~FitsBelow(g, y, e)
                       /\ Hole(g1, y1, e, S) /\ FitsAbove(g1, y1, e) /\ Alike(g, g1, E, S)
    BY <2>3, <2>4, <2>6, RaiseRound
  <2>8. CASE FitsBelow(g, y, e) /\ a[k + 1] = [heap |-> g, hole |-> y - 1]
    <3>1. At(k + 1, g, y)
      BY <2>3, <2>8
    <3> HIDE DEF At
    <3>2. QED BY <3>1
  <2>9. ASSUME NEW g1, NEW y1, a[k + 1] = [heap |-> g1, hole |-> y1 - 1],
               y1 \in 1..(y - 1), ~FitsBelow(g, y, e),
               Hole(g1, y1, e, S), FitsAbove(g1, y1, e), Alike(g, g1, E, S)
        PROVE  At(k + 1, g1, y1)
    <3>1. Alike(h, g1, E, S)
      BY <2>3, <2>9, AlikeTwice
    <3>2. y1 <= x - (k + 1)
      <4>1. y <= x - k
        BY <2>3, <2>9
      <4>2. QED BY <1>1, <2>5, <2>9, <4>1
    <3>3. QED BY <2>9, <3>1, <3>2
  <2> HIDE DEF At
  <2>10. QED BY <2>7, <2>8, <2>9
<1>5. PICK g, y : At(n, g, y)
  <2> HIDE DEF At
  <2>1. Nat \subseteq K
    <3> HIDE DEF K
    <3>1. QED BY <1>3, <1>4, Climb
  <2>2. n \in K
    BY <1>1, <2>1
  <2>3. QED BY <1>1, <2>2
<1>6. FitsBelow(g, y, e)
  <2>1. y \in Nat /\ y >= 1
    BY <1>1, <1>5 DEF Hole, Alike
  <2>2. FitsBelow(g, y, e) \/ y <= x - n
    BY <1>5
  <2>3. QED BY <1>1, <2>1, <2>2
<1>7. Sound(Placed(g, y - 1, e), h, E, S \cup {e})
  BY <1>5, <1>6, FilledIn
<1>8. a[n].heap = g /\ a[n].hole = y - 1
  BY <1>5
<1>9. QED BY <1>2, <1>7, <1>8

\* The hole sinks until e may be filled in.
LEMMA LowerEnds ==
    ASSUME NEW E, NEW S \in SUBSET E, NEW h \in HeapType(E), NEW e \in E, NEW x,
           Hole(h, x, e, S), FitsBelow(h, x, e)
    PROVE  Sound(ShiftDown(h, x - 1, e), h, E, S \cup {e})
<1> DEFINE n == Len(h.pool)
           a == After("down", h, x - 1, e)
           At(k, g, y) == /\ a[k] = [heap |-> g, hole |-> y - 1]
                          /\ Hole(g, y, e, S) /\ FitsBelow(g, y, e) /\ Alike(h, g, E, S)
                          /\ FitsAbove(g, y, e) \/ y >= x + k
           K == {k \in Nat : k <= n => \E g, y : At(k, g, y)}
<1>1. n \in Nat /\ x \in 1..n /\ x \in Nat
  BY HoleMoves
<1>2. /\ a[0] = [heap |-> h, hole |-> x - 1]
      /\ \A k \in 1..n : a[k] = LoweredOnce(a[k - 1], e)
      /\ ShiftDown(h, x - 1, e) = Placed(a[n].heap, a[n].hole, e)
  <2>1. /\ a[0] = [heap |-> h, hole |-> x - 1]
        /\ \A k \in 1..n : a[k] = Round("down", a[k - 1], e)
    <3> DEFINE hole == x - 1
    <3> HIDE DEF hole
    <3>1. Len(h.pool) \in Nat
      BY <1>1
    <3>2. LET b == After("down", h, hole, e)
          IN  /\ b[0] = [heap |-> h, hole |-> hole]
              /\ \A k \in 1..Len(h.pool) : b[k] = Round("down", b[k - 1], e)
      BY <3>1, AfterIs
    <3>3. QED BY <3>2 DEF hole
  <2>2. ShiftDown(h, x - 1, e) = Placed(a[n].heap, a[n].hole, e)
    BY ShiftsAre
  <2> HIDE DEF a
  <2>3. QED BY <2>1, <2>2 DEF Round
<1> HIDE DEF a
<1>3. 0 \in K
  <2>1. Alike(h, h, E, S)
    BY DEF Alike
  <2>2. At(0, h, x)
    BY <1>1, <1>2, <2>1
  <2> HIDE DEF At
  <2>3. QED BY <2>2
<1>4. ASSUME NEW k \in Nat, k \in K PROVE k + 1 \in K
  <2>1. SUFFICES ASSUME k + 1 <= n PROVE \E g, y : At(k + 1, g, y)
    BY <1>4
  <2>2. k <= n /\ k + 1 \in 1..n /\ (k + 1) - 1 = k
    BY <1>1, <2>1
  <2>3. PICK g, y : At(k, g, y)
    BY <1>4, <2>2
  <2>4. g \in HeapType(E) /\ Len(g.pool) = n
    BY <2>3 DEF Alike
  <2>5. y \in 1..n /\ y \in Nat
    BY <1>1, <2>3, <2>4 DEF Hole
  <2>6. a[k + 1] = LoweredOnce([heap |-> g, hole |-> y - 1], e)
    BY <1>2, <2>2, <2>3
  <2>7. \/ FitsAbove(g, y, e) /\ a[k + 1] = [heap |-> g, hole |-> y - 1]
        \/ \E g1, y1 : /\ a[k + 1] = [heap |-> g1, hole |-> y1 - 1]
                       /\ y1 \in (y + 1)..n /\ ~FitsAbove(g, y, e)
                       /\ Hole(g1, y1, e, S) /\ FitsBelow(g1, y1, e) /\ Alike(g, g1, E, S)
    BY <2>3, <2>4, <2>6, LowerRound
  <2>8. CASE FitsAbove(g, y, e) /\ a[k + 1] = [heap |-> g, hole |-> y - 1]
    <3>1. At(k + 1, g, y)
      BY <2>3, <2>8
    <3> HIDE DEF At
    <3>2. QED BY <3>1
  <2>9. ASSUME NEW g1, NEW y1, a[k + 1] = [heap |-> g1, hole |-> y1 - 1],
               y1 \in (y + 1)..n, ~FitsAbove(g, y, e),
               Hole(g1, y1, e, S), FitsBelow(g1, y1, e), Alike(g, g1, E, S)
        PROVE  At(k + 1, g1, y1)
    <3>1. Alike(h, g1, E, S)
      BY <2>3, <2>9, AlikeTwice
    <3>2. y1 >= x + (k + 1)
      <4>1. y >= x + k
        BY <2>3, <2>9
      <4>2. QED BY <1>1, <2>5, <2>9, <4>1
    <3>3. QED BY <2>9, <3>1, <3>2
  <2> HIDE DEF At
  <2>10. QED BY <2>7, <2>8, <2>9
<1>5. PICK g, y : At(n, g, y)
  <2> HIDE DEF At
  <2>1. Nat \subseteq K
    <3> HIDE DEF K
    <3>1. QED BY <1>3, <1>4, Climb
  <2>2. n \in K
    BY <1>1, <2>1
  <2>3. QED BY <1>1, <2>2
<1>6. FitsAbove(g, y, e)
  <2>1. y \in Nat /\ y <= n
    BY <1>1, <1>5 DEF Hole, Alike
  <2>2. FitsAbove(g, y, e) \/ y >= x + n
    BY <1>5
  <2>3. QED BY <1>1, <2>1, <2>2
<1>7. Sound(Placed(g, y - 1, e), h, E, S \cup {e})
  BY <1>5, <1>6, FilledIn
<1>8. a[n].heap = g /\ a[n].hole = y - 1
  BY <1>5
<1>9. QED BY <1>2, <1>7, <1>8

-----------------------------------------------------------------------------
(* What push, erase and pop do.                                            *)

\* A heap that holds the timers S.
Holds(h, E, S) ==
    h \in HeapType(E) /\ HeapSound(h) /\ S \subseteq E /\ Range(h.pool) = S

LEMMA EmptyHolds ==
    ASSUME NEW E, NEW idx \in Int
    PROVE  Holds(MinHeapCtor(E, idx), E, {})
<1> DEFINE h == MinHeapCtor(E, idx)
<1>1. h.pool = <<>> /\ h \in HeapType(E)
  BY DEF MinHeapCtor, HeapType
<1> HIDE DEF h
<1>2. Len(h.pool) = 0 /\ DOMAIN h.pool = {} /\ Range(h.pool) = {}
  BY <1>1 DEF Range
<1>3. HeapSound(h)
  BY <1>2 DEF HeapSound, IsInjective
<1>4. QED BY <1>1, <1>2, <1>3 DEF h, Holds

LEMMA HeldIs ==
    ASSUME NEW E, NEW S, NEW h, Holds(h, E, S)
    PROVE  /\ h.pool \in Seq(E) /\ Len(h.pool) \in Nat /\ DOMAIN h.pool = 1..Len(h.pool)
           /\ h.due \in [E -> Nat] /\ h.idx \in [E -> Int]
           /\ \A i \in 1..Len(h.pool) : /\ h.pool[i] \in S /\ h.pool[i] \in E
                                        /\ h.idx[h.pool[i]] = i - 1 /\ Due0(h, i) \in Nat
           /\ \A f \in S : \E i \in 1..Len(h.pool) : h.pool[i] = f
           /\ \A i, j \in 1..Len(h.pool) : h.pool[i] = h.pool[j] => i = j
           /\ \A i \in 1..Len(h.pool) : i >= 2 => Due0(h, Above(i)) <= Due0(h, i)
<1> DEFINE n == Len(h.pool)
<1>1. h.pool \in Seq(E) /\ h.due \in [E -> Nat] /\ h.idx \in [E -> Int]
  BY DEF Holds, HeapType
<1>2. n \in Nat /\ DOMAIN h.pool = 1..n
  BY <1>1, LenProperties
<1>3. Range(h.pool) = {h.pool[i] : i \in 1..n} /\ Range(h.pool) = S /\ S \subseteq E
  BY <1>2 DEF Holds, Range
<1>4. \A i \in 1..n : h.pool[i] \in S /\ h.pool[i] \in E /\ h.idx[h.pool[i]] = i - 1
  BY <1>2, <1>3 DEF Holds, HeapSound
<1>5. \A i \in 1..n : Due0(h, i) \in Nat
  BY <1>1, <1>4 DEF Due0
<1>6. \A f \in S : \E i \in 1..n : h.pool[i] = f
  BY <1>3
<1>7. \A i, j \in 1..n : h.pool[i] = h.pool[j] => i = j
  BY <1>4
<1>8. \A i \in 1..n : i >= 2 => Due0(h, Above(i)) <= Due0(h, i)
  <2>1. \A i \in 2..n : h.due[h.pool[i \div 2]] <= h.due[h.pool[i]]
    BY DEF Holds, HeapSound
  <2>2. \A i \in 1..n : i >= 2 => i \in 2..n
    BY <1>2
  <2>3. QED BY <2>1, <2>2 DEF Due0, Above
<1>9. QED BY <1>1, <1>2, <1>4, <1>5, <1>6, <1>7, <1>8

\* A timer is pushed; the others keep their ends, and those outside their index.
LEMMA PushKeeps ==
    ASSUME NEW E, NEW S, NEW h, Holds(h, E, S), NEW e \in E \ S, NEW d, d \in Nat
    PROVE  LET g == MinHeapPush(h, e, d)
           IN  /\ Holds(g, E, S \cup {e}) /\ g.due = [h.due EXCEPT ![e] = d]
               /\ \A f \in E \ (S \cup {e}) : g.idx[f] = h.idx[f]
<1> DEFINE n == Len(h.pool)
           k == [h EXCEPT !.due[e] = d, !.pool = Append(@, e)]
           g == MinHeapPush(h, e, d)
<1>1. /\ h.pool \in Seq(E) /\ n \in Nat /\ h.due \in [E -> Nat] /\ h.idx \in [E -> Int]
      /\ \A i \in 1..n : /\ h.pool[i] \in S /\ h.pool[i] \in E
                         /\ h.idx[h.pool[i]] = i - 1 /\ Due0(h, i) \in Nat
      /\ \A f \in S : \E i \in 1..n : h.pool[i] = f
      /\ \A i \in 1..n : i >= 2 => Due0(h, Above(i)) <= Due0(h, i)
  BY HeldIs
<1>2. S \in SUBSET E /\ h \in HeapType(E)
  BY DEF Holds
<1>3. /\ k.pool = Append(h.pool, e) /\ k.due = [h.due EXCEPT ![e] = d] /\ k.idx = h.idx
      /\ k = [pool |-> Append(h.pool, e), idx |-> h.idx, due |-> [h.due EXCEPT ![e] = d]]
  <2>1. h = [pool |-> h.pool, idx |-> h.idx, due |-> h.due]
    BY <1>2 DEF HeapType
  <2> DEFINE p == h.pool
             q == h.idx
             r == h.due
  <2>2. h = [pool |-> p, idx |-> q, due |-> r]
    BY <2>1
  <2>3. k = [h EXCEPT !.due = [r EXCEPT ![e] = d], !.pool = Append(p, e)]
    OBVIOUS
  <2> HIDE DEF p, q, r
  <2>4. k = [pool |-> Append(p, e), idx |-> q, due |-> [r EXCEPT ![e] = d]]
    <3> HIDE DEF k
    <3>1. QED BY <2>2, <2>3
  <2> HIDE DEF k
  <2>5. k.pool = Append(p, e) /\ k.due = [r EXCEPT ![e] = d] /\ k.idx = q
    BY <2>4
  <2>6. QED BY <2>4, <2>5 DEF p, q, r
<1>4. g = ShiftUp(k, n, e)
  BY DEF MinHeapPush
<1> HIDE DEF k, g
<1>5. /\ Append(h.pool, e) \in Seq(E) /\ Len(Append(h.pool, e)) = n + 1
      /\ \A i \in 1..n : Append(h.pool, e)[i] = h.pool[i]
  BY <1>1, AppendProperties
<1>6. k.due \in [E -> Nat] /\ \A f \in E \ {e} : k.due[f] = h.due[f]
  BY <1>1, <1>3
<1>7. k \in HeapType(E) /\ Len(k.pool) = n + 1
  BY <1>1, <1>3, <1>5, <1>6 DEF HeapType
<1>8. Others(k, n + 1) = 1..n
  BY <1>1, <1>7, SMTT(30) DEF Others
<1>9. \A i \in 1..n : k.pool[i] = h.pool[i] /\ Due0(k, i) = Due0(h, i)
  <2>1. SUFFICES ASSUME NEW i \in 1..n PROVE k.pool[i] = h.pool[i] /\ Due0(k, i) = Due0(h, i)
    OBVIOUS
  <2>2. k.pool[i] = h.pool[i] /\ h.pool[i] \in E \ {e}
    BY <1>1, <1>3, <1>5
  <2>3. QED BY <1>6, <2>2 DEF Due0
<1>10. \A i \in 1..n : Above(i) # n + 1 /\ (i >= 2 => Above(i) \in 1..n)
  <2>1. SUFFICES ASSUME NEW i \in 1..n PROVE Above(i) # n + 1 /\ (i >= 2 => Above(i) \in 1..n)
    OBVIOUS
  <2>2. i \in Nat
    BY <1>1
  <2>3. Above(i) \in Nat /\ (i = 2 * Above(i) \/ i = 2 * Above(i) + 1)
    BY <2>2, AboveIs
  <2>4. i >= 2 => Above(i) >= 1 /\ Above(i) < i
    BY <2>2, AboveIs
  <2>5. QED BY <1>1, <2>2, <2>3, <2>4
<1>11. Hole(k, n + 1, e, S)
  <2>1. n + 1 \in 1..Len(k.pool)
    BY <1>1, <1>7
  <2>2. \A i \in 1..n : k.pool[i] \in S /\ k.idx[k.pool[i]] = i - 1
    BY <1>1, <1>3, <1>9
  <2>3. \A f \in S : \E i \in 1..n : k.pool[i] = f
    BY <1>1, <1>9
  <2>4. \A i \in 1..n : i >= 2 => Due0(k, Above(i)) <= Due0(k, i)
    BY <1>1, <1>9, <1>10
  <2>5. QED BY <1>8, <1>10, <2>1, <2>2, <2>3, <2>4 DEF Hole
<1>12. FitsAbove(k, n + 1, e)
  BY <1>8, <1>10 DEF FitsAbove
<1>13. (n + 1) - 1 = n
  BY <1>1
<1>14. Sound(g, k, E, S \cup {e})
  <2>1. Sound(ShiftUp(k, (n + 1) - 1, e), k, E, S \cup {e})
    <3> DEFINE x == n + 1
    <3>1. Hole(k, x, e, S) /\ FitsAbove(k, x, e)
      BY <1>11, <1>12
    <3> HIDE DEF x
    <3>2. Sound(ShiftUp(k, x - 1, e), k, E, S \cup {e})
      BY <1>2, <1>7, <3>1, RaiseEnds
    <3>3. QED BY <3>2 DEF x
  <2> HIDE DEF n
  <2>2. QED BY <1>4, <1>13, <2>1
<1>15. Holds(g, E, S \cup {e}) /\ g.due = [h.due EXCEPT ![e] = d]
       /\ \A f \in E \ (S \cup {e}) : g.idx[f] = h.idx[f]
  BY <1>2, <1>3, <1>14 DEF Sound, Holds
<1>16. QED BY <1>15 DEF g

\* e has been put into the heap, due at d.
With(g, h, E, S, e, d) ==
    /\ Holds(g, E, S \cup {e})
    /\ g.due[e] = d /\ \A f \in E \ {e} : g.due[f] = h.due[f]
    /\ \A f \in E \ (S \cup {e}) : g.idx[f] = h.idx[f]

LEMMA Pushed ==
    ASSUME NEW E, NEW S, NEW h, Holds(h, E, S), NEW e \in E \ S, NEW d, d \in Nat
    PROVE  With(MinHeapPush(h, e, d), h, E, S, e, d)
<1> DEFINE g == MinHeapPush(h, e, d)
<1>1. /\ Holds(g, E, S \cup {e}) /\ g.due = [h.due EXCEPT ![e] = d]
      /\ \A f \in E \ (S \cup {e}) : g.idx[f] = h.idx[f]
  <2>1. e \in E \ S /\ d \in Nat /\ Holds(h, E, S)
    OBVIOUS
  <2>2. QED BY <2>1, PushKeeps
<1>2. h.due \in [E -> Nat]
  BY HeldIs
<1> HIDE DEF g
<1>3. g.due[e] = d /\ \A f \in E \ {e} : g.due[f] = h.due[f]
  BY <1>1, <1>2
<1>4. With(g, h, E, S, e, d)
  BY <1>1, <1>3 DEF With
<1>5. QED BY <1>4 DEF g

\* A hole that has nothing below it stays.
LEMMA StaysDown ==
    ASSUME NEW h, NEW hole \in Nat, NEW e, Len(h.pool) \in Nat, hole >= Len(h.pool)
    PROVE  ShiftDown(h, hole, e) = Placed(h, hole, e)
<1> DEFINE n == Len(h.pool)
           a == After("down", h, hole, e)
           start == [heap |-> h, hole |-> hole]
           K == {k \in Nat : k <= n => a[k] = start}
<1>1. /\ a[0] = start
      /\ \A k \in 1..n : a[k] = Round("down", a[k - 1], e)
  BY AfterIs
<1>2. ShiftDown(h, hole, e) = Placed(a[n].heap, a[n].hole, e)
  BY ShiftsAre
<1>3. Round("down", start, e) = start
  <2>1. start.heap = h /\ start.hole = hole /\ ~(2 * (hole + 1) <= n)
    OBVIOUS
  <2>2. LoweredOnce(start, e) = start
    BY <2>1 DEF LoweredOnce
  <2>3. QED BY <2>2 DEF Round
<1> HIDE DEF a
<1>4. 0 \in K
  BY <1>1
<1>5. ASSUME NEW k \in Nat, k \in K PROVE k + 1 \in K
  <2>1. SUFFICES ASSUME k + 1 <= n PROVE a[k + 1] = start
    BY <1>5
  <2>2. k + 1 \in 1..n /\ (k + 1) - 1 = k /\ a[k] = start
    BY <1>5, <2>1
  <2> HIDE DEF start
  <2>3. QED BY <1>1, <1>3, <2>2
<1>6. a[n] = start
  <2>1. Nat \subseteq K
    <3> HIDE DEF K
    <3>1. QED BY <1>4, <1>5, Climb
  <2>2. n \in K
    BY <2>1
  <2>3. QED BY <2>2
<1>7. QED BY <1>2, <1>6

\* The array without its last place.
LEMMA FewerIs ==
    ASSUME NEW E, NEW S, NEW h, Holds(h, E, S), S # {}
    PROVE  LET g == [h EXCEPT !.pool = Front(@)]
               n == Len(h.pool)
           IN  /\ n >= 1 /\ Last(h.pool) = h.pool[n]
               /\ g \in HeapType(E) /\ Len(g.pool) = n - 1 /\ g.due = h.due /\ g.idx = h.idx
               /\ \A i \in 1..(n - 1) : g.pool[i] = h.pool[i] /\ Due0(g, i) = Due0(h, i)
<1> DEFINE n == Len(h.pool)
           g == [h EXCEPT !.pool = Front(@)]
<1>1. /\ h.pool \in Seq(E) /\ n \in Nat /\ h.due \in [E -> Nat] /\ h.idx \in [E -> Int]
      /\ \A i \in 1..n : h.pool[i] \in E
      /\ \A f \in S : \E i \in 1..n : h.pool[i] = f
  BY HeldIs
<1>2. n >= 1
  BY <1>1
<1>3. /\ Front(h.pool) \in Seq(E) /\ Len(Front(h.pool)) = n - 1
      /\ \A i \in 1..(n - 1) : Front(h.pool)[i] = h.pool[i]
  <2>1. \A i \in 1..(n - 1) : h.pool[i] \in E
    BY <1>1
  <2> DEFINE m == n - 1
  <2>2. m \in Int /\ (1 <= m => m - 1 + 1 = n - 1) /\ (~(1 <= m) => n - 1 = 0) /\ m - 1 + 1 = m
    <3>1. n \in Nat /\ n >= 1
      BY <1>1, <1>2
    <3> HIDE DEF n
    <3>2. QED BY <3>1
  <2>3. /\ SubSeq(h.pool, 1, m) \in Seq(E)
        /\ Len(SubSeq(h.pool, 1, m)) = IF 1 <= m THEN m - 1 + 1 ELSE 0
        /\ \A i \in 1..(m - 1 + 1) : SubSeq(h.pool, 1, m)[i] = h.pool[1 + i - 1]
    <3> HIDE DEF m
    <3>1. QED BY <2>1, <2>2, SubSeqProperties DEF m
  <2>4. \A i \in 1..m : 1 + i - 1 = i
    BY <1>1
  <2>5. Front(h.pool) = SubSeq(h.pool, 1, m)
    BY DEF Front
  <2>6. QED BY <2>2, <2>3, <2>4, <2>5
<1>4. h = [pool |-> h.pool, idx |-> h.idx, due |-> h.due]
  BY DEF Holds, HeapType
<1>5. g = [pool |-> Front(h.pool), idx |-> h.idx, due |-> h.due]
  <2> DEFINE p == h.pool
             q == h.idx
             r == h.due
  <2>1. h = [pool |-> p, idx |-> q, due |-> r] /\ g = [h EXCEPT !.pool = Front(p)]
    BY <1>4
  <2> HIDE DEF p, q, r, g
  <2>2. g = [pool |-> Front(p), idx |-> q, due |-> r]
    BY <2>1
  <2>3. QED BY <2>2 DEF p, q, r
<1> HIDE DEF g
<1>6. g.pool = Front(h.pool) /\ g.idx = h.idx /\ g.due = h.due /\ g \in HeapType(E)
  BY <1>1, <1>3, <1>5 DEF HeapType
<1>7. \A i \in 1..(n - 1) : g.pool[i] = h.pool[i] /\ Due0(g, i) = Due0(h, i)
  BY <1>3, <1>6 DEF Due0
<1>8. Last(h.pool) = h.pool[n]
  BY DEF Last
<1>9. QED BY <1>2, <1>3, <1>6, <1>7, <1>8 DEF g

\* e has been taken out of the heap and told so.
Without(g, h, E, S, e) ==
    /\ Holds(g, E, S \ {e}) /\ g.due = h.due /\ g.idx[e] = NotInHeap
    /\ \A f \in E \ S : g.idx[f] = h.idx[f]

LEMMA Forgotten ==
    ASSUME NEW E, NEW S \in SUBSET E, NEW e \in S, NEW h, NEW k, Sound(k, h, E, S \ {e})
    PROVE  Without([k EXCEPT !.idx[e] = NotInHeap], h, E, S, e)
<1> DEFINE g == [k EXCEPT !.idx[e] = NotInHeap]
           p == k.pool
           q == k.idx
           r == k.due
<1>1. /\ k \in HeapType(E) /\ HeapSound(k) /\ Range(k.pool) = S \ {e} /\ k.due = h.due
      /\ \A f \in E \ S : k.idx[f] = h.idx[f]
  BY DEF Sound
<1>2. k = [pool |-> p, idx |-> q, due |-> r] /\ p \in Seq(E) /\ q \in [E -> Int] /\ r \in [E -> Nat]
  BY <1>1 DEF HeapType
<1>3. g = [k EXCEPT !.idx = [q EXCEPT ![e] = NotInHeap]]
  OBVIOUS
<1> HIDE DEF p, q, r, g
<1>4. g = [pool |-> p, idx |-> [q EXCEPT ![e] = NotInHeap], due |-> r]
  BY <1>2, <1>3
<1>5. g.pool = k.pool /\ g.due = k.due /\ g.idx = [q EXCEPT ![e] = NotInHeap]
  BY <1>4 DEF p, r
<1>6. g.idx \in [E -> Int] /\ g.idx[e] = NotInHeap /\ \A f \in E \ {e} : g.idx[f] = k.idx[f]
  BY <1>2, <1>5 DEF NotInHeap, q
<1>7. g \in HeapType(E)
  BY <1>2, <1>4, <1>5, <1>6 DEF HeapType
<1>8. HeapSound(g)
  <2>1. \A i \in DOMAIN k.pool : k.pool[i] \in E \ {e}
    BY <1>1 DEF Range
  <2>2. \A i \in DOMAIN g.pool : g.idx[g.pool[i]] = i - 1
    BY <1>1, <1>5, <1>6, <2>1 DEF HeapSound
  <2>3. QED BY <1>1, <1>5, <2>2 DEF HeapSound
<1>9. QED BY <1>1, <1>5, <1>6, <1>7, <1>8 DEF g, Without, Holds

\* A timer is erased: the last one takes its place and goes up or down from it.
LEMMA EraseKeeps ==
    ASSUME NEW E, NEW S, NEW h, Holds(h, E, S), NEW e \in S
    PROVE  Without(Erased(h, e), h, E, S, e)
<1> DEFINE n == Len(h.pool)
           x == h.idx[e] + 1
           last == Last(h.pool)
           k == [h EXCEPT !.pool = Front(@)]
<1>1. /\ h.pool \in Seq(E) /\ n \in Nat
      /\ h.due \in [E -> Nat] /\ h.idx \in [E -> Int]
      /\ \A i \in 1..n : /\ h.pool[i] \in S /\ h.pool[i] \in E
                         /\ h.idx[h.pool[i]] = i - 1 /\ Due0(h, i) \in Nat
      /\ \A f \in S : \E i \in 1..n : h.pool[i] = f
      /\ \A i, j \in 1..n : h.pool[i] = h.pool[j] => i = j
      /\ \A i \in 1..n : i >= 2 => Due0(h, Above(i)) <= Due0(h, i)
  BY HeldIs
<1>2. /\ n >= 1 /\ last = h.pool[n]
      /\ k \in HeapType(E) /\ Len(k.pool) = n - 1 /\ k.due = h.due /\ k.idx = h.idx
      /\ \A i \in 1..(n - 1) : k.pool[i] = h.pool[i] /\ Due0(k, i) = Due0(h, i)
  BY FewerIs
<1>3. h.pool[x] = e /\ x \in 1..n /\ x \in Nat /\ h.idx[e] = x - 1
  <2>1. PICK i \in 1..n : h.pool[i] = e
    BY <1>1
  <2>2. h.idx[e] = i - 1 /\ i \in Nat
    BY <1>1, <2>1
  <2>3. x = i
    BY <2>2
  <2>4. QED BY <1>1, <2>1, <2>2, <2>3
<1>same. \A i, j \in 1..n : h.pool[i] = h.pool[j] => i = j
  BY <1>1
<1>n. n \in Nat /\ n >= 1 /\ n \in 1..n
  BY <1>1, <1>2
<1>4. S \in SUBSET E /\ e \in E /\ last \in S /\ last \in E
  <2>1. S \subseteq E
    BY DEF Holds
  <2>2. h.pool[n] \in S
    BY <1>1, <1>n
  <2> HIDE DEF last
  <2>3. QED BY <1>2, <2>1, <2>2
<1>5. Erased(h, e) =
        [(IF x - 1 > 0 /\ h.due[h.pool[(x - 1 - 1) \div 2 + 1]] > h.due[last]
          THEN ShiftUp(k, x - 1, last) ELSE ShiftDown(k, x - 1, last)) EXCEPT !.idx[e] = NotInHeap]
  BY <1>3 DEF Erased
<1>6. (x - 1 - 1) \div 2 + 1 = Above(x) /\ (x >= 2 => Above(x) \in 1..n /\ Above(x) < x)
  <2> HIDE DEF x
  <2>1. x - 1 - 1 = x - 2
    BY <1>3
  <2>2. (x - 2) \div 2 + 1 = Above(x) /\ Above(x) \in Nat /\ (x >= 2 => Above(x) >= 1 /\ Above(x) < x)
    BY <1>1, <1>3, AboveIs
  <2>3. QED BY <1>1, <1>3, <2>1, <2>2
<1> HIDE DEF x, k, last
<1> DEFINE up == x >= 2 /\ Due0(h, Above(x)) > h.due[last]
           moved == IF up THEN ShiftUp(k, x - 1, last) ELSE ShiftDown(k, x - 1, last)
<1>7. Erased(h, e) = [moved EXCEPT !.idx[e] = NotInHeap]
  <2>1. up <=> x - 1 > 0 /\ h.due[h.pool[(x - 1 - 1) \div 2 + 1]] > h.due[last]
    BY <1>3, <1>6 DEF Due0
  <2>2. QED BY <1>5, <2>1
<1>8. CASE x = n
  <2>1. last = e /\ Due0(h, x) = h.due[last]
    BY <1>2, <1>3, <1>8 DEF Due0
  <2>2. ~up
    <3>1. x >= 2 => Above(x) \in 1..n /\ Due0(h, Above(x)) <= Due0(h, x)
      BY <1>1, <1>3, <1>6
    <3>2. x >= 2 => Due0(h, Above(x)) \in Nat /\ Due0(h, x) \in Nat
      BY <1>1, <1>3, <3>1
    <3>3. QED BY <2>1, <3>1, <3>2
  <2>3. moved = Placed(k, x - 1, last)
    <3>1. x - 1 \in Nat /\ Len(k.pool) \in Nat /\ x - 1 >= Len(k.pool)
      BY <1>1, <1>2, <1>3, <1>8
    <3>2. ShiftDown(k, x - 1, last) = Placed(k, x - 1, last)
      BY <3>1, StaysDown
    <3>3. QED BY <2>2, <3>2
  <2> DEFINE p == k.pool
             q == k.idx
             r == k.due
  <2>4. k = [pool |-> p, idx |-> q, due |-> r] /\ p \in Seq(E) /\ q \in [E -> Int] /\ r \in [E -> Nat]
    BY <1>2 DEF HeapType
  <2>5. Placed(k, x - 1, last) = [pool |-> p, idx |-> [q EXCEPT ![e] = x - 1], due |-> r]
    <3>1. ~(x - 1 < Len(p))
      BY <1>1, <1>2, <1>3, <1>8
    <3>2. Placed(k, x - 1, e) = [k EXCEPT !.idx = [q EXCEPT ![e] = x - 1], !.pool = p]
      BY <3>1 DEF Placed
    <3> HIDE DEF p, q, r
    <3>3. QED BY <2>1, <2>4, <3>2
  <2>6. moved.pool = p /\ moved.idx = [q EXCEPT ![e] = x - 1] /\ moved.due = r
    <3>1. moved = [pool |-> p, idx |-> [q EXCEPT ![e] = x - 1], due |-> r]
      <4> HIDE DEF moved, p, q, r
      <4>1. QED BY <2>3, <2>5
    <3> HIDE DEF p, q, r, moved
    <3>2. QED BY <3>1
  <2>7. moved \in HeapType(E)
    <3>1. [q EXCEPT ![e] = x - 1] \in [E -> Int]
      BY <1>3, <1>4, <2>4
    <3> HIDE DEF p, q, r, moved
    <3>2. QED BY <2>3, <2>4, <2>5, <3>1 DEF HeapType
  <2> HIDE DEF moved
  <2>8. DOMAIN moved.pool = 1..(n - 1) /\ Len(moved.pool) = n - 1
        /\ \A i \in 1..(n - 1) : moved.pool[i] = h.pool[i] /\ h.pool[i] # e /\ i \in 1..n
    <3>1. Len(moved.pool) = n - 1 /\ DOMAIN moved.pool = 1..(n - 1)
      BY <1>2, <2>4, <2>6, LenProperties
    <3>2. \A i \in 1..(n - 1) : moved.pool[i] = h.pool[i]
      BY <1>2, <2>6
    <3>3. \A i \in 1..(n - 1) : i \in 1..n /\ i # x
      BY <1>1, <1>8
    <3>4. \A i \in 1..(n - 1) : h.pool[i] # e
      BY <1>1, <1>3, <3>3
    <3>5. QED BY <3>1, <3>2, <3>3, <3>4
  <2>9. \A i \in 1..(n - 1) : moved.idx[moved.pool[i]] = i - 1
    <3>1. \A f \in E \ {e} : moved.idx[f] = h.idx[f]
      BY <1>2, <2>4, <2>6
    <3>2. QED BY <1>1, <2>8, <3>1
  <2>10. HeapSound(moved)
    <3>1. IsInjective(moved.pool)
      BY <1>1, <2>8 DEF IsInjective
    <3>2. \A i \in 2..(n - 1) : moved.due[moved.pool[i \div 2]] <= moved.due[moved.pool[i]]
      <4>1. SUFFICES ASSUME NEW i \in 2..(n - 1)
                     PROVE  moved.due[moved.pool[Above(i)]] <= moved.due[moved.pool[i]]
        BY DEF Above
      <4>2. i \in Nat /\ i >= 2 /\ i \in 1..n /\ i \in 1..(n - 1)
        BY <1>1
      <4>3. Above(i) \in Nat /\ Above(i) >= 1 /\ Above(i) < i
        BY <4>2, AboveIs
      <4>4. Above(i) \in 1..(n - 1)
        BY <1>1, <4>2, <4>3
      <4>5. Due0(h, Above(i)) <= Due0(h, i)
        BY <1>1, <4>2
      <4>6. moved.due = h.due /\ moved.pool[i] = h.pool[i] /\ moved.pool[Above(i)] = h.pool[Above(i)]
        BY <1>2, <2>6, <2>8, <4>2, <4>4
      <4>7. QED BY <4>5, <4>6 DEF Due0
    <3>3. QED BY <2>8, <2>9, <3>1, <3>2 DEF HeapSound
  <2>11. Range(moved.pool) = S \ {e}
    <3>1. ASSUME NEW f \in S \ {e} PROVE \E i \in 1..(n - 1) : h.pool[i] = f
      <4>1. PICK i \in 1..n : h.pool[i] = f
        BY <1>1
      <4>2. i # x
        BY <1>3, <3>1, <4>1
      <4>3. i \in 1..(n - 1)
        BY <1>1, <1>8, <4>2
      <4>4. QED BY <4>1, <4>3
    <3>2. \A i \in 1..(n - 1) : h.pool[i] \in S \ {e}
      BY <1>1, <2>8
    <3>3. Range(moved.pool) = {h.pool[i] : i \in 1..(n - 1)}
      BY <2>8 DEF Range
    <3>4. QED BY <3>1, <3>2, <3>3
  <2>12. \A f \in E \ (S \ {e}) : f # e => moved.idx[f] = h.idx[f]
    BY <1>2, <2>4, <2>6
  <2>13. Sound(moved, [h EXCEPT !.idx = moved.idx], E, S \ {e})
    <3>1. [h EXCEPT !.idx = moved.idx].idx = moved.idx /\ [h EXCEPT !.idx = moved.idx].due = h.due
      BY DEF Holds, HeapType
    <3>2. moved.due = h.due
      BY <1>2, <2>6
    <3>3. QED BY <2>7, <2>10, <2>11, <3>1, <3>2 DEF Sound
  <2>14. Without(Erased(h, e), [h EXCEPT !.idx = moved.idx], E, S, e)
    BY <1>4, <1>7, <2>13, Forgotten
  <2>15. [h EXCEPT !.idx = moved.idx].idx = moved.idx /\ [h EXCEPT !.idx = moved.idx].due = h.due
    BY DEF Holds, HeapType
  <2>16. QED BY <2>12, <2>14, <2>15 DEF Without
<1>9. CASE x # n
  <2> DEFINE T == S \ {e, last}
             m == n - 1
  <2>1. T \in SUBSET E /\ last \notin T /\ T \cup {last} = S \ {e} /\ last # e
    <3>1. last # e
      BY <1>same, <1>n, <1>2, <1>3, <1>9
    <3>2. QED BY <1>4, <3>1
  <2>2. x \in 1..m /\ m \in Nat /\ \A i \in 1..m : i \in 1..n /\ i \in Nat /\ i # n
    <3>1. x \in 1..n
      BY <1>3
    <3> HIDE DEF n
    <3>2. QED BY <1>n, <3>1, <1>9
  <2>3. Others(k, x) = 1..m \ {x}
    BY <1>2 DEF Others
  <2>4. \A i \in 1..m : i >= 2 => Above(i) \in 1..m /\ Above(i) \in 1..n /\ Above(i) < i
    <3>1. SUFFICES ASSUME NEW i \in 1..m, i >= 2
                   PROVE  Above(i) \in 1..m /\ Above(i) \in 1..n /\ Above(i) < i
      OBVIOUS
    <3>2. i \in Nat
      BY <2>2
    <3>3. Above(i) \in Nat /\ Above(i) >= 1 /\ Above(i) < i
      BY <3>1, <3>2, AboveIs
    <3>4. Above(i) \in 1..m
      BY <2>2, <3>2, <3>3
    <3>5. QED BY <2>2, <3>3, <3>4
  <2>5. \A i \in 1..m : i >= 2 => Due0(k, Above(i)) <= Due0(k, i)
    BY <1>1, <1>2, <2>2, <2>4
  <2>6. Hole(k, x, last, T)
    <3>1. x \in 1..Len(k.pool)
      BY <1>2, <2>2
    <3>2. \A i \in 1..m \ {x} : k.pool[i] \in T /\ k.idx[k.pool[i]] = i - 1
      <4>1. SUFFICES ASSUME NEW i \in 1..m \ {x} PROVE k.pool[i] \in T /\ k.idx[k.pool[i]] = i - 1
        OBVIOUS
      <4>2. k.pool[i] = h.pool[i] /\ i \in 1..n /\ i # n /\ i # x
        BY <1>2, <2>2
      <4>3. h.pool[i] # e /\ h.pool[i] # last
        BY <1>same, <1>n, <1>2, <1>3, <4>2
      <4>4. QED BY <1>1, <1>2, <4>2, <4>3
    <3>3. \A f \in T : \E i \in 1..m \ {x} : k.pool[i] = f
      <4>1. SUFFICES ASSUME NEW f \in T PROVE \E i \in 1..m \ {x} : k.pool[i] = f
        OBVIOUS
      <4>2. PICK i \in 1..n : h.pool[i] = f
        BY <1>1
      <4>3. i # x /\ i # n
        BY <1>2, <1>3, <4>2
      <4>4. i \in 1..m
        BY <1>1, <4>3
      <4>5. k.pool[i] = f
        BY <1>2, <4>2, <4>4
      <4>6. QED BY <4>3, <4>4, <4>5
    <3>4. \A i \in 1..m \ {x} : Above(i) = x /\ x >= 2 => Due0(k, Above(x)) <= Due0(k, i)
      <4>1. SUFFICES ASSUME NEW i \in 1..m \ {x}, Above(i) = x, x >= 2
                     PROVE  Due0(k, Above(x)) <= Due0(k, i)
        OBVIOUS
      <4>2. i >= 2
        <5>1. i \in Nat /\ i >= 1
          BY <2>2
        <5>2. i = 2 * x \/ i = 2 * x + 1
          BY <4>1, <5>1, AboveIs
        <5>3. QED BY <1>3, <4>1, <5>1, <5>2
      <4>3. Due0(k, x) <= Due0(k, i) /\ Due0(k, Above(x)) <= Due0(k, x)
        BY <2>2, <2>5, <4>1, <4>2
      <4>4. Due0(k, x) \in Nat /\ Due0(k, i) \in Nat /\ Due0(k, Above(x)) \in Nat
        BY <1>1, <1>2, <2>2, <2>4, <4>1
      <4>5. QED BY <4>3, <4>4
    <3>5. \A i \in 1..m \ {x} : i >= 2 /\ Above(i) # x => Due0(k, Above(i)) <= Due0(k, i)
      BY <2>5
    <3> HIDE DEF T, m
    <3>6. QED BY <2>1, <2>3, <3>1, <3>2, <3>3, <3>4, <3>5 DEF Hole
  <2>7. x >= 2 => Due0(k, Above(x)) = Due0(h, Above(x)) /\ Due0(h, Above(x)) \in Nat
    BY <1>1, <1>2, <2>2, <2>4
  <2>8. k.due[last] \in Nat /\ k.due = h.due
    BY <1>1, <1>2, <1>4
  <2>9. Sound(moved, k, E, S \ {e})
    <3>1. CASE up
      <4>1. FitsAbove(k, x, last)
        <5>1. SUFFICES ASSUME NEW i \in 1..m \ {x}, Above(i) = x PROVE k.due[last] <= Due0(k, i)
          BY <2>3 DEF FitsAbove
        <5>2. i >= 2 /\ x >= 2
          <6>1. i \in Nat /\ i >= 1
            BY <2>2
          <6>2. i = 2 * x \/ i = 2 * x + 1
            BY <5>1, <6>1, AboveIs
          <6>3. QED BY <1>3, <3>1, <6>1, <6>2
        <5>3. Due0(k, x) <= Due0(k, i) /\ Due0(k, Above(x)) <= Due0(k, x)
          BY <2>2, <2>5, <5>1, <5>2
        <5>4. Due0(k, x) \in Nat /\ Due0(k, i) \in Nat
          BY <1>1, <1>2, <2>2
        <5>5. Due0(k, Above(x)) > k.due[last]
          BY <2>7, <2>8, <3>1
        <5>6. QED BY <2>7, <2>8, <5>2, <5>3, <5>4, <5>5
      <4>2. Sound(ShiftUp(k, x - 1, last), k, E, T \cup {last})
        BY <1>2, <1>4, <2>1, <2>6, <4>1, RaiseEnds
      <4>3. QED BY <2>1, <3>1, <4>2
    <3>2. CASE ~up
      <4>1. FitsBelow(k, x, last)
        BY <2>7, <2>8, <3>2 DEF FitsBelow
      <4>2. Sound(ShiftDown(k, x - 1, last), k, E, T \cup {last})
        BY <1>2, <1>4, <2>1, <2>6, <4>1, LowerEnds
      <4>3. QED BY <2>1, <3>2, <4>2
    <3>3. QED BY <3>1, <3>2
  <2> HIDE DEF moved
  <2>10. Without(Erased(h, e), k, E, S, e)
    BY <1>4, <1>7, <2>9, Forgotten
  <2>11. QED BY <1>2, <2>10 DEF Without
<1>10. QED BY <1>8, <1>9

\* min_heap_erase finds the timer: its index is not NotInHeap.
LEMMA EraseFinds ==
    ASSUME NEW E, NEW S, NEW h, Holds(h, E, S), NEW e \in S
    PROVE  /\ h.idx[e] # NotInHeap /\ h.pool # <<>>
           /\ Without(MinHeapErase(h, e), h, E, S, e)
<1>1. PICK i \in 1..Len(h.pool) : h.pool[i] = e
  BY HeldIs
<1>2. h.idx[e] = i - 1 /\ Len(h.pool) \in Nat
  BY <1>1, HeldIs
<1>3. h.idx[e] # NotInHeap
  BY <1>2 DEF NotInHeap
<1>4. h.pool # <<>>
  BY <1>2
<1>5. QED BY <1>3, <1>4, EraseKeeps DEF MinHeapErase

\* To pop is to erase the top.
LEMMA PopKeeps ==
    ASSUME NEW E, NEW S, NEW h, Holds(h, E, S), h.pool # <<>>
    PROVE  /\ MinHeapTop(h) \in S
           /\ Without(MinHeapPop(h), h, E, S, MinHeapTop(h))
<1> DEFINE e == MinHeapTop(h)
<1>1. h.pool \in Seq(E) /\ Len(h.pool) \in Nat
  BY HeldIs
<1>2. 1 \in 1..Len(h.pool)
  <2>1. Len(h.pool) # 0
    BY <1>1, EmptySeq
  <2>2. QED BY <1>1, <2>1
<1>3. e \in S /\ h.idx[e] = 0
  <2>1. h.pool[1] \in S /\ h.idx[h.pool[1]] = 1 - 1
    BY <1>2, HeldIs
  <2>2. QED BY <2>1 DEF MinHeapTop
<1>4. Erased(h, e) = MinHeapPop(h)
  <2>1. ~(0 > 0)
    OBVIOUS
  <2>2. QED BY <1>3, <2>1 DEF Erased, MinHeapPop
<1>5. Without(Erased(h, e), h, E, S, e)
  BY <1>3, EraseKeeps
<1>6. QED BY <1>3, <1>4, <1>5

\* No timer ends before the top.
LEMMA TopIsLeast ==
    ASSUME NEW E, NEW S, NEW h, Holds(h, E, S), NEW f \in S
    PROVE  h.due[MinHeapTop(h)] <= h.due[f]
<1> DEFINE n == Len(h.pool)
           K == {k \in Nat : \A i \in 1..n : i <= k => Due0(h, 1) <= Due0(h, i)}
<1>1. /\ n \in Nat
      /\ \A i \in 1..n : Due0(h, i) \in Nat /\ (i >= 2 => Due0(h, Above(i)) <= Due0(h, i))
      /\ \E i \in 1..n : h.pool[i] = f
  BY HeldIs
<1>2. 1 \in 1..n
  BY <1>1
<1>3. 0 \in K
  BY <1>1
<1>4. ASSUME NEW k \in Nat, k \in K PROVE k + 1 \in K
  <2>1. SUFFICES ASSUME NEW i \in 1..n, i <= k + 1 PROVE Due0(h, 1) <= Due0(h, i)
    OBVIOUS
  <2>2. CASE i <= k
    BY <1>4, <2>2
  <2>3. CASE i = 1
    BY <1>1, <1>2, <2>3
  <2>4. CASE i = k + 1 /\ i # 1
    <3>1. i \in Nat /\ i >= 2
      BY <1>1, <2>1, <2>4
    <3>2. Above(i) \in Nat /\ Above(i) >= 1 /\ Above(i) < i
      BY <3>1, AboveIs
    <3>3. Above(i) \in 1..n /\ Above(i) <= k
      BY <1>1, <2>4, <3>1, <3>2
    <3>4. Due0(h, 1) <= Due0(h, Above(i))
      BY <1>4, <3>3
    <3>5. QED BY <1>1, <1>2, <3>1, <3>3, <3>4
  <2>5. QED BY <1>1, <2>1, <2>2, <2>3, <2>4
<1>5. Nat \subseteq K
  <2> HIDE DEF K
  <2>1. QED BY <1>3, <1>4, Climb
<1>6. PICK i \in 1..n : h.pool[i] = f
  BY <1>1
<1>7. Due0(h, 1) <= Due0(h, i)
  <2>1. i \in K /\ i <= i
    BY <1>1, <1>5
  <2>2. QED BY <2>1
<1>8. QED BY <1>6, <1>7 DEF Due0, MinHeapTop

-----------------------------------------------------------------------------
(* The heap, called in any order.                                          *)

\* The timers in the heap are those whose index says so.
HeapIInv ==
    \E S : /\ Holds(timers, Timer, S)
           /\ \A e \in Timer : e \in S <=> timers.idx[e] # NotInHeap

\* Whatever is pushed, popped and erased, and in whatever order, the heap of
\* minheap.h stays in order, and every timer's index is its place in it.
THEOREM TimersKeepOrder == HeapSpec => []TimersInOrder
<1>1. HeapInit => HeapIInv
  <2>1. NotInHeap \in Int
    BY DEF NotInHeap
  <2>2. \A e \in Timer : MinHeapCtor(Timer, NotInHeap).idx[e] = NotInHeap
    BY DEF MinHeapCtor
  <2>3. Holds(MinHeapCtor(Timer, NotInHeap), Timer, {})
    BY <2>1, EmptyHolds
  <2>4. QED BY <2>2, <2>3 DEF HeapInit, HeapIInv
<1>2. HeapIInv /\ [HeapNext]_timers => HeapIInv'
  <2>1. SUFFICES ASSUME HeapIInv, [HeapNext]_timers PROVE HeapIInv'
    OBVIOUS
  <2>2. PICK S : /\ Holds(timers, Timer, S)
                 /\ \A e \in Timer : e \in S <=> timers.idx[e] # NotInHeap
    BY <2>1 DEF HeapIInv
  <2>3. S \subseteq Timer
    BY <2>2 DEF Holds
  <2>4. ASSUME NEW e \in Timer, timers.idx[e] = NotInHeap, NEW d \in Due,
               timers' = MinHeapPush(timers, e, d)
        PROVE  HeapIInv'
    <3>1. e \in Timer \ S /\ d \in Nat
      BY <2>2, <2>4, TimerAssumption
    <3>2. /\ Holds(timers', Timer, S \cup {e})
          /\ \A f \in Timer \ (S \cup {e}) : timers'.idx[f] = timers.idx[f]
      <4>1. Holds(timers, Timer, S)
        BY <2>2
      <4>2. With(MinHeapPush(timers, e, d), timers, Timer, S, e, d)
        BY <3>1, <4>1, Pushed
      <4>3. With(timers', timers, Timer, S, e, d)
        BY <2>4, <4>2
      <4>4. QED BY <4>3 DEF With
    <3>3. \A f \in S \cup {e} : timers'.idx[f] # NotInHeap
      BY <3>2, EraseFinds
    <3>4. QED BY <2>2, <3>2, <3>3 DEF HeapIInv
  <2>5. ASSUME NEW e \in S, Without(timers', timers, Timer, S, e)
        PROVE  HeapIInv'
    <3>1. /\ Holds(timers', Timer, S \ {e}) /\ timers'.idx[e] = NotInHeap
          /\ \A f \in Timer \ S : timers'.idx[f] = timers.idx[f]
      BY <2>5 DEF Without
    <3>2. \A f \in S \ {e} : timers'.idx[f] # NotInHeap
      BY <3>1, EraseFinds
    <3>3. QED BY <2>2, <3>1, <3>2 DEF HeapIInv
  <2>6. CASE HeapNext
    <3>1. PICK e \in Timer :
            \/ timers.idx[e] = NotInHeap /\ \E d \in Due : timers' = MinHeapPush(timers, e, d)
            \/ timers.idx[e] # NotInHeap /\ timers' = MinHeapErase(timers, e)
            \/ timers.pool # <<>> /\ e = MinHeapTop(timers) /\ timers' = MinHeapPop(timers)
      BY <2>6 DEF HeapNext
    <3>2. CASE timers.idx[e] = NotInHeap /\ \E d \in Due : timers' = MinHeapPush(timers, e, d)
      BY <2>4, <3>2
    <3>3. CASE timers.idx[e] # NotInHeap /\ timers' = MinHeapErase(timers, e)
      BY <2>2, <2>5, <3>3, EraseFinds
    <3>4. CASE timers.pool # <<>> /\ e = MinHeapTop(timers) /\ timers' = MinHeapPop(timers)
      BY <2>2, <2>5, <3>4, PopKeeps
    <3>5. QED BY <3>1, <3>2, <3>3, <3>4
  <2>7. CASE UNCHANGED timers
    BY <2>2, <2>7 DEF HeapIInv
  <2>8. QED BY <2>1, <2>6, <2>7
<1>3. HeapIInv => TimersInOrder
  BY DEF HeapIInv, TimersInOrder, Holds
<1>4. QED BY <1>1, <1>2, <1>3, PTL DEF HeapSpec

-----------------------------------------------------------------------------
(* The event loop.  Nothing is claimed once mishap is set.                 *)

EventSets == SUBSET {"recv", "send", "error", "over"}

Record == [open : BOOLEAN, used : BOOLEAN, fd : Fd \cup {0}, event : EventSets,
           last : Nat, watched : Nat]

\* The clocks: a connection was used, and watched, and the loop cleaned, not later than now.
ClocksRun ==
    /\ conns \in [Conn -> Record]
    /\ now \in Nat /\ cleaned \in Nat /\ cleaned <= now
    /\ \A c \in Conn : conns[c].last <= now /\ conns[c].watched <= now

TimersMatch ==
    /\ Holds(timer, Conn, Open)
    /\ \A c \in Conn \ Open : timer.due[c] = 0 \/ timer.idx[c] = NotInHeap

OnlineCounts == IsFiniteSet(Open) /\ online = Cardinality(Open)

\* A record is used for one connection, and a descriptor for one at a time.
FdsApart ==
    /\ fdOf \in [Fd -> Conn \cup {Unused}]
    /\ \A c \in Open : conns[c].used /\ conns[c].fd \in Fd /\ fdOf[conns[c].fd] = c

Latest(record) == IF record.last > record.watched THEN record.last ELSE record.watched

\* A timer ends no later than the connection has been idle for the timeout.
DueInTime == \A c \in Open : timer.due[c] <= Timeout + Latest(conns[c])

NoneIdle == at # "clean" => \A c \in Open : cleaned < Timeout + Latest(conns[c])

LoopSound ==
    ClocksRun /\ TimersMatch /\ OnlineCounts /\ FdsApart /\ DueInTime /\ NoneIdle

EventIInv == mishap \in BOOLEAN /\ (~mishap => LoopSound)

LEMMA LatestIs ==
    ASSUME NEW r, r.last \in Nat, r.watched \in Nat
    PROVE  Latest(r) \in Nat /\ r.last <= Latest(r) /\ r.watched <= Latest(r)
           /\ Latest(r) \in {r.last, r.watched}
  BY DEF Latest

LEMMA RecordIs ==
    ASSUME NEW r \in Record
    PROVE  /\ r.open \in BOOLEAN /\ r.used \in BOOLEAN /\ r.fd \in Fd \cup {0}
           /\ r.event \in EventSets /\ r.last \in Nat /\ r.watched \in Nat
  BY DEF Record

LEMMA Opened ==
    ASSUME LoopSound, NEW c \in Conn \ Open, NEW f \in Fd, fdOf[f] = Unused,
           conns' = [conns EXCEPT ![c] = [[conns[c] EXCEPT !.used = TRUE, !.fd = f]
                                            EXCEPT !.open = TRUE, !.watched = now]],
           timer' = MinHeapPush(timer, c, now + Timeout),
           fdOf' = [fdOf EXCEPT ![f] = c],
           online' = online + 1,
           UNCHANGED <<at, now, cleaned>>
    PROVE  LoopSound'
<1> DEFINE record == [[conns[c] EXCEPT !.used = TRUE, !.fd = f]
                        EXCEPT !.open = TRUE, !.watched = now]
<1>1. conns \in [Conn -> Record] /\ now \in Nat /\ cleaned \in Nat /\ cleaned <= now
      /\ (\A d \in Conn : conns[d].last <= now /\ conns[d].watched <= now)
  BY DEF LoopSound, ClocksRun
<1>2. now' = now /\ cleaned' = cleaned /\ at' = at /\ Timeout \in Nat \ {0} /\ Unused \notin Conn
  BY EventAssumption
<1>3. /\ record.open = TRUE /\ record.used = TRUE /\ record.fd = f /\ record.watched = now
      /\ record.last = conns[c].last /\ record.event = conns[c].event
      /\ record \in Record
  BY <1>1 DEF Record
<1>4. conns' = [conns EXCEPT ![c] = record]
  OBVIOUS
<1> HIDE DEF record
<1>5. conns' \in [Conn -> Record] /\ conns'[c] = record
      /\ \A d \in Conn \ {c} : conns'[d] = conns[d]
  BY <1>1, <1>3, <1>4
<1>6. Open' = Open \cup {c}
  BY <1>3, <1>5 DEF Open
<1>7. ClocksRun'
  <2>1. \A d \in Conn : conns'[d].last <= now /\ conns'[d].watched <= now
    BY <1>1, <1>3, <1>5
  <2>2. QED BY <1>1, <1>2, <1>5, <2>1 DEF ClocksRun
<1>8. /\ Holds(timer', Conn, Open \cup {c})
      /\ timer'.due[c] = now + Timeout /\ \A d \in Conn \ {c} : timer'.due[d] = timer.due[d]
      /\ \A d \in Conn \ (Open \cup {c}) : timer'.idx[d] = timer.idx[d]
  <2>1. now + Timeout \in Nat /\ Holds(timer, Conn, Open)
    BY <1>1, <1>2 DEF LoopSound, TimersMatch
  <2> DEFINE due == now + Timeout
  <2>2. due \in Nat /\ timer' = MinHeapPush(timer, c, due)
    BY <2>1
  <2> HIDE DEF due
  <2>3. /\ Holds(timer', Conn, Open \cup {c})
        /\ timer'.due[c] = due /\ \A d \in Conn \ {c} : timer'.due[d] = timer.due[d]
        /\ \A d \in Conn \ (Open \cup {c}) : timer'.idx[d] = timer.idx[d]
    <3>1. c \in Conn \ Open /\ due \in Nat /\ Holds(timer, Conn, Open)
      BY <2>1, <2>2
    <3>2. With(MinHeapPush(timer, c, due), timer, Conn, Open, c, due)
      BY <3>1, Pushed
    <3>3. With(timer', timer, Conn, Open, c, due)
      BY <2>2, <3>2
    <3>4. QED BY <3>3 DEF With
  <2>4. QED BY <2>3 DEF due
<1>10. TimersMatch'
  <2>1. \A d \in Conn \ Open' : timer'.due[d] = 0 \/ timer'.idx[d] = NotInHeap
    BY <1>6, <1>8 DEF LoopSound, TimersMatch
  <2>2. QED BY <1>6, <1>8, <2>1 DEF TimersMatch
<1>11. OnlineCounts'
  <2>1. IsFiniteSet(Open) /\ online = Cardinality(Open)
    BY DEF LoopSound, OnlineCounts
  <2>2. IsFiniteSet(Open \cup {c}) /\ Cardinality(Open \cup {c}) = Cardinality(Open) + 1
    BY <2>1, FS_AddElement
  <2>3. QED BY <1>6, <2>1, <2>2 DEF OnlineCounts
<1>12. FdsApart'
  <2>1. fdOf \in [Fd -> Conn \cup {Unused}]
        /\ \A d \in Open : conns[d].used /\ conns[d].fd \in Fd /\ fdOf[conns[d].fd] = d
    BY DEF LoopSound, FdsApart
  <2>2. fdOf' \in [Fd -> Conn \cup {Unused}] /\ fdOf'[f] = c
        /\ \A g \in Fd \ {f} : fdOf'[g] = fdOf[g]
    BY <2>1
  <2>3. \A d \in Open : d \in Conn /\ d # c /\ conns[d].fd # f
    BY <1>2, <2>1 DEF Open
  <2>4. \A d \in Open : conns'[d] = conns[d] /\ fdOf'[conns[d].fd] = d
    BY <1>5, <2>1, <2>2, <2>3
  <2>5. QED BY <1>3, <1>5, <1>6, <2>1, <2>2, <2>4 DEF FdsApart
<1>13. Latest(record) \in Nat /\ now <= Latest(record)
  BY <1>1, <1>3, LatestIs, RecordIs
<1>14. DueInTime'
  <2>1. now + Timeout <= Timeout + Latest(record)
    BY <1>1, <1>2, <1>13
  <2>2. \A d \in Open : d \in Conn \ {c} /\ timer'.due[d] <= Timeout + Latest(conns'[d])
    BY <1>5, <1>8 DEF LoopSound, DueInTime, Open
  <2>3. QED BY <1>5, <1>6, <1>8, <2>1, <2>2 DEF DueInTime
<1>15. NoneIdle'
  <2>1. cleaned < Timeout + Latest(record)
    BY <1>1, <1>2, <1>13
  <2>2. at # "clean" => \A d \in Open : d \in Conn \ {c} /\ cleaned < Timeout + Latest(conns'[d])
    BY <1>5 DEF LoopSound, NoneIdle, Open
  <2>3. QED BY <1>2, <1>5, <1>6, <2>1, <2>2 DEF NoneIdle
<1>16. QED BY <1>7, <1>10, <1>11, <1>12, <1>14, <1>15 DEF LoopSound

LEMMA ClosedKeeps ==
    ASSUME LoopSound, NEW c \in Open, NEW record \in Record, record.fd = conns[c].fd,
           conns' = [conns EXCEPT ![c] = Closed(record)],
           Without(timer', timer, Conn, Open, c),
           fdOf' = [fdOf EXCEPT ![record.fd] = Unused],
           online' = online - 1,
           UNCHANGED <<now, cleaned>>, at' # "clean" => at # "clean"
    PROVE  LoopSound'
<1>1. conns \in [Conn -> Record] /\ now \in Nat /\ cleaned \in Nat /\ cleaned <= now
      /\ (\A d \in Conn : conns[d].last <= now /\ conns[d].watched <= now)
      /\ c \in Conn
  BY DEF LoopSound, ClocksRun, Open
<1>2. /\ Closed(record) \in Record /\ Closed(record).open = FALSE
      /\ Closed(record).last = 0 /\ Closed(record).watched = 0
  BY DEF Closed, Record, EventSets
<1>3. conns' \in [Conn -> Record] /\ conns'[c] = Closed(record)
      /\ \A d \in Conn \ {c} : conns'[d] = conns[d]
  BY <1>1, <1>2
<1>4. Open' = Open \ {c}
  BY <1>2, <1>3 DEF Open
<1>5. ClocksRun'
  <2>1. \A d \in Conn : conns'[d].last <= now /\ conns'[d].watched <= now
    BY <1>1, <1>2, <1>3
  <2>2. QED BY <1>1, <1>3, <2>1 DEF ClocksRun
<1>6. /\ Holds(timer', Conn, Open \ {c}) /\ timer'.due = timer.due
      /\ timer'.idx[c] = NotInHeap /\ \A d \in Conn \ Open : timer'.idx[d] = timer.idx[d]
  BY DEF Without
<1>7. TimersMatch'
  <2>1. \A d \in Conn \ Open' : timer'.due[d] = 0 \/ timer'.idx[d] = NotInHeap
    BY <1>4, <1>6 DEF LoopSound, TimersMatch
  <2>2. QED BY <1>4, <1>6, <2>1 DEF TimersMatch
<1>8. OnlineCounts'
  <2>1. IsFiniteSet(Open) /\ online = Cardinality(Open)
    BY DEF LoopSound, OnlineCounts
  <2>2. IsFiniteSet(Open \ {c}) /\ Cardinality(Open \ {c}) = Cardinality(Open) - 1
    BY <2>1, FS_RemoveElement
  <2>3. QED BY <1>4, <2>1, <2>2 DEF OnlineCounts
<1>9. FdsApart'
  <2>1. fdOf \in [Fd -> Conn \cup {Unused}]
        /\ \A d \in Open : conns[d].used /\ conns[d].fd \in Fd /\ fdOf[conns[d].fd] = d
    BY DEF LoopSound, FdsApart
  <2>2. fdOf' \in [Fd -> Conn \cup {Unused}]
        /\ \A g \in Fd \ {record.fd} : fdOf'[g] = fdOf[g]
    BY <2>1
  <2>3. \A d \in Open \ {c} : d \in Conn \ {c} /\ conns[d].fd # record.fd
    BY <2>1 DEF Open
  <2>4. \A d \in Open \ {c} : conns'[d] = conns[d] /\ fdOf'[conns[d].fd] = d
    BY <1>3, <2>1, <2>2, <2>3
  <2>5. QED BY <1>4, <2>1, <2>2, <2>4 DEF FdsApart
<1>10. \A d \in Open \ {c} : d \in Conn \ {c} /\ conns'[d] = conns[d]
  BY <1>3 DEF Open
<1>11. DueInTime'
  BY <1>4, <1>6, <1>10 DEF LoopSound, DueInTime
<1>12. NoneIdle'
  BY <1>4, <1>10 DEF LoopSound, NoneIdle
<1>13. QED BY <1>5, <1>7, <1>8, <1>9, <1>11, <1>12 DEF LoopSound

\* The record of an open connection is changed, which may have been used just now.
LEMMA UsedKeeps ==
    ASSUME LoopSound, NEW c \in Open, NEW record \in Record,
           record.open, record.used, record.fd = conns[c].fd,
           record.watched = conns[c].watched, record.last \in {conns[c].last, now},
           conns' = [conns EXCEPT ![c] = record],
           UNCHANGED <<timer, online, fdOf, now, cleaned, at>>
    PROVE  LoopSound'
<1>1. conns \in [Conn -> Record] /\ now \in Nat /\ cleaned \in Nat /\ cleaned <= now
      /\ (\A d \in Conn : conns[d].last <= now /\ conns[d].watched <= now)
      /\ c \in Conn
  BY DEF LoopSound, ClocksRun, Open
<1>2. conns' \in [Conn -> Record] /\ conns'[c] = record
      /\ \A d \in Conn \ {c} : conns'[d] = conns[d]
  BY <1>1
<1>3. Open' = Open
  BY <1>2 DEF Open
<1>4. ClocksRun'
  <2>1. \A d \in Conn : conns'[d].last <= now /\ conns'[d].watched <= now
    BY <1>1, <1>2
  <2>2. QED BY <1>1, <1>2, <2>1 DEF ClocksRun
<1>5. TimersMatch' /\ OnlineCounts'
  BY <1>3 DEF LoopSound, TimersMatch, OnlineCounts
<1>6. FdsApart'
  <2>1. \A d \in Open : conns'[d].used /\ conns'[d].fd = conns[d].fd
    BY <1>2 DEF LoopSound, FdsApart, Open
  <2>2. QED BY <1>3, <2>1 DEF LoopSound, FdsApart
<1>7. \A d \in Open : Latest(conns[d]) <= Latest(conns'[d])
                      /\ Latest(conns[d]) \in Nat /\ Latest(conns'[d]) \in Nat
  <2>1. SUFFICES ASSUME NEW d \in Open
                 PROVE  Latest(conns[d]) <= Latest(conns'[d])
                        /\ Latest(conns[d]) \in Nat /\ Latest(conns'[d]) \in Nat
    OBVIOUS
  <2>2. d \in Conn /\ conns[d] \in Record /\ conns'[d] \in Record
    BY <1>1, <1>2 DEF Open
  <2>3. conns[d].last \in Nat /\ conns[d].watched \in Nat
        /\ conns'[d].last \in Nat /\ conns'[d].watched \in Nat
    BY <2>2, RecordIs
  <2>4. conns[d].last <= conns'[d].last /\ conns[d].watched = conns'[d].watched
    BY <1>1, <1>2, <2>2, <2>3
  <2>5. QED BY <2>3, <2>4 DEF Latest
<1>8. Timeout \in Nat /\ \A d \in Open : timer.due[d] \in Nat
  <2>1. Timeout \in Nat /\ timer.due \in [Conn -> Nat]
    BY EventAssumption, HeldIs DEF LoopSound, TimersMatch
  <2>2. QED BY <2>1 DEF Open
<1>9. DueInTime'
  <2>1. \A d \in Open : timer.due[d] <= Timeout + Latest(conns[d])
    BY DEF LoopSound, DueInTime
  <2>2. \A d \in Open : timer.due[d] <= Timeout + Latest(conns'[d])
    BY <1>7, <1>8, <2>1
  <2>3. QED BY <1>3, <2>2 DEF DueInTime
<1>10. NoneIdle'
  <2>1. at # "clean" => \A d \in Open : cleaned < Timeout + Latest(conns[d])
    BY DEF LoopSound, NoneIdle
  <2>2. at # "clean" => \A d \in Open : cleaned < Timeout + Latest(conns'[d])
    BY <1>1, <1>7, <1>8, <2>1
  <2>3. QED BY <1>3, <2>2 DEF NoneIdle
<1>11. QED BY <1>4, <1>5, <1>6, <1>9, <1>10 DEF LoopSound

\* connect_close of an open connection finds its timer: nothing is read out of
\* an empty heap.
LEMMA ConnectCloses ==
    ASSUME LoopSound, NEW c \in Open, NEW record, ConnectClose(c, record, timer)
    PROVE  /\ conns' = [conns EXCEPT ![c] = Closed(record)]
           /\ fdOf' = [fdOf EXCEPT ![record.fd] = Unused] /\ online' = online - 1
           /\ Without(timer', timer, Conn, Open, c) /\ crashed' = FALSE
<1>1. c \in Open /\ Holds(timer, Conn, Open)
  BY DEF LoopSound, TimersMatch
<1>2. timer.pool # <<>> /\ Without(MinHeapErase(timer, c), timer, Conn, Open, c)
  BY <1>1, EraseFinds
<1>3. crashed' = FALSE /\ timer' = MinHeapErase(timer, c)
  BY <1>2 DEF ConnectClose
<1>4. QED BY <1>2, <1>3 DEF ConnectClose

\* The timer that ended is pushed again for the time the connection has left.
LEMMA RepushKeeps ==
    ASSUME LoopSound, timer.pool # <<>>, Repush(MinHeapTop(timer)),
           UNCHANGED <<conns, online, fdOf, now, cleaned, at>>
    PROVE  LoopSound'
<1> DEFINE c == MinHeapTop(timer)
           left == MinHeapPop(timer)
           due == conns[c].last + Timeout
<1>1. Holds(timer, Conn, Open) /\ timer.due \in [Conn -> Nat]
  BY HeldIs DEF LoopSound, TimersMatch
<1>2. c \in Open /\ Without(left, timer, Conn, Open, c)
  BY <1>1, PopKeeps
<1>3. c \in Conn \ (Open \ {c}) /\ Holds(left, Conn, Open \ {c})
  BY <1>2 DEF Without, Open
<1>4. conns \in [Conn -> Record] /\ conns[c] \in Record /\ Timeout \in Nat
  BY <1>3, EventAssumption DEF LoopSound, ClocksRun
<1>5. conns[c].last \in Nat /\ conns[c].watched \in Nat
  BY <1>4, RecordIs
<1>6. due \in Nat /\ due <= Timeout + Latest(conns[c])
  BY <1>4, <1>5, LatestIs
<1>7. timer' = MinHeapPush(left, c, due)
  BY DEF Repush
<1>8. Open' = Open
  BY DEF Open
<1> HIDE DEF c, left, due
<1>9. With(timer', left, Conn, Open \ {c}, c, due)
  <2>1. With(MinHeapPush(left, c, due), left, Conn, Open \ {c}, c, due)
    BY <1>3, <1>6, Pushed
  <2>2. QED BY <1>7, <2>1
<1>10. (Open \ {c}) \cup {c} = Open
  BY <1>2
<1>11. /\ Holds(timer', Conn, Open)
       /\ timer'.due[c] = due /\ \A d \in Conn \ {c} : timer'.due[d] = timer.due[d]
       /\ \A d \in Conn \ Open : timer'.idx[d] = timer.idx[d]
  BY <1>2, <1>9, <1>10 DEF With, Without
<1>12. TimersMatch'
  <2>1. \A d \in Conn \ Open : timer'.due[d] = 0 \/ timer'.idx[d] = NotInHeap
    BY <1>2, <1>11 DEF LoopSound, TimersMatch
  <2>2. QED BY <1>8, <1>11, <2>1 DEF TimersMatch
<1>13. DueInTime'
  <2>1. \A d \in Open \ {c} : timer'.due[d] <= Timeout + Latest(conns[d])
    BY <1>11 DEF LoopSound, DueInTime, Open
  <2>2. QED BY <1>6, <1>8, <1>11, <2>1 DEF DueInTime
<1>14. ClocksRun' /\ OnlineCounts' /\ FdsApart' /\ NoneIdle'
  BY <1>8 DEF LoopSound, ClocksRun, OnlineCounts, FdsApart, NoneIdle
<1>15. QED BY <1>12, <1>13, <1>14 DEF LoopSound

\* The loop leaves event_clean when no timer has ended.
LEMMA NoneEnded ==
    ASSUME LoopSound, timer.pool = <<>> \/ timer.due[MinHeapTop(timer)] > cleaned
    PROVE  \A c \in Open : cleaned < Timeout + Latest(conns[c])
<1>1. SUFFICES ASSUME NEW c \in Open PROVE cleaned < Timeout + Latest(conns[c])
  OBVIOUS
<1>2. Holds(timer, Conn, Open) /\ timer.due \in [Conn -> Nat]
  BY HeldIs DEF LoopSound, TimersMatch
<1>3. timer.pool # <<>> /\ timer.due[MinHeapTop(timer)] <= timer.due[c]
  <2>1. c \in Open
    OBVIOUS
  <2>2. QED BY <1>2, <2>1, EraseFinds, TopIsLeast
<1>4. MinHeapTop(timer) \in Conn /\ c \in Conn
  BY <1>2, <1>3, PopKeeps DEF Open
<1>5. timer.due[MinHeapTop(timer)] \in Nat /\ timer.due[c] \in Nat /\ cleaned \in Nat
  BY <1>2, <1>4 DEF LoopSound, ClocksRun
<1>6. Latest(conns[c]) \in Nat /\ Timeout \in Nat
  BY <1>4, RecordIs, LatestIs, EventAssumption DEF LoopSound, ClocksRun
<1>7. timer.due[c] <= Timeout + Latest(conns[c])
  BY DEF LoopSound, DueInTime
<1>8. QED BY <1>3, <1>5, <1>6, <1>7

\* inet_socket_proc: what is left in the record's event.
LEMMA ProcessedIs ==
    ASSUME NEW c, NEW record, record.event \in EventSets, Processed(c, record)
    PROVE  \/ /\ \E ev \in EventSets : conns' = [conns EXCEPT ![c] = [record EXCEPT !.event = ev]]
              /\ UNCHANGED <<timer, online, fdOf, crashed>>
           \/ ConnectClose(c, record, timer)
<1>1. PICK r \in InetSocketProc(record.event) :
        IF r.ok THEN /\ conns' = [conns EXCEPT ![c] = [record EXCEPT !.event = r.event]]
                     /\ UNCHANGED <<timer, online, fdOf, crashed>>
        ELSE ConnectClose(c, record, timer)
  BY DEF Processed
<1>2. \A ev \in EventSets : \A q \in ConnectRead(ev) \cup ConnectWrite(ev) : q.event \in EventSets
  <2>1. SUFFICES ASSUME NEW ev \in EventSets PROVE
                   \A q \in ConnectRead(ev) \cup ConnectWrite(ev) : q.event \in EventSets
    OBVIOUS
  <2>2. {ev, ev \ {"recv"}, {"over"}, ev \ {"send"}} \subseteq EventSets
    BY DEF EventSets
  <2>3. \A q \in ConnectRead(ev) : q.event \in {ev, ev \ {"recv"}, {"over"}}
    BY DEF ConnectRead
  <2>4. \A q \in ConnectWrite(ev) : q.event \in {ev, ev \ {"send"}}
    BY DEF ConnectWrite
  <2>5. QED BY <2>2, <2>3, <2>4
<1>3. r.event \in EventSets
  <2> DEFINE ev == record.event
             read == IF "recv" \in ev THEN ConnectRead(ev) ELSE {[ok |-> TRUE, event |-> ev]}
  <2>1. CASE "error" \in ev
    BY <1>1, <2>1 DEF InetSocketProc
  <2>2. CASE ~("error" \in ev)
    <3>1. r \in UNION {IF q.ok /\ "send" \in q.event THEN ConnectWrite(q.event) ELSE {q} : q \in read}
      BY <1>1, <2>2 DEF InetSocketProc
    <3>2. \A q \in read : q.event \in EventSets
      BY <1>2
    <3> HIDE DEF read
    <3>3. PICK q \in read : r \in ConnectWrite(q.event) \cup {q}
      BY <3>1
    <3>4. QED BY <1>2, <3>2, <3>3
  <2>3. QED BY <2>1, <2>2
<1>4. QED BY <1>1, <1>3

LEMMA ProcessedKeeps ==
    ASSUME LoopSound, NEW c \in Open, NEW record \in Record, record.open, record.used,
           record.fd = conns[c].fd, record.watched = conns[c].watched,
           record.last \in {conns[c].last, now}, Processed(c, record),
           UNCHANGED <<at, now, cleaned>>
    PROVE  LoopSound'
<1>1. record.event \in EventSets
  BY RecordIs
<1>2. ASSUME NEW ev \in EventSets, conns' = [conns EXCEPT ![c] = [record EXCEPT !.event = ev]],
             UNCHANGED <<timer, online, fdOf, crashed>>
      PROVE  LoopSound'
  <2> DEFINE r == [record EXCEPT !.event = ev]
  <2>1. /\ r \in Record /\ r.open = record.open /\ r.used = record.used /\ r.fd = record.fd
        /\ r.watched = record.watched /\ r.last = record.last
    BY DEF Record
  <2>2. conns' = [conns EXCEPT ![c] = r]
    BY <1>2
  <2> HIDE DEF r
  <2>3. c \in Open /\ UNCHANGED <<timer, online, fdOf, now, cleaned, at>>
    BY <1>2
  <2>4. QED BY <2>1, <2>2, <2>3, UsedKeeps
<1>3. CASE ConnectClose(c, record, timer)
  <2>1. /\ conns' = [conns EXCEPT ![c] = Closed(record)]
        /\ fdOf' = [fdOf EXCEPT ![record.fd] = Unused] /\ online' = online - 1
        /\ Without(timer', timer, Conn, Open, c)
    BY <1>3, ConnectCloses
  <2>2. QED BY <2>1, ClosedKeeps
<1>4. QED BY <1>1, <1>2, <1>3, ProcessedIs

-----------------------------------------------------------------------------
(* The steps of the loop.                                                  *)

LEMMA InsertStep ==
    ASSUME EventIInv, NEW c \in Conn, NEW f \in Fd, ConnectInsert(c, f)
    PROVE  EventIInv'
<1>1. CASE mishap' = TRUE
  BY <1>1 DEF EventIInv
<1>2. CASE /\ conns' = [conns EXCEPT ![c] = [[conns[c] EXCEPT !.used = TRUE, !.fd = f]
                                               EXCEPT !.open = TRUE, !.watched = now]]
           /\ timer' = MinHeapPush(timer, c, now + Timeout)
           /\ fdOf' = [fdOf EXCEPT ![f] = c]
           /\ online' = online + 1
           /\ UNCHANGED <<mishap, crashed>>
  <2>1. CASE ~mishap
    <3>1. LoopSound /\ ~conns[c].used /\ fdOf[f] = Unused
          /\ UNCHANGED <<at, now, cleaned>>
      BY <2>1 DEF EventIInv, ConnectInsert
    <3>2. c \in Conn \ Open
      BY <3>1 DEF LoopSound, FdsApart
    <3>3. LoopSound'
      BY <1>2, <3>1, <3>2, Opened
    <3>4. QED BY <1>2, <2>1, <3>3 DEF EventIInv
  <2>2. CASE mishap
    BY <1>2, <2>2 DEF EventIInv
  <2>3. QED BY <2>1, <2>2 DEF EventIInv
<1>3. QED BY <1>1, <1>2 DEF ConnectInsert

\* A record that is set aside for a connection the program then refuses.
LEMMA AcceptStep ==
    ASSUME EventIInv, NEW c \in Conn, NEW f \in Fd, ConnectAccept(c, f)
    PROVE  EventIInv'
<1>1. CASE ConnectInsert(c, f)
  BY <1>1, InsertStep
<1>2. CASE /\ ~conns[c].used /\ fdOf[f] = Unused
           /\ conns' = [conns EXCEPT ![c].used = TRUE]
           /\ UNCHANGED <<timer, online, fdOf, owing, at, now, cleaned, mishap, crashed>>
  <2>1. ASSUME ~mishap PROVE LoopSound'
    <3>1. LoopSound
      BY <2>1 DEF EventIInv
    <3>2. c \notin Open
      BY <1>2, <3>1 DEF LoopSound, FdsApart
    <3> DEFINE r == [conns[c] EXCEPT !.used = TRUE]
    <3>3. conns \in [Conn -> Record] /\ conns' = [conns EXCEPT ![c] = r]
      BY <1>2, <3>1 DEF LoopSound, ClocksRun
    <3>4. r \in Record /\ r.open = conns[c].open /\ r.last = conns[c].last
          /\ r.watched = conns[c].watched
      BY <3>3 DEF Record
    <3> HIDE DEF r
    <3>5. conns' \in [Conn -> Record] /\ conns'[c] = r /\ \A d \in Conn \ {c} : conns'[d] = conns[d]
      BY <3>3, <3>4
    <3>6. Open' = Open
      BY <3>4, <3>5 DEF Open
    <3>7. \A d \in Open : conns'[d] = conns[d]
      BY <3>2, <3>5 DEF Open
    <3>8. ClocksRun'
      <4>1. \A d \in Conn : conns'[d].last <= now /\ conns'[d].watched <= now
        BY <3>1, <3>4, <3>5 DEF LoopSound, ClocksRun
      <4>2. QED BY <1>2, <3>1, <3>5, <4>1 DEF LoopSound, ClocksRun
    <3>9. TimersMatch' /\ OnlineCounts' /\ FdsApart' /\ DueInTime' /\ NoneIdle'
      BY <1>2, <3>1, <3>6, <3>7
      DEF LoopSound, TimersMatch, OnlineCounts, FdsApart, DueInTime, NoneIdle
    <3>10. QED BY <3>8, <3>9 DEF LoopSound
  <2>2. QED BY <1>2, <2>1 DEF EventIInv
<1>3. QED BY <1>1, <1>2 DEF ConnectAccept

\* Nothing of the connections changes; the place of the loop may, but not from
\* event_clean.
LEMMA MovesOn ==
    ASSUME EventIInv, UNCHANGED <<conns, timer, online, fdOf, cleaned, mishap>>,
           now' = now \/ now' = now + 1, at' # "clean" => at # "clean"
    PROVE  EventIInv'
<1>1. ASSUME ~mishap PROVE LoopSound'
  <2>1. LoopSound
    BY <1>1 DEF EventIInv
  <2>2. Open' = Open
    BY DEF Open
  <2>3. ClocksRun'
    <3>1. conns \in [Conn -> Record] /\ now \in Nat /\ cleaned \in Nat /\ cleaned <= now
          /\ (\A c \in Conn : conns[c].last <= now /\ conns[c].watched <= now)
      BY <2>1 DEF LoopSound, ClocksRun
    <3>2. now' \in Nat /\ now <= now'
      BY <3>1
    <3>3. \A c \in Conn : conns[c].last \in Nat /\ conns[c].watched \in Nat
      BY <3>1, RecordIs
    <3>4. \A c \in Conn : conns[c].last <= now' /\ conns[c].watched <= now'
      BY <3>1, <3>2, <3>3
    <3>5. QED BY <3>1, <3>2, <3>4 DEF ClocksRun
  <2>4. TimersMatch' /\ OnlineCounts' /\ FdsApart' /\ DueInTime' /\ NoneIdle'
    BY <2>1, <2>2 DEF LoopSound, TimersMatch, OnlineCounts, FdsApart, DueInTime, NoneIdle
  <2>5. QED BY <2>3, <2>4 DEF LoopSound
<1>2. QED BY <1>1 DEF EventIInv

LEMMA TopStep ==
    ASSUME EventIInv, LoopTop
    PROVE  EventIInv'
<1>1. ASSUME ~mishap PROVE LoopSound'
  <2>1. LoopSound /\ at = "top" /\ cleaned' = now
        /\ UNCHANGED <<conns, timer, online, fdOf, now>>
        /\ at' = IF cleaned # now THEN "clean" ELSE "inet"
    BY <1>1 DEF EventIInv, LoopTop, Running
  <2>2. Open' = Open
    BY <2>1 DEF Open
  <2>3. ClocksRun' /\ TimersMatch' /\ OnlineCounts' /\ FdsApart' /\ DueInTime'
    BY <2>1, <2>2 DEF LoopSound, ClocksRun, TimersMatch, OnlineCounts, FdsApart, DueInTime
  <2>4. NoneIdle'
    BY <2>1, <2>2 DEF LoopSound, NoneIdle
  <2>5. QED BY <2>3, <2>4 DEF LoopSound
<1>2. QED BY <1>1 DEF EventIInv, LoopTop

LEMMA CleanStep ==
    ASSUME EventIInv, EventClean
    PROVE  EventIInv'
<1> DEFINE c == MinHeapTop(timer)
           none == timer.pool = <<>> \/ timer.due[c] > cleaned
<1>1. at = "clean" /\ UNCHANGED <<owing, now, cleaned, mishap>>
  BY DEF EventClean, Running
<1>2. ASSUME ~mishap PROVE LoopSound'
  <2>1. LoopSound
    BY <1>2 DEF EventIInv
  <2>2. CASE none
    <3>1. UNCHANGED <<conns, timer, online, fdOf>>
      BY <2>2 DEF EventClean
    <3>2. \A d \in Open : cleaned < Timeout + Latest(conns[d])
      BY <2>1, <2>2, NoneEnded
    <3>3. Open' = Open
      BY <3>1 DEF Open
    <3>4. ClocksRun' /\ TimersMatch' /\ OnlineCounts' /\ FdsApart' /\ DueInTime'
      BY <1>1, <2>1, <3>1, <3>3
      DEF LoopSound, ClocksRun, TimersMatch, OnlineCounts, FdsApart, DueInTime
    <3>5. NoneIdle'
      BY <1>1, <3>1, <3>2, <3>3 DEF NoneIdle
    <3>6. QED BY <3>4, <3>5 DEF LoopSound
  <2>3. CASE ~none
    <3>1. timer.pool # <<>> /\ Holds(timer, Conn, Open)
      BY <2>1, <2>3 DEF LoopSound, TimersMatch
    <3>2. c \in Open
      BY <3>1, PopKeeps
    <3>3. /\ at' = "clean"
          /\ \/ Repush(c) /\ UNCHANGED <<conns, online, fdOf, crashed>>
             \/ ConnectClose(c, conns[c], MinHeapErase(timer, c))
      BY <2>3 DEF EventClean
    <3>4. CASE Repush(c) /\ UNCHANGED <<conns, online, fdOf, crashed>>
      BY <1>1, <2>1, <3>1, <3>3, <3>4, RepushKeeps
    <3>5. CASE ConnectClose(c, conns[c], MinHeapErase(timer, c))
      <4> DEFINE h == MinHeapErase(timer, c)
      <4>1. Without(h, timer, Conn, Open, c)
        BY <3>1, <3>2, EraseFinds
      <4>2. h.idx[c] = NotInHeap
        BY <4>1 DEF Without
      <4> HIDE DEF h
      <4>3. MinHeapErase(h, c) = h
        BY <4>2 DEF MinHeapErase
      <4>4. timer' = h /\ conns' = [conns EXCEPT ![c] = Closed(conns[c])]
            /\ fdOf' = [fdOf EXCEPT ![conns[c].fd] = Unused] /\ online' = online - 1
        BY <3>5, <4>2, <4>3 DEF ConnectClose, h
      <4>5. conns[c] \in Record /\ Without(timer', timer, Conn, Open, c)
        BY <2>1, <3>2, <4>1, <4>4 DEF LoopSound, ClocksRun, Open
      <4> HIDE DEF c
      <4>6. QED BY <1>1, <2>1, <3>2, <3>3, <4>4, <4>5, ClosedKeeps
    <3>6. QED BY <3>3, <3>4, <3>5
  <2>4. QED BY <2>2, <2>3
<1>3. QED BY <1>1, <1>2 DEF EventIInv

LEMMA InetStep ==
    ASSUME EventIInv, NEW c \in Conn, NEW reported \in SUBSET {"recv", "send", "error"},
           InetEvent(c, reported)
    PROVE  EventIInv'
<1> DEFINE record == [conns[c] EXCEPT !.last = now, !.event = @ \cup reported]
<1>1. c \in Open /\ Processed(c, record) /\ UNCHANGED <<at, now, cleaned, mishap>>
  BY DEF InetEvent
<1>2. ASSUME ~mishap PROVE LoopSound'
  <2>1. LoopSound
    BY <1>2 DEF EventIInv
  <2>2. conns[c] \in Record /\ conns[c].open /\ conns[c].used /\ now \in Nat
    BY <1>1, <2>1 DEF LoopSound, ClocksRun, FdsApart, Open
  <2>3. conns[c].event \cup reported \in EventSets
    BY <2>2, RecordIs DEF EventSets
  <2>4. /\ record \in Record /\ record.open = conns[c].open /\ record.used = conns[c].used
        /\ record.fd = conns[c].fd /\ record.watched = conns[c].watched /\ record.last = now
    BY <2>2, <2>3 DEF Record
  <2> HIDE DEF record
  <2>5. QED BY <1>1, <2>1, <2>2, <2>4, ProcessedKeeps
<1>3. QED BY <1>1, <1>2 DEF EventIInv

LEMMA TaskStep ==
    ASSUME EventIInv, NEW c \in Conn, TaskNextInet(c)
    PROVE  EventIInv'
<1>1. /\ Processed(c, conns[c]) \/ c \notin Open
      /\ mishap' = (mishap \/ c \notin Open) /\ UNCHANGED <<at, now, cleaned>>
  BY DEF TaskNextInet
<1>2. ASSUME ~mishap, c \in Open PROVE LoopSound'
  <2>1. LoopSound /\ Processed(c, conns[c])
    BY <1>1, <1>2 DEF EventIInv
  <2>2. conns[c] \in Record /\ conns[c].open /\ conns[c].used
    BY <1>2, <2>1 DEF LoopSound, ClocksRun, FdsApart, Open
  <2>3. QED BY <1>1, <1>2, <2>1, <2>2, ProcessedKeeps
<1>3. mishap' \in BOOLEAN /\ (~mishap' => ~mishap /\ c \in Open)
  BY <1>1 DEF EventIInv
<1>4. QED BY <1>2, <1>3 DEF EventIInv

LEMMA DeinitStep ==
    ASSUME EventIInv, EventCenterDeinit
    PROVE  EventIInv'
<1> DEFINE c == MinHeapTop(timer)
<1>1. at # "clean" /\ UNCHANGED <<owing, now, cleaned, mishap>>
  BY DEF EventCenterDeinit, Running
<1>2. CASE timer.pool = <<>>
  <2>1. UNCHANGED <<conns, timer, online, fdOf>>
    BY <1>2 DEF EventCenterDeinit
  <2>2. QED BY <1>1, <2>1, MovesOn
<1>3. CASE timer.pool # <<>>
  <2>1. ASSUME ~mishap PROVE LoopSound'
    <3>1. LoopSound
      BY <2>1 DEF EventIInv
    <3>2. c \in Open
      BY <1>3, <3>1, PopKeeps DEF LoopSound, TimersMatch
    <3>3. ConnectClose(c, conns[c], timer)
      BY <1>3 DEF EventCenterDeinit
    <3>4. conns[c] \in Record
      BY <3>1, <3>2 DEF LoopSound, ClocksRun, Open
    <3> HIDE DEF c
    <3>5. /\ conns' = [conns EXCEPT ![c] = Closed(conns[c])]
          /\ fdOf' = [fdOf EXCEPT ![conns[c].fd] = Unused] /\ online' = online - 1
          /\ Without(timer', timer, Conn, Open, c)
      BY <3>1, <3>2, <3>3, ConnectCloses
    <3>6. QED BY <1>1, <3>1, <3>2, <3>4, <3>5, ClosedKeeps
  <2>2. QED BY <1>1, <2>1 DEF EventIInv
<1>4. QED BY <1>2, <1>3

LEMMA LoopStarts == EventCenterInit => EventIInv
<1>1. SUFFICES ASSUME EventCenterInit PROVE EventIInv
  OBVIOUS
<1>2. /\ conns = [c \in Conn |-> [open |-> FALSE, used |-> FALSE, fd |-> 0, event |-> {},
                                  last |-> 0, watched |-> 0]]
      /\ timer = MinHeapCtor(Conn, 0) /\ online = 0 /\ fdOf = [f \in Fd |-> Unused]
      /\ now = 0 /\ cleaned = 0 /\ mishap = FALSE
  BY <1>1 DEF EventCenterInit
<1>3. Open = {}
  BY <1>2 DEF Open
<1>4. ClocksRun
  BY <1>2 DEF ClocksRun, Record, EventSets
<1>5. TimersMatch
  <2>1. Holds(timer, Conn, {})
    BY <1>2, EmptyHolds
  <2>2. \A c \in Conn : timer.due[c] = 0
    BY <1>2 DEF MinHeapCtor
  <2>3. QED BY <1>3, <2>1, <2>2 DEF TimersMatch
<1>6. OnlineCounts
  BY <1>2, <1>3, FS_EmptySet DEF OnlineCounts
<1>7. FdsApart /\ DueInTime /\ NoneIdle
  BY <1>2, <1>3 DEF FdsApart, DueInTime, NoneIdle
<1>8. QED BY <1>2, <1>4, <1>5, <1>6, <1>7 DEF EventIInv, LoopSound

LEMMA LoopKeeps == EventIInv /\ [EventNext]_eventVars => EventIInv'
<1>1. SUFFICES ASSUME EventIInv, [EventNext]_eventVars PROVE EventIInv'
  OBVIOUS
<1>2. CASE LoopTop
  BY <1>1, <1>2, TopStep
<1>3. CASE EventClean
  BY <1>1, <1>3, CleanStep
<1>4. CASE InetEventsDone \/ ThreadEventsDone \/ Tick
  <2>1. /\ UNCHANGED <<conns, timer, online, fdOf, cleaned, mishap>>
        /\ now' = now \/ now' = now + 1
        /\ at' # "clean" => at # "clean"
    BY <1>4 DEF InetEventsDone, ThreadEventsDone, Tick, Running
  <2>2. QED BY <1>1, <2>1, MovesOn
<1>5. CASE EventCenterDeinit
  BY <1>1, <1>5, DeinitStep
<1>6. ASSUME NEW c \in Conn, NEW f \in Fd, ConnectAccept(c, f) \/ ConnectCreate(c, f)
      PROVE  EventIInv'
  BY <1>1, <1>6, AcceptStep, InsertStep DEF ConnectCreate
<1>7. ASSUME NEW c \in Conn, NEW reported \in (SUBSET {"recv", "send", "error"}) \ {{}},
             InetEvent(c, reported)
      PROVE  EventIInv'
  BY <1>1, <1>7, InetStep
<1>8. ASSUME NEW c \in Conn, TaskNextInet(c) PROVE EventIInv'
  BY <1>1, <1>8, TaskStep
<1>9. CASE UNCHANGED eventVars
  <2>1. UNCHANGED <<conns, timer, online, fdOf, cleaned, mishap, now, at>>
    BY <1>9 DEF eventVars
  <2>2. QED BY <1>1, <2>1, MovesOn
<1>10. QED BY <1>1, <1>2, <1>3, <1>4, <1>5, <1>6, <1>7, <1>8, <1>9 DEF EventNext

\* However connections come, are used, idle and end: while epoll has refused
\* none and no task has come back too late, the heap of timers is in order and
\* holds just the open connections, each has its descriptor to itself, and
\* online is their number.
THEOREM TimersStaySound == EventSpec => []TimersSound
<1>1. EventIInv => TimersSound
  BY DEF EventIInv, LoopSound, TimersMatch, OnlineCounts, FdsApart, Holds, TimersSound
<1>2. QED BY <1>1, LoopStarts, LoopKeeps, PTL DEF EventSpec

\* ... and when event_clean has run none of them has been idle for the timeout.
THEOREM IdleAreClosed == EventSpec => []IdleClosed
<1>1. EventIInv => IdleClosed
  BY DEF EventIInv, LoopSound, NoneIdle, Latest, IdleClosed
<1>2. QED BY <1>1, LoopStarts, LoopKeeps, PTL DEF EventSpec

-----------------------------------------------------------------------------
(* The hash tables.                                                        *)

\* A table of n buckets.
TabType(n) ==
    [idx : Nat, used : Int, bucket : [0..(n - 1) -> Cell \cup {Null}], key : [Cell -> Nat],
     val : [Cell -> Val \cup {Null}], next : [Cell -> Cell \cup {Null}],
     prev : [Cell -> Cell \cup {Null}]]

Slot(t, n, c) == t.key[c] % n

\* The cells of S are linked into the buckets their keys belong to: each is the
\* head of its chain or follows one other cell.  Along a chain r goes down, from
\* less than m.
Chained(t, n, S, r, m) ==
    /\ \A b \in 0..(n - 1) : t.bucket[b] # Null =>
           t.bucket[b] \in S /\ Slot(t, n, t.bucket[b]) = b
    /\ \A c \in S : t.next[c] # Null =>
           t.next[c] \in S /\ Slot(t, n, t.next[c]) = Slot(t, n, c) /\ r[t.next[c]] < r[c]
    /\ \A c, d \in S : t.next[c] = t.next[d] /\ t.next[c] # Null => c = d
    /\ \A c \in S : t.bucket[Slot(t, n, c)] = c <=> \A d \in S : t.next[d] # c
    /\ \A c \in S : r[c] < m

Tabled(t, n, S, r, m) ==
    /\ n \in Nat \ {0} /\ t \in TabType(n) /\ S \in SUBSET Cell
    /\ r \in [Cell -> Nat] /\ m \in Nat
    /\ Chained(t, n, S, r, m)

\* s is the path of the links from c on.
Follows(next, c, s) ==
    \A i \in 0..Len(s) :
        (IF i = 0 THEN c ELSE next[s[i]]) = (IF i = Len(s) THEN Null ELSE s[i + 1])

LEMMA SlotIs ==
    ASSUME NEW n \in Nat \ {0}, NEW k \in Nat
    PROVE  k % n \in 0..(n - 1)
OBVIOUS

LEMMA PathIsSeq ==
    ASSUME NEW s
    PROVE  s \in CellPath <=> s \in Seq(Cell) /\ \A i, j \in 1..Len(s) : s[i] = s[j] => i = j
<1>1. ASSUME s \in CellPath
      PROVE  s \in Seq(Cell) /\ \A i, j \in 1..Len(s) : s[i] = s[j] => i = j
  <2>1. PICK X \in SUBSET Cell : s \in SetToSeqs(X)
    BY <1>1 DEF CellPath, SetToAllKPermutations
  <2>2. Cardinality(X) \in Nat
    BY FS_Subset, FS_CardinalityType, HashAssumption
  <2>3. /\ s \in [1..Cardinality(X) -> X]
        /\ \A i, j \in 1..Cardinality(X) : i # j => s[i] # s[j]
    BY <2>1 DEF SetToSeqs
  <2>4. QED BY <2>2, <2>3
<1>2. ASSUME s \in Seq(Cell), \A i, j \in 1..Len(s) : s[i] = s[j] => i = j
      PROVE  s \in CellPath
  <2> DEFINE X == {s[i] : i \in 1..Len(s)}
             D == 1..Len(s)
  <2>1. Len(s) \in Nat /\ s \in [D -> X] /\ X \in SUBSET Cell
    BY <1>2
  <2>2. s \in Bijection(D, X)
    BY <1>2, <2>1 DEF Bijection, Injection, Surjection, IsInjective
  <2>3. Cardinality(X) = Len(s)
    BY <2>1, <2>2, FS_CountingElements DEF ExistsBijection
  <2> HIDE DEF X
  <2>4. s \in SetToSeqs(X)
    BY <1>2, <2>1, <2>3 DEF SetToSeqs
  <2>5. QED BY <2>1, <2>4 DEF CellPath, SetToAllKPermutations
<1>3. QED BY <1>1, <1>2

\* A cell and a path behind it.
LEMMA ConsIs ==
    ASSUME NEW X, NEW c \in X, NEW p \in Seq(X), NEW s, s = <<c>> \o p
    PROVE  /\ s \in Seq(X) /\ Len(s) = Len(p) + 1 /\ s[1] = c
           /\ \A i \in 2..Len(s) : s[i] = p[i - 1]
<1>1. <<c>> \in Seq(X) /\ Len(<<c>>) = 1 /\ <<c>>[1] = c /\ Len(p) \in Nat
  OBVIOUS
<1>2. /\ s \in Seq(X) /\ Len(s) = Len(<<c>>) + Len(p)
      /\ \A i \in 1..(Len(<<c>>) + Len(p)) :
             s[i] = IF i <= Len(<<c>>) THEN <<c>>[i] ELSE p[i - Len(<<c>>)]
  BY <1>1, ConcatProperties
<1>3. QED BY <1>1, <1>2

LEMMA PathExists ==
    ASSUME NEW t, NEW n, NEW S, NEW r, NEW m, Tabled(t, n, S, r, m), NEW head \in S
    PROVE  \E s \in CellPath : Follows(t.next, head, s)
<1> DEFINE Good(s, c) == /\ s \in Seq(S) /\ Follows(t.next, c, s)
                         /\ \A i \in 1..Len(s) : r[s[i]] <= r[c]
                         /\ \A i, j \in 1..Len(s) : s[i] = s[j] => i = j
           K == {k \in Nat : \A c \in S : r[c] < k => \E s : Good(s, c)}
<1>1. /\ \A c \in S : r[c] \in Nat
      /\ \A c \in S : t.next[c] # Null => t.next[c] \in S /\ r[t.next[c]] < r[c]
  BY DEF Tabled, Chained
<1>2. 0 \in K
  BY <1>1
<1>3. ASSUME NEW k \in Nat, k \in K PROVE k + 1 \in K
  <2>1. SUFFICES ASSUME NEW c \in S, r[c] < k + 1 PROVE \E s : Good(s, c)
    OBVIOUS
  <2>2. CASE t.next[c] = Null
    <3> DEFINE s == <<c>>
    <3>1. s \in Seq(S) /\ Len(s) = 1 /\ s[1] = c
      OBVIOUS
    <3> HIDE DEF s
    <3>2. Good(s, c)
      BY <1>1, <2>2, <3>1 DEF Follows
    <3>3. QED BY <3>2
  <2>3. CASE t.next[c] # Null
    <3> DEFINE e == t.next[c]
    <3>1. e \in S /\ r[e] < r[c] /\ r[e] < k
      BY <1>1, <2>1, <2>3
    <3>2. PICK p : Good(p, e)
      BY <1>3, <3>1
    <3> DEFINE s == <<c>> \o p
    <3>3. /\ s \in Seq(S) /\ Len(s) = Len(p) + 1 /\ s[1] = c /\ Len(p) \in Nat
          /\ \A i \in 2..Len(s) : s[i] = p[i - 1] /\ i - 1 \in 1..Len(p)
      BY <3>2, ConsIs
    <3> HIDE DEF s
    <3>4. ASSUME NEW i \in 0..Len(s)
          PROVE  (IF i = 0 THEN c ELSE t.next[s[i]]) = (IF i = Len(s) THEN Null ELSE s[i + 1])
      <4>1. CASE i = 0
        BY <3>3, <4>1
      <4>2. CASE i = 1
        <5>1. e = IF 0 = Len(p) THEN Null ELSE p[0 + 1]
          BY <3>2, <3>3 DEF Follows
        <5>2. CASE Len(p) = 0
          BY <3>3, <4>2, <5>1, <5>2
        <5>3. CASE Len(p) # 0
          <6>1. 2 \in 2..Len(s) /\ s[2] = p[1]
            BY <3>3, <5>3
          <6>2. QED BY <3>3, <4>2, <5>1, <5>3, <6>1
        <5>4. QED BY <5>2, <5>3
      <4>3. CASE i >= 2
        <5>1. i \in 2..Len(s) /\ i - 1 \in 1..Len(p) /\ i - 1 # 0 /\ s[i] = p[i - 1]
          BY <3>3, <4>3
        <5>2. t.next[p[i - 1]] = IF i - 1 = Len(p) THEN Null ELSE p[(i - 1) + 1]
          BY <3>2, <5>1 DEF Follows
        <5>3. CASE i = Len(s)
          BY <3>3, <5>1, <5>2, <5>3
        <5>4. CASE i # Len(s)
          <6>1. i + 1 \in 2..Len(s) /\ s[i + 1] = p[i] /\ i - 1 # Len(p) /\ (i - 1) + 1 = i
            <7>1. i + 1 \in 2..Len(s) /\ i - 1 # Len(p) /\ (i - 1) + 1 = i /\ (i + 1) - 1 = i
              BY <3>3, <5>1, <5>4
            <7>2. QED BY <3>3, <7>1
          <6>2. QED BY <5>1, <5>2, <5>4, <6>1
        <5>5. QED BY <5>3, <5>4
      <4>4. QED BY <3>3, <4>1, <4>2, <4>3
    <3>5. \A i \in 2..Len(s) : r[s[i]] < r[c] /\ r[s[i]] \in Nat
      <4>1. SUFFICES ASSUME NEW i \in 2..Len(s) PROVE r[s[i]] < r[c] /\ r[s[i]] \in Nat
        OBVIOUS
      <4>2. p[i - 1] \in S /\ r[p[i - 1]] <= r[e] /\ s[i] = p[i - 1]
        BY <3>2, <3>3
      <4>3. r[p[i - 1]] \in Nat /\ r[e] \in Nat /\ r[c] \in Nat
        BY <1>1, <3>1, <4>2
      <4>4. QED BY <3>1, <4>2, <4>3
    <3>6. \A i \in 1..Len(s) : r[s[i]] <= r[c]
      BY <1>1, <3>3, <3>5
    <3>7. ASSUME NEW i \in 1..Len(s), NEW j \in 1..Len(s), s[i] = s[j] PROVE i = j
      <4>1. CASE i = 1 \/ j = 1
        BY <1>1, <3>3, <3>5, <3>7, <4>1
      <4>2. CASE i # 1 /\ j # 1
        <5>1. i \in 2..Len(s) /\ j \in 2..Len(s)
          BY <3>3, <4>2
        <5>2. i - 1 = j - 1
          BY <3>2, <3>3, <3>7, <5>1
        <5>3. QED BY <5>1, <5>2
      <4>3. QED BY <4>1, <4>2
    <3>8. Good(s, c)
      BY <3>3, <3>4, <3>6, <3>7 DEF Follows
    <3>9. QED BY <3>8
  <2>4. QED BY <2>2, <2>3
<1> HIDE DEF K
<1>4. r[head] + 1 \in K
  BY <1>1, <1>2, <1>3, Climb
<1>5. PICK s : Good(s, head)
  BY <1>1, <1>4 DEF K
<1>6. s \in Seq(Cell)
  BY <1>5 DEF Tabled
<1>7. QED BY <1>5, <1>6, PathIsSeq

\* The chain of a bucket is made of its cells, from the greatest r down.
IsChain(s, t, n, S, r, b) ==
    /\ s \in Seq(Cell) /\ Follows(t.next, t.bucket[b], s)
    /\ \A i, j \in 1..Len(s) : s[i] = s[j] => i = j
    /\ \A i \in 1..Len(s) : s[i] \in S /\ Slot(t, n, s[i]) = b
    /\ \A i, j \in 1..Len(s) : i < j => r[s[j]] < r[s[i]]
    /\ \A c \in S : Slot(t, n, c) = b => \E i \in 1..Len(s) : s[i] = c

LEMMA ChainIs ==
    ASSUME NEW t, NEW n, NEW S, NEW r, NEW m, Tabled(t, n, S, r, m), NEW b \in 0..(n - 1)
    PROVE  IsChain(ChainFrom(t.next, t.bucket[b]), t, n, S, r, b)
<1> DEFINE head == t.bucket[b]
           s == ChainFrom(t.next, head)
<1>1. /\ head # Null => head \in S /\ Slot(t, n, head) = b
      /\ \A c \in S : c # Null /\ r[c] \in Nat /\ r[c] < m
      /\ \A c \in S : t.next[c] # Null =>
             t.next[c] \in S /\ Slot(t, n, t.next[c]) = Slot(t, n, c) /\ r[t.next[c]] < r[c]
      /\ \A c \in S : t.bucket[Slot(t, n, c)] # c => \E d \in S : t.next[d] = c
      /\ m \in Nat
  BY HashAssumption DEF Tabled, Chained
<1>2. s \in CellPath /\ Follows(t.next, head, s)
  <2>1. \E p \in CellPath : Follows(t.next, head, p)
    <3>1. CASE head = Null
      <4>1. <<>> \in CellPath
        <5> DEFINE p == <<>>
        <5>1. p \in Seq(Cell) /\ Len(p) = 0
          OBVIOUS
        <5> HIDE DEF p
        <5>2. \A i, j \in 1..Len(p) : p[i] = p[j] => i = j
          BY <5>1
        <5>3. p \in CellPath
          BY <5>1, <5>2, PathIsSeq
        <5>4. QED BY <5>3 DEF p
      <4>2. Follows(t.next, head, <<>>)
        BY <3>1 DEF Follows
      <4>3. QED BY <4>1, <4>2
    <3>2. CASE head # Null
      BY <1>1, <3>2, PathExists
    <3>3. QED BY <3>1, <3>2
  <2>2. s = CHOOSE p \in CellPath : Follows(t.next, head, p)
    BY DEF ChainFrom, Follows
  <2> HIDE DEF s, head
  <2>3. QED BY <2>1, <2>2
<1> HIDE DEF s
<1>3. s \in Seq(Cell) /\ Len(s) \in Nat /\ \A i, j \in 1..Len(s) : s[i] = s[j] => i = j
  BY <1>2, PathIsSeq
<1>4. /\ Len(s) # 0 => s[1] = head /\ head # Null
      /\ \A i \in 1..Len(s) : i # Len(s) => t.next[s[i]] = s[i + 1]
      /\ head # Null => Len(s) # 0
      /\ Len(s) # 0 => t.next[s[Len(s)]] = Null
  <2>1. head = IF 0 = Len(s) THEN Null ELSE s[0 + 1]
    BY <1>2, <1>3 DEF Follows
  <2>2. \A i \in 1..Len(s) : t.next[s[i]] = IF i = Len(s) THEN Null ELSE s[i + 1]
    BY <1>2, <1>3 DEF Follows
  <2>3. \A i \in 1..Len(s) : s[i] \in Cell /\ s[i] # Null
    BY <1>3, HashAssumption
  <2>4. QED BY <1>3, <2>1, <2>2, <2>3
<1>5. \A i \in 1..Len(s) : s[i] # Null
  BY <1>3, HashAssumption
<1> DEFINE Down(i) == /\ s[i] \in S /\ Slot(t, n, s[i]) = b
                      /\ \A j \in 1..(i - 1) : s[j] \in S /\ r[s[i]] < r[s[j]]
           K == {k \in Nat : k + 1 <= Len(s) => Down(k + 1)}
<1>6. 0 \in K
  BY <1>1, <1>3, <1>4
<1>7. ASSUME NEW k \in Nat, k \in K PROVE k + 1 \in K
  <2>1. SUFFICES ASSUME k + 2 <= Len(s) PROVE Down(k + 2)
    OBVIOUS
  <2>2. k + 1 \in 1..Len(s) /\ k + 1 # Len(s) /\ (k + 1) + 1 = k + 2 /\ k + 2 \in 1..Len(s)
    BY <1>3, <2>1
  <2>3. Down(k + 1)
    BY <1>3, <1>7, <2>1
  <2>4. t.next[s[k + 1]] = s[k + 2] /\ s[k + 2] # Null
    BY <1>4, <1>5, <2>2
  <2>5. s[k + 2] \in S /\ Slot(t, n, s[k + 2]) = b /\ r[s[k + 2]] < r[s[k + 1]]
    BY <1>1, <2>3, <2>4
  <2>6. ASSUME NEW j \in 1..((k + 2) - 1) PROVE s[j] \in S /\ r[s[k + 2]] < r[s[j]]
    <3>1. CASE j = k + 1
      BY <2>3, <2>5, <3>1
    <3>2. CASE j # k + 1
      <4>1. j \in 1..((k + 1) - 1) /\ j \in 1..k
        BY <3>2
      <4>2. s[j] \in S /\ r[s[k + 1]] < r[s[j]]
        BY <2>3, <4>1
      <4>3. QED BY <1>1, <2>3, <2>5, <4>2
    <3>3. QED BY <3>1, <3>2
  <2>7. QED BY <2>5, <2>6
<1>8. \A i \in 1..Len(s) : Down(i)
  <2> HIDE DEF Down
  <2>1. SUFFICES ASSUME NEW i \in 1..Len(s) PROVE Down(i)
    OBVIOUS
  <2>2. i - 1 \in Nat /\ (i - 1) + 1 = i
    BY <1>3
  <2> HIDE DEF K
  <2>3. i - 1 \in K
    BY <1>6, <1>7, <2>2, Climb
  <2>4. QED BY <1>3, <2>2, <2>3 DEF K
<1> DEFINE Met(c) == \E i \in 1..Len(s) : s[i] = c
           L == {k \in Nat : \A c \in S : Slot(t, n, c) = b /\ m - r[c] <= k => Met(c)}
<1>9. 0 \in L
  BY <1>1
<1>10. ASSUME NEW k \in Nat, k \in L PROVE k + 1 \in L
  <2>1. SUFFICES ASSUME NEW c \in S, Slot(t, n, c) = b, m - r[c] <= k + 1 PROVE Met(c)
    OBVIOUS
  <2>2. CASE head = c
    BY <1>1, <1>3, <1>4, <2>2
  <2>3. CASE head # c
    <3>1. PICK d \in S : t.next[d] = c
      BY <1>1, <2>1, <2>3
    <3>2. r[c] < r[d] /\ Slot(t, n, d) = b
      BY <1>1, <2>1, <3>1
    <3>3. m - r[d] <= k
      BY <1>1, <2>1, <3>2
    <3>4. PICK i \in 1..Len(s) : s[i] = d
      BY <1>10, <3>2, <3>3
    <3>5. i # Len(s)
      BY <1>1, <1>3, <1>4, <3>1, <3>4
    <3>6. i + 1 \in 1..Len(s) /\ s[i + 1] = c
      BY <1>3, <1>4, <3>1, <3>4, <3>5
    <3>7. QED BY <3>6
  <2>4. QED BY <2>2, <2>3
<1>11. \A c \in S : Slot(t, n, c) = b => Met(c)
  <2>1. SUFFICES ASSUME NEW c \in S, Slot(t, n, c) = b PROVE Met(c)
    OBVIOUS
  <2>2. m - r[c] \in Nat
    BY <1>1
  <2> HIDE DEF L, Met
  <2>3. m - r[c] \in L
    BY <1>9, <1>10, <2>2, Climb
  <2>4. QED BY <2>1, <2>2, <2>3 DEF L
<1>12. \A i, j \in 1..Len(s) : i < j => r[s[j]] < r[s[i]]
  <2>1. SUFFICES ASSUME NEW i \in 1..Len(s), NEW j \in 1..Len(s), i < j PROVE r[s[j]] < r[s[i]]
    OBVIOUS
  <2>2. i \in 1..(j - 1)
    BY <1>3, <2>1
  <2>3. QED BY <1>8, <2>2
<1> HIDE DEF Met
<1>13. QED BY <1>2, <1>3, <1>8, <1>11, <1>12 DEF IsChain, Met, s

LEMMA LeastIs ==
    ASSUME NEW S \in SUBSET Nat, S # {}
    PROVE  Min(S) \in S /\ \A y \in S : Min(S) <= y
<1>1. PICK m \in S : \A k \in S : <<k, m>> \notin OpToRel(<, Nat)
  BY NatLessThanWellFounded, WFMin
<1>2. \A k \in S : ~(k < m)
  BY <1>1 DEF OpToRel
<1>3. m \in Nat /\ \A k \in S : k \in Nat
  OBVIOUS
<1>4. \A k \in S : m <= k
  BY <1>2, <1>3
<1>5. QED BY <1>4 DEF Min

\* A look-up finds the cell with that key whose r is greatest.
LEMMA LocatedIs ==
    ASSUME NEW t, NEW n, NEW S, NEW r, NEW m, Tabled(t, n, S, r, m), n = Buckets(t),
           NEW k \in Nat, NEW x, x = Located(t, k)
    PROVE  /\ (\A c \in S : t.key[c] # k) => x = Null
           /\ (\E c \in S : t.key[c] = k) =>
                x \in S /\ t.key[x] = k /\ \A c \in S : t.key[c] = k => r[c] <= r[x]
<1> DEFINE b == k % n
           s == ChainFrom(t.next, t.bucket[b])
           I == {j \in 1..Len(s) : t.key[s[j]] = k}
<1>1. b \in 0..(n - 1)
  BY SlotIs DEF Tabled
<1>2. IsChain(s, t, n, S, r, b)
  <2> HIDE DEF b
  <2>1. QED BY <1>1, ChainIs
<1>3. x = IF I # {} THEN s[Min(I)] ELSE Null
  <2> DEFINE i == IF I # {} THEN Min(I) ELSE 0
  <2>1. Chain(t, k) = s
    BY DEF Chain, HashIndex
  <2>2. x = IF i = 0 THEN Null ELSE s[i]
    BY <2>1 DEF Located, SelectInSeq
  <2>3. I \in SUBSET Nat
    OBVIOUS
  <2>4. I # {} => Min(I) \in I /\ Min(I) # 0
    <3>1. 0 \notin I
      OBVIOUS
    <3> HIDE DEF I
    <3>2. QED BY <2>3, <3>1, LeastIs
  <2> HIDE DEF I, s
  <2>5. CASE I = {}
    BY <2>2, <2>5
  <2>6. CASE I # {}
    BY <2>2, <2>4, <2>6
  <2>7. QED BY <2>5, <2>6
<1> HIDE DEF s
<1>4. /\ \A i \in 1..Len(s) : s[i] \in S
      /\ \A i, j \in 1..Len(s) : i < j => r[s[j]] < r[s[i]]
      /\ \A c \in S : Slot(t, n, c) = b => \E i \in 1..Len(s) : s[i] = c
      /\ r \in [Cell -> Nat] /\ S \in SUBSET Cell
  BY <1>2 DEF IsChain, Tabled
<1>5. \A c \in S : t.key[c] = k => \E i \in I : s[i] = c
  BY <1>4 DEF Slot
<1>6. CASE I = {}
  BY <1>3, <1>5, <1>6
<1>7. CASE I # {}
  <2>1. Min(I) \in I /\ \A i \in I : Min(I) <= i
    <3>1. I \in SUBSET Nat
      OBVIOUS
    <3> HIDE DEF I
    <3>2. QED BY <1>7, <3>1, LeastIs
  <2>2. x = s[Min(I)] /\ x \in S /\ t.key[x] = k
    BY <1>3, <1>4, <1>7, <2>1
  <2>3. ASSUME NEW c \in S, t.key[c] = k PROVE r[c] <= r[x]
    <3>1. PICK i \in I : s[i] = c
      BY <1>5, <2>3
    <3>2. CASE i = Min(I)
      BY <1>4, <2>2, <3>1, <3>2
    <3>3. CASE i # Min(I)
      <4>1. Min(I) \in 1..Len(s) /\ i \in 1..Len(s) /\ Min(I) < i
        BY <2>1, <3>3
      <4>2. r[c] < r[x]
        BY <1>4, <2>2, <3>1, <4>1
      <4>3. QED BY <1>4, <2>2, <4>2
    <3>4. QED BY <3>2, <3>3
  <2>4. QED BY <2>2, <2>3
<1>8. QED BY <1>6, <1>7

\* What comes before a cell in its chain: nothing, or the cell whose next it is.
LinksTo(t, n, S, p, c) ==
    \/ p = Null /\ t.bucket[Slot(t, n, c)] = c
    \/ p \in S /\ t.next[p] = c

LEMMA BeforeIs ==
    ASSUME NEW t, NEW n, NEW S, NEW r, NEW m, Tabled(t, n, S, r, m), n = Buckets(t), NEW c \in S
    PROVE  LinksTo(t, n, S, Before(t, c), c)
<1> DEFINE b == Slot(t, n, c)
           s == ChainFrom(t.next, t.bucket[b])
           i == CHOOSE j \in DOMAIN s : s[j] = c
<1>1. t.key[c] \in Nat /\ c # Null /\ n \in Nat \ {0}
  BY HashAssumption DEF Tabled, TabType
<1>2. b \in 0..(n - 1)
  BY <1>1, SlotIs DEF Slot
<1>3. IsChain(s, t, n, S, r, b)
  <2> HIDE DEF b
  <2>1. QED BY <1>2, ChainIs
<1>4. Before(t, c) = IF i = 1 THEN Null ELSE s[i - 1]
  BY DEF Before, Chain, HashIndex, Slot
<1> HIDE DEF s
<1>5. /\ s \in Seq(Cell) /\ Len(s) \in Nat /\ DOMAIN s = 1..Len(s)
      /\ \E j \in 1..Len(s) : s[j] = c
      /\ \A j \in 1..Len(s) : s[j] \in S
      /\ Follows(t.next, t.bucket[b], s)
  BY <1>3 DEF IsChain, b
<1>6. i \in 1..Len(s) /\ s[i] = c
  BY <1>5
<1> HIDE DEF i
<1>7. CASE i = 1
  <2>1. 0 \in 0..Len(s) /\ 0 # Len(s) /\ 0 + 1 = 1
    BY <1>5, <1>6
  <2>2. t.bucket[b] = s[1]
    BY <1>5, <2>1 DEF Follows
  <2>3. QED BY <1>4, <1>6, <1>7, <2>2 DEF LinksTo
<1>8. CASE i # 1
  <2>1. i - 1 \in 0..Len(s) /\ i - 1 \in 1..Len(s) /\ i - 1 # 0 /\ i - 1 # Len(s) /\ (i - 1) + 1 = i
    BY <1>5, <1>6, <1>8
  <2>2. t.next[s[i - 1]] = s[i]
    BY <1>5, <2>1 DEF Follows
  <2>3. QED BY <1>4, <1>5, <1>6, <1>8, <2>1, <2>2 DEF LinksTo
<1>9. QED BY <1>7, <1>8

-----------------------------------------------------------------------------
(* One cell is linked or taken out.                                        *)

\* What linking and taking out a cell leave of the table.
IsLinked(g, t, n, c) ==
    LET old == t.bucket[Slot(t, n, c)] IN
    /\ g \in TabType(n) /\ g.idx = t.idx /\ g.key = t.key /\ g.val = t.val
    /\ g.next = [t.next EXCEPT ![c] = old]
    /\ g.prev = IF old = Null THEN t.prev ELSE [t.prev EXCEPT ![old] = c]
    /\ g.bucket = [t.bucket EXCEPT ![Slot(t, n, c)] = c]
    /\ g.used = UsedAfter(t)

IsTakenOut(g, t, n, c) ==
    LET p == t.prev[c]
        q == t.next[c]
    IN
    /\ g \in TabType(n) /\ g.idx = t.idx
    /\ g.key = [t.key EXCEPT ![c] = 0] /\ g.val = [t.val EXCEPT ![c] = Null]
    /\ g.next = [IF p = Null THEN t.next ELSE [t.next EXCEPT ![p] = q] EXCEPT ![c] = Null]
    /\ g.prev = [IF q = Null THEN t.prev ELSE [t.prev EXCEPT ![q] = p] EXCEPT ![c] = Null]
    /\ g.bucket = IF p = Null THEN [t.bucket EXCEPT ![Slot(t, n, c)] = q] ELSE t.bucket
    /\ g.used = IF kind = "hashdb" THEN (t.used - 1) % UsedMod ELSE t.used - 1

LEMMA LinkIs ==
    ASSUME NEW n \in Nat \ {0}, NEW t \in TabType(n), n = Buckets(t), NEW c \in Cell
    PROVE  IsLinked(Link(t, c), t, n, c)
<1> DEFINE g == Link(t, c)
           b == Slot(t, n, c)
           old == t.bucket[b]
           next == [t.next EXCEPT ![c] = old]
           prev == IF old = Null THEN t.prev ELSE [t.prev EXCEPT ![old] = c]
           bucket == [t.bucket EXCEPT ![b] = c]
           count == UsedAfter(t)
<1>1. /\ t = [idx |-> t.idx, used |-> t.used, bucket |-> t.bucket, key |-> t.key,
              val |-> t.val, next |-> t.next, prev |-> t.prev]
      /\ t.idx \in Nat /\ t.used \in Int /\ t.bucket \in [0..(n - 1) -> Cell \cup {Null}]
      /\ t.key \in [Cell -> Nat] /\ t.val \in [Cell -> Val \cup {Null}]
      /\ t.next \in [Cell -> Cell \cup {Null}] /\ t.prev \in [Cell -> Cell \cup {Null}]
  BY DEF TabType
<1>2. b \in 0..(n - 1)
  BY <1>1, SlotIs DEF Slot
<1>3. old \in Cell \cup {Null} /\ count \in Int
  <2>1. old \in Cell \cup {Null}
    BY <1>1, <1>2
  <2>2. \A u \in Nat \ {0} : (t.used + 1) % u \in Int
    BY <1>1
  <2>3. QED BY <1>1, <2>1, <2>2, HashAssumption DEF UsedAfter
<1>4. /\ next \in [Cell -> Cell \cup {Null}] /\ prev \in [Cell -> Cell \cup {Null}]
      /\ bucket \in [0..(n - 1) -> Cell \cup {Null}]
  BY <1>1, <1>2, <1>3
<1>5. g = [t EXCEPT !.next = next, !.prev = prev, !.bucket = bucket, !.used = count]
  <2>1. HashIndex(t.key[c], Buckets(t)) = b
    BY DEF HashIndex, Slot
  <2>2. g = [t EXCEPT !.next[c] = old, !.prev = IF old = Null THEN @ ELSE [@ EXCEPT ![old] = c],
                      !.bucket[b] = c, !.used = count]
    BY <2>1 DEF Link
  <2> HIDE DEF b, old, g
  <2>3. QED BY <2>2
<1> HIDE DEF g, old, b, next, prev, bucket, count
<1>6. g = [idx |-> t.idx, used |-> count, bucket |-> bucket, key |-> t.key, val |-> t.val,
           next |-> next, prev |-> prev]
  BY <1>1, <1>5
<1>7. g \in TabType(n)
  BY <1>1, <1>3, <1>4, <1>6 DEF TabType
<1>8. QED BY <1>6, <1>7 DEF IsLinked, g, old, b, next, prev, bucket, count

LEMMA TakenOutIs ==
    ASSUME NEW n \in Nat \ {0}, NEW t \in TabType(n), n = Buckets(t), NEW c \in Cell
    PROVE  IsTakenOut(Freed(Unlinked(t, c), c), t, n, c)
<1> DEFINE g == Freed(Unlinked(t, c), c)
           p == t.prev[c]
           q == t.next[c]
           b == Slot(t, n, c)
           next == IF p = Null THEN t.next ELSE [t.next EXCEPT ![p] = q]
           prev == IF q = Null THEN t.prev ELSE [t.prev EXCEPT ![q] = p]
           bucket == IF p = Null THEN [t.bucket EXCEPT ![b] = q] ELSE t.bucket
           count == IF kind = "hashdb" THEN (t.used - 1) % UsedMod ELSE t.used - 1
           u == Unlinked(t, c)
<1>1. /\ t = [idx |-> t.idx, used |-> t.used, bucket |-> t.bucket, key |-> t.key,
              val |-> t.val, next |-> t.next, prev |-> t.prev]
      /\ t.idx \in Nat /\ t.used \in Int /\ t.bucket \in [0..(n - 1) -> Cell \cup {Null}]
      /\ t.key \in [Cell -> Nat] /\ t.val \in [Cell -> Val \cup {Null}]
      /\ t.next \in [Cell -> Cell \cup {Null}] /\ t.prev \in [Cell -> Cell \cup {Null}]
  BY DEF TabType
<1>2. b \in 0..(n - 1)
  BY <1>1, SlotIs DEF Slot
<1>3. p \in Cell \cup {Null} /\ q \in Cell \cup {Null} /\ count \in Int
  <2>1. \A v \in Nat \ {0} : (t.used - 1) % v \in Int
    BY <1>1
  <2>2. QED BY <1>1, <2>1, HashAssumption
<1>4. /\ next \in [Cell -> Cell \cup {Null}] /\ prev \in [Cell -> Cell \cup {Null}]
      /\ bucket \in [0..(n - 1) -> Cell \cup {Null}]
  BY <1>1, <1>2, <1>3
<1>5. u = [t EXCEPT !.prev = prev, !.next = next, !.bucket = bucket, !.used = count]
  <2>1. HashIndex(t.key[c], Buckets(t)) = b
    BY DEF HashIndex, Slot
  <2>2. u = [t EXCEPT !.prev = IF q = Null THEN @ ELSE [@ EXCEPT ![q] = p],
                      !.next = IF p = Null THEN @ ELSE [@ EXCEPT ![p] = q],
                      !.bucket = IF p = Null THEN [@ EXCEPT ![b] = q] ELSE @,
                      !.used = IF kind = "hashdb" THEN (@ - 1) % UsedMod ELSE @ - 1]
    BY <2>1 DEF Unlinked
  <2> HIDE DEF u, b, p, q
  <2>3. QED BY <2>2
<1> HIDE DEF g, p, q, b, next, prev, bucket, count, u
<1>6. u = [idx |-> t.idx, used |-> count, bucket |-> bucket, key |-> t.key, val |-> t.val,
           next |-> next, prev |-> prev]
  BY <1>1, <1>5
<1>7. g = [u EXCEPT !.key[c] = 0, !.val[c] = Null, !.next[c] = Null, !.prev[c] = Null]
  BY DEF Freed, u, g
<1>8. g = [idx |-> t.idx, used |-> count, bucket |-> bucket, key |-> [t.key EXCEPT ![c] = 0],
           val |-> [t.val EXCEPT ![c] = Null], next |-> [next EXCEPT ![c] = Null],
           prev |-> [prev EXCEPT ![c] = Null]]
  BY <1>6, <1>7
<1>9. g \in TabType(n)
  BY <1>1, <1>3, <1>4, <1>8 DEF TabType
<1>10. QED BY <1>8, <1>9 DEF IsTakenOut, g, p, q, b, next, prev, bucket, count

LEMMA LinkKeeps ==
    ASSUME NEW t, NEW n, NEW S, NEW r, NEW m, Tabled(t, n, S, r, m), n = Buckets(t),
           NEW c \in Cell \ S, NEW g, g = Link(t, c)
    PROVE  Tabled(g, n, S \cup {c}, [r EXCEPT ![c] = m], m + 1)
<1> DEFINE b == Slot(t, n, c)
           old == t.bucket[b]
           T == S \cup {c}
           s == [r EXCEPT ![c] = m]
<1>1. /\ n \in Nat \ {0} /\ t \in TabType(n) /\ S \in SUBSET Cell /\ r \in [Cell -> Nat]
      /\ m \in Nat /\ c \in Cell /\ c \notin S /\ c # Null /\ Null \notin S
      /\ t.key \in [Cell -> Nat] /\ t.next \in [Cell -> Cell \cup {Null}]
      /\ t.bucket \in [0..(n - 1) -> Cell \cup {Null}]
  BY HashAssumption DEF Tabled, TabType
<1>2. \A d \in Cell : Slot(t, n, d) \in 0..(n - 1)
  BY <1>1, SlotIs DEF Slot
<1>3. /\ g \in TabType(n) /\ g.key = t.key /\ g.next = [t.next EXCEPT ![c] = old]
      /\ g.bucket = [t.bucket EXCEPT ![b] = c]
  <2> HIDE DEF b
  <2>1. n \in Nat \ {0} /\ t \in TabType(n) /\ c \in Cell
    BY <1>1
  <2>2. IsLinked(Link(t, c), t, n, c)
    BY <2>1, LinkIs
  <2>3. QED BY <2>2 DEF IsLinked, b
<1>4. /\ \A k \in 0..(n - 1) : t.bucket[k] # Null =>
             t.bucket[k] \in S /\ Slot(t, n, t.bucket[k]) = k
      /\ \A d \in S : t.next[d] # Null =>
             t.next[d] \in S /\ Slot(t, n, t.next[d]) = Slot(t, n, d) /\ r[t.next[d]] < r[d]
      /\ \A d, e \in S : t.next[d] = t.next[e] /\ t.next[d] # Null => d = e
      /\ \A d \in S : t.bucket[Slot(t, n, d)] = d <=> \A e \in S : t.next[e] # d
      /\ \A d \in S : r[d] < m
  BY DEF Tabled, Chained
<1>5. old # Null => old \in S /\ Slot(t, n, old) = b /\ \A d \in S : t.next[d] # old
  BY <1>1, <1>2, <1>4
<1>6. /\ \A d \in Cell : Slot(g, n, d) = Slot(t, n, d)
      /\ g.next[c] = old /\ \A d \in S : g.next[d] = t.next[d]
      /\ g.bucket[b] = c /\ \A k \in 0..(n - 1) : k # b => g.bucket[k] = t.bucket[k]
      /\ s[c] = m /\ \A d \in S : s[d] = r[d]
      /\ \A d \in S : t.next[d] # c
  BY <1>1, <1>2, <1>3, <1>4 DEF Slot
<1>7. s \in [Cell -> Nat] /\ T \in SUBSET Cell /\ m + 1 \in Nat
  BY <1>1
<1> HIDE DEF b, old, s
<1>8. \A k \in 0..(n - 1) : g.bucket[k] # Null => g.bucket[k] \in T /\ Slot(g, n, g.bucket[k]) = k
  BY <1>1, <1>4, <1>6 DEF b
<1>9. \A d \in T : g.next[d] # Null =>
          g.next[d] \in T /\ Slot(g, n, g.next[d]) = Slot(g, n, d) /\ s[g.next[d]] < s[d]
  <2>1. CASE old = Null
    BY <1>1, <1>4, <1>6, <2>1
  <2>2. CASE old # Null
    BY <1>1, <1>4, <1>5, <1>6, <2>2 DEF b
  <2>3. QED BY <2>1, <2>2
<1>10. \A d, e \in T : g.next[d] = g.next[e] /\ g.next[d] # Null => d = e
  BY <1>4, <1>5, <1>6
<1>11. ASSUME NEW d \in T PROVE g.bucket[Slot(g, n, d)] = d <=> \A e \in T : g.next[e] # d
  <2>1. CASE d = c
    BY <1>1, <1>5, <1>6, <2>1 DEF b
  <2>2. CASE d # c
    <3>1. d \in S /\ Slot(g, n, d) = Slot(t, n, d) /\ Slot(t, n, d) \in 0..(n - 1)
      BY <1>1, <1>2, <1>6, <2>2
    <3>2. t.bucket[Slot(t, n, d)] = d <=> \A e \in S : t.next[e] # d
      BY <1>4, <3>1
    <3>3. CASE Slot(t, n, d) = b
      <4>1. t.bucket[b] = old
        BY DEF old
      <4>2. g.bucket[Slot(g, n, d)] # d
        BY <1>6, <2>2, <3>1, <3>3
      <4>3. \E e \in T : g.next[e] = d
        BY <1>6, <3>2, <3>3, <4>1
      <4>4. QED BY <4>2, <4>3
    <3>4. CASE Slot(t, n, d) # b
      <4>1. g.bucket[Slot(g, n, d)] = t.bucket[Slot(t, n, d)] /\ old # d
        BY <1>1, <1>5, <1>6, <3>1, <3>4
      <4>2. QED BY <1>6, <3>2, <4>1
    <3>5. QED BY <3>3, <3>4
  <2>3. QED BY <2>1, <2>2
<1>12. \A d \in T : s[d] < m + 1
  BY <1>1, <1>4, <1>6
<1>13. Chained(g, n, T, s, m + 1)
  BY <1>8, <1>9, <1>10, <1>11, <1>12 DEF Chained
<1>14. QED BY <1>1, <1>3, <1>7, <1>13 DEF Tabled, s

LEMMA TakenOutKeeps ==
    ASSUME NEW t, NEW n, NEW S, NEW r, NEW m, Tabled(t, n, S, r, m), n = Buckets(t),
           NEW c \in S, LinksTo(t, n, S, t.prev[c], c), NEW g, g = Freed(Unlinked(t, c), c)
    PROVE  /\ Tabled(g, n, S \ {c}, r, m)
           /\ \A d \in S \ {c} : LinksTo(t, n, S, t.prev[d], d)
                                   => LinksTo(g, n, S \ {c}, g.prev[d], d)
<1> DEFINE b == Slot(t, n, c)
           p == t.prev[c]
           q == t.next[c]
           T == S \ {c}
<1>1. /\ n \in Nat \ {0} /\ t \in TabType(n) /\ S \in SUBSET Cell /\ r \in [Cell -> Nat]
      /\ m \in Nat /\ c \in Cell /\ c # Null /\ Null \notin S
      /\ t.key \in [Cell -> Nat] /\ t.next \in [Cell -> Cell \cup {Null}]
      /\ t.prev \in [Cell -> Cell \cup {Null}] /\ t.bucket \in [0..(n - 1) -> Cell \cup {Null}]
  BY HashAssumption DEF Tabled, TabType
<1>2. \A d \in Cell : Slot(t, n, d) \in 0..(n - 1)
  BY <1>1, SlotIs DEF Slot
<1>3. /\ \A k \in 0..(n - 1) : t.bucket[k] # Null =>
             t.bucket[k] \in S /\ Slot(t, n, t.bucket[k]) = k
      /\ \A d \in S : t.next[d] # Null =>
             t.next[d] \in S /\ Slot(t, n, t.next[d]) = Slot(t, n, d) /\ r[t.next[d]] < r[d]
      /\ \A d, e \in S : t.next[d] = t.next[e] /\ t.next[d] # Null => d = e
      /\ \A d \in S : t.bucket[Slot(t, n, d)] = d <=> \A e \in S : t.next[e] # d
      /\ \A d \in S : r[d] < m
  BY DEF Tabled, Chained
<1>4. /\ p = Null => t.bucket[b] = c /\ \A d \in S : t.next[d] # c
      /\ p # Null => /\ p \in T /\ t.next[p] = c /\ t.bucket[b] # c /\ Slot(t, n, p) = b
                     /\ r[c] < r[p]
      /\ q # Null => q \in T /\ Slot(t, n, q) = b /\ r[q] < r[c]
                     /\ \A d \in T : t.next[d] # q
      /\ \A d \in T : d # p => t.next[d] # c
  BY <1>1, <1>3 DEF LinksTo
<1>5. /\ g \in TabType(n) /\ g.key = [t.key EXCEPT ![c] = 0]
      /\ g.next = [IF p = Null THEN t.next ELSE [t.next EXCEPT ![p] = q] EXCEPT ![c] = Null]
      /\ g.prev = [IF q = Null THEN t.prev ELSE [t.prev EXCEPT ![q] = p] EXCEPT ![c] = Null]
      /\ g.bucket = IF p = Null THEN [t.bucket EXCEPT ![b] = q] ELSE t.bucket
  <2>1. n \in Nat \ {0} /\ t \in TabType(n) /\ c \in Cell
    BY <1>1
  <2>2. IsTakenOut(Freed(Unlinked(t, c), c), t, n, c)
    BY <2>1, TakenOutIs
  <2>3. QED BY <2>2 DEF IsTakenOut
<1> HIDE DEF p, q
<1>6. /\ \A d \in T : g.next[d] = IF d = p THEN q ELSE t.next[d]
      /\ \A d \in T : g.prev[d] = IF d = q THEN p ELSE t.prev[d]
      /\ \A d \in T : Slot(g, n, d) = Slot(t, n, d)
      /\ \A k \in 0..(n - 1) : g.bucket[k] = IF p = Null /\ k = b THEN q ELSE t.bucket[k]
  <2>1. (p = Null \/ p \in Cell) /\ (q = Null \/ q \in Cell) /\ T \in SUBSET Cell /\ c \notin T
        /\ Null \notin T
    BY <1>1, <1>4
  <2> HIDE DEF T
  <2>2. ASSUME NEW d \in T PROVE g.next[d] = IF d = p THEN q ELSE t.next[d]
    BY <1>1, <1>5, <2>1
  <2>3. ASSUME NEW d \in T PROVE g.prev[d] = IF d = q THEN p ELSE t.prev[d]
    BY <1>1, <1>5, <2>1
  <2>4. ASSUME NEW d \in T PROVE Slot(g, n, d) = Slot(t, n, d)
    BY <1>1, <1>5, <2>1 DEF Slot
  <2>5. ASSUME NEW k \in 0..(n - 1)
        PROVE  g.bucket[k] = IF p = Null /\ k = b THEN q ELSE t.bucket[k]
    <3> HIDE DEF b
    <3>1. QED BY <1>1, <1>5
  <2>6. QED BY <2>2, <2>3, <2>4, <2>5
<1>7. b \in 0..(n - 1)
  BY <1>1, <1>2
<1> HIDE DEF b
<1>8. ASSUME NEW k \in 0..(n - 1), g.bucket[k] # Null
      PROVE  g.bucket[k] \in T /\ Slot(g, n, g.bucket[k]) = k
  <2>1. CASE p = Null /\ k = b
    BY <1>4, <1>6, <1>8, <2>1
  <2>2. CASE ~(p = Null /\ k = b)
    <3>1. g.bucket[k] = t.bucket[k] /\ t.bucket[k] \in S /\ Slot(t, n, t.bucket[k]) = k
      BY <1>3, <1>6, <1>8, <2>2
    <3>2. t.bucket[k] # c
      BY <1>4, <2>2, <3>1 DEF b
    <3>3. QED BY <1>6, <3>1, <3>2
  <2>3. QED BY <2>1, <2>2
<1>9. ASSUME NEW d \in T, g.next[d] # Null
      PROVE  g.next[d] \in T /\ Slot(g, n, g.next[d]) = Slot(g, n, d) /\ r[g.next[d]] < r[d]
  <2>1. CASE d = p
    <3>1. p # Null /\ q # Null /\ g.next[d] = q
      BY <1>1, <1>6, <1>9, <2>1
    <3>2. r[p] \in Nat /\ r[q] \in Nat /\ r[c] \in Nat
      BY <1>1, <1>4, <3>1
    <3>3. QED BY <1>4, <1>6, <2>1, <3>1, <3>2
  <2>2. CASE d # p
    <3>1. g.next[d] = t.next[d] /\ t.next[d] # c
      BY <1>4, <1>6, <2>2
    <3>2. QED BY <1>3, <1>6, <1>9, <3>1
  <2>3. QED BY <2>1, <2>2
<1>10. \A d, e \in T : g.next[d] = g.next[e] /\ g.next[d] # Null => d = e
  BY <1>3, <1>4, <1>6
<1>11. ASSUME NEW d \in T PROVE g.bucket[Slot(g, n, d)] = d <=> \A e \in T : g.next[e] # d
  <2>1. /\ Slot(g, n, d) = Slot(t, n, d) /\ Slot(t, n, d) \in 0..(n - 1) /\ d # Null
        /\ t.bucket[Slot(t, n, d)] = d <=> \A e \in S : t.next[e] # d
    BY <1>1, <1>2, <1>3, <1>6
  <2>2. CASE d = q
    <3>1. q # Null /\ Slot(t, n, d) = b /\ t.next[c] = d
      BY <1>4, <2>1, <2>2 DEF q
    <3>2. t.bucket[b] # d
      BY <2>1, <3>1
    <3>3. CASE p = Null
      BY <1>1, <1>4, <1>6, <2>1, <2>2, <3>1, <3>3
    <3>4. CASE p # Null
      BY <1>4, <1>6, <2>1, <2>2, <3>1, <3>2, <3>4
    <3>5. QED BY <3>3, <3>4
  <2>3. CASE d # q
    <3>1. g.bucket[Slot(g, n, d)] = d <=> t.bucket[Slot(t, n, d)] = d
      BY <1>4, <1>6, <2>1, <2>3
    <3>2. (\A e \in T : g.next[e] # d) <=> \A e \in S : t.next[e] # d
      <4>1. t.next[c] # d
        BY <2>3 DEF q
      <4>2. p \in T => t.next[p] # d
        BY <1>1, <1>4
      <4>3. QED BY <1>6, <2>3, <4>1, <4>2
    <3>3. QED BY <2>1, <3>1, <3>2
  <2>4. QED BY <2>2, <2>3
<1>12. Chained(g, n, T, r, m)
  BY <1>3, <1>8, <1>9, <1>10, <1>11 DEF Chained
<1>13. ASSUME NEW d \in T, LinksTo(t, n, S, t.prev[d], d) PROVE LinksTo(g, n, T, g.prev[d], d)
  <2>1. CASE d = q
    <3>1. g.prev[d] = p /\ q # Null
      BY <1>1, <1>6, <2>1
    <3>2. CASE p = Null
      BY <1>4, <1>6, <1>7, <2>1, <3>1, <3>2 DEF LinksTo
    <3>3. CASE p # Null
      BY <1>4, <1>6, <2>1, <3>1, <3>3 DEF LinksTo
    <3>4. QED BY <3>2, <3>3
  <2>2. CASE d # q
    <3>1. g.prev[d] = t.prev[d] /\ Slot(g, n, d) = Slot(t, n, d) /\ Slot(t, n, d) \in 0..(n - 1)
      BY <1>1, <1>2, <1>6, <2>2
    <3>2. t.prev[d] # c
      BY <1>1, <1>13, <2>2 DEF LinksTo, q
    <3>3. CASE t.prev[d] = Null /\ t.bucket[Slot(t, n, d)] = d
      <4>1. ~(p = Null /\ Slot(t, n, d) = b)
        BY <1>4, <3>3
      <4>2. QED BY <1>6, <3>1, <3>3, <4>1 DEF LinksTo
    <3>4. CASE t.prev[d] \in S /\ t.next[t.prev[d]] = d
      <4>1. t.prev[d] \in T /\ t.prev[d] # p
        BY <1>1, <1>4, <3>2, <3>4
      <4>2. QED BY <1>6, <3>1, <3>4, <4>1 DEF LinksTo
    <3>5. QED BY <1>13, <3>3, <3>4 DEF LinksTo
  <2>3. QED BY <2>1, <2>2
<1>14. QED BY <1>1, <1>5, <1>12, <1>13 DEF Tabled

-----------------------------------------------------------------------------
(* A table that grows.                                                     *)

\* What FlattenSeq makes of a sequence of sequences, one by one.
Flattening(f, ss, n) == [i \in 1..n |-> IF i = 1 THEN ss[i] ELSE f[i - 1] \o ss[i]]

LEMMA FlatteningExists ==
    ASSUME NEW ss, NEW n \in Nat \ {0}
    PROVE  \E f : f = Flattening(f, ss, n)
<1> DEFINE K == {k \in Nat : \E f : f = Flattening(f, ss, k + 1)}
<1>1. 0 \in K
  <2> DEFINE f == [i \in 1..(0 + 1) |-> ss[1]]
  <2>1. f = Flattening(f, ss, 0 + 1)
    <3>1. \A i \in 1..(0 + 1) : i = 1
      OBVIOUS
    <3>2. QED BY <3>1 DEF Flattening
  <2> HIDE DEF f
  <2>2. QED BY <2>1
<1>2. ASSUME NEW k \in Nat, k \in K PROVE k + 1 \in K
  <2>1. PICK f : f = Flattening(f, ss, k + 1)
    BY <1>2
  <2> DEFINE n1 == (k + 1) + 1
             g == [i \in 1..n1 |-> IF i = n1 THEN f[i - 1] \o ss[i] ELSE f[i]]
             rule(i) == IF i = 1 THEN ss[i] ELSE g[i - 1] \o ss[i]
  <2>2. ASSUME NEW i \in 1..n1 PROVE g[i] = rule(i)
    <3>1. CASE i = n1
      <4>1. i - 1 \in 1..n1 /\ i - 1 # n1 /\ i # 1
        BY <3>1
      <4>2. g[i - 1] = f[i - 1]
        BY <4>1
      <4>3. QED BY <3>1, <4>1, <4>2
    <3>2. CASE i # n1
      <4>1. i \in 1..(k + 1)
        BY <3>2
      <4>2. f[i] = IF i = 1 THEN ss[i] ELSE f[i - 1] \o ss[i]
        BY <2>1, <4>1 DEF Flattening
      <4>3. i # 1 => i - 1 \in 1..n1 /\ i - 1 # n1
        BY <4>1
      <4>4. i # 1 => g[i - 1] = f[i - 1]
        BY <4>3
      <4>5. QED BY <3>2, <4>2, <4>4
    <3>3. QED BY <3>1, <3>2
  <2>3. g = [i \in 1..n1 |-> g[i]]
    OBVIOUS
  <2> HIDE DEF g
  <2>4. g = [i \in 1..n1 |-> rule(i)]
    BY <2>2, <2>3
  <2>5. g = Flattening(g, ss, n1)
    BY <2>4 DEF Flattening
  <2>6. k + 1 \in Nat
    OBVIOUS
  <2>7. QED BY <2>5, <2>6
<1> HIDE DEF K
<1>3. n - 1 \in Nat /\ (n - 1) + 1 = n
  OBVIOUS
<1>4. n - 1 \in K
  BY <1>1, <1>2, <1>3, Climb
<1>5. QED BY <1>3, <1>4 DEF K

LEMMA FlattenIs ==
    ASSUME NEW ss, NEW n \in Nat \ {0}, Len(ss) = n
    PROVE  \E f : /\ f[1] = ss[1] /\ \A i \in 1..n : i # 1 => f[i] = f[i - 1] \o ss[i]
                  /\ FlattenSeq(ss) = f[n]
<1> DEFINE f == CHOOSE f : f = Flattening(f, ss, n)
<1>1. f = Flattening(f, ss, n)
  BY FlatteningExists
<1>2. FlattenSeq(ss) = f[n]
  BY DEF FlattenSeq, Flattening
<1> HIDE DEF f
<1>3. f[1] = ss[1] /\ \A i \in 1..n : i # 1 => f[i] = f[i - 1] \o ss[i]
  <2>1. \A i \in 1..n : f[i] = IF i = 1 THEN ss[i] ELSE f[i - 1] \o ss[i]
    BY <1>1 DEF Flattening
  <2>2. 1 \in 1..n
    OBVIOUS
  <2>3. QED BY <2>1, <2>2
<1>4. QED BY <1>2, <1>3

\* s holds the cells of some buckets, each once.
Collects(s, t, n, S, X) ==
    /\ s \in Seq(Cell)
    /\ \A i, j \in 1..Len(s) : s[i] = s[j] => i = j
    /\ \A i \in 1..Len(s) : s[i] \in S /\ Slot(t, n, s[i]) \in X
    /\ \A c \in S : Slot(t, n, c) \in X => \E i \in 1..Len(s) : s[i] = c

LEMMA CollectMore ==
    ASSUME NEW t, NEW n, NEW S, NEW X, NEW Y, X \cap Y = {},
           NEW p, Collects(p, t, n, S, X), NEW q, Collects(q, t, n, S, Y)
    PROVE  Collects(p \o q, t, n, S, X \cup Y)
<1> DEFINE s == p \o q
<1>1. p \in Seq(Cell) /\ q \in Seq(Cell) /\ Len(p) \in Nat /\ Len(q) \in Nat
  BY DEF Collects
<1>2. /\ s \in Seq(Cell) /\ Len(s) = Len(p) + Len(q)
      /\ \A i \in 1..(Len(p) + Len(q)) : s[i] = IF i <= Len(p) THEN p[i] ELSE q[i - Len(p)]
  BY <1>1, ConcatProperties
<1> HIDE DEF s
<1>3. ASSUME NEW i \in 1..Len(s)
      PROVE  \/ i \in 1..Len(p) /\ s[i] = p[i]
             \/ i - Len(p) \in 1..Len(q) /\ s[i] = q[i - Len(p)]
  BY <1>1, <1>2
<1>4. /\ \A i \in 1..Len(p) : i \in 1..Len(s) /\ s[i] = p[i]
      /\ \A i \in 1..Len(q) : i + Len(p) \in 1..Len(s) /\ s[i + Len(p)] = q[i]
  <2>1. \A i \in 1..Len(p) : i \in 1..Len(s) /\ s[i] = p[i]
    BY <1>1, <1>2
  <2>2. ASSUME NEW i \in 1..Len(q) PROVE i + Len(p) \in 1..Len(s) /\ s[i + Len(p)] = q[i]
    <3>1. i + Len(p) \in 1..Len(s) /\ ~(i + Len(p) <= Len(p)) /\ (i + Len(p)) - Len(p) = i
      BY <1>1, <1>2
    <3>2. QED BY <1>2, <3>1
  <2>3. QED BY <2>1, <2>2
<1>5. /\ \A i, j \in 1..Len(p) : p[i] = p[j] => i = j
      /\ \A i, j \in 1..Len(q) : q[i] = q[j] => i = j
      /\ \A i \in 1..Len(p) : p[i] \in S /\ Slot(t, n, p[i]) \in X
      /\ \A i \in 1..Len(q) : q[i] \in S /\ Slot(t, n, q[i]) \in Y
      /\ \A c \in S : Slot(t, n, c) \in X => \E i \in 1..Len(p) : p[i] = c
      /\ \A c \in S : Slot(t, n, c) \in Y => \E i \in 1..Len(q) : q[i] = c
  BY DEF Collects
<1>6. ASSUME NEW i \in 1..Len(s), NEW j \in 1..Len(s), s[i] = s[j] PROVE i = j
  <2>1. CASE i \in 1..Len(p) /\ s[i] = p[i] /\ j \in 1..Len(p) /\ s[j] = p[j]
    BY <1>5, <1>6, <2>1
  <2>2. CASE /\ i - Len(p) \in 1..Len(q) /\ s[i] = q[i - Len(p)]
             /\ j - Len(p) \in 1..Len(q) /\ s[j] = q[j - Len(p)]
    <3>1. i - Len(p) = j - Len(p)
      BY <1>5, <1>6, <2>2
    <3>2. QED BY <1>1, <1>2, <3>1
  <2>3. CASE \/ i \in 1..Len(p) /\ s[i] = p[i] /\ j - Len(p) \in 1..Len(q) /\ s[j] = q[j - Len(p)]
             \/ j \in 1..Len(p) /\ s[j] = p[j] /\ i - Len(p) \in 1..Len(q) /\ s[i] = q[i - Len(p)]
    BY <1>5, <1>6, <2>3
  <2>4. QED BY <1>3, <2>1, <2>2, <2>3
<1>7. \A i \in 1..Len(s) : s[i] \in S /\ Slot(t, n, s[i]) \in X \cup Y
  BY <1>3, <1>5
<1>8. \A c \in S : Slot(t, n, c) \in X \cup Y => \E i \in 1..Len(s) : s[i] = c
  BY <1>4, <1>5
<1>9. QED BY <1>2, <1>6, <1>7, <1>8 DEF Collects, s

LEMMA WalkedIs ==
    ASSUME NEW t, NEW n, NEW S, NEW r, NEW m, Tabled(t, n, S, r, m), n = Buckets(t)
    PROVE  Collects(Walked(t), t, n, S, 0..(n - 1))
<1> DEFINE ss == [b \in 1..n |-> ChainFrom(t.next, t.bucket[b - 1])]
<1>1. n \in Nat \ {0}
  BY DEF Tabled
<1>2. ASSUME NEW b \in 0..(n - 1) PROVE Collects(ss[b + 1], t, n, S, {b})
  <2>1. b + 1 \in 1..n /\ (b + 1) - 1 = b
    BY <1>1
  <2>2. ss[b + 1] = ChainFrom(t.next, t.bucket[b])
    BY <2>1
  <2>3. IsChain(ss[b + 1], t, n, S, r, b)
    BY <2>2, ChainIs
  <2> HIDE DEF ss
  <2>4. QED BY <2>3 DEF IsChain, Collects
<1>3. Len(ss) = n
  BY <1>1
<1>4. Walked(t) = FlattenSeq(ss)
  BY DEF Walked
<1> HIDE DEF ss
<1>5. PICK f : /\ f[1] = ss[1] /\ \A i \in 1..n : i # 1 => f[i] = f[i - 1] \o ss[i]
               /\ FlattenSeq(ss) = f[n]
  BY <1>1, <1>3, FlattenIs
<1> DEFINE K == {k \in Nat : k + 1 <= n => Collects(f[k + 1], t, n, S, 0..k)}
<1>6. 0 \in K
  <2>1. 0 \in 0..(n - 1) /\ 0..0 = {0} /\ 0 + 1 = 1
    BY <1>1
  <2>2. Collects(ss[1], t, n, S, {0})
    BY <1>2, <2>1
  <2>3. QED BY <1>5, <2>1, <2>2
<1>7. ASSUME NEW k \in Nat, k \in K PROVE k + 1 \in K
  <2>1. SUFFICES ASSUME (k + 1) + 1 <= n PROVE Collects(f[(k + 1) + 1], t, n, S, 0..(k + 1))
    OBVIOUS
  <2>2. /\ k + 1 <= n /\ k + 1 \in 0..(n - 1) /\ (k + 1) + 1 \in 1..n /\ (k + 1) + 1 # 1
        /\ ((k + 1) + 1) - 1 = k + 1
    BY <1>1, <2>1
  <2>3. f[(k + 1) + 1] = f[k + 1] \o ss[(k + 1) + 1]
    BY <1>5, <2>2
  <2>4. Collects(f[k + 1], t, n, S, 0..k) /\ Collects(ss[(k + 1) + 1], t, n, S, {k + 1})
    BY <1>2, <1>7, <2>2
  <2>5. (0..k) \cap {k + 1} = {} /\ (0..k) \cup {k + 1} = 0..(k + 1)
    OBVIOUS
  <2>6. Collects(f[k + 1] \o ss[(k + 1) + 1], t, n, S, (0..k) \cup {k + 1})
    BY <2>4, <2>5, CollectMore
  <2>7. QED BY <2>3, <2>5, <2>6
<1> HIDE DEF K
<1>8. n - 1 \in Nat /\ (n - 1) + 1 = n
  BY <1>1
<1>9. n - 1 \in K
  BY <1>6, <1>7, <1>8, Climb
<1>10. QED BY <1>1, <1>4, <1>5, <1>8, <1>9 DEF K

\* What FoldLeft makes of a sequence of cells that are linked into g, as a
\* function of sets of positions.
LinkRule(f, g, s, d) ==
    [x \in SUBSET d |-> IF x = {} THEN g ELSE Link(f[x \ {Max(x)}], s[Max(x)])]

Links(g, s) == CHOOSE f : f = LinkRule(f, g, s, DOMAIN s)

\* The table after the first k cells of s.
AfterLinks(g, s, k) == Links(g, s)[1..k]

LEMMA LinksAre ==
    ASSUME NEW g, NEW s
    PROVE  FoldLeft(Link, g, s) = Links(g, s)[DOMAIN s]
  BY DEF FoldLeft, MapThenFoldSet, LinkRule, Links

LEMMA LastIsMax ==
    ASSUME NEW m \in Nat, NEW x \in SUBSET (1..m), m \in x
    PROVE  Max(x) = m
<1>1. \E i \in x : \A y \in x : i >= y
  OBVIOUS
<1>2. Max(x) \in x /\ \A y \in x : Max(x) >= y
  BY <1>1 DEF Max
<1>3. Max(x) \in 1..m /\ Max(x) >= m
  BY <1>2
<1>4. \A i \in 1..m : i >= m => i = m
  OBVIOUS
<1>5. QED BY <1>3, <1>4

LEMMA LinksExist ==
    ASSUME NEW g, NEW s, NEW n \in Nat
    PROVE  \E f : f = LinkRule(f, g, s, 1..n)
<1> DEFINE K == {k \in Nat : \E f : f = LinkRule(f, g, s, 1..k)}
<1>1. 0 \in K
  <2> DEFINE f == [x \in SUBSET (1..0) |-> g]
  <2>1. f = LinkRule(f, g, s, 1..0)
    <3>1. \A x \in SUBSET (1..0) : x = {}
      OBVIOUS
    <3>2. QED BY <3>1 DEF LinkRule
  <2>2. QED BY <2>1
<1>2. ASSUME NEW k \in Nat, k \in K PROVE k + 1 \in K
  <2>1. PICK f : f = LinkRule(f, g, s, 1..k)
    BY <1>2
  <2> DEFINE h == [x \in SUBSET (1..(k + 1)) |->
                     IF k + 1 \in x THEN Link(f[x \ {k + 1}], s[k + 1]) ELSE f[x]]
             rule(x) == IF x = {} THEN g ELSE Link(h[x \ {Max(x)}], s[Max(x)])
  <2>2. ASSUME NEW x \in SUBSET (1..(k + 1)) PROVE h[x] = rule(x)
    <3>1. CASE k + 1 \in x
      <4>1. Max(x) = k + 1 /\ x # {}
        BY <3>1, LastIsMax
      <4>2. x \ {k + 1} \in SUBSET (1..(k + 1)) /\ k + 1 \notin x \ {k + 1}
        OBVIOUS
      <4>3. h[x \ {k + 1}] = f[x \ {k + 1}]
        BY <4>2
      <4>4. QED BY <3>1, <4>1, <4>3
    <3>2. CASE k + 1 \notin x
      <4>1. x \in SUBSET (1..k)
        BY <3>2
      <4>2. f[x] = IF x = {} THEN g ELSE Link(f[x \ {Max(x)}], s[Max(x)])
        BY <2>1, <4>1 DEF LinkRule
      <4>3. x \ {Max(x)} \in SUBSET (1..(k + 1)) /\ k + 1 \notin x \ {Max(x)}
        BY <3>2
      <4>4. h[x \ {Max(x)}] = f[x \ {Max(x)}] /\ h[x] = f[x]
        BY <3>2, <4>3
      <4>5. QED BY <4>2, <4>4
    <3>3. QED BY <3>1, <3>2
  <2>3. h = LinkRule(h, g, s, 1..(k + 1))
    <3>1. h = [x \in SUBSET (1..(k + 1)) |-> h[x]]
      OBVIOUS
    <3> HIDE DEF h
    <3>2. h = [x \in SUBSET (1..(k + 1)) |-> rule(x)]
      BY <2>2, <3>1
    <3>3. QED BY <3>2 DEF LinkRule
  <2> HIDE DEF h
  <2>4. k + 1 \in Nat
    OBVIOUS
  <2>5. QED BY <2>3, <2>4
<1> HIDE DEF K
<1>3. n \in K
  BY <1>1, <1>2, Climb
<1>4. QED BY <1>3 DEF K

LEMMA LinksStep ==
    ASSUME NEW g, NEW s, NEW n \in Nat, DOMAIN s = 1..n
    PROVE  /\ FoldLeft(Link, g, s) = AfterLinks(g, s, n)
           /\ AfterLinks(g, s, 0) = g
           /\ \A k \in 1..n : AfterLinks(g, s, k) = Link(AfterLinks(g, s, k - 1), s[k])
<1>1. Links(g, s) = LinkRule(Links(g, s), g, s, 1..n)
  BY LinksExist DEF Links
<1>2. AfterLinks(g, s, 0) = g
  <2>1. 1..0 = {} /\ 1..0 \in SUBSET (1..n)
    OBVIOUS
  <2>2. QED BY <1>1, <2>1 DEF LinkRule, AfterLinks
<1>3. ASSUME NEW k \in 1..n PROVE AfterLinks(g, s, k) = Link(AfterLinks(g, s, k - 1), s[k])
  <2>1. 1..k \in SUBSET (1..n) /\ 1..k # {} /\ Max(1..k) = k
    BY LastIsMax
  <2>2. (1..k) \ {k} = 1..(k - 1)
    OBVIOUS
  <2>3. QED BY <1>1, <2>1, <2>2 DEF LinkRule, AfterLinks
<1>4. QED BY <1>2, <1>3, LinksAre DEF AfterLinks

\* A table whose buckets are made anew holds nothing.
LEMMA ResizedIs ==
    ASSUME NEW n, NEW t \in TabType(n), NEW i \in Nat, NEW N \in Nat \ {0}, N = Sizes[kind][i],
           NEW g, g = Resized(t, i)
    PROVE  /\ Tabled(g, N, {}, [c \in Cell |-> 0], 0)
           /\ g.idx = i /\ g.key = t.key /\ g.val = t.val /\ g.used = 0
<1> DEFINE B == [b \in 0..(N - 1) |-> Null]
<1>1. /\ t = [idx |-> t.idx, used |-> t.used, bucket |-> t.bucket, key |-> t.key,
              val |-> t.val, next |-> t.next, prev |-> t.prev]
      /\ t.key \in [Cell -> Nat] /\ t.val \in [Cell -> Val \cup {Null}]
      /\ t.next \in [Cell -> Cell \cup {Null}] /\ t.prev \in [Cell -> Cell \cup {Null}]
  BY DEF TabType
<1>2. B \in [0..(N - 1) -> Cell \cup {Null}] /\ \A b \in 0..(N - 1) : B[b] = Null
  OBVIOUS
<1>3. g = [t EXCEPT !.idx = i, !.used = 0, !.bucket = B]
  BY DEF Resized
<1> HIDE DEF B
<1>4. g = [idx |-> i, used |-> 0, bucket |-> B, key |-> t.key, val |-> t.val,
           next |-> t.next, prev |-> t.prev]
  BY <1>1, <1>3
<1>5. g \in TabType(N)
  BY <1>1, <1>2, <1>4 DEF TabType
<1>6. [c \in Cell |-> 0] \in [Cell -> Nat]
  OBVIOUS
<1>7. QED BY <1>2, <1>4, <1>5, <1>6 DEF Tabled, Chained

\* A table that has grown holds the cells it held, and counts them.
LEMMA GrowKeeps ==
    ASSUME kind # "hashdb", NEW t, NEW n, NEW S, NEW r, NEW m, Tabled(t, n, S, r, m),
           n = Buckets(t), NEW N \in Nat \ {0}, N = Sizes[kind][t.idx + 1],
           NEW g, g = Grow(t)
    PROVE  /\ \E q, k : Tabled(g, N, S, q, k)
           /\ g.idx = t.idx + 1 /\ g.key = t.key /\ g.used = Cardinality(S)
<1> DEFINE w == Walked(t)
           base == Resized(t, t.idx + 1)
           h(k) == AfterLinks(base, w, k)
           S0(k) == {w[i] : i \in 1..k}
<1>1. t \in TabType(n) /\ t.idx \in Nat /\ t.idx + 1 \in Nat /\ S \in SUBSET Cell
  BY DEF Tabled, TabType
<1>2. /\ Tabled(base, N, {}, [c \in Cell |-> 0], 0)
      /\ base.idx = t.idx + 1 /\ base.key = t.key /\ base.used = 0
  BY <1>1, ResizedIs
<1>3. Collects(w, t, n, S, 0..(n - 1))
  BY WalkedIs
<1>4. g = FoldLeft(Link, base, w)
  BY DEF Grow
<1> HIDE DEF base, w
<1>5. /\ w \in Seq(Cell) /\ Len(w) \in Nat /\ DOMAIN w = 1..Len(w)
      /\ \A i, j \in 1..Len(w) : w[i] = w[j] => i = j
      /\ \A i \in 1..Len(w) : w[i] \in S
  <2>1. /\ w \in Seq(Cell)
        /\ \A i, j \in 1..Len(w) : w[i] = w[j] => i = j
        /\ \A i \in 1..Len(w) : w[i] \in S
    BY <1>3 DEF Collects
  <2>2. Len(w) \in Nat /\ DOMAIN w = 1..Len(w)
    BY <2>1
  <2>3. QED BY <2>1, <2>2
<1>6. \A c \in S : \E i \in 1..Len(w) : w[i] = c
  <2>1. \A c \in S : Slot(t, n, c) \in 0..(n - 1)
    BY SlotIs DEF Slot, Tabled, TabType
  <2>2. QED BY <1>3, <2>1 DEF Collects
<1>7. /\ g = h(Len(w)) /\ h(0) = base
      /\ \A k \in 1..Len(w) : h(k) = Link(h(k - 1), w[k])
  <2>1. Len(w) \in Nat /\ DOMAIN w = 1..Len(w)
    BY <1>5
  <2>2. /\ FoldLeft(Link, base, w) = AfterLinks(base, w, Len(w))
        /\ AfterLinks(base, w, 0) = base
        /\ \A k \in 1..Len(w) : AfterLinks(base, w, k) = Link(AfterLinks(base, w, k - 1), w[k])
    BY <2>1, LinksStep, ZenonT(30)
  <2>3. QED BY <1>4, <2>2, Zenon
<1> HIDE DEF h
<1> DEFINE Good(k) == /\ \E q, j : Tabled(h(k), N, S0(k), q, j)
                      /\ h(k).idx = t.idx + 1 /\ h(k).key = t.key /\ h(k).used = k
           K == {k \in Nat : k <= Len(w) => Good(k)}
<1>8. 0 \in K
  <2>1. S0(0) = {}
    OBVIOUS
  <2>2. QED BY <1>2, <1>7, <2>1
<1>9. ASSUME NEW k \in Nat, k \in K PROVE k + 1 \in K
  <2> HIDE DEF Good
  <2>1. SUFFICES ASSUME k + 1 <= Len(w) PROVE Good(k + 1)
    OBVIOUS
  <2>2. k + 1 \in 1..Len(w) /\ (k + 1) - 1 = k /\ Good(k)
    BY <1>5, <1>9, <2>1
  <2> USE DEF Good
  <2> DEFINE c == w[k + 1]
             u == h(k)
             v == h(k + 1)
  <2>3. v = Link(u, c) /\ c \in S /\ c \in Cell
    BY <1>1, <1>5, <1>7, <2>2
  <2>4. c \notin S0(k)
    BY <1>5, <2>2
  <2>5. S0(k + 1) = S0(k) \cup {c}
    <3>1. 1..(k + 1) = (1..k) \cup {k + 1}
      OBVIOUS
    <3>2. QED BY <3>1
  <2> HIDE DEF c, u, v
  <2>6. PICK q, j : Tabled(u, N, S0(k), q, j)
    BY <2>2 DEF u
  <2> HIDE DEF S0
  <2>7. u.idx = t.idx + 1 /\ u.key = t.key /\ u.used = k /\ u \in TabType(N) /\ N = Buckets(u)
    BY <2>2, <2>6 DEF u, Tabled, Buckets
  <2>8. Tabled(v, N, S0(k + 1), [q EXCEPT ![c] = j], j + 1)
    BY <2>3, <2>4, <2>5, <2>6, <2>7, LinkKeeps
  <2>9. IsLinked(v, u, N, c)
    BY <2>3, <2>7, LinkIs
  <2>10. v.idx = t.idx + 1 /\ v.key = t.key /\ v.used = k + 1
    BY <2>7, <2>9 DEF IsLinked, UsedAfter
  <2>11. QED BY <2>8, <2>10 DEF v
<1>10. Good(Len(w))
  <2> HIDE DEF Good, K
  <2>1. Len(w) \in K
    BY <1>5, <1>8, <1>9, Climb
  <2>2. QED BY <1>5, <2>1 DEF K
<1>11. S0(Len(w)) = S
  BY <1>5, <1>6
<1>12. Len(w) = Cardinality(S)
  <2>1. w \in Bijection(1..Len(w), S)
    BY <1>5, <1>6 DEF Bijection, Injection, Surjection, IsInjective
  <2>2. QED BY <1>5, <2>1, FS_CountingElements DEF ExistsBijection
<1> HIDE DEF S0
<1>13. QED BY <1>7, <1>10, <1>11, <1>12

-----------------------------------------------------------------------------
(* What a table of a kind holds.                                           *)

\* A counter that wraps stays the remainder of what is counted.
LEMMA OneQuotient ==
    ASSUME NEW u \in Nat \ {0}, NEW q \in Int, NEW p \in Int, NEW a \in 0..(u - 1),
           NEW b \in 0..(u - 1), u * q + a = u * p + b
    PROVE  a = b
<1>1. u * (q - p) = b - a
  OBVIOUS
<1>2. q - p \in Int /\ b - a < u /\ b - a > -u
  OBVIOUS
<1>3. CASE q - p >= 1
  <2>1. u * (q - p) >= u
    BY <1>2, <1>3
  <2>2. QED BY <1>1, <1>2, <2>1
<1>4. CASE q - p <= -1
  <2>1. u * (q - p) <= -u
    BY <1>2, <1>4
  <2>2. QED BY <1>1, <1>2, <2>1
<1>5. CASE q - p = 0
  BY <1>1, <1>5
<1>6. QED BY <1>2, <1>3, <1>4, <1>5

LEMMA QuotientIs ==
    ASSUME NEW u \in Nat \ {0}, NEW a \in Int
    PROVE  a \div u \in Int /\ a = u * (a \div u) + (a % u)
  OBVIOUS

LEMMA RemainderStep ==
    ASSUME NEW u \in Nat \ {0}, NEW a \in Nat, NEW d \in {1, -1}
    PROVE  ((a % u) + d) % u = (a + d) % u
<1> DEFINE x == a % u
           y == x + d
           z == a + d
<1>1. PICK q \in Int : a = u * q + x
  <2>1. a \in Int
    OBVIOUS
  <2>2. a \div u \in Int /\ a = u * (a \div u) + x
    BY <2>1, QuotientIs
  <2>3. QED BY <2>2
<1>2. x \in Int /\ y \in Int /\ z \in Int
  OBVIOUS
<1> HIDE DEF x
<1>3. PICK p \in Int : y = u * p + (y % u)
  BY <1>2, QuotientIs
<1>4. PICK w \in Int : z = u * w + (z % u)
  BY <1>2, QuotientIs
<1>5. y % u \in 0..(u - 1) /\ z % u \in 0..(u - 1)
  BY <1>2
<1>6. z = u * q + y
  BY <1>1, <1>2
<1>7. u * w + (z % u) = u * (q + p) + (y % u)
  <2> HIDE DEF y, z
  <2>1. u * w + (z % u) = u * q + (u * p + (y % u))
    BY <1>3, <1>4, <1>6
  <2>2. u * (q + p) = u * q + u * p
    OBVIOUS
  <2> DEFINE e == y % u
             f == z % u
             A == u * q
             B == u * p
             C == u * w
  <2>3. A \in Int /\ B \in Int /\ C \in Int /\ e \in Int /\ f \in Int
    BY <1>5
  <2>4. C + f = A + (B + e) /\ u * (q + p) = A + B
    BY <2>1, <2>2
  <2> HIDE DEF A, B, C, e, f
  <2>5. C + f = (A + B) + e
    BY <2>3, <2>4
  <2>6. QED BY <2>4, <2>5 DEF C, f, e
<1> HIDE DEF y, z
<1>8. z % u = y % u
  <2>1. q + p \in Int
    OBVIOUS
  <2>2. QED BY <1>5, <1>7, <2>1, OneQuotient
<1>9. QED BY <1>8 DEF x, y, z

\* The cells of S with a key.
Holders(t, S, key) == {c \in S : t.key[c] = key}

\* The cells of S are those of the values in e, and are counted.
Counts(t, S, e) ==
    /\ S \in SUBSET Cell /\ e \in [HashKey -> Seq(Val)]
    /\ \A c \in S : t.key[c] \in HashKey
    /\ \A key \in HashKey : Cardinality(Holders(t, S, key)) = Len(e[key])
    /\ t.used = IF kind = "hashdb" THEN Cardinality(S) % UsedMod ELSE Cardinality(S)
    /\ kind = "hashdb" => \A key \in HashKey : Len(e[key]) <= 1

\* d is the place of a cell among those with its key, from the first one
\* entered on: in the chain they are met from the last one on.
Stacked(t, S, r, d, e) ==
    /\ S \in SUBSET Cell /\ e \in [HashKey -> Seq(Val)]
    /\ r \in [Cell -> Nat] /\ d \in [Cell -> Nat]
    /\ \A c \in S : t.key[c] \in HashKey
    /\ \A c \in S : /\ d[c] \in 1..Len(e[t.key[c]])
                    /\ t.val[c] = e[t.key[c]][Len(e[t.key[c]]) + 1 - d[c]]
    /\ \A c, f \in S : t.key[c] = t.key[f] /\ d[c] < d[f] => r[c] < r[f]
    /\ \A c, f \in S : t.key[c] = t.key[f] /\ d[c] = d[f] => c = f
    /\ \A key \in HashKey : \A i \in 1..Len(e[key]) :
           \E c \in S : t.key[c] = key /\ d[c] = i

\* A table that has never grown knows the cell before each, and the order in
\* which the values of a key were entered.
Ordered(t, n, S, e) ==
    \E r, m, d : /\ Tabled(t, n, S, r, m) /\ Stacked(t, S, r, d, e)
                 /\ \A c \in S : LinksTo(t, n, S, t.prev[c], c)

LEMMA SizesAre ==
    ASSUME NEW k \in TableKind, NEW i \in 1..Len(Sizes[k])
    PROVE  Sizes[k][i] \in Nat \ {0}
  BY HashAssumption

\* A cell that is handed out gets a key and a value, and null links.
IsAllocated(a, t, c, key, v) ==
    /\ a.idx = t.idx /\ a.used = t.used /\ a.bucket = t.bucket
    /\ a.key = [t.key EXCEPT ![c] = key] /\ a.val = [t.val EXCEPT ![c] = v]
    /\ a.next = [t.next EXCEPT ![c] = Null] /\ a.prev = [t.prev EXCEPT ![c] = Null]

LEMMA AllocatedIs ==
    ASSUME NEW n, NEW t \in TabType(n), NEW c \in Cell, NEW key \in Nat, NEW v \in Val,
           NEW a, a = Allocated(t, c, key, v)
    PROVE  a \in TabType(n) /\ IsAllocated(a, t, c, key, v)
<1>1. /\ t = [idx |-> t.idx, used |-> t.used, bucket |-> t.bucket, key |-> t.key,
              val |-> t.val, next |-> t.next, prev |-> t.prev]
      /\ t.idx \in Nat /\ t.used \in Int /\ t.bucket \in [0..(n - 1) -> Cell \cup {Null}]
      /\ t.key \in [Cell -> Nat] /\ t.val \in [Cell -> Val \cup {Null}]
      /\ t.next \in [Cell -> Cell \cup {Null}] /\ t.prev \in [Cell -> Cell \cup {Null}]
  BY DEF TabType
<1>2. a = [idx |-> t.idx, used |-> t.used, bucket |-> t.bucket,
           key |-> [t.key EXCEPT ![c] = key], val |-> [t.val EXCEPT ![c] = v],
           next |-> [t.next EXCEPT ![c] = Null], prev |-> [t.prev EXCEPT ![c] = Null]]
  BY <1>1 DEF Allocated
<1>3. a \in TabType(n)
  BY <1>1, <1>2 DEF TabType
<1>4. QED BY <1>2, <1>3 DEF IsAllocated

LEMMA AllocatedKeeps ==
    ASSUME NEW t, NEW n, NEW S, NEW r, NEW m, Tabled(t, n, S, r, m), NEW c \in Cell \ S,
           NEW key \in Nat, NEW v \in Val, NEW a, a = Allocated(t, c, key, v)
    PROVE  /\ Tabled(a, n, S, r, m)
           /\ \A d \in S : LinksTo(t, n, S, t.prev[d], d) => LinksTo(a, n, S, a.prev[d], d)
<1>1. /\ t \in TabType(n) /\ S \in SUBSET Cell /\ c \in Cell /\ c \notin S
      /\ t.key \in [Cell -> Nat] /\ t.next \in [Cell -> Cell \cup {Null}]
      /\ t.prev \in [Cell -> Cell \cup {Null}] /\ n \in Nat \ {0}
      /\ r \in [Cell -> Nat] /\ m \in Nat
  BY DEF Tabled, TabType
<1>2. a \in TabType(n) /\ IsAllocated(a, t, c, key, v)
  BY <1>1, AllocatedIs
<1>3. /\ a.bucket = t.bucket
      /\ \A d \in S : a.key[d] = t.key[d] /\ a.next[d] = t.next[d] /\ a.prev[d] = t.prev[d]
  BY <1>1, <1>2 DEF IsAllocated
<1>4. \A d \in S : Slot(a, n, d) = Slot(t, n, d)
  BY <1>3 DEF Slot
<1>5. Chained(t, n, S, r, m)
  BY DEF Tabled
<1>6. Chained(a, n, S, r, m)
  BY <1>3, <1>4, <1>5 DEF Chained
<1>7. \A d \in S : LinksTo(t, n, S, t.prev[d], d) => LinksTo(a, n, S, a.prev[d], d)
  BY <1>3, <1>4 DEF LinksTo
<1>8. QED BY <1>1, <1>2, <1>6, <1>7 DEF Tabled

\* The head of a chain that gets a new head is told so.
LEMMA LinkLinksBack ==
    ASSUME NEW t, NEW n, NEW S, NEW r, NEW m, Tabled(t, n, S, r, m), n = Buckets(t),
           NEW c \in Cell \ S, t.prev[c] = Null, NEW g, g = Link(t, c),
           \A d \in S : LinksTo(t, n, S, t.prev[d], d)
    PROVE  \A d \in S \cup {c} : LinksTo(g, n, S \cup {c}, g.prev[d], d)
<1> DEFINE b == Slot(t, n, c)
           old == t.bucket[b]
           T == S \cup {c}
<1>1. /\ n \in Nat \ {0} /\ t \in TabType(n) /\ S \in SUBSET Cell
      /\ c \in Cell /\ c \notin S /\ c # Null /\ Null \notin S
      /\ t.key \in [Cell -> Nat] /\ t.next \in [Cell -> Cell \cup {Null}]
      /\ t.prev \in [Cell -> Cell \cup {Null}] /\ t.bucket \in [0..(n - 1) -> Cell \cup {Null}]
  BY HashAssumption DEF Tabled, TabType
<1>2. \A d \in Cell : Slot(t, n, d) \in 0..(n - 1)
  BY <1>1, SlotIs DEF Slot
<1>3. IsLinked(g, t, n, c)
  BY <1>1, LinkIs
<1>4. old # Null => old \in S /\ Slot(t, n, old) = b
  BY <1>1, <1>2 DEF Tabled, Chained
<1> HIDE DEF b
<1>5. /\ \A d \in Cell : Slot(g, n, d) = Slot(t, n, d)
      /\ g.next = [t.next EXCEPT ![c] = old] /\ g.bucket = [t.bucket EXCEPT ![b] = c]
      /\ g.prev = IF old = Null THEN t.prev ELSE [t.prev EXCEPT ![old] = c]
  BY <1>3 DEF IsLinked, Slot, b
<1> HIDE DEF old
<1>6. b \in 0..(n - 1) /\ Slot(t, n, c) = b
  BY <1>1, <1>2 DEF b
<1>7. /\ g.next[c] = old /\ \A d \in S : g.next[d] = t.next[d]
      /\ g.bucket[b] = c /\ \A k \in 0..(n - 1) : k # b => g.bucket[k] = t.bucket[k]
      /\ old # Null => g.prev[old] = c
      /\ \A d \in Cell : d # old => g.prev[d] = t.prev[d]
  <2>1. g.next[c] = old /\ \A d \in S : g.next[d] = t.next[d]
    BY <1>1, <1>5
  <2>2. g.bucket[b] = c /\ \A k \in 0..(n - 1) : k # b => g.bucket[k] = t.bucket[k]
    BY <1>1, <1>5, <1>6
  <2>3. old # Null => g.prev[old] = c
    BY <1>1, <1>4, <1>5
  <2>4. \A d \in Cell : d # old => g.prev[d] = t.prev[d]
    BY <1>1, <1>5
  <2>5. QED BY <2>1, <2>2, <2>3, <2>4
<1>8. SUFFICES ASSUME NEW d \in T PROVE LinksTo(g, n, T, g.prev[d], d)
  OBVIOUS
<1>9. CASE d = c
  <2>1. g.prev[c] = Null
    BY <1>1, <1>4, <1>7
  <2>2. QED BY <1>1, <1>5, <1>6, <1>7, <1>9, <2>1 DEF LinksTo
<1>10. CASE d = old /\ d # c
  <2>1. g.prev[d] = c /\ g.next[c] = d
    BY <1>1, <1>7, <1>8, <1>10
  <2>2. QED BY <2>1 DEF LinksTo
<1>11. CASE d # old /\ d # c
  <2>1. d \in S /\ d \in Cell /\ g.prev[d] = t.prev[d] /\ LinksTo(t, n, S, t.prev[d], d)
    BY <1>1, <1>7, <1>8, <1>11
  <2>2. CASE t.prev[d] = Null /\ t.bucket[Slot(t, n, d)] = d
    <3>1. Slot(t, n, d) # b
      BY <1>11, <2>2 DEF old
    <3>2. QED BY <1>2, <1>5, <1>7, <2>1, <2>2, <3>1 DEF LinksTo
  <2>3. CASE t.prev[d] \in S /\ t.next[t.prev[d]] = d
    BY <1>7, <2>1, <2>3 DEF LinksTo
  <2>4. QED BY <2>1, <2>2, <2>3 DEF LinksTo
<1>12. QED BY <1>9, <1>10, <1>11

\* What is expected after a value was entered, changed or deleted.
Prepended(h, e, key, v) == h = [e EXCEPT ![key] = <<v>> \o @]
Replaced(h, e, key, v) == h = [e EXCEPT ![key] = <<v>>]
Dropped(h, e, key) == h = [e EXCEPT ![key] = Tail(@)]

\* The values of a key with one more, or one less, of them.
LEMMA EnteredIs ==
    ASSUME NEW e \in [HashKey -> Seq(Val)], NEW key \in HashKey, NEW v \in Val,
           NEW h, Prepended(h, e, key, v)
    PROVE  /\ h \in [HashKey -> Seq(Val)] /\ Len(h[key]) = Len(e[key]) + 1 /\ h[key][1] = v
           /\ Len(e[key]) \in Nat
           /\ \A i \in 2..Len(h[key]) : h[key][i] = e[key][i - 1]
           /\ \A k \in HashKey : k # key => h[k] = e[k]
<1> DEFINE s == <<v>> \o e[key]
<1>1. e[key] \in Seq(Val) /\ Len(e[key]) \in Nat
  OBVIOUS
<1>2. /\ s \in Seq(Val) /\ Len(s) = Len(e[key]) + 1 /\ s[1] = v
      /\ \A i \in 2..Len(s) : s[i] = e[key][i - 1]
  BY <1>1, ConsIs
<1> HIDE DEF s
<1>3. h = [e EXCEPT ![key] = s]
  BY DEF s, Prepended
<1>4. h \in [HashKey -> Seq(Val)] /\ h[key] = s /\ \A k \in HashKey : k # key => h[k] = e[k]
  BY <1>2, <1>3
<1>5. QED BY <1>1, <1>2, <1>4

LEMMA DroppedIs ==
    ASSUME NEW e \in [HashKey -> Seq(Val)], NEW key \in HashKey, e[key] # <<>>,
           NEW h, Dropped(h, e, key)
    PROVE  /\ h \in [HashKey -> Seq(Val)] /\ Len(h[key]) = Len(e[key]) - 1
           /\ Len(e[key]) \in Nat \ {0}
           /\ \A i \in 1..Len(h[key]) : h[key][i] = e[key][i + 1]
           /\ \A k \in HashKey : k # key => h[k] = e[k]
<1> DEFINE s == Tail(e[key])
<1>1. e[key] \in Seq(Val) /\ Len(e[key]) \in Nat \ {0}
  OBVIOUS
<1>2. /\ s \in Seq(Val) /\ Len(s) = Len(e[key]) - 1
      /\ \A i \in 1..Len(s) : s[i] = e[key][i + 1]
  BY <1>1, HeadTailProperties
<1> HIDE DEF s
<1>3. h = [e EXCEPT ![key] = s]
  BY DEF s, Dropped
<1>4. h \in [HashKey -> Seq(Val)] /\ h[key] = s /\ \A k \in HashKey : k # key => h[k] = e[k]
  BY <1>2, <1>3
<1>5. QED BY <1>1, <1>2, <1>4

LEMMA CellsFinite ==
    ASSUME NEW S \in SUBSET Cell
    PROVE  IsFiniteSet(S) /\ Cardinality(S) \in Nat
  BY HashAssumption, FS_Subset, FS_CardinalityType

\* A cell was entered into a table.
IsEntered(g, t, c, key, v) ==
    /\ g.key = [t.key EXCEPT ![c] = key] /\ g.val = [t.val EXCEPT ![c] = v]
    /\ g.used = UsedAfter(t)

LEMMA CountsMore ==
    ASSUME NEW n, NEW t \in TabType(n), NEW S, NEW c \in Cell \ S, NEW e, Counts(t, S, e),
           NEW key \in HashKey, NEW v \in Val, kind = "hashdb" => e[key] = <<>>,
           NEW g, IsEntered(g, t, c, key, v), NEW h, Prepended(h, e, key, v)
    PROVE  Counts(g, S \cup {c}, h)
<1> DEFINE T == S \cup {c}
<1> S \in SUBSET Cell /\ e \in [HashKey -> Seq(Val)] /\ t.key \in [Cell -> Nat]
  BY DEF Counts, TabType
<1>1. /\ c \in Cell /\ c \notin S /\ key \in Nat
      /\ g.key[c] = key /\ \A d \in S : g.key[d] = t.key[d]
  BY HashAssumption DEF IsEntered
<1>2. /\ h \in [HashKey -> Seq(Val)] /\ Len(h[key]) = Len(e[key]) + 1 /\ Len(e[key]) \in Nat
      /\ \A k \in HashKey : k # key => h[k] = e[k]
  BY EnteredIs
<1>3. /\ \A d \in S : t.key[d] \in HashKey
      /\ \A k \in HashKey : Cardinality(Holders(t, S, k)) = Len(e[k])
      /\ t.used = IF kind = "hashdb" THEN Cardinality(S) % UsedMod ELSE Cardinality(S)
      /\ kind = "hashdb" => \A k \in HashKey : Len(e[k]) <= 1
  BY DEF Counts
<1>4. \A d \in T : g.key[d] \in HashKey
  BY <1>1, <1>3
<1>5. ASSUME NEW k \in HashKey PROVE Cardinality(Holders(g, T, k)) = Len(h[k])
  <2>1. CASE k = key
    <3>1. Holders(g, T, k) = Holders(t, S, k) \cup {c} /\ c \notin Holders(t, S, k)
      BY <1>1, <2>1 DEF Holders
    <3>2. Holders(t, S, k) \in SUBSET Cell
      BY DEF Holders
    <3>3. Cardinality(Holders(g, T, k)) = Cardinality(Holders(t, S, k)) + 1
      BY <3>1, <3>2, CellsFinite, FS_AddElement
    <3>4. QED BY <1>2, <1>3, <2>1, <3>3
  <2>2. CASE k # key
    <3>1. Holders(g, T, k) = Holders(t, S, k)
      BY <1>1, <2>2 DEF Holders
    <3>2. QED BY <1>2, <1>3, <2>2, <3>1
  <2>3. QED BY <2>1, <2>2
<1>6. Cardinality(T) = Cardinality(S) + 1 /\ Cardinality(S) \in Nat
  BY <1>1, CellsFinite, FS_AddElement
<1>7. g.used = IF kind = "hashdb" THEN Cardinality(T) % UsedMod ELSE Cardinality(T)
  <2>1. ((Cardinality(S) % UsedMod) + 1) % UsedMod = (Cardinality(S) + 1) % UsedMod
    BY <1>6, HashAssumption, RemainderStep
  <2>2. QED BY <1>3, <1>6, <2>1 DEF UsedAfter, IsEntered
<1>8. kind = "hashdb" => \A k \in HashKey : Len(h[k]) <= 1
  <2>1. e[key] = <<>> => Len(e[key]) = 0
    OBVIOUS
  <2>2. ASSUME kind = "hashdb", NEW k \in HashKey PROVE Len(h[k]) <= 1
    <3>1. CASE k = key
      <4>1. Len(e[key]) = 0
        BY <2>1, <2>2
      <4>2. Len(h[key]) = 1
        BY <1>2, <4>1
      <4>3. QED BY <3>1, <4>2
    <3>2. CASE k # key
      BY <1>2, <1>3, <2>2, <3>2
    <3>3. QED BY <3>1, <3>2
  <2>3. QED BY <2>2
<1>9. T \in SUBSET Cell /\ h \in [HashKey -> Seq(Val)]
  BY <1>1, <1>2
<1>10. QED BY <1>4, <1>5, <1>7, <1>8, <1>9 DEF Counts

LEMMA CountsLess ==
    ASSUME NEW n, NEW t \in TabType(n), NEW S, NEW c \in S, NEW e, Counts(t, S, e),
           NEW key \in HashKey, t.key[c] = key, NEW g, IsTakenOut(g, t, n, c), NEW h, Dropped(h, e, key)
    PROVE  e[key] # <<>> /\ Counts(g, S \ {c}, h)
<1> DEFINE T == S \ {c}
<1> S \in SUBSET Cell /\ e \in [HashKey -> Seq(Val)] /\ t.key \in [Cell -> Nat]
  BY DEF Counts, TabType
<1>1. c \in Cell /\ \A d \in T : g.key[d] = t.key[d]
  BY DEF IsTakenOut
<1>2. /\ \A d \in S : t.key[d] \in HashKey
      /\ \A k \in HashKey : Cardinality(Holders(t, S, k)) = Len(e[k])
      /\ t.used = IF kind = "hashdb" THEN Cardinality(S) % UsedMod ELSE Cardinality(S)
      /\ kind = "hashdb" => \A k \in HashKey : Len(e[k]) <= 1
  BY DEF Counts
<1>3. \A k \in HashKey : Holders(t, S, k) \in SUBSET Cell
  BY DEF Holders
<1>4. Holders(g, T, key) = Holders(t, S, key) \ {c} /\ c \in Holders(t, S, key)
  BY <1>1 DEF Holders
<1>5. /\ Cardinality(Holders(g, T, key)) = Cardinality(Holders(t, S, key)) - 1
      /\ Cardinality(Holders(t, S, key)) \in Nat /\ Cardinality(Holders(g, T, key)) \in Nat
  <2>1. Holders(g, T, key) \in SUBSET Cell
    BY <1>3, <1>4
  <2> DEFINE X == Holders(t, S, key)
             Y == Holders(g, T, key)
  <2>2. IsFiniteSet(X) /\ Cardinality(X) \in Nat /\ Cardinality(Y) \in Nat
    BY <1>3, <2>1, CellsFinite
  <2>3. Y = X \ {c} /\ c \in X
    BY <1>4
  <2> HIDE DEF X, Y
  <2>4. Cardinality(Y) = Cardinality(X) - 1
    BY <2>2, <2>3, FS_RemoveElement
  <2>5. QED BY <2>2, <2>4 DEF X, Y
<1>6. e[key] # <<>>
  <2>1. Len(e[key]) # 0
    BY <1>2, <1>5
  <2>2. QED BY <2>1
<1>7. /\ h \in [HashKey -> Seq(Val)] /\ Len(h[key]) = Len(e[key]) - 1
      /\ Len(e[key]) \in Nat \ {0} /\ \A k \in HashKey : k # key => h[k] = e[k]
  BY <1>6, DroppedIs
<1>8. \A d \in T : g.key[d] \in HashKey
  BY <1>1, <1>2
<1>9. ASSUME NEW k \in HashKey PROVE Cardinality(Holders(g, T, k)) = Len(h[k])
  <2>1. CASE k = key
    BY <1>2, <1>5, <1>7, <2>1
  <2>2. CASE k # key
    <3>1. Holders(g, T, k) = Holders(t, S, k)
      BY <1>1, <2>2 DEF Holders
    <3>2. QED BY <1>2, <1>7, <2>2, <3>1
  <2>3. QED BY <2>1, <2>2
<1>10. Cardinality(T) = Cardinality(S) - 1 /\ Cardinality(S) \in Nat /\ Cardinality(T) \in Nat
  BY <1>1, CellsFinite, FS_RemoveElement
<1>11. g.used = IF kind = "hashdb" THEN Cardinality(T) % UsedMod ELSE Cardinality(T)
  <2>1. ((Cardinality(S) % UsedMod) + (-1)) % UsedMod = (Cardinality(S) + (-1)) % UsedMod
    BY <1>10, HashAssumption, RemainderStep
  <2>2. Cardinality(S) + (-1) = Cardinality(T)
    BY <1>10
  <2>3. (Cardinality(S) % UsedMod) - 1 = (Cardinality(S) % UsedMod) + (-1)
    BY <1>10, HashAssumption
  <2>4. QED BY <1>2, <1>10, <2>1, <2>2, <2>3 DEF IsTakenOut
<1>12. kind = "hashdb" => \A k \in HashKey : Len(h[k]) <= 1
  BY <1>2, <1>7
<1>13. T \in SUBSET Cell /\ h \in [HashKey -> Seq(Val)]
  BY <1>7
<1>14. QED BY <1>6, <1>8, <1>9, <1>11, <1>12, <1>13 DEF Counts

LEMMA StackedMore ==
    ASSUME NEW t, NEW n, NEW S, NEW r, NEW m, Tabled(t, n, S, r, m), NEW c \in Cell \ S,
           NEW d, NEW e, Stacked(t, S, r, d, e), NEW key \in HashKey, NEW v \in Val,
           NEW g, IsEntered(g, t, c, key, v), NEW h, Prepended(h, e, key, v),
           NEW q, q = [r EXCEPT ![c] = m]
    PROVE  \E p : Stacked(g, S \cup {c}, q, p, h)
<1> DEFINE T == S \cup {c}
           L == Len(e[key])
           p == [d EXCEPT ![c] = L + 1]
<1>0. /\ S \in SUBSET Cell /\ e \in [HashKey -> Seq(Val)]
      /\ r \in [Cell -> Nat] /\ d \in [Cell -> Nat]
      /\ \A x \in S : t.key[x] \in HashKey
      /\ t.key \in [Cell -> Nat] /\ t.val \in [Cell -> Val \cup {Null}]
      /\ m \in Nat /\ \A x \in S : r[x] < m
  BY DEF Stacked, Tabled, TabType, Chained
<1>1. /\ h \in [HashKey -> Seq(Val)] /\ Len(h[key]) = L + 1 /\ h[key][1] = v /\ L \in Nat
      /\ \A i \in 2..Len(h[key]) : h[key][i] = e[key][i - 1]
      /\ \A k \in HashKey : k # key => h[k] = e[k]
      /\ \A k \in HashKey : Len(e[k]) \in Nat
  <2> e \in [HashKey -> Seq(Val)]
    BY <1>0
  <2>1. \A k \in HashKey : Len(e[k]) \in Nat
    OBVIOUS
  <2>2. /\ h \in [HashKey -> Seq(Val)] /\ Len(h[key]) = L + 1 /\ h[key][1] = v /\ L \in Nat
        /\ \A i \in 2..Len(h[key]) : h[key][i] = e[key][i - 1]
        /\ \A k \in HashKey : k # key => h[k] = e[k]
    BY EnteredIs, SMTT(30)
  <2>3. QED BY <2>1, <2>2
<1> p = [d EXCEPT ![c] = L + 1]
  OBVIOUS
<1> HIDE DEF L, p
<1>2. /\ c \in Cell /\ c \notin S /\ key \in Nat
      /\ g.key[c] = key /\ g.val[c] = v /\ q[c] = m /\ p[c] = L + 1
      /\ \A x \in S : g.key[x] = t.key[x] /\ g.val[x] = t.val[x] /\ q[x] = r[x] /\ p[x] = d[x]
      /\ \A x \in S : r[x] \in Nat /\ d[x] \in Nat
  BY <1>0, <1>1, HashAssumption DEF IsEntered
<1>3. /\ \A x \in S : /\ d[x] \in 1..Len(e[t.key[x]])
                      /\ t.val[x] = e[t.key[x]][Len(e[t.key[x]]) + 1 - d[x]]
      /\ \A x, y \in S : t.key[x] = t.key[y] /\ d[x] < d[y] => r[x] < r[y]
      /\ \A x, y \in S : t.key[x] = t.key[y] /\ d[x] = d[y] => x = y
      /\ \A k \in HashKey : \A i \in 1..Len(e[k]) : \E x \in S : t.key[x] = k /\ d[x] = i
  BY DEF Stacked
<1>4. ASSUME NEW x \in T
      PROVE  /\ p[x] \in 1..Len(h[g.key[x]])
             /\ g.val[x] = h[g.key[x]][Len(h[g.key[x]]) + 1 - p[x]]
  <2>1. CASE x = c
    <3>1. (L + 1) + 1 - (L + 1) = 1 /\ L + 1 \in 1..(L + 1)
      BY <1>1
    <3>2. g.key[x] = key /\ g.val[x] = v /\ p[x] = L + 1
      BY <1>2, <2>1
    <3>3. Len(h[key]) = L + 1 /\ h[key][1] = v
      BY <1>1
    <3>4. QED BY <3>1, <3>2, <3>3
  <2>2. CASE x # c /\ t.key[x] # key
    <3>1. x \in S /\ t.key[x] \in HashKey
      BY <1>0, <2>2
    <3>2. h[t.key[x]] = e[t.key[x]] /\ g.key[x] = t.key[x] /\ g.val[x] = t.val[x] /\ p[x] = d[x]
      BY <1>1, <1>2, <2>2, <3>1
    <3>3. /\ d[x] \in 1..Len(e[t.key[x]])
          /\ t.val[x] = e[t.key[x]][Len(e[t.key[x]]) + 1 - d[x]]
      BY <1>3, <3>1
    <3>4. QED BY <3>2, <3>3
  <2>3. CASE x # c /\ t.key[x] = key
    <3>1. x \in S /\ d[x] \in 1..L /\ t.val[x] = e[key][L + 1 - d[x]]
      BY <1>3, <2>3 DEF L
    <3> DEFINE i == (L + 1) + 1 - d[x]
    <3>2. i \in 2..(L + 1) /\ i - 1 = L + 1 - d[x] /\ d[x] \in 1..(L + 1)
      BY <1>1, <3>1
    <3>3. h[key][i] = e[key][i - 1]
      BY <1>1, <3>2
    <3>4. g.key[x] = key /\ g.val[x] = t.val[x] /\ p[x] = d[x] /\ Len(h[key]) = L + 1
      BY <1>1, <1>2, <2>3, <3>1
    <3>5. g.val[x] = h[key][i] /\ i = Len(h[key]) + 1 - p[x]
      BY <3>1, <3>2, <3>3, <3>4
    <3>6. QED BY <3>2, <3>4, <3>5
  <2>4. QED BY <2>1, <2>2, <2>3
<1>5. \A x \in S : t.key[x] = key => d[x] <= L /\ d[x] # L + 1
  BY <1>1, <1>3 DEF L
<1>6. ASSUME NEW x \in T, NEW y \in T, g.key[x] = g.key[y]
      PROVE  (p[x] < p[y] => q[x] < q[y]) /\ (p[x] = p[y] => x = y)
  <2>1. CASE x = c /\ y = c
    BY <1>1, <1>2, <2>1
  <2>2. CASE x = c /\ y # c
    <3>1. y \in S /\ t.key[y] = key /\ p[y] = d[y] /\ d[y] \in Nat /\ p[x] = L + 1
      BY <1>2, <1>6, <2>2
    <3>2. d[y] <= L
      BY <1>5, <3>1
    <3>3. QED BY <1>0, <1>1, <3>1, <3>2
  <2>3. CASE x # c /\ y = c
    <3>1. x \in S /\ t.key[x] = key /\ p[x] = d[x] /\ d[x] \in Nat /\ p[y] = L + 1
          /\ q[x] = r[x] /\ q[y] = m
      BY <1>2, <1>6, <2>3
    <3>2. d[x] <= L /\ r[x] < m
      BY <1>0, <1>5, <3>1
    <3>3. QED BY <1>0, <1>1, <3>1, <3>2
  <2>4. CASE x # c /\ y # c
    BY <1>2, <1>3, <1>6, <2>4
  <2>5. QED BY <2>1, <2>2, <2>3, <2>4
<1>7. ASSUME NEW k \in HashKey, NEW i \in 1..Len(h[k]) PROVE \E x \in T : g.key[x] = k /\ p[x] = i
  <2>1. CASE k = key /\ i = L + 1
    BY <1>2, <2>1
  <2>2. CASE ~(k = key /\ i = L + 1)
    <3>1. i \in 1..Len(e[k])
      <4>1. CASE k = key
        <5>1. i \in 1..(L + 1) /\ i # L + 1
          BY <1>1, <1>7, <2>2, <4>1
        <5>2. i \in 1..L
          BY <1>1, <5>1
        <5>3. QED BY <4>1, <5>2 DEF L
      <4>2. CASE k # key
        BY <1>1, <1>7, <4>2
      <4>3. QED BY <4>1, <4>2
    <3>2. PICK x \in S : t.key[x] = k /\ d[x] = i
      BY <1>3, <3>1
    <3>3. QED BY <1>2, <3>2
  <2>3. QED BY <2>1, <2>2
<1>8. T \in SUBSET Cell /\ q \in [Cell -> Nat] /\ p \in [Cell -> Nat]
  BY <1>0, <1>1 DEF L
<1>9. \A x \in T : g.key[x] \in HashKey
  BY <1>0, <1>2
<1>10. Stacked(g, T, q, p, h)
  <2>1. h \in [HashKey -> Seq(Val)]
    BY <1>1
  <2> HIDE DEF T
  <2>2. QED BY <1>4, <1>6, <1>7, <1>8, <1>9, <2>1 DEF Stacked
<1>11. QED BY <1>10

\* The cell that is found, and deleted, is that of the last value entered.
Topmost(t, S, r, c, key) == c \in S /\ t.key[c] = key /\ \A x \in S : t.key[x] = key => r[x] <= r[c]

LEMMA LastIsFound ==
    ASSUME NEW t, NEW S, NEW e, NEW r, NEW d, Stacked(t, S, r, d, e),
           NEW c, NEW key \in HashKey, Topmost(t, S, r, c, key)
    PROVE  /\ d[c] = Len(e[key]) /\ e[key] # <<>> /\ t.val[c] = Head(e[key])
           /\ \A x \in S : t.key[x] = key /\ d[x] = d[c] => x = c
<1> DEFINE L == Len(e[key])
<1>0. c \in S /\ t.key[c] = key /\ \A x \in S : t.key[x] = key => r[x] <= r[c]
  BY DEF Topmost
<1> S \in SUBSET Cell /\ e \in [HashKey -> Seq(Val)] /\ r \in [Cell -> Nat] /\ d \in [Cell -> Nat]
  BY DEF Stacked
<1>1. /\ d[c] \in 1..L /\ t.val[c] = e[key][L + 1 - d[c]]
      /\ \A x, y \in S : t.key[x] = t.key[y] /\ d[x] < d[y] => r[x] < r[y]
      /\ \A x, y \in S : t.key[x] = t.key[y] /\ d[x] = d[y] => x = y
      /\ \A i \in 1..L : \E x \in S : t.key[x] = key /\ d[x] = i
  BY <1>0 DEF Stacked
<1>2. e[key] \in Seq(Val) /\ L \in Nat
  OBVIOUS
<1>3. d[c] = L
  <2>1. L \in 1..L
    BY <1>1, <1>2
  <2>2. PICK x \in S : t.key[x] = key /\ d[x] = L
    BY <1>1, <2>1
  <2>3. ~(r[c] < r[x])
    <3>1. r[x] <= r[c] /\ r[x] \in Nat /\ r[c] \in Nat
      BY <1>0, <2>2
    <3>2. QED BY <3>1
  <2>4. ~(d[c] < d[x])
    BY <1>0, <1>1, <2>2, <2>3
  <2>5. QED BY <1>1, <1>2, <2>2, <2>4
<1>4. L + 1 - L = 1 /\ L # 0
  BY <1>1, <1>2
<1>5. QED BY <1>0, <1>1, <1>2, <1>3, <1>4

LEMMA StackedLess ==
    ASSUME NEW n, NEW t \in TabType(n), NEW S, NEW e, NEW r, NEW d, Stacked(t, S, r, d, e),
           NEW c, NEW key \in HashKey, Topmost(t, S, r, c, key),
           NEW g, IsTakenOut(g, t, n, c), NEW h, Dropped(h, e, key)
    PROVE  Stacked(g, S \ {c}, r, d, h)
<1> DEFINE T == S \ {c}
           L == Len(e[key])
<1>0. c \in S /\ t.key[c] = key
  BY DEF Topmost
<1> /\ S \in SUBSET Cell /\ e \in [HashKey -> Seq(Val)]
    /\ r \in [Cell -> Nat] /\ d \in [Cell -> Nat]
    /\ \A x \in S : t.key[x] \in HashKey
  BY DEF Stacked
<1>1. /\ d[c] = L /\ e[key] # <<>>
      /\ \A x \in S : t.key[x] = key /\ d[x] = d[c] => x = c
  <2> HIDE DEF L
  <2>1. /\ d[c] = Len(e[key]) /\ e[key] # <<>>
        /\ \A x \in S : t.key[x] = key /\ d[x] = d[c] => x = c
    BY LastIsFound
  <2>2. QED BY <2>1 DEF L
<1>2. /\ h \in [HashKey -> Seq(Val)] /\ Len(h[key]) = L - 1 /\ L \in Nat \ {0}
      /\ \A i \in 1..Len(h[key]) : h[key][i] = e[key][i + 1]
      /\ \A k \in HashKey : k # key => h[k] = e[k]
  <2> HIDE DEF T, L
  <2>1. e[key] # <<>> /\ Dropped(h, e, key) /\ L = Len(e[key])
    BY <1>1 DEF L
  <2>2. /\ h \in [HashKey -> Seq(Val)] /\ Len(h[key]) = Len(e[key]) - 1
        /\ Len(e[key]) \in Nat \ {0}
        /\ \A i \in 1..Len(h[key]) : h[key][i] = e[key][i + 1]
        /\ \A k \in HashKey : k # key => h[k] = e[k]
    BY <2>1, DroppedIs
  <2>3. QED BY <2>1, <2>2
<1>3. /\ \A x \in S : /\ d[x] \in 1..Len(e[t.key[x]])
                      /\ t.val[x] = e[t.key[x]][Len(e[t.key[x]]) + 1 - d[x]]
      /\ \A x, y \in S : t.key[x] = t.key[y] /\ d[x] < d[y] => r[x] < r[y]
      /\ \A x, y \in S : t.key[x] = t.key[y] /\ d[x] = d[y] => x = y
      /\ \A k \in HashKey : \A i \in 1..Len(e[k]) : \E x \in S : t.key[x] = k /\ d[x] = i
  BY DEF Stacked
<1>4. \A x \in T : g.key[x] = t.key[x] /\ g.val[x] = t.val[x] /\ x \in S /\ x # c
  <2>1. t.key \in [Cell -> Nat] /\ t.val \in [Cell -> Val \cup {Null}] /\ c \in Cell
    BY <1>0 DEF TabType
  <2>2. QED BY <2>1 DEF IsTakenOut
<1>5. ASSUME NEW x \in T
      PROVE  /\ d[x] \in 1..Len(h[g.key[x]])
             /\ g.val[x] = h[g.key[x]][Len(h[g.key[x]]) + 1 - d[x]]
  <2>1. CASE t.key[x] # key
    <3>1. x \in S /\ t.key[x] \in HashKey
      BY <1>4
    <3>2. h[t.key[x]] = e[t.key[x]] /\ g.key[x] = t.key[x] /\ g.val[x] = t.val[x]
      BY <1>2, <1>4, <2>1, <3>1
    <3>3. /\ d[x] \in 1..Len(e[t.key[x]])
          /\ t.val[x] = e[t.key[x]][Len(e[t.key[x]]) + 1 - d[x]]
      BY <1>3, <3>1
    <3>4. QED BY <3>2, <3>3
  <2>2. CASE t.key[x] = key
    <3>1. d[x] \in 1..L /\ d[x] # L /\ t.val[x] = e[key][L + 1 - d[x]]
      BY <1>1, <1>3, <1>4, <2>2
    <3> HIDE DEF L
    <3> DEFINE i == (L - 1) + 1 - d[x]
    <3>2. d[x] \in 1..(L - 1) /\ i \in 1..(L - 1) /\ i + 1 = L + 1 - d[x]
      BY <1>2, <3>1
    <3>3. h[key][i] = e[key][i + 1]
      BY <1>2, <3>2
    <3>4. QED BY <1>2, <1>4, <2>2, <3>1, <3>2, <3>3
  <2>3. QED BY <2>1, <2>2
<1>6. ASSUME NEW k \in HashKey, NEW i \in 1..Len(h[k]) PROVE \E x \in T : g.key[x] = k /\ d[x] = i
  <2>1. i \in 1..Len(e[k]) /\ (k = key => i # L)
    <3> HIDE DEF L
    <3>1. CASE k = key
      <4>1. i \in 1..(L - 1)
        BY <1>2, <1>6, <3>1
      <4>2. i \in 1..L /\ i # L
        BY <1>2, <4>1
      <4>3. QED BY <3>1, <4>2 DEF L
    <3>2. CASE k # key
      BY <1>2, <1>6, <3>2
    <3>3. QED BY <3>1, <3>2
  <2>2. PICK x \in S : t.key[x] = k /\ d[x] = i
    BY <1>3, <2>1
  <2>3. x # c
    BY <1>0, <1>1, <2>1, <2>2
  <2>4. QED BY <1>4, <2>2, <2>3
<1>7. \A x, y \in T : g.key[x] = g.key[y] /\ d[x] < d[y] => r[x] < r[y]
  BY <1>3, <1>4
<1>8. \A x, y \in T : g.key[x] = g.key[y] /\ d[x] = d[y] => x = y
  BY <1>3, <1>4
<1> HIDE DEF T
<1>9. /\ T \in SUBSET Cell /\ h \in [HashKey -> Seq(Val)]
      /\ \A x \in T : g.key[x] \in HashKey
  BY <1>2, <1>4 DEF T
<1>10. QED BY <1>5, <1>6, <1>7, <1>8, <1>9 DEF Stacked, T

-----------------------------------------------------------------------------
(* The invariant of a table, and the steps.                                *)

\* A table holds the cells of S, entered with the values of e.
TableHolds(t, S, e) ==
    /\ Counts(t, S, e)
    /\ \E r, m : Tabled(t, Buckets(t), S, r, m)
    /\ t.idx = 1 => Ordered(t, Buckets(t), S, e)

HashTyped ==
    /\ kind \in TableKind /\ tab.idx \in 1..Len(Sizes[kind]) /\ tab \in TabType(Buckets(tab))
    /\ live \in SUBSET Cell /\ broken \in BOOLEAN /\ expected \in [HashKey -> Seq(Val)]
    /\ kind = "hashdb" => tab.idx = 1

HashInv ==
    /\ HashTyped
    /\ broken => Grown
    /\ ~broken => TableHolds(tab, live, expected)

LEMMA GrowHolds ==
    ASSUME kind \in TableKind, kind # "hashdb", NEW t, NEW S, NEW e, TableHolds(t, S, e),
           t.idx \in 1..Len(Sizes[kind]), t.idx < Len(Sizes[kind]), NEW g, g = Grow(t)
    PROVE  TableHolds(g, S, e) /\ g.idx = t.idx + 1
<1> DEFINE n == Buckets(t)
           N == Sizes[kind][t.idx + 1]
<1>1. PICK r, m : Tabled(t, n, S, r, m)
  BY DEF TableHolds
<1>2. t.idx + 1 \in 1..Len(Sizes[kind]) /\ t.idx + 1 # 1
  BY HashAssumption
<1>3. N \in Nat \ {0}
  BY <1>2, SizesAre
<1> HIDE DEF n, N
<1>4. n = Buckets(t) /\ N = Sizes[kind][t.idx + 1]
  BY DEF n, N
<1>5. /\ \E q, k : Tabled(g, N, S, q, k)
      /\ g.idx = t.idx + 1 /\ g.key = t.key /\ g.used = Cardinality(S)
  BY <1>1, <1>3, <1>4, GrowKeeps
<1>6. Buckets(g) = N
  BY <1>4, <1>5 DEF Buckets
<1>7. Counts(g, S, e)
  BY <1>5 DEF TableHolds, Counts, Holders
<1>8. QED BY <1>2, <1>5, <1>6, <1>7 DEF TableHolds

\* g is t with a cell entered, or with the one found deleted.
Enters(g, t, S, c, key, v) == c \in Cell \ S /\ g = Link(Allocated(t, c, key, v), c)
Deletes(g, t, c, key) == c = Located(t, key) /\ c # Null /\ g = Freed(Unlinked(t, c), c)

LEMMA LinkHolds ==
    ASSUME kind \in TableKind, NEW t, NEW S, NEW e, TableHolds(t, S, e),
           NEW c, NEW key \in HashKey, NEW v \in Val, kind = "hashdb" => e[key] = <<>>,
           NEW g, Enters(g, t, S, c, key, v),
           NEW h, Prepended(h, e, key, v)
    PROVE  TableHolds(g, S \cup {c}, h) /\ g.idx = t.idx
<1> DEFINE n == Buckets(t)
           a == Allocated(t, c, key, v)
           T == S \cup {c}
<1>0. c \in Cell \ S /\ g = Link(Allocated(t, c, key, v), c)
  BY DEF Enters
<1>1. PICK r0, m0 : Tabled(t, n, S, r0, m0)
  BY DEF TableHolds
<1>2. e \in [HashKey -> Seq(Val)] /\ key \in Nat /\ Counts(t, S, e)
  BY HashAssumption DEF TableHolds, Counts
<1> HIDE DEF n, a
<1>3. n = Buckets(t) /\ a = Allocated(t, c, key, v) /\ g = Link(a, c)
  BY <1>0 DEF n, a
<1> c \in Cell \ S
  BY <1>0
<1>4. n \in Nat \ {0} /\ t \in TabType(n) /\ S \in SUBSET Cell /\ c \in Cell
  BY <1>1 DEF Tabled
<1>5. a \in TabType(n) /\ IsAllocated(a, t, c, key, v)
  BY <1>2, <1>3, <1>4, AllocatedIs
<1>6. a.idx = t.idx /\ a.used = t.used /\ a.key = [t.key EXCEPT ![c] = key]
      /\ a.val = [t.val EXCEPT ![c] = v] /\ a.prev[c] = Null
  BY <1>4, <1>5 DEF IsAllocated, TabType
<1>7. n = Buckets(a)
  BY <1>3, <1>6 DEF Buckets
<1>8. IsLinked(g, a, n, c)
  BY <1>3, <1>4, <1>5, <1>7, LinkIs
<1>9. /\ g.idx = t.idx /\ g.key = [t.key EXCEPT ![c] = key] /\ g.val = [t.val EXCEPT ![c] = v]
      /\ g.used = UsedAfter(t)
  BY <1>6, <1>8 DEF IsLinked, UsedAfter
<1> IsEntered(g, t, c, key, v)
  BY <1>9 DEF IsEntered
<1>10. n = Buckets(g)
  BY <1>3, <1>9 DEF Buckets
<1>11. \A r, m : Tabled(t, n, S, r, m) => Tabled(g, n, T, [r EXCEPT ![c] = m], m + 1)
  <2>1. SUFFICES ASSUME NEW r, NEW m, Tabled(t, n, S, r, m)
                 PROVE  Tabled(g, n, T, [r EXCEPT ![c] = m], m + 1)
    OBVIOUS
  <2>2. Tabled(a, n, S, r, m)
    BY <1>2, <1>3, <2>1, AllocatedKeeps
  <2>3. QED BY <1>3, <1>7, <2>2, LinkKeeps
<1>13. Counts(g, T, h)
  BY <1>2, <1>4, CountsMore
<1>15. ASSUME t.idx = 1 PROVE Ordered(g, n, T, h)
  <2>1. Ordered(t, n, S, e)
    BY <1>3, <1>15 DEF TableHolds
  <2>2. PICK r, m, d : /\ Tabled(t, n, S, r, m) /\ Stacked(t, S, r, d, e)
                       /\ \A x \in S : LinksTo(t, n, S, t.prev[x], x)
    BY <2>1 DEF Ordered
  <2>3. Tabled(g, n, T, [r EXCEPT ![c] = m], m + 1)
    BY <1>11, <2>2
  <2>4. PICK p : Stacked(g, T, [r EXCEPT ![c] = m], p, h)
    BY <2>2, StackedMore
  <2>6. Tabled(a, n, S, r, m) /\ \A x \in S : LinksTo(a, n, S, a.prev[x], x)
    BY <1>2, <1>3, <2>2, AllocatedKeeps
  <2>7. \A x \in T : LinksTo(g, n, T, g.prev[x], x)
    BY <1>3, <1>6, <1>7, <2>6, LinkLinksBack
  <2>8. QED BY <2>3, <2>4, <2>7 DEF Ordered
<1>16. \E r, m : Tabled(g, n, T, r, m)
  BY <1>1, <1>11
<1>17. QED BY <1>9, <1>10, <1>13, <1>15, <1>16 DEF TableHolds

\* A table says there is no such key when there is none, and else finds a cell
\* of the key: that of the last value, if the table has never grown.
LEMMA FoundIs ==
    ASSUME NEW t, NEW S, NEW e, TableHolds(t, S, e), NEW key \in HashKey, NEW x, x = Located(t, key)
    PROVE  /\ x = Null <=> e[key] = <<>>
           /\ x # Null => x \in S /\ t.key[x] = key
           /\ \A r, m : Tabled(t, Buckets(t), S, r, m) /\ x # Null => Topmost(t, S, r, x, key)
<1> DEFINE n == Buckets(t)
<1>1. PICK r, m : Tabled(t, n, S, r, m)
  BY DEF TableHolds
<1>2. key \in Nat
  BY HashAssumption
<1> HIDE DEF n
<1>3. /\ (\A c \in S : t.key[c] # key) => x = Null
      /\ (\E c \in S : t.key[c] = key) => x \in S /\ t.key[x] = key
  BY <1>1, <1>2, LocatedIs DEF n
<1>4. S \in SUBSET Cell /\ Null \notin S
  BY <1>1, HashAssumption DEF Tabled
<1>5. x = Null <=> \A c \in S : t.key[c] # key
  BY <1>3, <1>4
<1>6. x # Null => x \in S /\ t.key[x] = key
  BY <1>3, <1>5
<1>7. x = Null <=> e[key] = <<>>
  <2>1. e[key] \in Seq(Val) /\ Cardinality(Holders(t, S, key)) = Len(e[key])
    BY DEF TableHolds, Counts
  <2>2. Holders(t, S, key) \in SUBSET Cell
    BY <1>4 DEF Holders
  <2>3. IsFiniteSet(Holders(t, S, key))
    BY <2>2, CellsFinite
  <2>4. Cardinality(Holders(t, S, key)) = 0 <=> Holders(t, S, key) = {}
    BY <2>3, FS_EmptySet
  <2>5. Holders(t, S, key) = {} <=> \A c \in S : t.key[c] # key
    BY DEF Holders
  <2>6. e[key] = <<>> <=> Len(e[key]) = 0
    BY <2>1
  <2>7. QED BY <1>5, <2>1, <2>4, <2>5, <2>6
<1>8. ASSUME NEW q, NEW k, Tabled(t, n, S, q, k), x # Null PROVE Topmost(t, S, q, x, key)
  <2>1. \E c \in S : t.key[c] = key
    BY <1>5, <1>8
  <2>2. x \in S /\ t.key[x] = key /\ \A c \in S : t.key[c] = key => q[c] <= q[x]
    BY <1>2, <1>8, <2>1, LocatedIs DEF n
  <2>3. QED BY <2>2 DEF Topmost
<1>9. QED BY <1>6, <1>7, <1>8 DEF n

\* A table that knows the cell before each deletes a cell whole.
LEMMA PrevIsBefore ==
    ASSUME NEW t, NEW n, NEW S, NEW r, NEW m, Tabled(t, n, S, r, m), n = Buckets(t),
           NEW c \in S, LinksTo(t, n, S, t.prev[c], c)
    PROVE  t.prev[c] = Before(t, c)
<1> DEFINE p == t.prev[c]
           q == Before(t, c)
<1>1. LinksTo(t, n, S, q, c)
  BY BeforeIs
<1> HIDE DEF q
<1>2. /\ \A x, y \in S : t.next[x] = t.next[y] /\ t.next[x] # Null => x = y
      /\ t.bucket[Slot(t, n, c)] = c => \A x \in S : t.next[x] # c
      /\ c # Null
  BY HashAssumption DEF Tabled, Chained
<1>3. QED BY <1>1, <1>2 DEF LinksTo, q

LEMMA DeleteHolds ==
    ASSUME kind \in TableKind, NEW t, NEW S, NEW e, TableHolds(t, S, e), NEW key \in HashKey,
           NEW h, Dropped(h, e, key), NEW c, NEW g, Deletes(g, t, c, key)
    PROVE  /\ c \in S /\ e[key] # <<>>
           /\ t.idx = 1 => t.prev[c] = Before(t, c)
           /\ t.prev[c] = Before(t, c) => TableHolds(g, S \ {c}, h) /\ g.idx = t.idx
<1> DEFINE n == Buckets(t)
           T == S \ {c}
<1>0. c = Located(t, key) /\ c # Null /\ g = Freed(Unlinked(t, c), c)
  BY DEF Deletes
<1>1. PICK r0, m0 : Tabled(t, n, S, r0, m0)
  BY DEF TableHolds
<1>2. /\ e[key] # <<>> /\ c \in S /\ t.key[c] = key
      /\ \A r, m : Tabled(t, n, S, r, m) => Topmost(t, S, r, c, key)
  BY <1>0, FoundIs
<1> HIDE DEF n
<1>3. n = Buckets(t) /\ e \in [HashKey -> Seq(Val)] /\ Counts(t, S, e)
  BY DEF TableHolds, Counts, n
<1>4. n \in Nat \ {0} /\ t \in TabType(n) /\ S \in SUBSET Cell /\ c \in Cell
  BY <1>1, <1>2 DEF Tabled
<1>6. ASSUME t.idx = 1
      PROVE  \E r, m, d : /\ Tabled(t, n, S, r, m) /\ Stacked(t, S, r, d, e)
                          /\ \A x \in S : LinksTo(t, n, S, t.prev[x], x)
  BY <1>3, <1>6 DEF TableHolds, Ordered
<1>7. t.idx = 1 => t.prev[c] = Before(t, c)
  BY <1>2, <1>3, <1>6, PrevIsBefore
<1>8. ASSUME t.prev[c] = Before(t, c) PROVE TableHolds(g, T, h) /\ g.idx = t.idx
  <2>1. LinksTo(t, n, S, t.prev[c], c)
    BY <1>1, <1>2, <1>3, <1>8, BeforeIs
  <2>2. \A r, m : Tabled(t, n, S, r, m) =>
            /\ Tabled(g, n, T, r, m)
            /\ \A x \in T : LinksTo(t, n, S, t.prev[x], x) => LinksTo(g, n, T, g.prev[x], x)
    BY <1>0, <1>2, <1>3, <2>1, TakenOutKeeps
  <2>3. IsTakenOut(g, t, n, c)
    BY <1>0, <1>3, <1>4, TakenOutIs
  <2>4. /\ g.idx = t.idx /\ g.key = [t.key EXCEPT ![c] = 0] /\ g.val = [t.val EXCEPT ![c] = Null]
        /\ g.used = IF kind = "hashdb" THEN (t.used - 1) % UsedMod ELSE t.used - 1
    BY <2>3 DEF IsTakenOut
  <2>6. Counts(g, T, h)
    BY <1>2, <1>3, <1>4, <2>3, CountsLess
  <2>7. n = Buckets(g)
    BY <1>3, <2>4 DEF Buckets
  <2>9. ASSUME t.idx = 1 PROVE Ordered(g, n, T, h)
    <3>1. PICK r, m, d : /\ Tabled(t, n, S, r, m) /\ Stacked(t, S, r, d, e)
                         /\ \A x \in S : LinksTo(t, n, S, t.prev[x], x)
      BY <1>6, <2>9
    <3>2. Tabled(g, n, T, r, m) /\ \A x \in T : LinksTo(g, n, T, g.prev[x], x)
      BY <2>2, <3>1
    <3>3. Topmost(t, S, r, c, key)
      BY <1>2, <3>1
    <3>4. Stacked(g, T, r, d, h)
      BY <1>4, <2>3, <3>1, <3>3, StackedLess
    <3>5. QED BY <3>2, <3>4 DEF Ordered
  <2>10. \E r, m : Tabled(g, n, T, r, m)
    BY <1>1, <2>2
  <2>11. QED BY <2>4, <2>6, <2>7, <2>9, <2>10 DEF TableHolds
<1>9. QED BY <1>2, <1>7, <1>8

\* A table whose cell gets another value, in the place of the only one.
LEMMA UpdateHolds ==
    ASSUME kind = "hashdb", NEW t, t.idx = 1, NEW S, NEW e, TableHolds(t, S, e), NEW key \in HashKey,
           NEW v \in Val, NEW c, c = Located(t, key), c # Null,
           NEW g, g = [t EXCEPT !.val[c] = v], NEW h, Replaced(h, e, key, v)
    PROVE  TableHolds(g, S, h) /\ g.idx = 1
<1> DEFINE n == Buckets(t)
<1>1. PICK r, m, d : /\ Tabled(t, n, S, r, m) /\ Stacked(t, S, r, d, e)
                     /\ \A x \in S : LinksTo(t, n, S, t.prev[x], x)
  BY DEF TableHolds, Ordered
<1>2. e[key] # <<>> /\ c \in S /\ t.key[c] = key /\ Topmost(t, S, r, c, key)
  BY <1>1, FoundIs
<1> HIDE DEF n
<1>3. n = Buckets(t)
  BY DEF n
<1>4. /\ t \in TabType(n) /\ S \in SUBSET Cell /\ e \in [HashKey -> Seq(Val)]
      /\ n \in Nat \ {0} /\ r \in [Cell -> Nat] /\ m \in Nat /\ Chained(t, n, S, r, m)
  BY <1>1 DEF Tabled, Stacked
<1>5. /\ t = [idx |-> t.idx, used |-> t.used, bucket |-> t.bucket, key |-> t.key,
              val |-> t.val, next |-> t.next, prev |-> t.prev]
      /\ t.idx \in Nat /\ t.used \in Int /\ t.bucket \in [0..(n - 1) -> Cell \cup {Null}]
      /\ t.key \in [Cell -> Nat] /\ t.val \in [Cell -> Val \cup {Null}]
      /\ t.next \in [Cell -> Cell \cup {Null}] /\ t.prev \in [Cell -> Cell \cup {Null}]
  BY <1>4 DEF TabType
<1>6. g = [idx |-> t.idx, used |-> t.used, bucket |-> t.bucket, key |-> t.key,
           val |-> [t.val EXCEPT ![c] = v], next |-> t.next, prev |-> t.prev]
  BY <1>5
<1>7. [t.val EXCEPT ![c] = v] \in [Cell -> Val \cup {Null}]
  BY <1>5
<1>8. g \in TabType(n)
  BY <1>5, <1>6, <1>7 DEF TabType
<1>9. /\ g.idx = t.idx /\ g.used = t.used /\ g.bucket = t.bucket /\ g.key = t.key
      /\ g.next = t.next /\ g.prev = t.prev /\ g.val[c] = v
      /\ \A x \in S : x # c => g.val[x] = t.val[x]
  BY <1>2, <1>4, <1>5, <1>6
<1>10. Len(e[key]) = 1 /\ \A k \in HashKey : Len(e[k]) <= 1 /\ e[k] \in Seq(Val)
  <2>1. \A k \in HashKey : Len(e[k]) <= 1 /\ e[k] \in Seq(Val)
    BY <1>4 DEF TableHolds, Counts
  <2>2. e[key] \in Seq(Val) /\ e[key] # <<>> /\ Len(e[key]) <= 1
    BY <1>2, <2>1
  <2> DEFINE l == Len(e[key])
  <2>3. l \in Nat /\ l # 0 /\ l <= 1
    BY <2>2
  <2> HIDE DEF l
  <2>4. l = 1
    BY <2>3
  <2>5. QED BY <2>1, <2>4 DEF l
<1>11. /\ h \in [HashKey -> Seq(Val)] /\ Len(h[key]) = 1 /\ h[key][1] = v
       /\ \A k \in HashKey : k # key => h[k] = e[k]
  <2> DEFINE w == <<v>>
  <2>1. w \in Seq(Val) /\ Len(w) = 1 /\ w[1] = v
    OBVIOUS
  <2>2. h = [e EXCEPT ![key] = w]
    BY DEF Replaced
  <2> HIDE DEF w
  <2>3. QED BY <1>4, <2>1, <2>2
<1>12. \A k \in HashKey : Len(h[k]) = Len(e[k])
  BY <1>10, <1>11
<1>13. Counts(g, S, h)
  <2>1. Counts(t, S, e)
    BY DEF TableHolds
  <2>2. \A k \in HashKey : Holders(g, S, k) = Holders(t, S, k)
    BY <1>9 DEF Holders
  <2>3. QED BY <1>9, <1>11, <1>12, <2>1, <2>2 DEF Counts
<1>14. Tabled(g, n, S, r, m)
  BY <1>4, <1>8, <1>9 DEF Tabled, Chained, Slot
<1>15. \A x \in S : LinksTo(g, n, S, g.prev[x], x)
  BY <1>1, <1>9 DEF LinksTo, Slot
<1>16. Stacked(g, S, r, d, h)
  <2>1. /\ \A x \in S : /\ t.key[x] \in HashKey
                        /\ d[x] \in 1..Len(e[t.key[x]])
                        /\ t.val[x] = e[t.key[x]][Len(e[t.key[x]]) + 1 - d[x]]
        /\ \A x, y \in S : t.key[x] = t.key[y] /\ d[x] = d[y] => x = y
    BY <1>1 DEF Stacked
  <2>2. ASSUME NEW x \in S
        PROVE  /\ d[x] \in 1..Len(h[t.key[x]])
               /\ g.val[x] = h[t.key[x]][Len(h[t.key[x]]) + 1 - d[x]]
    <3>1. CASE x = c
      <4>1. d[x] \in 1..1 /\ t.key[x] = key
        BY <1>2, <1>10, <2>1, <3>1
      <4>2. d[x] = 1 /\ 1 + 1 - d[x] = 1
        BY <4>1
      <4>3. g.val[x] = v /\ Len(h[key]) = 1 /\ h[key][1] = v
        BY <1>9, <1>11, <3>1
      <4>4. QED BY <4>1, <4>2, <4>3
    <3>2. CASE x # c
      <4>1. t.key[x] # key
        <5>1. SUFFICES ASSUME t.key[x] = key PROVE FALSE
          OBVIOUS
        <5>2. d[x] \in 1..1 /\ d[c] \in 1..1
          BY <1>2, <1>10, <2>1, <5>1
        <5>3. d[x] = d[c]
          BY <5>2
        <5>4. QED BY <1>2, <2>1, <3>2, <5>1, <5>3
      <4>2. t.key[x] \in HashKey /\ h[t.key[x]] = e[t.key[x]]
        BY <1>11, <2>1, <4>1
      <4>3. QED BY <1>9, <2>1, <3>2, <4>2
    <3>3. QED BY <3>1, <3>2
  <2>3. /\ S \in SUBSET Cell /\ h \in [HashKey -> Seq(Val)]
        /\ r \in [Cell -> Nat] /\ d \in [Cell -> Nat] /\ \A x \in S : g.key[x] \in HashKey
    BY <1>1, <1>9, <1>11 DEF Stacked
  <2>4. /\ \A x, y \in S : g.key[x] = g.key[y] /\ d[x] < d[y] => r[x] < r[y]
        /\ \A x, y \in S : g.key[x] = g.key[y] /\ d[x] = d[y] => x = y
    BY <1>1, <1>9 DEF Stacked
  <2>5. \A k \in HashKey : \A i \in 1..Len(h[k]) : \E x \in S : g.key[x] = k /\ d[x] = i
    <3>1. SUFFICES ASSUME NEW k \in HashKey, NEW i \in 1..Len(h[k])
                   PROVE  \E x \in S : g.key[x] = k /\ d[x] = i
      OBVIOUS
    <3>2. i \in 1..Len(e[k])
      BY <1>12
    <3>3. \E x \in S : t.key[x] = k /\ d[x] = i
      BY <1>1, <3>2 DEF Stacked
    <3>4. QED BY <1>9, <3>3
  <2>6. QED BY <1>9, <2>2, <2>3, <2>4, <2>5 DEF Stacked
<1>17. Buckets(g) = n
  BY <1>3, <1>9 DEF Buckets
<1>18. QED BY <1>9, <1>13, <1>14, <1>15, <1>16, <1>17 DEF TableHolds, Ordered

LEMMA HashStarts ==
    ASSUME HashInit
    PROVE  HashInv
<1> DEFINE n == Sizes[kind][1]
           z == [c \in Cell |-> 0]
<1>1. kind \in TableKind /\ 1 \in 1..Len(Sizes[kind])
  BY HashAssumption DEF HashInit
<1>2. n \in Nat \ {0}
  BY <1>1, SizesAre
<1>3. tab.idx = 1 /\ n = Buckets(tab)
  BY DEF HashInit, HashCreate, Buckets
<1>4. /\ tab \in TabType(n) /\ tab.used = 0 /\ \A b \in 0..(n - 1) : tab.bucket[b] = Null
  <2> DEFINE B == [b \in 0..(n - 1) |-> Null]
             N == [c \in Cell |-> Null]
  <2>1. B \in [0..(n - 1) -> Cell \cup {Null}] /\ \A b \in 0..(n - 1) : B[b] = Null
    OBVIOUS
  <2>2. N \in [Cell -> Cell \cup {Null}] /\ N \in [Cell -> Val \cup {Null}] /\ z \in [Cell -> Nat]
    OBVIOUS
  <2>3. tab = [idx |-> 1, used |-> 0, bucket |-> B, key |-> z, val |-> N, next |-> N, prev |-> N]
    BY DEF HashInit, HashCreate
  <2> HIDE DEF B, N, z
  <2>4. QED BY <2>1, <2>2, <2>3 DEF TabType
<1> HIDE DEF n
<1>5. live = {} /\ live \in SUBSET Cell /\ broken = FALSE
  BY DEF HashInit
<1>6. expected \in [HashKey -> Seq(Val)] /\ \A k \in HashKey : Len(expected[k]) = 0
  <2> DEFINE w == <<>>
  <2>1. w \in Seq(Val) /\ Len(w) = 0
    OBVIOUS
  <2>2. expected = [k \in HashKey |-> w]
    BY DEF HashInit
  <2> HIDE DEF w
  <2>3. QED BY <2>1, <2>2
<1>7. z \in [Cell -> Nat]
  OBVIOUS
<1> HIDE DEF z
<1>8. Tabled(tab, n, live, z, 0)
  BY <1>2, <1>4, <1>5, <1>7 DEF Tabled, Chained
<1>9. Stacked(tab, live, z, z, expected)
  BY <1>5, <1>6, <1>7 DEF Stacked
<1>10. Counts(tab, live, expected)
  <2>1. Cardinality({}) = 0
    BY FS_EmptySet
  <2>2. \A k \in HashKey : Holders(tab, live, k) = {}
    BY <1>5 DEF Holders
  <2>3. 0 % UsedMod = 0
    BY HashAssumption
  <2>4. tab.used = IF kind = "hashdb" THEN Cardinality(live) % UsedMod ELSE Cardinality(live)
    BY <1>4, <1>5, <2>1, <2>3
  <2>5. \A k \in HashKey : Cardinality(Holders(tab, live, k)) = Len(expected[k])
    BY <1>6, <2>1, <2>2
  <2>6. \A k \in HashKey : Len(expected[k]) <= 1
    BY <1>6
  <2>7. QED BY <1>5, <1>6, <2>4, <2>5, <2>6 DEF Counts
<1>11. TableHolds(tab, live, expected)
  BY <1>3, <1>5, <1>8, <1>9, <1>10 DEF TableHolds, Ordered
<1>12. HashTyped
  BY <1>1, <1>3, <1>4, <1>5, <1>6 DEF HashTyped
<1>13. QED BY <1>5, <1>11, <1>12 DEF HashInv

\* A step keeps the invariant when it leaves a table that holds its cells.
LEMMA StillHolds ==
    ASSUME HashTyped, kind' = kind, broken' = FALSE, tab'.idx \in 1..Len(Sizes[kind]),
           kind = "hashdb" => tab'.idx = 1, TableHolds(tab', live', expected')
    PROVE  HashInv'
<1>1. Counts(tab', live', expected')
  BY DEF TableHolds
<1>2. live' \in SUBSET Cell /\ expected' \in [HashKey -> Seq(Val)]
  BY <1>1 DEF Counts
<1>3. PICK r, m : Tabled(tab', Buckets(tab'), live', r, m)
  BY DEF TableHolds
<1>4. Buckets(tab)' = Buckets(tab')
  BY DEF Buckets
<1>5. tab' \in TabType(Buckets(tab'))
  BY <1>3 DEF Tabled
<1>6. HashTyped'
  BY <1>2, <1>4, <1>5 DEF HashTyped
<1>7. Counts(tab, live, expected)'
  BY <1>1 DEF Counts
<1>8. TableHolds(tab, live, expected)'
  BY <1>4, <1>7 DEF TableHolds
<1>9. QED BY <1>6, <1>8 DEF HashInv

LEMMA EnterKeeps ==
    ASSUME HashInv, NEW key \in HashKey, NEW v \in Val, NEW full \in BOOLEAN,
           kind = "hashdb" => ~full /\ expected[key] = <<>>, Enter(key, v, full)
    PROVE  HashInv'
<1> DEFINE c == CHOOSE x \in Cell \ live : TRUE
           g == IF full THEN Grow(tab) ELSE tab
<1>1. /\ HashTyped /\ ~broken /\ TableHolds(tab, live, expected)
      /\ kind \in TableKind /\ tab.idx \in 1..Len(Sizes[kind]) /\ live \in SUBSET Cell
      /\ kind = "hashdb" => tab.idx = 1
  BY DEF HashInv, HashTyped, Enter
<1>2. c \in Cell \ live
  BY <1>1 DEF Enter
<1>3. /\ tab' = Link(Allocated(g, c, key, v), c) /\ live' = live \cup {c}
      /\ expected' = [expected EXCEPT ![key] = <<v>> \o @]
      /\ kind' = kind /\ broken' = FALSE
      /\ full => tab.idx < Len(Sizes[kind])
  BY <1>1 DEF Enter, CanGrow, HashInv, HashTyped
<1> HIDE DEF c, g
<1>4. /\ TableHolds(g, live, expected) /\ g.idx \in 1..Len(Sizes[kind])
      /\ kind = "hashdb" => g.idx = 1
  <2>1. CASE full
    <3>1. kind # "hashdb" /\ g = Grow(tab) /\ tab.idx < Len(Sizes[kind])
      BY <1>3, <2>1 DEF g
    <3>2. TableHolds(g, live, expected) /\ g.idx = tab.idx + 1
      BY <1>1, <3>1, GrowHolds
    <3>3. tab.idx + 1 \in 1..Len(Sizes[kind])
      BY <1>1, <3>1, HashAssumption
    <3>4. QED BY <3>1, <3>2, <3>3
  <2>2. CASE ~full
    BY <1>1, <2>2 DEF g
  <2>3. QED BY <2>1, <2>2
<1>5. TableHolds(tab', live', expected') /\ tab'.idx = g.idx
  <2>0. Prepended(expected', expected, key, v)
    BY <1>3 DEF Prepended
  <2>1. Enters(tab', g, live, c, key, v)
    BY <1>2, <1>3 DEF Enters
  <2>2. TableHolds(tab', live \cup {c}, expected') /\ tab'.idx = g.idx
    BY <1>1, <1>4, <2>0, <2>1, LinkHolds
  <2>3. QED BY <1>3, <2>2
<1>6. tab'.idx \in 1..Len(Sizes[kind]) /\ (kind = "hashdb" => tab'.idx = 1)
  BY <1>4, <1>5
<1>7. QED BY <1>1, <1>3, <1>5, <1>6, StillHolds

LEMMA DeleteKeeps ==
    ASSUME HashInv, NEW key \in HashKey, Delete(key)
    PROVE  HashInv'
<1> DEFINE c == Located(tab, key)
           g == Freed(Unlinked(tab, c), c)
<1>1. /\ HashTyped /\ ~broken /\ TableHolds(tab, live, expected)
      /\ kind \in TableKind /\ tab.idx \in 1..Len(Sizes[kind]) /\ live \in SUBSET Cell
      /\ kind = "hashdb" => tab.idx = 1
  BY DEF HashInv, HashTyped, Delete
<1>2. /\ c # Null /\ broken' = (tab.prev[c] # Before(tab, c))
      /\ tab' = IF broken' THEN tab ELSE g
      /\ live' = live \ {c} /\ expected' = [expected EXCEPT ![key] = Tail(@)] /\ kind' = kind
  BY DEF Delete
<1> HIDE DEF c, g
<1>3. Deletes(g, tab, c, key)
  BY <1>2 DEF c, g, Deletes
<1> Dropped(expected', expected, key)
  BY <1>2 DEF Dropped
<1>4. /\ c \in live /\ expected[key] # <<>>
      /\ tab.idx = 1 => tab.prev[c] = Before(tab, c)
      /\ tab.prev[c] = Before(tab, c) => TableHolds(g, live \ {c}, expected') /\ g.idx = tab.idx
  BY <1>1, <1>3, DeleteHolds
<1>5. CASE tab.prev[c] = Before(tab, c)
  BY <1>1, <1>2, <1>4, <1>5, StillHolds
<1>6. CASE tab.prev[c] # Before(tab, c)
  <2>1. broken' = TRUE /\ tab' = tab /\ tab.idx # 1
    BY <1>2, <1>4, <1>6
  <2>2. Buckets(tab)' = Buckets(tab)
    BY <1>2, <2>1 DEF Buckets
  <2>3. expected' \in [HashKey -> Seq(Val)]
    BY <1>1, <1>4, DroppedIs DEF HashTyped
  <2>4. HashTyped'
    BY <1>1, <1>2, <1>4, <2>1, <2>2, <2>3 DEF HashTyped
  <2>5. Grown'
    BY <1>1, <2>1 DEF Grown
  <2>6. QED BY <2>1, <2>4, <2>5 DEF HashInv
<1>7. QED BY <1>5, <1>6

LEMMA UpdateKeeps ==
    ASSUME HashInv, NEW key \in HashKey, NEW v \in Val, HashdbUpdate(key, v)
    PROVE  HashInv'
<1> DEFINE c == Located(tab, key)
<1>1. /\ kind = "hashdb" /\ ~broken /\ HashTyped /\ TableHolds(tab, live, expected)
      /\ tab.idx = 1 /\ tab.idx \in 1..Len(Sizes[kind])
  BY DEF HashInv, HashTyped, HashdbUpdate
<1>2. /\ c # Null /\ tab' = [tab EXCEPT !.val[c] = v] /\ expected' = [expected EXCEPT ![key] = <<v>>]
      /\ kind' = kind /\ live' = live /\ broken' = FALSE
  BY <1>1 DEF HashdbUpdate, HashdbFind, HashTyped
<1> HIDE DEF c
<1>3. c = Located(tab, key)
  BY DEF c
<1> Replaced(expected', expected, key, v)
  BY <1>2 DEF Replaced
<1>4. TableHolds(tab', live, expected') /\ tab'.idx = 1
  BY <1>1, <1>2, <1>3, UpdateHolds
<1>5. QED BY <1>1, <1>2, <1>4, StillHolds

\* The counter of hashdb wraps before its table can be full.
LEMMA HashdbNeverFull ==
    ASSUME HashInv, kind = "hashdb", ~broken
    PROVE  ~(tab.used >= Buckets(tab))
<1>1. tab.used = Cardinality(live) % UsedMod /\ live \in SUBSET Cell /\ tab.idx = 1
  BY DEF HashInv, HashTyped, TableHolds, Counts
<1>2. Cardinality(live) \in Nat
  BY <1>1, CellsFinite
<1>3. Cardinality(live) % UsedMod \in 0..(UsedMod - 1)
  BY <1>2, HashAssumption, SlotIs
<1>4. Buckets(tab) = Sizes["hashdb"][1] /\ "hashdb" \in TableKind /\ 1 \in 1..Len(Sizes["hashdb"])
  BY <1>1, HashAssumption DEF Buckets, TableKind
<1>5. Buckets(tab) \in Nat /\ Buckets(tab) >= UsedMod
  BY <1>4, SizesAre, HashAssumption
<1>6. QED BY <1>1, <1>3, <1>5, HashAssumption

LEMMA HashSteps ==
    ASSUME HashInv, [HashNext]_hashVars
    PROVE  HashInv'
<1>1. CASE UNCHANGED hashVars
  <2>1. Buckets(tab)' = Buckets(tab)
    BY <1>1 DEF hashVars, Buckets
  <2>2. HashTyped' /\ (broken => Grown)'
    BY <1>1, <2>1 DEF hashVars, HashInv, HashTyped, Grown
  <2>3. Counts(tab, live, expected)' <=> Counts(tab, live, expected)
    BY <1>1 DEF hashVars, Counts
  <2>4. TableHolds(tab, live, expected)' <=> TableHolds(tab, live, expected)
    BY <1>1, <2>1, <2>3 DEF hashVars, TableHolds
  <2>5. QED BY <1>1, <2>2, <2>4 DEF hashVars, HashInv
<1>2. CASE HashNext
  <2>1. PICK key \in HashKey :
            \/ Delete(key)
            \/ \E v \in Val : \/ HashdbInsert(key, v) \/ HashdbUpdate(key, v)
                              \/ HashmapInsert(key, v) \/ BinmapInsert(key, v)
    BY <1>2 DEF HashNext, HashdbDelete, HashmapDelete, BinmapDelete
  <2>2. CASE Delete(key)
    BY <2>2, DeleteKeeps
  <2>3. ASSUME NEW v \in Val, HashdbInsert(key, v) PROVE HashInv'
    <3> DEFINE full == tab.used >= Buckets(tab)
    <3>1. kind = "hashdb" /\ Located(tab, key) = Null /\ Enter(key, v, full) /\ ~broken
      BY <2>3 DEF HashdbInsert, HashdbFind, Enter
    <3>2. ~full
      BY <3>1, HashdbNeverFull
    <3>3. expected[key] = <<>>
      BY <3>1, FoundIs DEF HashInv
    <3>4. full \in BOOLEAN
      OBVIOUS
    <3> HIDE DEF full
    <3>5. QED BY <3>1, <3>2, <3>3, <3>4, EnterKeeps
  <2>4. ASSUME NEW v \in Val, HashdbUpdate(key, v) PROVE HashInv'
    BY <2>4, UpdateKeeps
  <2>5. ASSUME NEW v \in Val, HashmapInsert(key, v) PROVE HashInv'
    <3> DEFINE full == tab.used > HashmapMax(Buckets(tab))
    <3>1. kind = "hashmap" /\ Enter(key, v, full) /\ full \in BOOLEAN
      BY <2>5 DEF HashmapInsert
    <3> HIDE DEF full
    <3>2. QED BY <3>1, EnterKeeps
  <2>6. ASSUME NEW v \in Val, BinmapInsert(key, v) PROVE HashInv'
    <3> DEFINE full == tab.used >= Buckets(tab)
    <3>1. kind = "binmap" /\ Enter(key, v, full) /\ full \in BOOLEAN
      BY <2>6 DEF BinmapInsert
    <3> HIDE DEF full
    <3>2. QED BY <3>1, EnterKeeps
  <2>7. QED BY <2>1, <2>2, <2>3, <2>4, <2>5, <2>6
<1>3. QED BY <1>1, <1>2

LEMMA HashKept == HashSpec => []HashInv
<1>1. QED BY HashStarts, HashSteps, PTL DEF HashSpec

\* A look-up finds a key exactly if it was entered and is not deleted, and in a
\* table that has never grown, or that of a name server, the last value; a
\* deletion leaves no freed cell in a chain there.
THEOREM LookUpAgrees == HashSpec => []TableAgrees
<1>1. ASSUME HashInv PROVE TableAgrees
  <2>1. /\ kind \in TableKind /\ tab.idx \in 1..Len(Sizes[kind])
        /\ kind = "hashdb" => tab.idx = 1
        /\ broken => Grown
    BY <1>1 DEF HashInv, HashTyped
  <2>2. broken => Grown /\ kind # "hashdb"
    BY <1>1 DEF HashInv, HashTyped, Grown
  <2>3. ASSUME ~broken, NEW key \in HashKey, NEW c, c = Found(key)
        PROVE  /\ c = Null <=> expected[key] = <<>>
               /\ c # Null => c \in live
               /\ c # Null /\ (~Grown \/ kind = "hashdb") => tab.val[c] = Head(expected[key])
    <3>1. TableHolds(tab, live, expected)
      BY <1>1, <2>3 DEF HashInv
    <3>2. c = Located(tab, key)
      BY <2>1, <2>3 DEF Found, HashdbFind, HashmapFind, BinmapFind, TableKind
    <3>3. /\ c = Null <=> expected[key] = <<>>
          /\ c # Null => c \in live
          /\ \A r, m : Tabled(tab, Buckets(tab), live, r, m) /\ c # Null
                         => Topmost(tab, live, r, c, key)
      BY <3>1, <3>2, FoundIs
    <3>4. ASSUME c # Null, ~Grown \/ kind = "hashdb" PROVE tab.val[c] = Head(expected[key])
      <4>1. tab.idx = 1
        <5>1. CASE kind = "hashdb"
          BY <2>1, <5>1
        <5>2. CASE ~Grown
          <6>1. Len(Sizes[kind]) \in Nat /\ ~(tab.idx > 1)
            BY <2>1, <5>2, HashAssumption DEF Grown
          <6>2. QED BY <2>1, <6>1
        <5>3. QED BY <3>4, <5>1, <5>2
      <4>2. PICK r, m, d : /\ Tabled(tab, Buckets(tab), live, r, m)
                           /\ Stacked(tab, live, r, d, expected)
        BY <3>1, <4>1 DEF TableHolds, Ordered
      <4>3. Topmost(tab, live, r, c, key)
        BY <3>3, <3>4, <4>2
      <4>4. QED BY <4>2, <4>3, LastIsFound
    <3>5. QED BY <3>3, <3>4
  <2>4. QED BY <2>2, <2>3 DEF TableAgrees
<1>2. QED BY <1>1, HashKept, PTL

\* Whatever is entered and deleted, and however often the table grows, every
\* cell is in exactly one chain, and the counter that growth depends on is
\* their number, or what its 16 bits keep of it.
THEOREM EveryCellCounted == HashSpec => []CellsCounted
<1>1. ASSUME HashInv PROVE CellsCounted
  <2>1. SUFFICES ASSUME ~broken
                 PROVE  /\ IsInjective(Walked(tab)) /\ Range(Walked(tab)) = live
                        /\ tab.used = IF kind = "hashdb" THEN Cardinality(live) % UsedMod
                                                         ELSE Cardinality(live)
    BY DEF CellsCounted
  <2>2. TableHolds(tab, live, expected)
    BY <1>1, <2>1 DEF HashInv
  <2> DEFINE n == Buckets(tab)
             w == Walked(tab)
  <2>3. PICK r, m : Tabled(tab, n, live, r, m)
    BY <2>2 DEF TableHolds
  <2>4. Collects(w, tab, n, live, 0..(n - 1))
    BY <2>3, WalkedIs
  <2>5. \A c \in live : Slot(tab, n, c) \in 0..(n - 1)
    <3> HIDE DEF n
    <3>1. n \in Nat \ {0} /\ \A c \in live : tab.key[c] \in Nat
      BY <2>3 DEF Tabled, TabType
    <3>2. QED BY <3>1, SlotIs DEF Slot
  <2> HIDE DEF w, n
  <2>6. /\ w \in Seq(Cell) /\ DOMAIN w = 1..Len(w)
        /\ \A i, j \in 1..Len(w) : w[i] = w[j] => i = j
        /\ \A i \in 1..Len(w) : w[i] \in live
        /\ \A c \in live : \E i \in 1..Len(w) : w[i] = c
    BY <2>4, <2>5 DEF Collects
  <2>7. IsInjective(w)
    BY <2>6 DEF IsInjective
  <2>8. Range(w) = live
    BY <2>6 DEF Range
  <2>9. QED BY <2>2, <2>7, <2>8 DEF w, TableHolds, Counts
<1>2. QED BY <1>1, HashKept, PTL
=============================================================================
