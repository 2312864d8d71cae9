------------------------------ MODULE HashTable ------------------------------
(***************************************************************************)
(* The three hash tables of lib_mrt, which are one algorithm written three *)
(* times: hashdb.c (the index of a name server), hashmap.c (configuration) *)
(* and binmap.c.  A bucket is the head of a chain of cells linked both     *)
(* ways; a full table is moved to the next size of a list, cell by cell.   *)
(*                                                                         *)
(* A hash code stands for its key, and its key for the place it hashes to. *)
(* Memory is never short.  The log of hashdb.c is in NameIndex.            *)
(***************************************************************************)
EXTENDS Integers, Sequences, SequencesExt, FiniteSets

CONSTANTS
    HashKey,    \* keys: numbers
    Cell,       \* bound: the entries that are allocated at a time
    Val,        \* values
    Null,
    UsedMod,    \* hashdb_t.used has 16 bits: it counts modulo this
    Sizes       \* the sizes a table of each kind goes through

TableKind == {"hashdb", "hashmap", "binmap"}

ASSUME HashAssumption ==
    /\ HashKey \subseteq Nat /\ IsFiniteSet(Cell) /\ Null \notin Cell
    /\ UsedMod \in Nat \ {0}
    /\ \A t \in TableKind : Sizes[t] \in Seq(Nat \ {0}) /\ Sizes[t] # <<>>
    \* hashdb_init asks for 108631 buckets and gets 129793, hashdb.c:554
    /\ Sizes["hashdb"][1] >= UsedMod

VARIABLES
    kind,       \* which of the three
    tab,        \* the table with its cells
    live,       \* the cells that are allocated
    broken,     \* a deletion left a freed cell in a chain: what follows is undefined
    expected    \* reference: the values entered for each key, the last one first

hashVars == <<kind, tab, live, broken, expected>>

Buckets(t) == Sizes[kind][t.idx]
Grown == tab.idx > 1

-----------------------------------------------------------------------------
(* Chains.                                                                 *)

CellPath == SetToAllKPermutations(Cell)

\* The cells met from a cell on: the path that the links take to a null.
ChainFrom(next, c) ==
    CHOOSE s \in CellPath :
        \A i \in 0..Len(s) :
            (IF i = 0 THEN c ELSE next[s[i]]) = (IF i = Len(s) THEN Null ELSE s[i + 1])

\* hashcode_index: the bucket of a key in a table of a size.
HashIndex(key, size) == key % size

Chain(t, key) == ChainFrom(t.next, t.bucket[HashIndex(key, Buckets(t))])

\* All cells, in the order in which growing and listing meet them.
Walked(t) == FlattenSeq([b \in 1..Buckets(t) |-> ChainFrom(t.next, t.bucket[b - 1])])

\* The first cell of the chain with that key.
Located(t, key) ==
    LET i == SelectInSeq(Chain(t, key), LAMBDA c : t.key[c] = key)
    IN  IF i = 0 THEN Null ELSE Chain(t, key)[i]

UsedAfter(t) == IF kind = "hashdb" THEN (t.used + 1) % UsedMod ELSE t.used + 1

\* The cell becomes the head of its chain.  Its own prev is left as it was.
Link(t, c) ==
    LET b == HashIndex(t.key[c], Buckets(t))
        old == t.bucket[b]
    IN  [t EXCEPT !.next[c] = old,
                  !.prev = IF old = Null THEN @ ELSE [@ EXCEPT ![old] = c],
                  !.bucket[b] = c,
                  !.used = UsedAfter(t)]

\* Variant: the cells of a table that grows are counted on top of those it had.
ResizedUncleared(t, idx) ==
    [t EXCEPT !.idx = idx, !.bucket = [b \in 0..Sizes[kind][idx] - 1 |-> Null]]

Resized(t, idx) ==
    [t EXCEPT !.idx = idx, !.used = 0,
              !.bucket = [b \in 0..Sizes[kind][idx] - 1 |-> Null]]

\* Every cell is linked into the table of the next size.
Grow(t) == FoldLeft(Link, Resized(t, t.idx + 1), Walked(t))

CanGrow == tab.idx < Len(Sizes[kind])

\* calloc gives a cell whose links are null.
Allocated(t, c, key, v) ==
    [t EXCEPT !.key[c] = key, !.val[c] = v, !.next[c] = Null, !.prev[c] = Null]

\* A full table grows first; the bounds on the sizes and the cells are guards.
Enter(key, v, full) ==
    LET c == CHOOSE x \in Cell \ live : TRUE IN
    /\ ~broken
    /\ live # Cell
    /\ full => CanGrow
    /\ tab' = Link(Allocated(IF full THEN Grow(tab) ELSE tab, c, key, v), c)
    /\ live' = live \cup {c}
    /\ expected' = [expected EXCEPT ![key] = <<v>> \o @]
    /\ UNCHANGED <<kind, broken>>

\* The cell before a cell in its chain.
Before(t, c) ==
    LET ch == Chain(t, t.key[c])
        i == CHOOSE j \in DOMAIN ch : ch[j] = c
    IN  IF i = 1 THEN Null ELSE ch[i - 1]

\* Variant: the deleted cell's successor keeps its link back.
UnlinkedOneWay(t, c) ==
    LET n == t.next[c]
        p == t.prev[c]
    IN  [t EXCEPT !.next = IF p = Null THEN @ ELSE [@ EXCEPT ![p] = n],
                  !.bucket = IF p = Null
                             THEN [@ EXCEPT ![HashIndex(t.key[c], Buckets(t))] = n] ELSE @,
                  !.used = IF kind = "hashdb" THEN (@ - 1) % UsedMod ELSE @ - 1]

\* Both neighbours, or the bucket, are made to skip the cell.
Unlinked(t, c) ==
    LET n == t.next[c]
        p == t.prev[c]
    IN  [t EXCEPT !.prev = IF n = Null THEN @ ELSE [@ EXCEPT ![n] = p],
                  !.next = IF p = Null THEN @ ELSE [@ EXCEPT ![p] = n],
                  !.bucket = IF p = Null
                             THEN [@ EXCEPT ![HashIndex(t.key[c], Buckets(t))] = n] ELSE @,
                  !.used = IF kind = "hashdb" THEN (@ - 1) % UsedMod ELSE @ - 1]

\* What a freed cell holds is not read.
Freed(t, c) == [t EXCEPT !.key[c] = 0, !.val[c] = Null, !.next[c] = Null, !.prev[c] = Null]

\* Where prev is not the cell before, its chain keeps a cell that is freed.
Delete(key) ==
    LET c == Located(tab, key) IN
    /\ ~broken
    /\ c # Null
    /\ broken' = (tab.prev[c] # Before(tab, c))
    /\ tab' = IF broken' THEN tab ELSE Freed(Unlinked(tab, c), c)
    /\ live' = live \ {c}
    /\ expected' = [expected EXCEPT ![key] = Tail(@)]
    /\ UNCHANGED kind

-----------------------------------------------------------------------------
(* hashdb.c: a key that is there is refused.                               *)

HashdbFind(key) == Located(tab, key)

HashdbInsert(key, v) ==
    /\ kind = "hashdb"
    /\ HashdbFind(key) = Null
    /\ Enter(key, v, tab.used >= Buckets(tab))

HashdbUpdate(key, v) ==
    /\ kind = "hashdb" /\ ~broken
    /\ HashdbFind(key) # Null
    /\ tab' = [tab EXCEPT !.val[HashdbFind(key)] = v]
    /\ expected' = [expected EXCEPT ![key] = <<v>>]
    /\ UNCHANGED <<kind, live, broken>>

HashdbDelete(key) == kind = "hashdb" /\ Delete(key)

(* hashmap.c: a key may be entered again.  max is 0.72 of the size.        *)

HashmapMax(size) == (size * 72) \div 100

HashmapFind(key) == Located(tab, key)

HashmapInsert(key, v) ==
    /\ kind = "hashmap"
    /\ Enter(key, v, tab.used > HashmapMax(Buckets(tab)))

HashmapDelete(key) == kind = "hashmap" /\ Delete(key)

(* binmap.c: the key is a number, and may be entered again.                *)

BinmapFind(key) == Located(tab, key)

BinmapInsert(key, v) ==
    /\ kind = "binmap"
    /\ Enter(key, v, tab.used >= Buckets(tab))

BinmapDelete(key) == kind = "binmap" /\ Delete(key)

-----------------------------------------------------------------------------
HashCreate(k) ==
    [idx |-> 1, used |-> 0, bucket |-> [b \in 0..Sizes[k][1] - 1 |-> Null],
     key |-> [c \in Cell |-> 0], val |-> [c \in Cell |-> Null],
     next |-> [c \in Cell |-> Null], prev |-> [c \in Cell |-> Null]]

HashInit ==
    /\ kind \in TableKind
    /\ tab = HashCreate(kind)
    /\ live = {} /\ broken = FALSE
    /\ expected = [k \in HashKey |-> <<>>]

HashNext ==
    \E key \in HashKey :
        \/ HashdbDelete(key) \/ HashmapDelete(key) \/ BinmapDelete(key)
        \/ \E v \in Val :
            \/ HashdbInsert(key, v) \/ HashdbUpdate(key, v)
            \/ HashmapInsert(key, v) \/ BinmapInsert(key, v)

HashSpec == HashInit /\ [][HashNext]_hashVars

-----------------------------------------------------------------------------
(* Properties.                                                             *)

Found(key) ==
    CASE kind = "hashdb"  -> HashdbFind(key)
      [] kind = "hashmap" -> HashmapFind(key)
      [] kind = "binmap"  -> BinmapFind(key)

\* A look-up finds a key exactly if it is there, with the value entered last.
\* A table that has grown is promised less: growing turns the order of each
\* chain round, so that an older value comes first, and leaves the links back
\* as they were, so that a deletion may free a cell its chain still holds.
\* The table of the name server deletes and is promised everything, as its
\* counter wraps before it can grow.
TableAgrees ==
    /\ broken => Grown /\ kind # "hashdb"
    /\ ~broken => \A key \in HashKey :
        LET c == Found(key) IN
        /\ c = Null <=> expected[key] = <<>>
        /\ c # Null => c \in live
        /\ c # Null /\ (~Grown \/ kind = "hashdb") => tab.val[c] = Head(expected[key])

\* Every allocated cell is in exactly one chain, and the counter the growth
\* depends on is their number, or what 16 bits keep of it.
CellsCounted ==
    ~broken =>
        /\ IsInjective(Walked(tab)) /\ Range(Walked(tab)) = live
        /\ tab.used = IF kind = "hashdb" THEN Cardinality(live) % UsedMod
                                         ELSE Cardinality(live)
=============================================================================
