------------------------------ MODULE MCLibrary ------------------------------
(***************************************************************************)
(* The containers and the event loop of lib_mrt, side by side: they share  *)
(* nothing, so a behaviour is one of one of them, the others stay as they  *)
(* begin.                                                                  *)
(***************************************************************************)
EXTENDS HashTable, MemPool, TimerHeap, EventCenter, TLC

VARIABLE part   \* the one that runs

Part == {"tables", "memory", "heap", "events"}

\* Sizes small enough to be grown twice by a few entries.  The index of a name
\* server gets more buckets than its counter can count.
LibrarySizes == [hashdb |-> <<3, 5>>, hashmap |-> <<3, 5>>, binmap |-> <<1, 3>>]

LibraryInit ==
    /\ part \in Part
    /\ HashInit /\ (part # "tables" => kind = "hashdb")
    /\ PoolInit /\ (part # "memory" => master = CHOOSE a \in Arena : TRUE)
                /\ (part # "memory" => \A t \in Thread : uses[t] = {})
    /\ HeapInit
    /\ EventCenterInit

LibraryNext ==
    \/ part = "tables" /\ HashNext /\ UNCHANGED <<poolVars, timers, eventVars>>
    \/ part = "memory" /\ PoolNext /\ UNCHANGED <<hashVars, timers, eventVars>>
    \/ part = "heap"   /\ HeapNext /\ UNCHANGED <<hashVars, poolVars, eventVars>>
    \/ part = "events" /\ EventNext /\ UNCHANGED <<hashVars, poolVars, timers>>

LibrarySpec == LibraryInit /\ [][LibraryNext /\ UNCHANGED part]_<<part, hashVars, poolVars, timers, eventVars>>

LibrarySymmetry == Permutations(Conn) \cup Permutations(Fd) \cup Permutations(Thread)
=============================================================================
