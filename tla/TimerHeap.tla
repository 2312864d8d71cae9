------------------------------ MODULE TimerHeap ------------------------------
(* The heap of timers, called in any order.                                  *)
EXTENDS MinHeap

CONSTANTS
    Timer,      \* bound: the timers that exist
    Due         \* times

ASSUME TimerAssumption == Due \subseteq Nat

VARIABLE timers

HeapInit == timers = MinHeapCtor(Timer, NotInHeap)

HeapNext ==
    \E e \in Timer :
        \/ /\ timers.idx[e] = NotInHeap
           /\ \E d \in Due : timers' = MinHeapPush(timers, e, d)
        \/ /\ timers.idx[e] # NotInHeap
           /\ timers' = MinHeapErase(timers, e)
        \/ /\ timers.pool # <<>> /\ e = MinHeapTop(timers)
           /\ timers' = MinHeapPop(timers)

HeapSpec == HeapInit /\ [][HeapNext]_timers

-----------------------------------------------------------------------------
(* Properties.                                                             *)

\* Whatever is pushed, popped and erased, in any order.
TimersInOrder ==
    /\ HeapSound(timers)
    /\ \A e \in Timer : e \in Range(timers.pool) <=> timers.idx[e] # NotInHeap
=============================================================================
