------------------------------- MODULE MinHeap -------------------------------
(***************************************************************************)
(* The heap of timers of the event center: minheap.h.                      *)
(*                                                                         *)
(* A heap is a record: pool is the array up to num, which is its length;   *)
(* idx[e] is min_heap_idx of a timer, counted from 0, and due[e] its       *)
(* timeout.  The array is always large enough (min_heap_reserve).          *)
(***************************************************************************)
EXTENDS Integers, Sequences, SequencesExt, FiniteSets

NotInHeap == -1

MinHeapCtor(elems, idx) ==
    [pool |-> <<>>, idx |-> [e \in elems |-> idx], due |-> [e \in elems |-> 0]]

\* pool[i] = e, and its min_heap_idx.
Placed(h, i, e) ==
    [h EXCEPT !.idx[e] = i, !.pool = IF i < Len(@) THEN [@ EXCEPT ![i + 1] = e] ELSE @]

\* One round of the loop of min_heap_shift_up_: the hole moves up when its parent
\* is greater than e.
RaisedOnce(s, e) ==
    LET above == s.heap.pool[(s.hole - 1) \div 2 + 1] IN
    IF s.hole > 0 /\ s.heap.due[above] > s.heap.due[e]
    THEN [heap |-> Placed(s.heap, s.hole, above), hole |-> (s.hole - 1) \div 2]
    ELSE s

\* One round of min_heap_shift_down_: it moves down when e is greater than the
\* smaller child.
LoweredOnce(s, e) ==
    LET h == s.heap
        num == Len(h.pool)
        right == 2 * (s.hole + 1)
        child == IF right = num \/ h.due[h.pool[right + 1]] > h.due[h.pool[right]]
                 THEN right - 1 ELSE right
    IN  IF right <= num /\ h.due[e] > h.due[h.pool[child + 1]]
        THEN [heap |-> Placed(h, s.hole, h.pool[child + 1]), hole |-> child]
        ELSE s

\* The hole moves in each round but the last: there are no more than the heap
\* has timers.
ShiftUp(h, hole, e) ==
    LET n == Len(h.pool)
        after[k \in 0..n] == IF k = 0 THEN [heap |-> h, hole |-> hole]
                             ELSE RaisedOnce(after[k - 1], e)
    IN  Placed(after[n].heap, after[n].hole, e)

ShiftDown(h, hole, e) ==
    LET n == Len(h.pool)
        after[k \in 0..n] == IF k = 0 THEN [heap |-> h, hole |-> hole]
                             ELSE LoweredOnce(after[k - 1], e)
    IN  Placed(after[n].heap, after[n].hole, e)

MinHeapTop(h) == h.pool[1]

\* min_heap_elem_init and min_heap_push.
MinHeapPush(h, e, due) ==
    ShiftUp([h EXCEPT !.due[e] = due, !.pool = Append(@, e)], Len(h.pool), e)

MinHeapPop(h) ==
    LET e == MinHeapTop(h)
        fewer == [h EXCEPT !.pool = Front(@)]
    IN  [ShiftDown(fewer, 0, Last(h.pool)) EXCEPT !.idx[e] = NotInHeap]

\* Variant: the last timer, put in the place of e, only ever moves down.
ErasedDown(h, e) ==
    [ShiftDown([h EXCEPT !.pool = Front(@)], h.idx[e], Last(h.pool))
        EXCEPT !.idx[e] = NotInHeap]

\* e is in the heap, or its idx says so: the last timer takes its place.
Erased(h, e) ==
    LET hole == h.idx[e]
        fewer == [h EXCEPT !.pool = Front(@)]
        last == Last(h.pool)
    IN  [(IF hole > 0 /\ h.due[h.pool[(hole - 1) \div 2 + 1]] > h.due[last]
          THEN ShiftUp(fewer, hole, last)
          ELSE ShiftDown(fewer, hole, last)) EXCEPT !.idx[e] = NotInHeap]

MinHeapErase(h, e) == IF h.idx[e] = NotInHeap THEN h ELSE Erased(h, e)

-----------------------------------------------------------------------------
\* No timer comes before one above it, and each knows where it is: otherwise
\* the top is not the next to end, or erasing one takes out another.
HeapSound(h) ==
    /\ \A i \in 2..Len(h.pool) : h.due[h.pool[i \div 2]] <= h.due[h.pool[i]]
    /\ IsInjective(h.pool)
    /\ \A i \in DOMAIN h.pool : h.idx[h.pool[i]] = i - 1
=============================================================================
