-------------------------- MODULE MasterServerProofs --------------------------
(***************************************************************************)
(* For any number of servers and any faults: what the master keeps about a *)
(* data server is the result of its own last check, and uploads are only   *)
(* sent to data servers whose last check succeeded.                        *)
(***************************************************************************)
EXTENDS MasterServer, WellFoundedInduction, TLAPS

\* The loop of either kind stays within its list.
LEMMA NextIdInRange ==
    ASSUME NEW k \in Kind, id[k] \in Id(k)
    PROVE  NextId(k) \in Id(k)
  <1>1. Count(k) \in Nat \ {0}
    BY MasterAssumption DEF Count
  <1>2. id[k] + 1 \in Nat
    BY <1>1 DEF Id
  <1>3. \A m \in Nat, n \in Nat \ {0} : m % n \in 0..(n - 1)
    OBVIOUS
  <1> QED
    BY <1>1, <1>2, <1>3 DEF NextId, Id

\* Every index of a server is a number.
LEMMA IdsAreNat ==
    ASSUME NEW k \in Kind
    PROVE  Id(k) \subseteq Nat
  <1>1. Count(k) \in Nat \ {0}
    BY MasterAssumption DEF Count
  <1> QED
    BY <1>1 DEF Id

\* The types of what the loops keep about their own progress.
LoopsTyped ==
    /\ id \in [Kind -> Nat] /\ asked \in [Kind -> Nat]
    /\ conn \in [Kind -> {"write", "read", "timer", "ended"}]
    /\ begun \in [Kind -> BOOLEAN]
    /\ \A k \in Kind : id[k] \in Id(k) /\ asked[k] \in Id(k)

\* Going on to the next server keeps the types of the loops, and the loop has
\* a connection only to the server it is at.
LEMMA CheckLoopInStep ==
    ASSUME LoopsTyped, InStep, NEW k \in Kind, CheckLoop(k)
    PROVE  LoopsTyped' /\ InStep'
  <1>1. NextId(k) \in Id(k) /\ NextId(k) \in Nat
    BY NextIdInRange, IdsAreNat DEF LoopsTyped
  <1>2. CASE Rest(k)
    BY <1>2 DEF LoopsTyped, InStep, Rest
  <1>3. CASE Ask(k)
    <2>1. id' = [id EXCEPT ![k] = NextId(k)]
      BY <1>3 DEF Ask
    <2>2. begun' \in [Kind -> BOOLEAN]
      <3>1. (begun[k] \/ NextId(k) = 0) \in BOOLEAN
        OBVIOUS
      <3>2. begun' = [begun EXCEPT ![k] = @ \/ NextId(k) = 0]
        BY <1>3 DEF Ask
      <3> QED
        BY <3>1, <3>2 DEF LoopsTyped
    <2>3. CASE conn' = [conn EXCEPT ![k] = "write"] /\ asked' = [asked EXCEPT ![k] = NextId(k)]
      BY <1>1, <2>1, <2>2, <2>3 DEF LoopsTyped, InStep
    <2>4. CASE conn' = [conn EXCEPT ![k] = "ended"] /\ asked' = asked
      BY <1>1, <2>1, <2>2, <2>4 DEF LoopsTyped, InStep
    <2> QED
      BY <1>3, <2>3, <2>4 DEF Ask
  <1> QED
    BY <1>2, <1>3 DEF CheckLoop

\* The types of what is kept about the servers.
KeptTyped ==
    /\ info = [k \in Kind |-> info[k]] /\ last = [k \in Kind |-> last[k]]
    /\ \A k \in Kind :
          /\ info[k] \in [Id(k) -> Info]
          /\ last[k] \in [Id(k) -> {"none", "good", "bad"}]
    /\ broken \in BOOLEAN

\* What is kept about the data servers, and that it is consistent.
DataKept == DataStateIsLast /\ UnknownIsEmpty

\* The type invariant in three parts.
LEMMA TypesInParts ==
    MasterTypeOK <=> LoopsTyped /\ KeptTyped /\ faults \in FaultSets /\ work \in Id("data")
  BY DEF MasterTypeOK, LoopsTyped, KeptTyped

\* A report of the server asked, whole or in part, is stored as its own.
LEMMA ReportKept ==
    ASSUME LoopsTyped, KeptTyped, InStep, DataKept, NEW k \in Kind, NEW free \in 0..MaxFree,
           conn[k] \in {"write", "read"}, broken' = broken,
           \/ /\ info' = [info EXCEPT ![k][id[k]] = [state |-> "online", free |-> free]]
              /\ last' = [last EXCEPT ![k][asked[k]] = "good"]
           \/ /\ info' = [info EXCEPT ![k][id[k]] = [state |-> "offline", free |-> free]]
              /\ last' = [last EXCEPT ![k][asked[k]] = "bad"]
    PROVE  KeptTyped' /\ DataKept'
  <1> PICK s \in {"online", "offline"}, r \in {"good", "bad"} :
           /\ s = "online" <=> r = "good"
           /\ info' = [info EXCEPT ![k][id[k]] = [state |-> s, free |-> free]]
           /\ last' = [last EXCEPT ![k][asked[k]] = r]
    OBVIOUS
  <1>1. asked[k] = id[k] /\ id[k] \in Id(k)
    BY DEF InStep, LoopsTyped
  <1>2. [state |-> s, free |-> free] \in Info
    BY DEF Info
  <1>3. info'[k] = [info[k] EXCEPT ![id[k]] = [state |-> s, free |-> free]]
    BY DEF KeptTyped
  <1>4. last'[k] = [last[k] EXCEPT ![id[k]] = r]
    BY <1>1 DEF KeptTyped
  <1>5. \A j \in Kind \ {k} : info'[j] = info[j] /\ last'[j] = last[j]
    BY DEF KeptTyped
  <1>6. KeptTyped'
    <2>1. info' = [j \in Kind |-> info'[j]] /\ last' = [j \in Kind |-> last'[j]]
      BY DEF KeptTyped
    <2>2. info'[k] \in [Id(k) -> Info]
      BY <1>1, <1>2, <1>3 DEF KeptTyped
    <2>3. last'[k] \in [Id(k) -> {"none", "good", "bad"}]
      BY <1>1, <1>4 DEF KeptTyped
    <2> QED
      BY <2>1, <2>2, <2>3, <1>5 DEF KeptTyped
  <1>7. CASE k = "data"
    <2>1. \A i \in Id("data") \ {id[k]} :
             info'["data"][i] = info["data"][i] /\ last'["data"][i] = last["data"][i]
      BY <1>7, <1>1, <1>3, <1>4 DEF KeptTyped
    <2>2. info'["data"][id[k]] = [state |-> s, free |-> free] /\ last'["data"][id[k]] = r
      BY <1>7, <1>1, <1>3, <1>4 DEF KeptTyped
    <2> QED
      BY <1>6, <2>1, <2>2 DEF DataKept, DataStateIsLast, StateIsLast, UnknownIsEmpty
  <1>8. CASE k # "data"
    <2>1. info'["data"] = info["data"] /\ last'["data"] = last["data"]
      BY <1>5, <1>8 DEF Kind
    <2> QED
      BY <1>6, <2>1 DEF DataKept, DataStateIsLast, StateIsLast, UnknownIsEmpty
  <1> QED
    BY <1>7, <1>8

\* A failed check is stored as one of the server asked, if it is a data
\* server; the mark of a name server never falls on a data server.
LEMMA FailureKept ==
    ASSUME LoopsTyped, KeptTyped, InStep, DataKept, NEW k \in Kind,
           conn[k] \in {"write", "read"}, MarkOffline(k),
           last' = [last EXCEPT ![k][asked[k]] = "bad"]
    PROVE  KeptTyped' /\ DataKept'
  <1>1. asked[k] = id[k] /\ id[k] \in Id(k)
    BY DEF InStep, LoopsTyped
  <1>2. last'[k] = [last[k] EXCEPT ![id[k]] = "bad"]
    BY <1>1 DEF KeptTyped
  <1>3. \A j \in Kind \ {k} : last'[j] = last[j]
    BY DEF KeptTyped
  <1>4. /\ last' = [j \in Kind |-> last'[j]]
        /\ \A j \in Kind : last'[j] \in [Id(j) -> {"none", "good", "bad"}]
    <2>1. last'[k] \in [Id(k) -> {"none", "good", "bad"}]
      BY <1>1, <1>2 DEF KeptTyped
    <2> QED
      BY <2>1, <1>3 DEF KeptTyped
  <1>5. CASE id["data"] \in Id(k)
    <2> DEFINE e == id["data"]
    <2> DEFINE marked == [info[k][e] EXCEPT !.state = "offline"]
    <2>1. info' = [info EXCEPT ![k][e].state = "offline"] /\ broken' = broken
      BY <1>5 DEF MarkOffline
    <2>2. info'[k] = [info[k] EXCEPT ![e] = marked]
      BY <2>1 DEF KeptTyped
    <2>3. \A j \in Kind \ {k} : info'[j] = info[j]
      BY <2>1 DEF KeptTyped
    <2>4. info[k][e] \in Info
      BY <1>5 DEF KeptTyped
    <2>5. marked \in Info /\ marked.state = "offline"
      BY <2>4 DEF Info
    <2> HIDE DEF marked
    <2>6. KeptTyped'
      <3>1. info'[k] \in [Id(k) -> Info]
        BY <1>5, <2>2, <2>5 DEF KeptTyped
      <3>2. info' = [j \in Kind |-> info'[j]]
        BY <2>1 DEF KeptTyped
      <3> QED
        BY <1>4, <2>1, <2>3, <3>1, <3>2 DEF KeptTyped
    <2>7. CASE k = "data"
      <3>1. \A i \in Id("data") \ {e} :
               info'["data"][i] = info["data"][i] /\ last'["data"][i] = last["data"][i]
        BY <2>7, <1>1, <1>2, <2>2 DEF KeptTyped
      <3>2. info'["data"][e].state = "offline" /\ last'["data"][e] = "bad"
        BY <2>7, <1>1, <1>2, <2>2, <2>5 DEF KeptTyped
      <3> QED
        BY <2>6, <3>1, <3>2 DEF DataKept, DataStateIsLast, StateIsLast, UnknownIsEmpty
    <2>8. CASE k # "data"
      <3>1. info'["data"] = info["data"] /\ last'["data"] = last["data"]
        BY <2>8, <1>3, <2>3 DEF Kind
      <3> QED
        BY <2>6, <3>1 DEF DataKept, DataStateIsLast, StateIsLast, UnknownIsEmpty
    <2> QED
      BY <2>7, <2>8
  <1>6. CASE id["data"] \notin Id(k)
    <2>1. info' = info /\ broken' \in BOOLEAN
      BY <1>6 DEF MarkOffline
    <2>2. k # "data"
      BY <1>1, <1>6
    <2>3. last'["data"] = last["data"]
      BY <1>3, <2>2 DEF Kind
    <2>4. KeptTyped'
      BY <1>4, <2>1 DEF KeptTyped
    <2> QED
      BY <2>1, <2>3, <2>4 DEF DataKept, DataStateIsLast, StateIsLast, UnknownIsEmpty
  <1> QED
    BY <1>5, <1>6

\* At the start nothing is known of any server.
LEMMA MasterInitInv == Init => MasterIInv
  <1> SUFFICES ASSUME Init PROVE MasterIInv
    OBVIOUS
  <1>1. \A k \in Kind : Count(k) \in Nat \ {0} /\ 0 \in Id(k)
    BY MasterAssumption DEF Count, Id
  <1>2. \A m \in Nat, n \in Nat \ {0} : m % n \in 0..(n - 1)
    OBVIOUS
  <1>3. \A k \in Kind : 1 % Count(k) \in Id(k) /\ 1 % Count(k) \in Nat
    BY <1>1, <1>2 DEF Id
  <1>4. LoopsTyped
    BY <1>3 DEF Init, LoopsTyped
  <1>5. [state |-> "unknown", free |-> 0] \in Info
    BY MasterAssumption DEF Info
  <1>6. KeptTyped
    BY <1>5 DEF Init, KeptTyped
  <1>7. "data" \in Kind
    BY DEF Kind
  <1>8. DataStateIsLast /\ UnknownIsEmpty
    BY <1>7 DEF Init, DataStateIsLast, StateIsLast, UnknownIsEmpty
  <1> QED
    BY <1>1, <1>4, <1>6, <1>7, <1>8, TypesInParts DEF Init, MasterIInv, InStep

\* Every step of either loop, every search and the clock keep the invariant.
LEMMA MasterStepInv == MasterIInv /\ [Next]_vars => MasterIInv'
  <1> SUFFICES ASSUME MasterIInv, [Next]_vars PROVE MasterIInv'
    OBVIOUS
  <1>1. /\ LoopsTyped /\ KeptTyped /\ InStep /\ DataKept
        /\ faults \in FaultSets /\ work \in Id("data")
    BY TypesInParts DEF MasterIInv, DataKept
  <1> SUFFICES LoopsTyped' /\ KeptTyped' /\ InStep' /\ DataKept'
               /\ (faults \in FaultSets)' /\ (work \in Id("data"))'
    BY DEF MasterIInv, MasterTypeOK, LoopsTyped, KeptTyped, DataKept
  <1>2. ASSUME info' = info, last' = last, broken' = broken
        PROVE  KeptTyped' /\ DataKept'
    BY <1>1, <1>2 DEF KeptTyped, DataKept, DataStateIsLast, StateIsLast, UnknownIsEmpty
  <1>3. CASE UNCHANGED vars
    BY <1>1, <1>2, <1>3 DEF vars, LoopsTyped, InStep
  <1>4. CASE Tick
    BY <1>1, <1>2, <1>4 DEF Tick, LoopsTyped, InStep
  <1>5. ASSUME NEW n \in Id("name"), NEW size \in 1..MaxFree, ServerFind(n, size)
        PROVE  LoopsTyped' /\ KeptTyped' /\ InStep' /\ DataKept'
               /\ (faults \in FaultSets)' /\ (work \in Id("data"))'
    <2>1. Chosen(size) \subseteq Id("data")
      <3>1. DataCount \in Nat \ {0} /\ Id("data") = 0..(DataCount - 1)
        BY MasterAssumption DEF Id, Count
      <3>2. \A m \in Nat, c \in Nat \ {0} : m % c \in 0..(c - 1)
        OBVIOUS
      <3>3. \A i \in 1..DataCount : Turn(i) \in Id("data")
        BY <1>1, <3>1, <3>2 DEF Turn
      <3> QED
        BY <3>3 DEF Chosen
    <2>2. work' \in Id("data")
      BY <1>1, <1>5, <2>1 DEF ServerFind
    <2> QED
      BY <1>1, <1>2, <1>5, <2>2 DEF ServerFind, LoopsTyped, InStep
  <1>6. ASSUME NEW k \in Kind, Poll(k)
        PROVE  LoopsTyped' /\ KeptTyped' /\ InStep' /\ DataKept'
               /\ (faults \in FaultSets)' /\ (work \in Id("data"))'
    <2>1. faults' = faults /\ work' = work
      BY <1>6 DEF Poll, Timer, StatusSent, CheckFails, Reported, ReportCut
    <2>2. CASE Timer(k)
      BY <1>1, <1>2, <2>1, <2>2, CheckLoopInStep DEF Timer
    <2>3. CASE StatusSent(k)
      BY <1>1, <1>2, <2>1, <2>3 DEF StatusSent, LoopsTyped, InStep
    <2>4. CASE CheckFails(k)
      BY <1>1, <2>1, <2>4, CheckLoopInStep, FailureKept DEF CheckFails
    <2>5. ASSUME NEW free \in 0..MaxFree, Reported(k, free) \/ ReportCut(k, free)
          PROVE  LoopsTyped' /\ KeptTyped' /\ InStep' /\ DataKept'
      <3>1. CheckLoop(k) /\ conn[k] \in {"write", "read"} /\ broken' = broken
        BY <2>5 DEF Reported, ReportCut
      <3>2. LoopsTyped' /\ InStep'
        BY <1>1, <3>1, CheckLoopInStep
      <3>3. KeptTyped' /\ DataKept'
        BY <1>1, <2>5, <3>1, ReportKept DEF Reported, ReportCut
      <3> QED
        BY <3>2, <3>3
    <2> QED
      BY <1>1, <1>6, <2>1, <2>2, <2>3, <2>4, <2>5 DEF Poll
  <1> QED
    BY <1>3, <1>4, <1>5, <1>6 DEF Next

\* The invariant holds in every reachable state.
LEMMA MasterInvHolds == Spec => []MasterIInv
  BY MasterInitInv, MasterStepInv, PTL DEF Spec

\* The master server keeps its types: the loops and work_id never leave the
\* lists of servers, however many there are.
THEOREM MasterTypeCorrect == Spec => []MasterTypeOK
  <1>1. MasterIInv => MasterTypeOK
    BY DEF MasterIInv
  <1> QED
    BY <1>1, MasterInvHolds, PTL

\* The state kept for a data server is the result of its own last check.
THEOREM DataStateTrue == Spec => []DataStateIsLast
  <1>1. MasterIInv => DataStateIsLast
    BY DEF MasterIInv
  <1> QED
    BY <1>1, MasterInvHolds, PTL

\* server_find never answers with a data server that has not been asked, that
\* failed its last check or that has no room for the file.
THEOREM FoundServersFit == Spec => []FoundFits
  <1>1. MasterIInv => FoundFits
    <2> SUFFICES ASSUME MasterIInv, NEW size \in 1..MaxFree, NEW i \in Chosen(size)
                 PROVE  last["data"][i] = "good" /\ info["data"][i].free >= size
      BY DEF FoundFits
    <2>1. DataCount \in Nat \ {0} /\ Id("data") = 0..(DataCount - 1) /\ work \in Id("data")
      BY MasterAssumption DEF Id, Count, MasterIInv, MasterTypeOK
    <2>2. \A m \in Nat, c \in Nat \ {0} : m % c \in 0..(c - 1)
      OBVIOUS
    <2>3. i \in Id("data") /\ Fits(i, size)
      BY <2>1, <2>2 DEF Chosen, Turn
    <2>4. info["data"][i] \in Info
      BY <2>3 DEF MasterIInv, MasterTypeOK, Kind
    <2>5. info["data"][i].free >= size /\ info["data"][i].state # "offline"
      BY <2>3 DEF Fits
    <2>6. info["data"][i].state # "unknown"
      <3>1. info["data"][i].free # 0
        BY <2>4, <2>5, MasterAssumption DEF Info
      <3> QED
        BY <2>3, <3>1 DEF MasterIInv, UnknownIsEmpty
    <2>7. info["data"][i].state = "online"
      BY <2>4, <2>5, <2>6 DEF Info
    <2> QED
      BY <2>3, <2>5, <2>7 DEF MasterIInv, DataStateIsLast, StateIsLast
  <1> QED
    BY <1>1, MasterInvHolds, PTL

-----------------------------------------------------------------------------
(* The search goes once round the list.                                    *)

\* A set of numbers that is not empty has a least one.
LEMMA LeastNumber ==
    ASSUME NEW S \in SUBSET Nat, S # {}
    PROVE  \E m \in S : \A k \in S : m <= k
  <1>1. PICK m \in S : \A k \in S : <<k, m>> \notin OpToRel(<, Nat)
    BY NatLessThanWellFounded, WFMin
  <1>2. \A k \in S : ~(k < m)
    BY <1>1 DEF OpToRel
  <1>3. m \in Nat /\ \A k \in S : k \in Nat
    OBVIOUS
  <1> QED
    BY <1>2, <1>3

LEMMA Round ==
    ASSUME NEW n \in Nat \ {0}, NEW a \in 0..(n - 1)
    PROVE  a % n = a /\ (a + n) % n = a
  OBVIOUS

\* Every server has its turn once, and the one chosen last has the last turn.
LEMMA Turns ==
    ASSUME work \in Id("data")
    PROVE  /\ \A i \in Id("data") : \E j \in 1..DataCount : Turn(j) = i
           /\ \A i \in Id("data") \ {work} : \E j \in 1..(DataCount - 1) : Turn(j) = i
           /\ \A j \in 1..(DataCount - 1) : Turn(j) # work
  <1>1. DataCount \in Nat \ {0} /\ Id("data") = 0..(DataCount - 1)
    BY MasterAssumption DEF Id, Count
  <1>2. ASSUME NEW i \in Id("data"), i <= work
        PROVE  i - work + DataCount \in 1..DataCount /\ Turn(i - work + DataCount) = i
    <2>1. (i + DataCount) % DataCount = i
      BY <1>1, Round
    <2>2. work + (i - work + DataCount) = i + DataCount
      BY <1>1
    <2>3. i - work + DataCount \in 1..DataCount
      BY <1>1, <1>2
    <2>4. Turn(i - work + DataCount) = (i + DataCount) % DataCount
      BY <2>2 DEF Turn
    <2> QED
      BY <2>1, <2>3, <2>4
  <1>3. ASSUME NEW i \in Id("data"), i > work
        PROVE  i - work \in 1..(DataCount - 1) /\ Turn(i - work) = i
    <2>1. i % DataCount = i
      BY <1>1, Round
    <2>2. work + (i - work) = i
      BY <1>1
    <2> QED
      BY <1>1, <1>3, <2>1, <2>2 DEF Turn
  <1>4. \A i \in Id("data") : \E j \in 1..DataCount : Turn(j) = i
    <2> SUFFICES ASSUME NEW i \in Id("data") PROVE \E j \in 1..DataCount : Turn(j) = i
      OBVIOUS
    <2>1. CASE i <= work
      BY <1>2, <2>1
    <2>2. CASE i > work
      <3>1. i - work \in 1..DataCount
        BY <1>1, <1>3, <2>2
      <3> QED
        BY <1>3, <2>2, <3>1
    <2> QED
      BY <1>1, <2>1, <2>2
  <1>5. \A i \in Id("data") \ {work} : \E j \in 1..(DataCount - 1) : Turn(j) = i
    <2> SUFFICES ASSUME NEW i \in Id("data"), i # work
                 PROVE  \E j \in 1..(DataCount - 1) : Turn(j) = i
      OBVIOUS
    <2>1. CASE i < work
      <3>1. i - work + DataCount \in 1..(DataCount - 1) /\ i <= work
        BY <1>1, <2>1
      <3> QED
        BY <1>2, <3>1
    <2>2. CASE i > work
      BY <1>3, <2>2
    <2> QED
      BY <1>1, <2>1, <2>2
  <1>6. ASSUME NEW j \in 1..(DataCount - 1) PROVE Turn(j) # work
    <2>1. CASE work + j < DataCount
      <3>1. work + j \in 0..(DataCount - 1)
        BY <1>1, <2>1
      <3>2. Turn(j) = work + j
        BY <1>1, <3>1, Round DEF Turn
      <3> QED
        BY <1>1, <3>2
    <2>2. CASE work + j >= DataCount
      <3> DEFINE a == work + j - DataCount
      <3>1. a \in 0..(DataCount - 1) /\ a + DataCount = work + j /\ a # work
        BY <1>1, <2>2
      <3> HIDE DEF a
      <3>2. Turn(j) = a
        BY <1>1, <3>1, Round DEF Turn
      <3> QED
        BY <3>1, <3>2
    <2> QED
      BY <1>1, <2>1, <2>2
  <1> QED
    BY <1>4, <1>5, <1>6

\* While a data server fits server_find ends at one, and at the one it chose
\* before only where no other fits (tdss_config.h:117).
THEOREM SearchSpreads == Spec => []LoadIsSpread
  <1>1. ASSUME MasterIInv, NEW size \in 1..MaxFree, Chosen(size) = {}, NEW i \in Id("data")
        PROVE  ~Fits(i, size)
    <2> SUFFICES ASSUME Fits(i, size) PROVE FALSE
      OBVIOUS
    <2> DEFINE S == {j \in 1..DataCount : Fits(Turn(j), size)}
    <2>1. work \in Id("data") /\ DataCount \in Nat
      BY <1>1, MasterAssumption DEF MasterIInv, MasterTypeOK
    <2>2. S # {}
      BY <2>1, Turns
    <2>3. S \in SUBSET Nat
      BY <2>1
    <2>4. PICK m \in S : \A k \in S : m <= k
      BY <2>2, <2>3, LeastNumber
    <2>5. m \in 1..DataCount /\ Fits(Turn(m), size)
      OBVIOUS
    <2>6. \A h \in 1..(m - 1) : ~Fits(Turn(h), size)
      BY <2>1, <2>4, <2>5
    <2> QED
      BY <1>1, <2>5, <2>6 DEF Chosen
  <1>2. ASSUME MasterIInv, NEW size \in 1..MaxFree, work \in Chosen(size),
               NEW i \in Id("data") \ {work}
        PROVE  ~Fits(i, size)
    <2>1. work \in Id("data") /\ DataCount \in Nat \ {0}
      BY <1>2, MasterAssumption DEF MasterIInv, MasterTypeOK
    <2>2. PICK j \in 1..DataCount : /\ work = Turn(j)
                                    /\ \A h \in 1..(j - 1) : ~Fits(Turn(h), size)
      BY <1>2 DEF Chosen
    <2>3. j = DataCount
      BY <2>1, <2>2, Turns
    <2>4. PICK h \in 1..(DataCount - 1) : Turn(h) = i
      BY <2>1, Turns
    <2> QED
      BY <2>2, <2>3, <2>4
  <1>3. MasterIInv => LoadIsSpread
    BY <1>1, <1>2 DEF LoadIsSpread
  <1> QED
    BY <1>3, MasterInvHolds, PTL
=============================================================================
