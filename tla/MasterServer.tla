----------------------------- MODULE MasterServer -----------------------------
(***************************************************************************)
(* The master server: the two loops that poll the data servers and the     *)
(* name servers (master_server/server_check.c), and server_find, which     *)
(* chooses a data server for an upload (master_server/command.c).          *)
(*                                                                         *)
(* Each loop has one connection at a time.  When it ends, its result is    *)
(* noted and the next server is asked from the same handler, or the loop   *)
(* rests until a later second if it has begun its pass in this one.        *)
(***************************************************************************)
EXTENDS Integers

CONSTANTS
    DataCount, NameCount,   \* servers configured
    MaxFree,                \* bound: room a data server reports
    FaultSets               \* which of FaultKind happen in one behaviour

\* data, name: checks of a data or of a name server fail; split: an answer
\* comes in pieces; connect: a connection cannot be made.
FaultKind == {"data", "name", "split", "connect"}

ASSUME MasterAssumption ==
    /\ DataCount \in Nat \ {0} /\ NameCount \in Nat \ {0}
    /\ MaxFree \in Nat
    /\ FaultSets \subseteq SUBSET FaultKind

VARIABLES
    faults,     \* the kinds of fault of this behaviour
    id,         \* the server each loop is at
    asked,      \* the server its connection goes to
    conn,       \* what the loop waits for
    begun,      \* whether start is the current second
    info,       \* what is kept about each server
    work,       \* work_id: the data server chosen last
    broken,     \* memory behind name_server.info has been written
    last        \* history: how the last check of each server went

vars == <<faults, id, asked, conn, begun, info, work, broken, last>>

Kind == {"data", "name"}
Count(k) == IF k = "data" THEN DataCount ELSE NameCount
Id(k) == 0..(Count(k) - 1)

\* data_server_info_t and name_server_info_t.  free stands for the room left
\* on disk and in inodes: the size of the largest file there is room for.
Info == [state : {"unknown", "offline", "online"}, free : 0..MaxFree]

-----------------------------------------------------------------------------
(* __server_check_loop.                                                    *)

NextId(k) == (id[k] + 1) % Count(k)

\* __server_next: a pass is begun once a second at most.
Rests(k) == NextId(k) = 0 /\ begun[k]

Rest(k) ==
    /\ Rests(k)
    /\ conn' = [conn EXCEPT ![k] = "timer"]
    /\ UNCHANGED <<id, asked, begun>>

Ask(k) ==
    /\ ~Rests(k)
    /\ id' = [id EXCEPT ![k] = NextId(k)]
    /\ begun' = [begun EXCEPT ![k] = @ \/ NextId(k) = 0]
    /\ \/ /\ conn' = [conn EXCEPT ![k] = "write"]
          /\ asked' = [asked EXCEPT ![k] = NextId(k)]
       \/ /\ "connect" \in faults
          /\ conn' = [conn EXCEPT ![k] = "ended"]
          /\ UNCHANGED asked

\* Variant: the end of a pass is rested at without a look at the clock.
CheckLoopRests(k) ==
    IF NextId(k) = 0 THEN conn' = [conn EXCEPT ![k] = "timer"] /\ UNCHANGED <<id, asked, begun>>
                     ELSE Ask(k)

\* A connection that cannot be made ends the loop: no caller looks at the
\* result, and nothing calls the loop again.
CheckLoop(k) == Rest(k) \/ Ask(k)

Timer(k) ==
    /\ conn[k] = "timer" /\ ~begun[k]
    /\ CheckLoop(k)
    /\ UNCHANGED <<faults, info, work, broken, last>>

-----------------------------------------------------------------------------
(* One check: __server_send, __server_recv, and __server_finish at its end. *)

StatusSent(k) ==
    /\ conn[k] = "write"
    /\ conn' = [conn EXCEPT ![k] = "read"]
    /\ UNCHANGED <<faults, id, asked, begun, info, work, broken, last>>

\* __server_report: an answer with all fields.
Reported(k, free) ==
    /\ conn[k] = "read"
    /\ k = "name" => free = 0
    /\ info' = [info EXCEPT ![k][id[k]] = [state |-> "online", free |-> free]]
    /\ last' = [last EXCEPT ![k][asked[k]] = "good"]
    /\ CheckLoop(k)
    /\ UNCHANGED <<faults, work, broken>>

\* Only a part of the answer has come by the first read: the fields it has
\* are stored all the same.
ReportCut(k, free) ==
    /\ "split" \in faults
    /\ conn[k] = "read"
    /\ k = "name" => free = 0
    /\ info' = [info EXCEPT ![k][id[k]] = [state |-> "offline", free |-> free]]
    /\ last' = [last EXCEPT ![k][asked[k]] = "bad"]
    /\ CheckLoop(k)
    /\ UNCHANGED <<faults, work, broken>>

\* Variant: the server the loop goes on to is the one marked.
MarkNext(k) ==
    /\ info' = [info EXCEPT ![k][NextId(k)].state = "offline"]
    /\ UNCHANGED broken

\* child_fail_return marks a name server at the index of the other loop,
\* which may lie behind the end of the array.
MarkOffline(k) ==
    IF id["data"] \in Id(k)
    THEN /\ info' = [info EXCEPT ![k][id["data"]].state = "offline"]
         /\ UNCHANGED broken
    ELSE /\ broken' \in BOOLEAN
         /\ UNCHANGED info

\* The connection breaks, is dropped for lack of progress, or the answer is
\* not a success.
CheckFails(k) ==
    /\ k \in faults
    /\ conn[k] \in {"write", "read"}
    /\ MarkOffline(k)
    /\ last' = [last EXCEPT ![k][asked[k]] = "bad"]
    /\ CheckLoop(k)
    /\ UNCHANGED <<faults, work>>

-----------------------------------------------------------------------------
(* server_find.                                                            *)

\* Variant: what a server reported before it went away still counts.
FitsStale(i, size) == info["data"][i].free >= size

Fits(i, size) == info["data"][i].state # "offline" /\ info["data"][i].free >= size

\* The i-th server looked at.
Turn(i) == (work + i) % DataCount

\* Variant: the server chosen last is looked at first.
ChosenFirst(size) ==
    {Turn(i - 1) : i \in {j \in 1..DataCount :
        Fits(Turn(j - 1), size) /\ \A h \in 1..(j - 1) : ~Fits(Turn(h - 1), size)}}

\* The first server after the one chosen last that fits, or none.
Chosen(size) ==
    {Turn(i) : i \in {j \in 1..DataCount :
        Fits(Turn(j), size) /\ \A h \in 1..(j - 1) : ~Fits(Turn(h), size)}}

\* ns_get_server_id gives n for the name; a name server marked offline ends
\* the search before it begins.
Refused(n) == info["name"][n].state = "offline"

ServerFind(n, size) ==
    /\ IF Refused(n) \/ Chosen(size) = {} THEN UNCHANGED work
       ELSE work' \in Chosen(size)
    /\ UNCHANGED <<faults, id, asked, conn, begun, info, broken, last>>

-----------------------------------------------------------------------------
\* A second goes by.
Tick ==
    /\ begun' = [k \in Kind |-> FALSE]
    /\ UNCHANGED <<faults, id, asked, conn, info, work, broken, last>>

\* server_check_init has asked the first server of each loop, which is the
\* second one when there are several.
Init ==
    /\ faults \in FaultSets
    /\ id = [k \in Kind |-> 1 % Count(k)]
    /\ asked = [k \in Kind |-> 1 % Count(k)]
    /\ conn = [k \in Kind |-> "write"]
    /\ begun = [k \in Kind |-> Count(k) = 1]
    /\ info = [k \in Kind |-> [i \in Id(k) |-> [state |-> "unknown", free |-> 0]]]
    /\ work = 0
    /\ broken = FALSE
    /\ last = [k \in Kind |-> [i \in Id(k) |-> "none"]]

Poll(k) ==
    \/ Timer(k) \/ StatusSent(k) \/ CheckFails(k)
    \/ \E free \in 0..MaxFree : Reported(k, free) \/ ReportCut(k, free)

Next ==
    /\ ~broken
    /\ \/ \E k \in Kind : Poll(k)
       \/ \E n \in Id("name"), size \in 1..MaxFree : ServerFind(n, size)
       \/ Tick

Spec == Init /\ [][Next]_vars

\* The event loop serves its tasks and drops those that make no progress, and
\* time goes on.
Fairness == WF_vars(~broken /\ Tick) /\ \A k \in Kind : WF_vars(~broken /\ Poll(k))

FairSpec == Spec /\ Fairness

-----------------------------------------------------------------------------
(* Properties.                                                             *)

MasterTypeOK ==
    /\ faults \in FaultSets
    /\ id \in [Kind -> Nat] /\ asked \in [Kind -> Nat]
    /\ conn \in [Kind -> {"write", "read", "timer", "ended"}]
    /\ begun \in [Kind -> BOOLEAN]
    /\ info = [k \in Kind |-> info[k]] /\ last = [k \in Kind |-> last[k]]
    /\ \A k \in Kind :
          /\ id[k] \in Id(k) /\ asked[k] \in Id(k)
          /\ info[k] \in [Id(k) -> Info]
          /\ last[k] \in [Id(k) -> {"none", "good", "bad"}]
    /\ work \in Id("data")
    /\ broken \in BOOLEAN

StateIsLast(k) ==
    \A i \in Id(k) :
        /\ info[k][i].state = "online" <=> last[k][i] = "good"
        /\ info[k][i].state = "offline" <=> last[k][i] = "bad"

\* A client is only ever sent to a data server that answered its last check
\* and had room for the file: not to one that has not been asked yet, nor to
\* one that has failed since, whatever came of the checks of other servers.
FoundFits ==
    \A size \in 1..MaxFree : \A i \in Chosen(size) :
        last["data"][i] = "good" /\ info["data"][i].free >= size

\* No search fails while a server fits, and two searches in a row end at the
\* same server only when no other one would do (tdss_config.h:117).
LoadIsSpread ==
    \A size \in 1..MaxFree :
        /\ Chosen(size) = {} => \A i \in Id("data") : ~Fits(i, size)
        /\ work \in Chosen(size) => \A i \in Id("data") \ {work} : ~Fits(i, size)

\* What is kept about a data server is the result of its own last check,
\* although results are stored where the loop is and not where they come from.
DataStateIsLast == StateIsLast("data")

\* What makes these hold: the loop does not move on while its connection is
\* open, and a server that was never asked has no room.
InStep == \A k \in Kind : conn[k] \in {"write", "read"} => asked[k] = id[k]

UnknownIsEmpty ==
    \A i \in Id("data") : info["data"][i].state = "unknown" => info["data"][i].free = 0

MasterIInv == MasterTypeOK /\ DataStateIsLast /\ InStep /\ UnknownIsEmpty

\* A loop that can make connections goes on for ever: every server is asked
\* again and again, and a second's rest is always followed by another pass.
EveryServerChecked ==
    "connect" \notin faults =>
        \A k \in Kind : \A i \in Id(k) :
            []<>(broken \/ (conn[k] = "write" /\ id[k] = i))
=============================================================================
