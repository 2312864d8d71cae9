----------------------------- MODULE EventCenter -----------------------------
(***************************************************************************)
(* The event loop of the master server: event_center.c, one thread.        *)
(*                                                                         *)
(* The loop closes idle connections once a second, then handles what epoll *)
(* reports, then calls back the tasks that other threads have returned.  A *)
(* connection is in the heap of timers while epoll watches it; conn_t      *)
(* records are never freed, descriptors are used again.                    *)
(*                                                                         *)
(* Buffers and what is in them, the addresses, and what the callbacks of   *)
(* the program do besides failing are abstracted.                          *)
(***************************************************************************)
EXTENDS MinHeap

CONSTANTS
    Conn,       \* bound: the connections of one behaviour
    Fd,         \* descriptors
    Unused,     \* of a descriptor: no connection has it
    Timeout,    \* ec->timeout, in seconds
    MaxTime     \* bound

ASSUME EventAssumption ==
    /\ Timeout \in Nat \ {0} /\ MaxTime \in Nat
    /\ Unused \notin Conn

VARIABLES
    conns,      \* the records, with the time at which epoll began to watch
    timer,      \* the heap
    online,
    fdOf,       \* the connection whose socket a descriptor is
    owing,      \* external: connections for which a task is with a worker
    at,         \* where the loop is
    now,        \* time(NULL)
    cleaned,    \* the second event_clean last ran in
    mishap,     \* epoll refused a connection, or a task came back too late
    crashed

eventVars == <<conns, timer, online, fdOf, owing, at, now, cleaned, mishap, crashed>>

Open == {c \in Conn : conns[c].open}

Running(where) == ~crashed /\ at = where

-----------------------------------------------------------------------------
\* The records come zeroed: a new one has min_heap_idx 0.
EventCenterInit ==
    /\ conns = [c \in Conn |-> [open |-> FALSE, used |-> FALSE, fd |-> 0, event |-> {},
                                last |-> 0, watched |-> 0]]
    /\ timer = MinHeapCtor(Conn, 0)
    /\ online = 0 /\ fdOf = [f \in Fd |-> Unused] /\ owing = {}
    /\ at = "top" /\ now = 0 /\ cleaned = 0
    /\ mishap = FALSE /\ crashed = FALSE

\* Of a closed connection only the descriptor is used again, by a late task.
Closed(record) == [record EXCEPT !.open = FALSE, !.event = {}, !.last = 0, !.watched = 0]

\* min_heap_erase reads far out of an empty heap, for a record whose index was
\* never set.  close closes whatever the descriptor is by now.
ConnectClose(c, record, h) ==
    /\ crashed' = (h.idx[c] # NotInHeap /\ h.pool = <<>>)
    /\ timer' = IF crashed' THEN h ELSE MinHeapErase(h, c)
    /\ conns' = [conns EXCEPT ![c] = Closed(record)]
    /\ fdOf' = [fdOf EXCEPT ![record.fd] = Unused]
    /\ online' = online - 1

\* A socket, its record, and event_insert: epoll takes the connection or, when
\* it has no memory, does not.
ConnectInsert(c, f) ==
    LET record == [conns[c] EXCEPT !.used = TRUE, !.fd = f] IN
    /\ ~conns[c].used /\ fdOf[f] = Unused
    /\ \/ /\ conns' = [conns EXCEPT ![c] = [record EXCEPT !.open = TRUE, !.watched = now]]
          /\ timer' = MinHeapPush(timer, c, now + Timeout)
          /\ fdOf' = [fdOf EXCEPT ![f] = c]
          /\ online' = online + 1
          /\ UNCHANGED <<mishap, crashed>>
       \/ /\ ConnectClose(c, record, timer)
          /\ mishap' = TRUE
    /\ UNCHANGED <<owing, at, now, cleaned>>

\* connect_accept: the program may also refuse the connection.
ConnectAccept(c, f) ==
    /\ Running("inet")
    /\ \/ ConnectInsert(c, f)
       \/ /\ ~conns[c].used /\ fdOf[f] = Unused
          /\ conns' = [conns EXCEPT ![c].used = TRUE]
          /\ UNCHANGED <<timer, online, fdOf, owing, at, now, cleaned, mishap, crashed>>

\* connect_create, which a callback of a returned task may call.
ConnectCreate(c, f) == Running("tasks") /\ ConnectInsert(c, f)

-----------------------------------------------------------------------------
(* The loop.                                                               *)

LoopTop ==
    /\ Running("top")
    /\ cleaned' = now
    /\ at' = IF cleaned # now THEN "clean" ELSE "inet"
    /\ UNCHANGED <<conns, timer, online, fdOf, owing, now, mishap, crashed>>

\* Variant: the timer of a connection that was busy starts again now.
RepushNow(c) ==
    timer' = MinHeapPush(MinHeapPop(timer), c, now + Timeout)

Repush(c) ==
    timer' = MinHeapPush(MinHeapPop(timer), c, conns[c].last + Timeout)

\* Variant: it is pushed again and not taken out first.
EventCleanTwice ==
    /\ Running("clean")
    /\ LET c == MinHeapTop(timer) IN
       IF timer.pool = <<>> \/ timer.due[c] > cleaned
       THEN /\ at' = "inet"
            /\ UNCHANGED <<conns, timer, online, fdOf, crashed>>
       ELSE /\ at' = "clean"
            /\ IF conns[c].last > cleaned - Timeout
               THEN /\ timer' = MinHeapPush(timer, c, conns[c].last + Timeout)
                    /\ UNCHANGED <<conns, online, fdOf, crashed>>
               ELSE ConnectClose(c, conns[c], timer)
    /\ UNCHANGED <<owing, now, cleaned, mishap>>

\* event_clean, one round: the timer that ends first.  Its connection has been
\* used since and is pushed again, or is closed.
EventClean ==
    /\ Running("clean")
    /\ LET c == MinHeapTop(timer) IN
       IF timer.pool = <<>> \/ timer.due[c] > cleaned
       THEN /\ at' = "inet"
            /\ UNCHANGED <<conns, timer, online, fdOf, crashed>>
       ELSE /\ at' = "clean"
            /\ IF conns[c].last > cleaned - Timeout
               THEN Repush(c) /\ UNCHANGED <<conns, online, fdOf, crashed>>
               ELSE ConnectClose(c, conns[c], MinHeapErase(timer, c))
    /\ UNCHANGED <<owing, now, cleaned, mishap>>

\* connect_read and on_request: all there is was read, or the end came after
\* some data, which leaves nothing but EVENT_OVER, or something failed.
ConnectRead(ev) ==
    {[ok |-> TRUE, event |-> ev \ {"recv"}], [ok |-> TRUE, event |-> {"over"}],
     [ok |-> FALSE, event |-> {"over"}], [ok |-> FALSE, event |-> ev]}

\* connect_write and on_response: all was written, or the socket is full, or
\* something failed.
ConnectWrite(ev) ==
    {[ok |-> TRUE, event |-> ev], [ok |-> TRUE, event |-> ev \ {"send"}],
     [ok |-> FALSE, event |-> ev]}

\* inet_socket_proc: how it may end.
InetSocketProc(ev) ==
    IF "error" \in ev THEN {[ok |-> FALSE, event |-> ev]}
    ELSE LET read == IF "recv" \in ev THEN ConnectRead(ev) ELSE {[ok |-> TRUE, event |-> ev]}
         IN  UNION {IF r.ok /\ "send" \in r.event THEN ConnectWrite(r.event) ELSE {r} : r \in read}

Processed(c, record) ==
    \E r \in InetSocketProc(record.event) :
        IF r.ok
        THEN /\ conns' = [conns EXCEPT ![c] = [record EXCEPT !.event = r.event]]
             /\ UNCHANGED <<timer, online, fdOf, crashed>>
        ELSE ConnectClose(c, record, timer)

\* inet_event_proc for one connection.  The program may give a task to a
\* worker from on_request.
InetEvent(c, reported) ==
    /\ Running("inet") /\ c \in Open
    /\ Processed(c, [conns[c] EXCEPT !.last = now, !.event = @ \cup reported])
    /\ owing' \in IF "recv" \in reported THEN {owing, owing \cup {c}} ELSE {owing}
    /\ UNCHANGED <<at, now, cleaned, mishap>>

InetEventsDone ==
    /\ Running("inet")
    /\ at' = "tasks"
    /\ UNCHANGED <<conns, timer, online, fdOf, owing, now, cleaned, mishap, crashed>>

\* thread_event_proc for a task of a connection.  When it is closed by now, its
\* descriptor is nobody's or another one's: recv or write fails or does not.
TaskNextInet(c) ==
    /\ Running("tasks") /\ c \in owing
    /\ owing' = owing \ {c}
    /\ \/ Processed(c, conns[c])
       \/ c \notin Open /\ ConnectClose(c, conns[c], timer)
    /\ mishap' = (mishap \/ c \notin Open)
    /\ UNCHANGED <<at, now, cleaned>>

ThreadEventsDone ==
    /\ Running("tasks")
    /\ at' = "top"
    /\ UNCHANGED <<conns, timer, online, fdOf, owing, now, cleaned, mishap, crashed>>

Tick ==
    /\ ~crashed /\ now < MaxTime
    /\ now' = now + 1
    /\ UNCHANGED <<conns, timer, online, fdOf, owing, at, cleaned, mishap, crashed>>

\* event_center_deinit, when the loop has seen its state.
EventCenterDeinit ==
    /\ \/ Running("top") \/ Running("over")
    /\ at' = "over"
    /\ IF timer.pool = <<>> THEN UNCHANGED <<conns, timer, online, fdOf, crashed>>
       ELSE LET c == MinHeapTop(timer) IN ConnectClose(c, conns[c], timer)
    /\ UNCHANGED <<owing, now, cleaned, mishap>>

EventNext ==
    \/ LoopTop \/ EventClean \/ InetEventsDone \/ ThreadEventsDone \/ Tick
    \/ EventCenterDeinit
    \/ \E c \in Conn :
        \/ \E f \in Fd : ConnectAccept(c, f) \/ ConnectCreate(c, f)
        \/ \E reported \in (SUBSET {"recv", "send", "error"}) \ {{}} : InetEvent(c, reported)
        \/ TaskNextInet(c)

EventSpec == EventCenterInit /\ [][EventNext]_eventVars

-----------------------------------------------------------------------------
(* Properties.  All are lost once epoll has refused a connection, whose     *)
(* record then takes another one's timer with it, or a task has come back   *)
(* for a connection that is closed, which is then closed again.             *)

\* Every open connection has its timer in the heap, no closed one has, and the
\* heap is in order, however connections come, are used, idle and end.  Each has
\* its descriptor to itself, and the counter is their number.
TimersSound ==
    ~mishap =>
        /\ HeapSound(timer)
        /\ Range(timer.pool) = Open
        /\ \A c \in Conn : timer.due[c] # 0 /\ c \notin Open => timer.idx[c] = NotInHeap
        /\ online = Cardinality(Open)
        /\ \A c \in Open : fdOf[conns[c].fd] = c

\* When the loop has cleaned up no connection is left that was idle for the
\* timeout, not even one at the end of whose input the loop did not close it.
IdleClosed ==
    ~mishap /\ at # "clean" =>
        \A c \in Open : cleaned < Timeout + (IF conns[c].last > conns[c].watched
                                             THEN conns[c].last ELSE conns[c].watched)
=============================================================================
