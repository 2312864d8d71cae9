------------------------------ MODULE DataServer ------------------------------
(***************************************************************************)
(* One data server process: its client sessions (data_server/process.c,    *)
(* command.c), the block files they share (BlockStore) and, for each       *)
(* upload, the child connection that registers the file with the name      *)
(* server (name_server_api.c).  One thread runs an event loop that calls   *)
(* one handler at a time; every action below is one call of a handler.     *)
(*                                                                         *)
(* Clients follow the protocol of tdss_client: the body of a file is sent  *)
(* after the reply to file_add, and is as long as was declared.            *)
(***************************************************************************)
EXTENDS BlockStore, FiniteSets

CONSTANTS
    Client,         \* connections, each reused by a new session when it ends
    Name,           \* file names
    NoName,
    Buf,            \* sizeof(bf_buf)
    MaxReads,       \* bound: downloads
    FaultSets       \* which kinds of fault happen in one behaviour: sets of FaultKind

\* io: read, write and sendfile errors; close: clients hang up; stall: a
\* socket takes or gives less than a whole message; timeout: the event loop
\* drops an idle session; ns: the name server cannot be reached, or its answer
\* is lost; disk: a block file cannot be created, extended or opened.
FaultKind == {"io", "close", "stall", "timeout", "ns", "disk"}

ASSUME DataServerAssumption ==
    /\ Writer = Client \X Name
    /\ NoName \notin Name
    /\ Buf \in Nat \ {0}
    /\ MaxReads \in Nat
    /\ FaultSets \subseteq SUBSET FaultKind

VARIABLES
    faults,     \* the kinds of fault of this behaviour
    sess,       \* session_t of each connection
    task,       \* what the event loop waits for on it: it->state
    peer,       \* whether the client still has it open
    rest,       \* body bytes the client has still to send
    child,      \* the request to the name server made for the session
    index,      \* the name server: where each registered name is
    rfds,       \* open read descriptors
    acked,      \* history: uploads answered with success
    failed,     \* history: sessions whose handler returned -1
    hung        \* a handler loops for ever, and with it the process

sessVars == <<faults, sess, task, peer, rest, child, index, rfds, acked, failed, hung>>
vars == <<storeVars, sessVars>>

\* fblock_t: the file a session is working on.
NoFile == [name |-> NoName, block |-> NoBlock, off |-> 0, size |-> 0]

NewSession == [state |-> "BEGIN", next |-> "BEGIN", proc |-> "none", fb |-> NoFile,
               done |-> 0, buf |-> 0, bf |-> NoBlock, reply |-> "none"]

Unregistered == [who |-> NoName, block |-> NoBlock, off |-> 0, size |-> 0]

\* What the current upload of a session registers.
Location(c) == [who |-> <<c, sess[c].fb.name>>, block |-> sess[c].fb.block,
                off |-> sess[c].fb.off, size |-> sess[c].fb.size]

Reading(c, state) == ~hung /\ task[c] = "READ" /\ sess[c].state = state

\* A stalled task is also woken by the client closing.
Sending(c, state) ==
    /\ ~hung /\ sess[c].state = state
    /\ task[c] = "WRITE" \/ (task[c] = "READ" /\ peer[c] = "closed")

\* session_return: the handler leaves a reply to be written.
Return(s, reply) == [s EXCEPT !.state = "REPLY", !.reply = reply]

\* request_command starts every command from this.
Begun(c, proc) == [sess[c] EXCEPT !.next = "BEGIN", !.proc = proc]

\* The handler asks for a reply to be sent, and does nothing else.
Answers(c, s) ==
    /\ sess' = [sess EXCEPT ![c] = s]
    /\ task' = [task EXCEPT ![c] = "WRITE"]
    /\ UNCHANGED <<peer, rest, child, index, acked, failed, hung, faults>>

-----------------------------------------------------------------------------
(* Commands.                                                               *)

\* status, an unknown command, or one whose arguments do not parse.
OtherCommand(c) ==
    /\ Reading(c, "BEGIN") /\ peer[c] = "open"
    /\ Answers(c, Return(Begun(c, "other"), "error"))
    /\ UNCHANGED <<storeVars, rfds>>

\* What was read has no blank behind a word yet: it is dropped unanswered.
CommandCut(c) ==
    /\ "stall" \in faults
    /\ Reading(c, "BEGIN") /\ peer[c] = "open"
    /\ sess' = [sess EXCEPT ![c].next = "BEGIN"]
    /\ UNCHANGED <<storeVars, task, peer, rest, child, index, rfds, acked, failed, hung, faults>>

Declared(c, name, size) ==
    [Begun(c, "add") EXCEPT !.fb.name = name, !.fb.size = size]

Ready(c, name, size, b, off) ==
    Return([Declared(c, name, size) EXCEPT !.fb.block = b, !.fb.off = off,
                                           !.bf = b, !.next = "READ"], "ready")

\* file_add: the offset of a file that creates its block is whatever the
\* session still holds from an earlier request.
FileAdd(c, name, size) ==
    /\ Reading(c, "BEGIN") /\ peer[c] = "open"
    /\ \/ \E b \in Block :
             /\ AppendCreate(<<c, name>>, size, sess[c].fb.off, b)
             /\ Answers(c, Ready(c, name, size, b, sess[c].fb.off))
       \/ /\ AppendExtend(<<c, name>>, size)
          /\ Answers(c, Ready(c, name, size, cbf, bf[cbf].size))
       \/ /\ "disk" \in faults
          /\ AppendCreateFail(size) \/ AppendExtendFail(size)
          /\ Answers(c, Return(Declared(c, name, size), "error"))
    /\ UNCHANGED rfds

\* file_get, with the location the name server gives for the name.
FileGet(c, name) ==
    /\ Reading(c, "BEGIN") /\ peer[c] = "open"
    /\ index[name] # Unregistered
    /\ LET loc == index[name]
           asked == [Begun(c, "get") EXCEPT !.fb =
                       [name |-> name, block |-> loc.block, off |-> loc.off,
                        size |-> loc.size]]
       IN  \/ /\ rfds < MaxReads
              /\ Answers(c, Return([asked EXCEPT !.done = 0, !.next = "WRITE"], "opened"))
              /\ rfds' = rfds + 1
           \/ /\ "disk" \in faults
              /\ Answers(c, Return(asked, "error"))
              /\ UNCHANGED rfds
    /\ UNCHANGED storeVars

-----------------------------------------------------------------------------
(* __session_reply.                                                        *)

SendReply(c) ==
    /\ Sending(c, "REPLY")
    /\ sess' = [sess EXCEPT ![c].state = sess[c].next, ![c].reply = "none"]
    /\ task' = [task EXCEPT ![c] = IF sess[c].next = "WRITE" THEN "WRITE" ELSE "READ"]
    /\ rest' = [rest EXCEPT ![c] = IF sess[c].reply = "ready" THEN sess[c].fb.size ELSE @]
    /\ UNCHANGED <<storeVars, peer, child, index, rfds, acked, failed, hung, faults>>

\* The socket takes part of the reply.  NEXT_WRITE is 1, which the caller
\* reads as SESSION_READ: the rest waits until the client sends something.
PartialReply(c) ==
    /\ "stall" \in faults
    /\ Sending(c, "REPLY")
    /\ task' = [task EXCEPT ![c] = "READ"]
    /\ UNCHANGED <<storeVars, sess, peer, rest, child, index, rfds, acked, failed, hung, faults>>

\* write fails for good: the loop that sends the reply never ends.
ReplyToClosed(c) ==
    /\ Sending(c, "REPLY") /\ peer[c] = "closed"
    /\ hung' = TRUE
    /\ UNCHANGED <<storeVars, sess, task, peer, rest, child, index, rfds, acked, failed, faults>>

-----------------------------------------------------------------------------
(* Receiving a body: __file_add_loop_recv with session_write_file.         *)

\* The buffer is written out when it is full or holds the end of the file.
Flushed(c, n) ==
    LET total == sess[c].buf + n
    IN  IF sess[c].done + total = sess[c].fb.size THEN total
        ELSE Buf * (total \div Buf)

\* n more bytes arrive and are buffered or written.
TakeBytes(c, n) ==
    /\ rest' = [rest EXCEPT ![c] = @ - n]
    /\ WriteBytes(Location(c), sess[c].done, Flushed(c, n))

\* Variant: what does not fill the buffer is forgotten.
TakenDropped(c, n) == [sess[c] EXCEPT !.done = @ + Flushed(c, n), !.buf = 0]

Taken(c, n) == [sess[c] EXCEPT !.done = @ + Flushed(c, n), !.buf = @ + n - Flushed(c, n)]

Whole(c, n) == sess[c].done + Flushed(c, n) = sess[c].fb.size

RecvSome(c, n) ==
    /\ Reading(c, "READ") /\ sess[c].proc = "add" /\ peer[c] = "open"
    /\ TakeBytes(c, n) /\ ~Whole(c, n)
    /\ sess' = [sess EXCEPT ![c] = Taken(c, n)]
    /\ UNCHANGED <<files, bf, live, cbf, grants, task, peer, child, index, rfds, acked,
                   failed, hung, faults>>

\* Variant: the end of the file stays in the buffer.
RecvLastUnflushed(c, n) ==
    /\ Reading(c, "READ") /\ sess[c].proc = "add" /\ peer[c] = "open"
    /\ Whole(c, n)
    /\ rest' = [rest EXCEPT ![c] = @ - n]
    /\ CloseHandle(sess[c].bf)
    /\ sess' = [sess EXCEPT ![c].done = 0, ![c].buf = 0, ![c].next = "BEGIN"]
    /\ task' = [task EXCEPT ![c] = "NOOP"]
    /\ child' = [child EXCEPT ![c] = "write"]
    /\ UNCHANGED <<files, data, cbf, grants, peer, index, rfds, acked, failed, hung, faults>>

\* The file is complete: its use of the block ends and the name server is
\* asked to register it.  While it is, nothing is awaited from the client.
RecvLast(c, n) ==
    /\ Reading(c, "READ") /\ sess[c].proc = "add" /\ peer[c] = "open"
    /\ TakeBytes(c, n) /\ Whole(c, n)
    /\ CloseHandle(sess[c].bf)
    /\ LET over == [sess[c] EXCEPT !.done = 0, !.buf = 0, !.next = "BEGIN"]
       IN  \/ /\ sess' = [sess EXCEPT ![c] = over]
              /\ task' = [task EXCEPT ![c] = "NOOP"]
              /\ child' = [child EXCEPT ![c] = "write"]
           \/ /\ "ns" \in faults
              /\ sess' = [sess EXCEPT ![c] = Return(over, "error")]
              /\ task' = [task EXCEPT ![c] = "WRITE"]
              /\ UNCHANGED child
    /\ UNCHANGED <<files, cbf, grants, peer, index, rfds, acked, failed, hung, faults>>

\* read() gives 0 for ever after the client has closed: no way out of the loop.
RecvEof(c, n) ==
    /\ Reading(c, "READ") /\ sess[c].proc = "add" /\ peer[c] = "closed"
    /\ TakeBytes(c, n)
    /\ sess' = [sess EXCEPT ![c] = Taken(c, n)]
    /\ hung' = TRUE
    /\ UNCHANGED <<files, bf, live, cbf, grants, task, peer, child, index, rfds, acked, failed, faults>>

\* The connection is reset after n more bytes.  -1 is returned, for which
\* request_process has no case: the task waits for more.
RecvReset(c, n) ==
    /\ "io" \in faults
    /\ Reading(c, "READ") /\ sess[c].proc = "add" /\ peer[c] = "open"
    /\ bf[sess[c].bf].num > -OverClose
    /\ TakeBytes(c, n)
    /\ CloseHandle(sess[c].bf)
    /\ sess' = [sess EXCEPT ![c] = Taken(c, n)]
    /\ peer' = [peer EXCEPT ![c] = "closed"]
    /\ failed' = failed \cup {c}
    /\ UNCHANGED <<files, cbf, grants, task, child, index, rfds, acked, hung, faults>>

\* A flush fails after k full buffers: what the chunk held beyond is lost.
RecvWriteError(c, n, k) ==
    /\ "io" \in faults
    /\ Reading(c, "READ") /\ sess[c].proc = "add" /\ peer[c] = "open"
    /\ bf[sess[c].bf].num > -OverClose
    /\ k * Buf < Flushed(c, n)
    /\ WriteBytes(Location(c), sess[c].done, k * Buf)
    /\ CloseHandle(sess[c].bf)
    /\ LET left == sess[c].buf + n - k * Buf
       IN  sess' = [sess EXCEPT ![c].done = @ + k * Buf,
                                ![c].buf = IF left < Buf THEN left ELSE Buf]
    /\ rest' = [rest EXCEPT ![c] = @ - n]
    /\ failed' = failed \cup {c}
    /\ UNCHANGED <<files, cbf, grants, task, peer, child, index, rfds, acked, hung, faults>>

-----------------------------------------------------------------------------
(* Registering with the name server.                                       *)

\* The name server has taken the request: it keeps the first location it is
\* given for a name and answers 1000 either way (external).
NameServerTakes(c) ==
    /\ ~hung /\ child[c] = "write"
    /\ child' = [child EXCEPT ![c] = "ok"]
    /\ index' = [index EXCEPT ![sess[c].fb.name] = IF @ = Unregistered THEN Location(c) ELSE @]
    /\ UNCHANGED <<storeVars, sess, task, peer, rest, rfds, acked, failed, hung, faults>>

\* Variant: the event loop is not told to write the reply.
FinishAsleep(c, reply) ==
    /\ sess' = [sess EXCEPT ![c] = Return([@ EXCEPT !.fb = NoFile], reply)]
    /\ child' = [child EXCEPT ![c] = "none"]
    /\ UNCHANGED <<storeVars, task, peer, rest, index, rfds, failed, hung, faults>>

\* __ns_process_finish: the parent is woken with a reply and its file forgotten.
Finish(c, reply) ==
    /\ sess' = [sess EXCEPT ![c] = Return([@ EXCEPT !.fb = NoFile], reply)]
    /\ task' = [task EXCEPT ![c] = "WRITE"]
    /\ child' = [child EXCEPT ![c] = "none"]
    /\ UNCHANGED <<storeVars, peer, rest, index, rfds, failed, hung, faults>>

\* Variant: the answer of the name server is not waited for.
RegisteredUnheard(c) ==
    /\ ~hung /\ child[c] # "none"
    /\ acked' = acked \cup {Location(c)}
    /\ Finish(c, "saved")

Registered(c) ==
    /\ ~hung /\ child[c] = "ok"
    /\ acked' = acked \cup {Location(c)}
    /\ Finish(c, "saved")

\* The request cannot be sent, or the answer is an error, cut short or lost.
NotRegistered(c) ==
    /\ "ns" \in faults
    /\ ~hung /\ child[c] # "none"
    /\ UNCHANGED acked
    /\ Finish(c, "error")

-----------------------------------------------------------------------------
(* Sending a file: __file_get_loop_send.                                   *)

\* sendfile from a position behind the end of the file sends nothing, for
\* ever; otherwise it sends what the file has from there.
Available(c) ==
    LET fb == sess[c].fb
        end == Len(data[fb.block])
    IN  IF end <= fb.off THEN 0 ELSE end - fb.off

SendFile(c) ==
    /\ Sending(c, "WRITE")
    /\ Available(c) >= sess[c].fb.size - sess[c].done
    /\ sess' = [sess EXCEPT ![c].state = "BEGIN", ![c].done = 0, ![c].fb = NoFile]
    /\ task' = [task EXCEPT ![c] = "READ"]
    /\ UNCHANGED <<storeVars, peer, rest, child, index, rfds, acked, failed, hung, faults>>

SendPastEnd(c) ==
    /\ Sending(c, "WRITE")
    /\ Available(c) < sess[c].fb.size - sess[c].done
    /\ hung' = TRUE
    /\ UNCHANGED <<storeVars, sess, task, peer, rest, child, index, rfds, acked, failed, faults>>

\* The socket fills up after k bytes, and NEXT_WRITE makes the task wait for
\* the client to send.
SendPart(c, k) ==
    /\ "stall" \in faults
    /\ Sending(c, "WRITE")
    /\ k <= Available(c)
    /\ sess' = [sess EXCEPT ![c].done = @ + k]
    /\ task' = [task EXCEPT ![c] = "READ"]
    /\ UNCHANGED <<storeVars, peer, rest, child, index, rfds, acked, failed, hung, faults>>

\* sendfile fails.  next is still SESSION_WRITE, so the reply is followed by
\* another attempt.
SendError(c) ==
    /\ Sending(c, "WRITE")
    /\ "io" \in faults \/ peer[c] = "closed"
    /\ Answers(c, Return(sess[c], "error"))
    /\ UNCHANGED <<storeVars, rfds>>

-----------------------------------------------------------------------------
(* The end of a session.                                                   *)

ClientClose(c) ==
    /\ "close" \in faults
    /\ peer[c] = "open" /\ task[c] # "END"
    /\ peer' = [peer EXCEPT ![c] = "closed"]
    /\ UNCHANGED <<storeVars, sess, task, rest, child, index, rfds, acked, failed, hung, faults>>

\* The next read fails, or finds that the client has closed.
CloseSeen(c) ==
    /\ Reading(c, "BEGIN")
    /\ peer[c] = "closed" \/ "io" \in faults
    /\ sess' = [sess EXCEPT ![c].next = "BEGIN"]
    /\ task' = [task EXCEPT ![c] = "END"]
    /\ UNCHANGED <<storeVars, peer, rest, child, index, rfds, acked, failed, hung, faults>>

\* request_deinit frees the session; block_file_close is not called.
EndSession(c) ==
    /\ ~hung
    /\ task[c] = "END" \/ ("timeout" \in faults /\ task[c] \in {"READ", "WRITE"})
    /\ sess' = [sess EXCEPT ![c] = NewSession]
    /\ task' = [task EXCEPT ![c] = "READ"]
    /\ peer' = [peer EXCEPT ![c] = "open"]
    /\ rest' = [rest EXCEPT ![c] = 0]
    /\ failed' = failed \ {c}
    /\ UNCHANGED <<storeVars, child, index, rfds, acked, hung, faults>>

-----------------------------------------------------------------------------
Init ==
    /\ StoreInit
    /\ faults \in FaultSets
    /\ sess = [c \in Client |-> NewSession]
    /\ task = [c \in Client |-> "READ"]
    /\ peer = [c \in Client |-> "open"]
    /\ rest = [c \in Client |-> 0]
    /\ child = [c \in Client |-> "none"]
    /\ index = [n \in Name |-> Unregistered]
    /\ rfds = 0
    /\ acked = {}
    /\ failed = {}
    /\ hung = FALSE

Command(c) ==
    \/ OtherCommand(c) \/ CommandCut(c)
    \/ \E name \in Name, size \in Size : FileAdd(c, name, size)
    \/ \E name \in Name : FileGet(c, name)

RecvBody(c) == \E n \in 1..rest[c] : RecvSome(c, n) \/ RecvLast(c, n)

RecvTrouble(c) ==
    \E n \in 0..rest[c] :
        \/ RecvEof(c, n)
        \/ RecvReset(c, n)
        \/ \E k \in 0..n : n > 0 /\ RecvWriteError(c, n, k)

SendBody(c) ==
    \/ SendFile(c)
    \/ SendPastEnd(c)
    \/ \E k \in 0..(sess[c].fb.size - sess[c].done - 1) : SendPart(c, k)
    \/ SendError(c)

Serve(c) ==
    \/ SendReply(c) \/ PartialReply(c) \/ ReplyToClosed(c)
    \/ RecvBody(c) \/ RecvTrouble(c)
    \/ SendBody(c)
    \/ CloseSeen(c) \/ EndSession(c)

Child(c) == NameServerTakes(c) \/ Registered(c) \/ NotRegistered(c)

Next == \E c \in Client : Command(c) \/ Serve(c) \/ Child(c) \/ ClientClose(c)

Spec == Init /\ [][Next]_vars

\* The event loop gets round to every session with something to do, clients
\* send what they declared and the name server answers or hangs up.
Fairness == \A c \in Client : WF_vars(Serve(c)) /\ WF_vars(Child(c))

FairSpec == Spec /\ Fairness

-----------------------------------------------------------------------------
(* Properties.                                                             *)

\* Whatever fails on the way, a name is registered only for an upload that
\* block_file_append gave that very place and, when it was placed behind the
\* recorded size, of which every byte has been written by then and stays
\* (only the creator of the block may have written over it).
RegisteredIntact ==
    \A n \in Name : index[n] # Unregistered =>
        \E g \in grants :
            /\ g.who = index[n].who /\ g.block = index[n].block
            /\ g.off = index[n].off /\ g.size = index[n].size
            /\ g.how = "extend" =>
                  \A i \in (g.off + 1)..(g.off + g.size) :
                      data[g.block][i] \in {g.who} \cup Creators(g.block)

\* A client is told that its file is saved only once the name server has the
\* name: no reply, timeout or retry of another session gets in between.
AckedIsRegistered == \A a \in acked : index[a.who[2]] # Unregistered

\* A session is parked exactly while a request to the name server is made for
\* it, and the file the answer will be about is still the one uploaded.
ParkedIffAsking ==
    \A c \in Client :
        /\ task[c] = "NOOP" <=> child[c] # "none"
        /\ child[c] # "none" => sess[c].fb.name \in Name /\ sess[c].done = 0
        /\ child[c] = "ok" => index[sess[c].fb.name] # Unregistered

Uploading(c) == sess[c].proc = "add" /\ sess[c].next = "READ"

\* A flush never goes outside the extent, and what is neither written nor
\* buffered is still with the client.
BytesAccounted ==
    \A c \in Client : Uploading(c) /\ sess[c].state = "READ" /\ c \notin failed =>
        sess[c].done + sess[c].buf + rest[c] = sess[c].fb.size

\* Unless a body is cut short, num counts the uploads that use the block
\* (data_server.h:49): retirements, failed appends and stalls keep it exact.
NumIsRefCount ==
    faults \cap {"io", "close", "timeout"} = {} =>
        \A b \in live :
            bf[b].num = Cardinality({c \in Client : Uploading(c) /\ sess[c].bf = b})

\* NEWS v0.1.0: files are saved complete.  What is registered can be read
\* back from its place, byte for byte.
SavedFileComplete ==
    \A n \in Name : index[n] # Unregistered =>
        LET loc == index[n] IN
        \A i \in (loc.off + 1)..(loc.off + loc.size) :
            i \in DOMAIN data[loc.block] /\ data[loc.block][i] = loc.who

\* Every upload that was accepted is answered in the end.
UploadAnswered == \A c \in Client : Uploading(c) ~> sess[c].state = "BEGIN"
=============================================================================
