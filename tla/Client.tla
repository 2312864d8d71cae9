-------------------------------- MODULE Client --------------------------------
(***************************************************************************)
(* tdss_client.c: a program that is run for one upload or one download,    *)
(* several at a time, and what they meet at the three kinds of server.     *)
(* Of the name servers and the master server only the answers are here; of *)
(* the data servers also what their block files hold byte for byte, as a   *)
(* download is sent what the block holds at the place of the file.  A      *)
(* request that is answered at once is one step.                           *)
(*                                                                         *)
(* The name of a file in the store is the md5 of its bytes: Body gives the *)
(* bytes for each name.  No file is changed while it is being uploaded,    *)
(* and each run has a directory of its own.                                *)
(***************************************************************************)
EXTENDS Locate, SequencesExt

CONSTANTS
    Proc,           \* runs of the program at a time; one that ends is run anew
    Name, Body,
    Nul, Line,      \* the byte 0; the line that answers file_get
    Buf,            \* bytes the client reads or writes at a time
    DsBuf,          \* sizeof(bf_buf) of the data servers
    MaxBlockSize,   \* ds_conf.max_block_size
    MaxBlocks,      \* bound: block files a data server creates
    Running,        \* the addresses of the data servers that run
    DataFile,       \* data_server.ini of the data servers
    ClientFiles,    \* the ones the clients may have; complete says so of all three files
    NameFile        \* name_server.ini of everybody

ASSUME ClientAssumption ==
    /\ Buf \in Nat \ {0, 1} /\ DsBuf \in Nat \ {0} /\ MaxBlockSize \in Nat
    /\ Nowhere \notin Running /\ DataFile.complete
    /\ DataFile.addrs \in Seq(Range(DataFile.addrs)) \ {<<>>}
    /\ \A file \in ClientFiles : file.addrs \in Seq(Range(file.addrs))
    /\ Len(NameFile.addrs) > 0
    /\ \A n \in Name : Body[n] \in Seq(Range(Body[n])) \ {<<>>} /\ Crc[n] \in Nat
    /\ \A m, n \in Name : Body[m] = Body[n] => m = n

VARIABLES
    clientFile, \* the configuration of the clients
    offline,    \* name servers that do not run, as the master server knows
    index,      \* what the name servers hold: where each registered file is
    blocks,     \* the block files of each data server, in the order they were created
    mode,       \* of each data server: whether it appends to the last of them (cbf), or
                \* hangs, as a handler loops for ever
    tc,         \* tdss_client_t and the local variables of each run
    net         \* its connection to a data server, and the session at the other end

others == <<clientFile, offline, index, blocks, mode>>
clientVars == <<others, tc, net>>

\* fblock_t.  server is the number its data server gives itself; holder is that
\* server, first whether the block was created for this file, and bytes what was
\* received for it (history).
NoFile == [server |-> 0, block |-> 0, off |-> 0, size |-> 0,
           holder |-> Nowhere, first |-> FALSE, bytes |-> <<>>]

NoConn == [up |-> <<>>, taken |-> <<>>, done |-> 0, fb |-> NoFile, down |-> <<>>,
           ready |-> FALSE, closed |-> FALSE]

Idle == [opt |-> "none", at |-> "idle", iret |-> "none", name |-> CHOOSE n \in Name : TRUE,
         named |-> FALSE, addr |-> Nowhere, fb |-> NoFile, sent |-> 0, file |-> <<>>]

ServerConf(d) == DataServerConfigLoad(DataFile, d, Unloaded)
ClientConf == DataServerConfigLoad(clientFile, Nowhere, Unloaded)
NameConf == NameServerConfigLoad(NameFile, Nowhere, Unloaded)

\* Loaded at the start: a file that is refused ends the program.
Configured == clientFile.complete /\ ClientConf.loaded /\ NameConf.loaded

\* Where each name belongs.  That name server answers and registers also when its
\* own file names it as a slave.
MasterOf == [n \in Name |-> At(NameConf.server, NameServerOf(n, Len(NameConf.server))).master]

Served(n) == MasterOf[n] \notin offline

\* server_find of the master server looks at the state of this one.
Checked == At(NameConf.server, NameServerId(Len(NameConf.server))).master

-----------------------------------------------------------------------------
ClientInit ==
    /\ clientFile \in ClientFiles
    /\ offline \in SUBSET {pair.master : pair \in Range(NameFile.addrs)}
    /\ index = [n \in Name |-> NoFile]
    /\ blocks = [d \in Running |-> <<>>]
    /\ mode = [d \in Running |-> "fresh"]
    /\ tc = [p \in Proc |-> Idle]
    /\ net = [p \in Proc |-> NoConn]

Goes(p, t) == tc' = [tc EXCEPT ![p] = t]
GoesTo(p, at) == Goes(p, [tc[p] EXCEPT !.at = at])

Hangs(d) == mode' = [mode EXCEPT ![d] = "hung"]

\* The program ends, with the same status whatever the function returned.  What a
\* download that was OK has written is kept to be looked at.  A data server that is
\* in the middle of a body or of an answer may then read 0 bytes, or fail to write,
\* for ever; what it still takes before belongs to no file that is registered.
Ends(p, t, iret) ==
    /\ Goes(p, IF iret = "OK" /\ t.opt = "get"
               THEN [Idle EXCEPT !.iret = "OK", !.name = t.name, !.file = t.file] ELSE Idle)
    /\ net' = [net EXCEPT ![p] = NoConn]
    /\ \/ UNCHANGED mode
       \/ net[p].ready /\ Hangs(tc[p].addr)
    /\ UNCHANGED <<clientFile, offline, index, blocks>>

Fails(p) == Ends(p, tc[p], "ERR")

\* main, with the name of the file to upload or to download.  A file is uploaded
\* under its md5, whatever its own name is, which may also be its md5.
Main(p, opt, n, named) ==
    /\ tc[p].at = "idle" /\ (opt = "get" => named)
    /\ LET t == [Idle EXCEPT !.opt = opt, !.name = n, !.named = named]
       IN  IF Configured
           THEN Goes(p, [t EXCEPT !.at = "index"]) /\ UNCHANGED <<others, net>>
           ELSE Ends(p, t, "ERR")

-----------------------------------------------------------------------------
(* The name server and the master server.                                  *)

\* file_info_get, whose reply may come in pieces.
FileInfo == <<"server", "file", "name", "offset", "size", "ref">>

Replies(p) ==
    IF tc[p].named /\ Served(tc[p].name) /\ index[tc[p].name] # NoFile
    THEN Received(FileInfo) ELSE {<<>>}

\* get_storage_from_index asks by the name of the local file.
Found(p, reply) ==
    /\ RequestParse(reply, {"name", "file", "offset", "size", "server"})
    /\ DsAddrById(ClientConf, index[tc[p].name].server) # "error"

\* An upload goes on whenever the name server gives no location, for whatever
\* reason it does not.
AddLookup(p) ==
    /\ tc[p].at = "index" /\ tc[p].opt = "add"
    /\ \/ Fails(p)      \* file_md5, or the file exists
       \/ /\ \E reply \in Replies(p) : ~Found(p, reply)
          /\ Goes(p, [tc[p] EXCEPT !.at = "find", !.named = FALSE])
          /\ UNCHANGED <<others, net>>

GetLookup(p) ==
    /\ tc[p].at = "index" /\ tc[p].opt = "get"
    /\ \/ Fails(p)      \* the socket, or no location
       \/ /\ \E reply \in Replies(p) : Found(p, reply)
          /\ LET fb == index[tc[p].name] IN
                Goes(p, [tc[p] EXCEPT !.at = "get", !.fb = fb,
                                      !.addr = DsAddrById(ClientConf, fb.server)])
          /\ UNCHANGED <<others, net>>

\* server_find: the master server gives one of the data servers that fit.
ServerFind(d) == d \in Running /\ Checked \notin offline

\* get_storage_from_master, which is called twice: the second answer counts.
StorageFromMaster(p) ==
    /\ tc[p].at \in {"find", "find again"}
    /\ \/ Fails(p)
       \/ \E d \in Running :
             /\ ServerFind(d)
             /\ IF tc[p].at = "find" THEN GoesTo(p, "find again")
                ELSE Goes(p, [tc[p] EXCEPT !.at = "file_add", !.addr = d])
             /\ UNCHANGED <<others, net>>

-----------------------------------------------------------------------------
(* Uploads: the rest of add_file_to_storage.                               *)

\* ftruncate, and lseek with write: what nobody wrote reads as 0, and a write of
\* nothing changes nothing.
Truncated(bytes, n) == [i \in 1..n |-> IF i \in DOMAIN bytes THEN bytes[i] ELSE Nul]

Written(bytes, off, part) ==
    [i \in 1..(IF part = <<>> THEN Len(bytes) ELSE Max({Len(bytes), off + Len(part)})) |->
        IF i \in (off + 1)..(off + Len(part)) THEN part[i - off]
        ELSE IF i \in DOMAIN bytes THEN bytes[i] ELSE Nul]

\* A block is created with the size of the file it is created for, which its
\* recorded size does not count.
Created(n) == [first |-> n, size |-> 0, bytes |-> Truncated(<<>>, n)]

\* Variant: the recorded size is not moved on.
ExtendedStale(b, n) == [b EXCEPT !.bytes = Truncated(b.bytes, b.size + n)]

Extended(b, n) == [b EXCEPT !.size = b.size + n, !.bytes = Truncated(b.bytes, b.size + n)]

\* block_file_append: a new block, or a place behind the recorded size of the last.
MustCreate(d, n) == mode[d] = "appends" => Last(blocks[d]).size + n >= MaxBlockSize

Located(d, n) ==
    LET k == Len(blocks[d])
        fb == [NoFile EXCEPT !.server = ServerConf(d).id, !.holder = d, !.size = n]
    IN  IF MustCreate(d, n) THEN [fb EXCEPT !.block = k + 1, !.first = TRUE]
        ELSE [fb EXCEPT !.block = k, !.off = blocks[d][k].size]

BlockFileAppend(d, n) ==
    LET k == Len(blocks[d])
    IN  IF MustCreate(d, n)
        THEN /\ k < MaxBlocks
             /\ blocks' = [blocks EXCEPT ![d] = Append(@, Created(n))]
             /\ mode' = [mode EXCEPT ![d] = "appends"]
        ELSE /\ blocks' = [blocks EXCEPT ![d][k] = Extended(@, n)]
             /\ UNCHANGED mode

\* What is read of the reply is not looked at: that the data server has refused
\* the file, or has closed the connection, changes nothing here.
SendFileAdd(p) ==
    /\ tc[p].at = "file_add"
    /\ \/ Fails(p)
       \/ /\ mode[tc[p].addr] # "hung"
          /\ BlockFileAppend(tc[p].addr, Len(Body[tc[p].name]))
          /\ net' = [net EXCEPT ![p] = [NoConn EXCEPT !.ready = TRUE, !.fb =
                                        Located(tc[p].addr, Len(Body[tc[p].name]))]]
          /\ GoesTo(p, "body") /\ UNCHANGED <<clientFile, offline, index>>
       \/ /\ mode[tc[p].addr] # "hung"
          /\ \E closed \in BOOLEAN : net' = [net EXCEPT ![p] = [NoConn EXCEPT !.closed = closed]]
          /\ GoesTo(p, "body") /\ UNCHANGED others

\* The bytes one fread gives.
Chunk(p) == SubSeq(Body[tc[p].name], tc[p].sent + 1,
                   tc[p].sent + Min({Buf, Len(Body[tc[p].name]) - tc[p].sent}))

\* Variant: a chunk that was only taken in part is sent again.
AfterSendAgain(p, k) == tc[p].sent + (IF k < Len(Chunk(p)) THEN 0 ELSE Len(Chunk(p)))

\* The whole chunk counts as sent when the socket has taken a part of it.
AfterSend(p, k) == tc[p].sent + Len(Chunk(p))

SendBody(p) ==
    /\ tc[p].at = "body"
    /\ \/ Fails(p)      \* fopen, or the socket
       \/ \E k \in 1..Len(Chunk(p)) :
             /\ net' = [net EXCEPT ![p].up = IF net[p].ready THEN @ \o SubSeq(Chunk(p), 1, k)
                                               ELSE @]
             /\ Goes(p, [tc[p] EXCEPT !.sent = AfterSend(p, k), !.at =
                          IF AfterSend(p, k) = Len(Body[tc[p].name]) THEN "last" ELSE "body"])
             /\ UNCHANGED others

\* A connection that was closed gives 0 bytes, which is no error.
ReadLast(p) ==
    /\ tc[p].at = "last" /\ (net[p].closed \/ net[p].down # <<>>)
    /\ Ends(p, tc[p], "OK")

-----------------------------------------------------------------------------
(* Downloads: the rest of get_file_from_storage.                           *)

\* The answer to file_get is one line, also where the block cannot be opened: its
\* name is looked for in the data_path, which the name already begins with.  Two
\* servers may have given the same name, which is made of the time and a counter.
SendFileGet(p) ==
    /\ tc[p].at = "get"
    /\ \/ Fails(p)
       \/ /\ tc[p].addr \in Running /\ mode[tc[p].addr] # "hung"
          /\ \E opened \in BOOLEAN :
                /\ opened => tc[p].fb.block \in DOMAIN blocks[tc[p].addr]
                /\ net' = [net EXCEPT ![p] = [NoConn EXCEPT !.ready = opened, !.down = <<Line>>]]
          /\ GoesTo(p, "first") /\ UNCHANGED others

\* strlen stops at the first byte that is 0.
BeforeNul(bytes) ==
    LET nuls == {i \in DOMAIN bytes : bytes[i] = Nul}
    IN  IF nuls = {} THEN bytes ELSE SubSeq(bytes, 1, Min(nuls) - 1)

\* What counts of the first k bytes: rsize, without the line.
FirstSize(k) == k - 1

\* What a download that needs another read writes is left out: none ends well.
ReadFirst(p) ==
    /\ tc[p].at = "first"
    /\ \/ Fails(p)      \* half a line, or none, or fopen or fwrite
       \/ \E k \in 1..Min({Buf, Len(net[p].down)}) :
             IF FirstSize(k) = tc[p].fb.size
             THEN Ends(p, [tc[p] EXCEPT !.file = BeforeNul(SubSeq(net[p].down, 2, k))], "OK")
             ELSE /\ net' = [net EXCEPT ![p].down = SubSeq(@, k + 1, Len(@))]
                  /\ GoesTo(p, "more") /\ UNCHANGED others

\* The loop does not count what comes: it never ends well.
ReadMore(p) ==
    /\ tc[p].at = "more"
    /\ \E k \in 1..Min({Buf, Len(net[p].down)}) :
          net' = [net EXCEPT ![p].down = SubSeq(@, k + 1, Len(@))]
    /\ UNCHANGED <<others, tc>>

\* With the connection closed recv gives 0 bytes at once, for ever.
Spins(p) == tc[p].at = "more" /\ net[p].closed /\ net[p].down = <<>>

\* Variant: set for the replies only.
TimesOutOnReply(p) ==
    /\ tc[p].at = "last" /\ ~net[p].closed
    /\ Fails(p)

\* SO_RCVTIMEO, which socket_read_wait sets.
TimesOut(p) ==
    /\ tc[p].at \in {"last", "more"} /\ ~net[p].closed
    /\ Fails(p)

ClientStep(p) ==
    \/ AddLookup(p) \/ GetLookup(p) \/ StorageFromMaster(p)
    \/ SendFileAdd(p) \/ SendBody(p) \/ ReadLast(p)
    \/ SendFileGet(p) \/ ReadFirst(p) \/ ReadMore(p) \/ TimesOut(p)

-----------------------------------------------------------------------------
(* The data server at the other end.                                       *)

\* ns_file_info_add at the name server of the name: the first location stays.
Register(n, fb) ==
    IF index[n] = NoFile /\ Served(n) THEN [index EXCEPT ![n] = fb] ELSE index

\* session_write_file: what has been written to the block when so much has come.
Flushed(taken, size) ==
    IF Len(taken) = size THEN size ELSE DsBuf * (Len(taken) \div DsBuf)

\* __file_add_loop_recv: the file is complete when as many bytes have come as
\* were declared; k more have.  What comes then is a command.
ServerTakes(p, k) ==
    LET fb == net[p].fb
        taken == net[p].taken \o SubSeq(net[p].up, 1, k)
        done == Flushed(taken, fb.size)
        whole == Len(taken) = fb.size
    IN  /\ tc[p].opt = "add" /\ net[p].ready /\ mode[fb.holder] # "hung"
        /\ blocks' = [blocks EXCEPT ![fb.holder][fb.block].bytes =
                        Written(@, fb.off + net[p].done, SubSeq(taken, net[p].done + 1, done))]
        /\ net' = IF whole THEN [net EXCEPT ![p] = [NoConn EXCEPT !.down = <<Line>>]]
                    ELSE [net EXCEPT ![p].up = SubSeq(@, k + 1, Len(@)),
                                     ![p].taken = taken, ![p].done = done]
        /\ index' = IF whole THEN Register(tc[p].name, [fb EXCEPT !.bytes = taken]) ELSE index
        /\ UNCHANGED <<clientFile, offline, mode, tc>>

\* What the block has where the file should be.
Stored(block, fb) ==
    SubSeq(block.bytes, fb.off + 1, Min({fb.off + fb.size, Len(block.bytes)}))

\* __file_get_loop_send: when the socket takes only a part, the rest waits for
\* the client to send; when the block ends too early, sendfile gives 0 for ever.
ServerSends(p) ==
    LET fb == tc[p].fb
        stored == Stored(blocks[tc[p].addr][fb.block], fb)
    IN  /\ tc[p].opt = "get" /\ net[p].ready /\ net[p].done = 0 /\ mode[tc[p].addr] # "hung"
        /\ \E k \in 0..Len(stored) :
              /\ net' = [net EXCEPT ![p].down = @ \o SubSeq(stored, 1, k),
                                    ![p].done = k, ![p].ready = k < fb.size]
              /\ \/ UNCHANGED mode
                 \/ k = Len(stored) /\ k < fb.size /\ Hangs(tc[p].addr)
        /\ UNCHANGED <<clientFile, offline, index, blocks, tc>>

\* The session is freed; what it had sent still comes.
Closed(conn) == [NoConn EXCEPT !.closed = TRUE, !.down = conn.down]

\* The run has a connection to a data server.
Connected(p) == tc[p].at \in {"body", "last", "first", "more"}

\* The data server closes a session that was idle for its timeout.
ServerCloses(p) ==
    /\ Connected(p) /\ ~net[p].closed /\ mode[tc[p].addr] # "hung"
    /\ net' = [net EXCEPT ![p] = Closed(@)]
    /\ UNCHANGED <<others, tc>>

\* The data server ends and is run anew.
ServerRestarts(d) ==
    /\ mode' = [mode EXCEPT ![d] = "fresh"]
    /\ net' = [p \in Proc |-> IF Connected(p) /\ tc[p].addr = d THEN Closed(net[p]) ELSE net[p]]
    /\ UNCHANGED <<clientFile, offline, index, blocks, tc>>

ClientNext ==
    \/ \E p \in Proc :
          \/ \E opt \in {"add", "get"}, n \in Name, named \in BOOLEAN : Main(p, opt, n, named)
          \/ ClientStep(p)
          \/ \E k \in 1..Len(net[p].up) : ServerTakes(p, k)
          \/ ServerSends(p) \/ ServerCloses(p)
    \/ \E d \in Running : ServerRestarts(d)

ClientSpec == ClientInit /\ [][ClientNext]_clientVars

\* The program runs, and the kernel ends a recv in time.  Of the servers nothing
\* is asked.
FairClientSpec == ClientSpec /\ \A p \in Proc : WF_clientVars(ClientStep(p))

-----------------------------------------------------------------------------
(* Properties.                                                             *)

\* What was received for a registered file are the bytes whose md5 its name is, also
\* when a socket took only a part of what was written to it (the size that was
\* declared is then never reached).
NamedByContent == \A n \in Name : index[n] # NoFile => index[n].bytes = Body[n]

\* The file shares no byte of its block with another: the first file that is
\* appended to a block starts where the one starts that it was created for.
Apart(fb) ==
    LET block == blocks[fb.holder][fb.block] IN block.size = 0 \/ fb.off >= block.first

\* Each number stands for the same data server at the clients as at the servers.
SameNumbers ==
    /\ \A d \in Running : \E i \in Positions(DataFile.addrs) : At(DataFile.addrs, i) = d
    /\ \A i \in Positions(clientFile.addrs) :
          i \in Positions(DataFile.addrs) /\ At(clientFile.addrs, i) = At(DataFile.addrs, i)

\* What a download that ends well leaves is the file, or its beginning when one of
\* its bytes is 0: what the block holds there was written for this file and nothing
\* has cut it or written over it since, however uploads, restarts and partial reads
\* and sends interleave.  Two files that share bytes are excepted (SavedFileComplete
\* of DataServer shows that they are mixed up), and clients that number the data
\* servers otherwise.
GetOkIsWhole ==
    \A p \in Proc : tc[p].iret = "OK" =>
        LET body == Body[tc[p].name]
        IN  SameNumbers /\ Apart(index[tc[p].name]) =>
                IF Nul \in Range(body) THEN IsPrefix(tc[p].file, body) ELSE tc[p].file = body

\* A data server is only proposed for a name whose name server is not known to be
\* offline: server_find says so of "the name server computed from the file".
NameServerChecked ==
    \A p \in Proc : tc[p].at \in {"find again", "file_add"} =>
        MasterOf[tc[p].name] \notin offline

\* Every run of the program ends, unless the data server closes the connection
\* in the middle of a download: then it reads nothing for ever.
ClientEnds == \A p \in Proc : tc[p].at # "idle" ~> (tc[p].at = "idle" \/ Spins(p))
=============================================================================
