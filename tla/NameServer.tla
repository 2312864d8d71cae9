------------------------------ MODULE NameServer ------------------------------
(***************************************************************************)
(* The pair of name servers, master and slave, that keeps the locations of *)
(* one share of the names (name_server/command.c, process.c and            *)
(* name_server_sync.c).                                                    *)
(*                                                                         *)
(* A write goes to the master, which changes its own index and then sends  *)
(* the command on to the slave, on a connection opened for this command    *)
(* alone; the client's session is parked until the slave has answered.     *)
(* Each index is as NameIndex has it: durable except for the reference     *)
(* counts, which a restart sets back to 1.                                 *)
(***************************************************************************)
EXTENDS Integers

CONSTANTS
    Client,     \* connections to the master
    Name, Loc, NoLoc,
    MaxOps,     \* bound: commands
    MaxCrash    \* bound: crashes of either server

ASSUME NameServerAssumption ==
    /\ NoLoc \notin Loc
    /\ MaxOps \in Nat /\ MaxCrash \in Nat

VARIABLES
    index,      \* [server -> [Name -> Loc or NoLoc]]
    refs,       \* [server -> [Name -> references, 0 if absent]]
    sess,       \* the session of each client
    sync,       \* the connection to the slave made for it, with its command
    stray,      \* commands on their way to the slave that nobody waits for
    up,         \* servers that run
    acked,      \* history: registrations answered with success
    offered,    \* history: locations the master was ever given for a name
    added,      \* history: the number of adds it was given for a name
    ops, crashes

given == <<offered, added>>
vars == <<index, refs, sess, sync, stray, up, acked, given, ops, crashes>>

Server == {"master", "slave"}

\* A command is told from another one alike by its number.
Command == [op : {"add", "set"}, name : Name, loc : Loc, no : 1..MaxOps]
NoCommand == [op |-> "none", name |-> NoLoc, loc |-> NoLoc, no |-> 0]

\* at: write - to be sent or on its way; ok - answered; lost - broken.
NoSync == [at |-> "none", cmd |-> NoCommand]

Known(s, n) == index[s][n] # NoLoc

-----------------------------------------------------------------------------
(* What a command does to the index of the server that runs it.            *)

\* fblock_mem_add: a name that is there keeps its location.
Apply(s, n, l) ==
    /\ index' = IF Known(s, n) THEN index ELSE [index EXCEPT ![s][n] = l]
    /\ refs' = [refs EXCEPT ![s][n] = @ + 1]

\* The process ends and its connections with it.  What the master has sent
\* may still reach the slave.
Stopped(s) ==
    /\ crashes < MaxCrash /\ crashes' = crashes + 1
    /\ up' = up \ {s}
    /\ IF s = "master"
       THEN /\ sess' = [c \in Client |-> "begin"]
            /\ sync' = [c \in Client |-> NoSync]
            /\ stray' = stray \cup {sync[c].cmd : c \in {d \in Client : sync[d].at = "write"}}
       ELSE /\ sync' = [c \in Client |->
                           IF sync[c].at = "none" THEN NoSync ELSE [sync[c] EXCEPT !.at = "lost"]]
            /\ stray' = {}
            /\ UNCHANGED sess

-----------------------------------------------------------------------------
(* Commands at the master.                                                 *)

Received(c) ==
    /\ "master" \in up
    /\ sess[c] = "begin"
    /\ ops < MaxOps /\ ops' = ops + 1

\* name_server_sync: the session is parked, or answered with an error when
\* the connection cannot be made.
Forward(c, cmd) ==
    \/ /\ sess' = [sess EXCEPT ![c] = "parked"]
       /\ sync' = [sync EXCEPT ![c] = [at |-> "write", cmd |-> cmd]]
    \/ /\ sess' = [sess EXCEPT ![c] = "error"]
       /\ UNCHANGED sync

Sent(op, n, l) == [op |-> op, name |-> n, loc |-> l, no |-> ops + 1]

Given(n, l) ==
    /\ offered' = [offered EXCEPT ![n] = @ \cup {l}]
    /\ added' = [added EXCEPT ![n] = @ + 1]

\* Variant: the master leaves the change to the slave.
FileInfoAddThere(c, n, l) ==
    /\ Received(c)
    /\ Given(n, l)
    /\ Forward(c, Sent("add", n, l))
    /\ UNCHANGED <<index, refs, stray, up, acked, crashes>>

\* Variant: the command is forwarded with another one's location.
FileInfoAddShared(c, n, l) ==
    /\ Received(c)
    /\ Apply("master", n, l)
    /\ Given(n, l)
    /\ \E m \in Loc : Forward(c, Sent("add", n, m))
    /\ UNCHANGED <<stray, up, acked, crashes>>

\* file_info_add is applied here first, whatever becomes of the slave.
FileInfoAdd(c, n, l) ==
    /\ Received(c)
    /\ Apply("master", n, l)
    /\ Given(n, l)
    /\ Forward(c, Sent("add", n, l))
    /\ UNCHANGED <<stray, up, acked, crashes>>

\* Variant: set is forwarded without a look at the index.
FileInfoSetBlind(c, n, l) ==
    /\ Received(c)
    /\ Forward(c, Sent("set", n, l))
    /\ UNCHANGED <<index, refs, stray, up, acked, given, crashes>>

\* fblock_mem_set changes nothing for a name that is there, and ends the
\* process for one that is not.
FileInfoSet(c, n, l) ==
    /\ Received(c)
    /\ IF Known("master", n)
       THEN Forward(c, Sent("set", n, l)) /\ UNCHANGED <<stray, up, crashes>>
       ELSE Stopped("master")
    /\ UNCHANGED <<index, refs, acked, given>>

\* file_info_get, status, and whatever is refused: unknown commands, arguments
\* that do not parse, and file_ref_inc and file_ref_dec, whose request_parse is
\* told to expect seven arguments of one and always fails.
Answered(c, reply) ==
    /\ Received(c)
    /\ sess' = [sess EXCEPT ![c] = reply]
    /\ UNCHANGED <<index, refs, sync, stray, up, acked, given, crashes>>

FileInfoGet(c, n) == Answered(c, IF Known("master", n) THEN "found" ELSE "error")
Refused(c) == Answered(c, "error")

SendReply(c) ==
    /\ "master" \in up
    /\ sess[c] \in {"saved", "found", "error"}
    /\ sess' = [sess EXCEPT ![c] = "begin"]
    /\ UNCHANGED <<index, refs, sync, stray, up, acked, given, ops, crashes>>

-----------------------------------------------------------------------------
(* The slave (server_type 2) runs the same handler, and answers at once.   *)

SlaveApplies(cmd) ==
    /\ "slave" \in up
    /\ \/ cmd.op = "add" /\ Apply("slave", cmd.name, cmd.loc)
       \/ cmd.op = "set" /\ Known("slave", cmd.name) /\ UNCHANGED <<index, refs>>
    /\ UNCHANGED <<sess, up, acked, given, ops, crashes>>

SlaveBreaks(cmd) ==
    /\ "slave" \in up
    /\ cmd.op = "set" /\ ~Known("slave", cmd.name)
    /\ Stopped("slave")
    /\ UNCHANGED <<index, refs, acked, given, ops>>

SlaveTakes(c) ==
    /\ sync[c].at = "write"
    /\ \/ /\ SlaveApplies(sync[c].cmd)
          /\ sync' = [sync EXCEPT ![c].at = "ok"]
          /\ UNCHANGED stray
       \/ SlaveBreaks(sync[c].cmd)

SlaveTakesStray(cmd) ==
    \/ SlaveApplies(cmd) /\ stray' = stray \ {cmd} /\ UNCHANGED sync
    \/ SlaveBreaks(cmd)

StrayLost(cmd) ==
    /\ stray' = stray \ {cmd}
    /\ UNCHANGED <<index, refs, sess, sync, up, acked, given, ops, crashes>>

-----------------------------------------------------------------------------
(* __name_server_sync_finish: the client's session is answered.            *)

\* Variant: the connection to the slave is not let go.
FinishOpen(c, reply) ==
    /\ "master" \in up
    /\ sess' = [sess EXCEPT ![c] = reply]
    /\ UNCHANGED <<index, refs, sync, up, given, ops, crashes>>

Finish(c, reply) ==
    /\ "master" \in up
    /\ sess' = [sess EXCEPT ![c] = reply]
    /\ sync' = [sync EXCEPT ![c] = NoSync]
    /\ UNCHANGED <<index, refs, up, given, ops, crashes>>

\* Variant: the slave's answer is not waited for.
SyncDoneUnheard(c) ==
    /\ sync[c].at # "none"
    /\ acked' = IF sync[c].cmd.op = "add"
                THEN acked \cup {[name |-> sync[c].cmd.name, loc |-> sync[c].cmd.loc]}
                ELSE acked
    /\ UNCHANGED stray
    /\ Finish(c, "saved")

SyncDone(c) ==
    /\ sync[c].at = "ok"
    /\ acked' = IF sync[c].cmd.op = "add"
                THEN acked \cup {[name |-> sync[c].cmd.name, loc |-> sync[c].cmd.loc]}
                ELSE acked
    /\ UNCHANGED stray
    /\ Finish(c, "saved")

\* Variant: a connection that cannot be made is not noticed.
SyncFailsUnseen(c) ==
    /\ sync[c].at = "lost"
    /\ UNCHANGED <<acked, stray>>
    /\ Finish(c, "error")

\* Variant: the command is sent again although the slave has answered.
SyncFailsResent(c) ==
    /\ sync[c].at # "none"
    /\ stray' = IF sync[c].at # "lost" THEN stray \cup {sync[c].cmd} ELSE stray
    /\ UNCHANGED acked
    /\ Finish(c, "error")

\* A write or read error, or less than an answer: the command may have been
\* run by then, may be run later, or never.
SyncFails(c) ==
    /\ sync[c].at # "none"
    /\ stray' = IF sync[c].at = "write" THEN stray \cup {sync[c].cmd} ELSE stray
    /\ UNCHANGED acked
    /\ Finish(c, "error")

-----------------------------------------------------------------------------
Crash(s) ==
    /\ s \in up
    /\ Stopped(s)
    /\ UNCHANGED <<index, refs, acked, given, ops>>

\* hashdb_init finds every location again, with the count it was added with.
Restart(s) ==
    /\ s \notin up
    /\ up' = up \cup {s}
    /\ refs' = [refs EXCEPT ![s] = [n \in Name |-> IF Known(s, n) THEN 1 ELSE 0]]
    /\ UNCHANGED <<index, sess, sync, stray, acked, given, ops, crashes>>

Init ==
    /\ index = [s \in Server |-> [n \in Name |-> NoLoc]]
    /\ refs = [s \in Server |-> [n \in Name |-> 0]]
    /\ sess = [c \in Client |-> "begin"]
    /\ sync = [c \in Client |-> NoSync]
    /\ stray = {}
    /\ up = Server
    /\ acked = {}
    /\ offered = [n \in Name |-> {}] /\ added = [n \in Name |-> 0]
    /\ ops = 0 /\ crashes = 0

Sync(c) == SlaveTakes(c) \/ SyncDone(c) \/ SyncFails(c)

Next ==
    \/ \E c \in Client :
          \/ \E n \in Name : FileInfoGet(c, n) \/
                \E l \in Loc : FileInfoAdd(c, n, l) \/ FileInfoSet(c, n, l)
          \/ Refused(c) \/ SendReply(c) \/ Sync(c)
    \/ \E cmd \in stray : SlaveTakesStray(cmd) \/ StrayLost(cmd)
    \/ \E s \in Server : Crash(s) \/ Restart(s)

Spec == Init /\ [][Next]_vars

\* The master's event loop runs, and a connection to the slave either gets
\* an answer or breaks.  Nothing is assumed of the slave.
Fairness ==
    /\ \A c \in Client : WF_vars(Sync(c)) /\ WF_vars(SendReply(c))
    /\ WF_vars(Restart("master"))

FairSpec == Spec /\ Fairness

-----------------------------------------------------------------------------
(* Properties.                                                             *)

NameTypeOK ==
    /\ index \in [Server -> [Name -> Loc \cup {NoLoc}]]
    /\ refs \in [Server -> [Name -> Nat]]
    /\ sess \in [Client -> {"begin", "parked", "saved", "found", "error"}]
    /\ sync \in [Client -> [at : {"none", "write", "ok", "lost"},
                            cmd : Command \cup {NoCommand}]]
    /\ stray \subseteq Command
    /\ up \subseteq Server
    /\ acked \subseteq [name : Name, loc : Loc]
    /\ offered \in [Name -> SUBSET Loc] /\ added \in [Name -> Nat]
    /\ ops \in 0..MaxOps /\ crashes \in 0..MaxCrash

\* The slave never knows a name that the master does not: whichever of them
\* crashes, the master has the name before the slave is told.
SlaveBehindMaster == \A n \in Name : Known("slave", n) => Known("master", n)

\* A registration that was answered with success is in both indexes, and no
\* later crash of one of them takes it away.
AckedOnBoth == \A a \in acked : Known("master", a.name) /\ Known("slave", a.name)

\* Unless different locations were offered for a name, the two servers give
\* the same one, in whatever order commands reach the slave.
AgreeUnlessConflict ==
    \A n \in Name :
        Known("slave", n) /\ index["slave"][n] # index["master"][n] =>
            \E l, m \in offered[n] : l # m

\* A session waits exactly while a connection to the slave was made for it: no
\* client is forgotten, and none is answered twice for one command.
ParkedIffSync == \A c \in Client : sess[c] = "parked" <=> sync[c].at # "none"

\* No server counts more references to a name than registrations were asked for,
\* however often connections break, commands come late and servers restart: a
\* registration may be missing from a count, but none is in it twice.
CountedOnce == \A s \in Server, n \in Name : refs[s][n] <= added[n]

\* What makes these hold.  Whatever is on its way to the slave has been done
\* by the master, and what a client is about to be told has been done by both.
SyncForwarded ==
    \A c \in Client : sync[c].at # "none" =>
        /\ sync[c].cmd \in Command
        /\ Known("master", sync[c].cmd.name)
        /\ sync[c].cmd.op = "add" => sync[c].cmd.loc \in offered[sync[c].cmd.name]
        /\ sync[c].at = "ok" /\ sync[c].cmd.op = "add" => Known("slave", sync[c].cmd.name)

StrayForwarded ==
    \A k \in stray :
        /\ Known("master", k.name)
        /\ k.op = "add" => k.loc \in offered[k.name]

IndexOffered ==
    \A s \in Server, n \in Name : Known(s, n) => index[s][n] \in offered[n]

Forwarded == SyncForwarded /\ StrayForwarded /\ IndexOffered

NameIInv == NameTypeOK /\ SlaveBehindMaster /\ AckedOnBoth /\ Forwarded

\* tdss_config.h:52: reads may go to the master or to the slave.
ReplicasAgree ==
    \A n \in Name : Known("slave", n) => index["slave"][n] = index["master"][n]

\* Every client whose command is being synchronised is answered, or its
\* connection ends with the master.
SyncAnswered == \A c \in Client : sess[c] = "parked" ~> sess[c] = "begin"
=============================================================================
