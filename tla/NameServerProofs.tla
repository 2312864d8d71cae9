--------------------------- MODULE NameServerProofs ---------------------------
(***************************************************************************)
(* Proofs about NameServer: whatever crashes, breaks or is delivered late, *)
(* the slave's index stays behind the master's, an acknowledged name is in *)
(* both, and the two differ only on names with conflicting registrations.  *)
(***************************************************************************)
EXTENDS NameServer, FiniteSetTheorems, TLAPS

USE DEF given

\* The parts of the invariant that speak of indexes and offers only.
OnIndex ==
    /\ index \in [Server -> [Name -> Loc \cup {NoLoc}]]
    /\ refs \in [Server -> [Name -> Nat]]
    /\ offered \in [Name -> SUBSET Loc] /\ added \in [Name -> Nat]

(* Running fblock_mem_add on a server forgets no name, changes no location *)
(* and makes known the name it is given, at most with the location given.  *)
LEMMA ApplyLemma ==
    ASSUME OnIndex, NEW s \in Server, NEW n \in Name, NEW l \in Loc, Apply(s, n, l)
    PROVE  /\ index' \in [Server -> [Name -> Loc \cup {NoLoc}]]
           /\ refs' \in [Server -> [Name -> Nat]]
           /\ \A t \in Server, m \in Name :
                 /\ Known(t, m) => index'[t][m] = index[t][m]
                 /\ ~Known(t, m) => index'[t][m] = NoLoc \/ (t = s /\ m = n /\ index'[t][m] = l)
           /\ Known(s, n)'
<1>1. refs' \in [Server -> [Name -> Nat]]
  BY DEF Apply, OnIndex
<1>2. CASE Known(s, n)
  BY <1>1, <1>2 DEF Apply, OnIndex, Known
<1>3. CASE ~Known(s, n)
  <2>1. index' = [index EXCEPT ![s][n] = l]
    BY <1>3 DEF Apply
  <2>2. index' \in [Server -> [Name -> Loc \cup {NoLoc}]]
    BY <2>1 DEF OnIndex
  <2>3. index'[s][n] = l /\ l # NoLoc
    BY <2>1, NameServerAssumption DEF OnIndex
  <2>4. \A t \in Server, m \in Name :
           t # s \/ m # n => index'[t][m] = index[t][m]
    BY <2>1 DEF OnIndex
  <2>5. QED
    BY <1>1, <1>3, <2>2, <2>3, <2>4 DEF Known
<1>4. QED
  BY <1>2, <1>3

-----------------------------------------------------------------------------
(* The initial state satisfies the invariant.                              *)
LEMMA NameInit == Init => NameIInv
BY NameServerAssumption
DEF Init, NameIInv, NameTypeOK, SlaveBehindMaster, AckedOnBoth, Forwarded,
    SyncForwarded, StrayForwarded, IndexOffered, Known,
    NoSync, NoCommand, Server, Command

-----------------------------------------------------------------------------
(* One lemma per action: it preserves the invariant.                       *)

(* A crash takes sessions and connections away and invents nothing.        *)
LEMMA StoppedLemma ==
    ASSUME NameIInv, NEW s \in Server, Stopped(s),
           UNCHANGED <<index, refs, acked, given>>, ops' \in 0..MaxOps
    PROVE  NameIInv'
<1>1. NameTypeOK /\ SyncForwarded /\ StrayForwarded
  BY DEF NameIInv, Forwarded
<1>2. up' \subseteq Server /\ crashes' \in 0..MaxCrash
  BY <1>1, NameServerAssumption DEF Stopped, NameTypeOK
<1>3. CASE s = "master"
  <2>1. /\ sess' = [c \in Client |-> "begin"]
        /\ sync' = [c \in Client |-> NoSync]
        /\ stray' = stray \cup {sync[c].cmd : c \in {d \in Client : sync[d].at = "write"}}
    BY <1>3 DEF Stopped
  <2>2. \A k \in stray' : k \in stray \/ \E c \in Client : sync[c].at = "write" /\ k = sync[c].cmd
    BY <2>1
  <2>3. stray' \subseteq Command /\ StrayForwarded'
    BY <1>1, <2>2 DEF NameTypeOK, SyncForwarded, StrayForwarded, Known
  <2>4. \A c \in Client : sync'[c].at = "none" /\ sync'[c] = NoSync
    BY <2>1 DEF NoSync
  <2>5. SyncForwarded'
    BY <2>4 DEF SyncForwarded
  <2>6. sync' \in [Client -> [at : {"none", "write", "ok", "lost"}, cmd : Command \cup {NoCommand}]]
    BY <2>1 DEF NoSync
  <2>7. sess' \in [Client -> {"begin", "parked", "saved", "found", "error"}]
    BY <2>1
  <2>8. NameTypeOK'
    BY <1>1, <1>2, <2>3, <2>6, <2>7 DEF NameTypeOK
  <2>9. QED
    BY <2>3, <2>5, <2>8
       DEF NameIInv, Forwarded, IndexOffered, SlaveBehindMaster, AckedOnBoth, Known
<1>4. CASE s = "slave"
  <2>1. /\ sync' = [c \in Client |->
                      IF sync[c].at = "none" THEN NoSync ELSE [sync[c] EXCEPT !.at = "lost"]]
        /\ stray' = {}
        /\ UNCHANGED sess
    BY <1>4 DEF Stopped
  <2>2. \A c \in Client :
           /\ sync'[c] \in [at : {"none", "write", "ok", "lost"}, cmd : Command \cup {NoCommand}]
           /\ sync'[c].at # "none" => /\ sync[c].at # "none" /\ sync'[c].at = "lost"
                                      /\ sync'[c].cmd = sync[c].cmd
    <3> TAKE c \in Client
    <3>1. CASE sync[c].at = "none"
      BY <2>1, <3>1 DEF NoSync
    <3>2. CASE sync[c].at # "none"
      <4>1. sync'[c] = [sync[c] EXCEPT !.at = "lost"]
        BY <2>1, <3>2
      <4>2. QED
        BY <1>1, <3>2, <4>1 DEF NameTypeOK
    <3>3. QED
      BY <3>1, <3>2
  <2>3. sync' \in [Client -> [at : {"none", "write", "ok", "lost"}, cmd : Command \cup {NoCommand}]]
    BY <2>1, <2>2
  <2>4. NameTypeOK'
    BY <1>1, <1>2, <2>1, <2>3 DEF NameTypeOK
  <2>5. SyncForwarded'
    BY <1>1, <2>2 DEF SyncForwarded, Known
  <2>6. StrayForwarded'
    BY <2>1 DEF StrayForwarded
  <2>7. QED
    BY <2>4, <2>5, <2>6
       DEF NameIInv, Forwarded, IndexOffered, SlaveBehindMaster, AckedOnBoth, Known
<1>5. QED
  BY <1>3, <1>4 DEF Server

(* Forwarding a command parks the client or answers it.                    *)
LEMMA ForwardLemma ==
    ASSUME NameTypeOK, NEW c \in Client, NEW k \in Command, Forward(c, k)
    PROVE  /\ sess' \in [Client -> {"begin", "parked", "saved", "found", "error"}]
           /\ sync' \in [Client -> [at : {"none", "write", "ok", "lost"},
                                    cmd : Command \cup {NoCommand}]]
           /\ \A d \in Client :
                 sync'[d] = sync[d] \/ (sync'[d].at = "write" /\ sync'[d].cmd = k)
<1>1. CASE /\ sess' = [sess EXCEPT ![c] = "parked"]
           /\ sync' = [sync EXCEPT ![c] = [at |-> "write", cmd |-> k]]
  <2>1. [at |-> "write", cmd |-> k] \in [at : {"none", "write", "ok", "lost"},
                                        cmd : Command \cup {NoCommand}]
    OBVIOUS
  <2>2. QED
    BY <1>1, <2>1 DEF NameTypeOK
<1>2. CASE sess' = [sess EXCEPT ![c] = "error"] /\ UNCHANGED sync
  BY <1>2 DEF NameTypeOK
<1>3. QED
  BY <1>1, <1>2 DEF Forward

(* The master knows a name before anything about it is sent to the slave.  *)
LEMMA AddInv ==
    ASSUME NameIInv, NEW c \in Client, NEW n \in Name, NEW l \in Loc,
           FileInfoAdd(c, n, l)
    PROVE  NameIInv'
<1> DEFINE k == Sent("add", n, l)
<1>1. NameTypeOK /\ SyncForwarded /\ StrayForwarded /\ IndexOffered /\ OnIndex
  BY DEF NameIInv, Forwarded, OnIndex, NameTypeOK
<1>2. "master" \in Server /\ "slave" \in Server /\ k \in Command
      /\ k.op = "add" /\ k.name = n /\ k.loc = l
  <2>1. ops \in Nat /\ ops + 1 <= MaxOps
    BY <1>1, NameServerAssumption DEF FileInfoAdd, Received, NameTypeOK
  <2>2. QED BY <2>1, NameServerAssumption DEF Server, Command, Sent
<1>3. Apply("master", n, l) /\ Forward(c, k)
  BY DEF FileInfoAdd
<1>4. /\ index' \in [Server -> [Name -> Loc \cup {NoLoc}]]
      /\ refs' \in [Server -> [Name -> Nat]]
      /\ \A t \in Server, m \in Name :
            /\ Known(t, m) => index'[t][m] = index[t][m]
            /\ ~Known(t, m) => index'[t][m] = NoLoc
                               \/ (t = "master" /\ m = n /\ index'[t][m] = l)
      /\ Known("master", n)'
  BY <1>1, <1>2, <1>3, ApplyLemma
<1>5. /\ offered' = [offered EXCEPT ![n] = @ \cup {l}] /\ offered' \in [Name -> SUBSET Loc]
      /\ added' \in [Name -> Nat]
  BY <1>1 DEF FileInfoAdd, Given, NameTypeOK
<1>6. \A m \in Name : offered[m] \subseteq offered'[m]
  BY <1>1, <1>5 DEF NameTypeOK
<1>7. l \in offered'[n]
  BY <1>1, <1>5 DEF NameTypeOK
<1>8. /\ sess' \in [Client -> {"begin", "parked", "saved", "found", "error"}]
      /\ sync' \in [Client -> [at : {"none", "write", "ok", "lost"},
                               cmd : Command \cup {NoCommand}]]
      /\ \A d \in Client :
            sync'[d] = sync[d] \/ (sync'[d].at = "write" /\ sync'[d].cmd = k)
  BY <1>1, <1>2, <1>3, ForwardLemma
<1>9. ops' \in 0..MaxOps
  BY <1>1, NameServerAssumption DEF FileInfoAdd, Received, NameTypeOK
<1>10. UNCHANGED <<stray, up, acked, crashes>>
  BY DEF FileInfoAdd
<1>11. NameTypeOK'
  BY <1>1, <1>4, <1>5, <1>8, <1>9, <1>10 DEF NameTypeOK
<1>12. \A t \in Server, m \in Name : Known(t, m) => Known(t, m)'
  BY <1>4 DEF Known
<1>13. \A m \in Name : Known("slave", m)' => Known("slave", m)
  BY <1>2, <1>4 DEF Known
<1>14. SyncForwarded'
  <2> SUFFICES ASSUME NEW d \in Client, sync'[d].at # "none"
               PROVE  /\ sync'[d].cmd \in Command
                      /\ index'["master"][sync'[d].cmd.name] # NoLoc
                      /\ sync'[d].cmd.op = "add" =>
                            sync'[d].cmd.loc \in offered'[sync'[d].cmd.name]
                      /\ sync'[d].at = "ok" /\ sync'[d].cmd.op = "add" =>
                            index'["slave"][sync'[d].cmd.name] # NoLoc
    BY DEF SyncForwarded, Known
  <2>1. CASE sync'[d] = sync[d]
    <3>1. sync[d].cmd \in Command /\ sync[d].cmd.name \in Name
      BY <1>1, <2>1 DEF SyncForwarded, Command
    <3>2. QED
      BY <1>1, <1>2, <1>6, <1>12, <2>1, <3>1 DEF SyncForwarded, Known
  <2>2. CASE sync'[d].at = "write" /\ sync'[d].cmd = k
    BY <1>2, <1>4, <1>7, <2>2 DEF Known
  <2>3. QED
    BY <1>8, <2>1, <2>2
<1>15. StrayForwarded'
  <2>1. \A j \in stray : j.name \in Name
    BY <1>1 DEF NameTypeOK, Command
  <2>2. QED
    BY <1>1, <1>2, <1>6, <1>10, <1>12, <2>1 DEF StrayForwarded, Known
<1>16. IndexOffered'
  BY <1>1, <1>4, <1>6, <1>7 DEF IndexOffered, Known
<1>17. SlaveBehindMaster'
  BY <1>2, <1>12, <1>13 DEF NameIInv, SlaveBehindMaster
<1>18. AckedOnBoth'
  <2>1. \A a \in acked : a.name \in Name
    BY <1>1 DEF NameTypeOK
  <2>2. QED
    BY <1>2, <1>10, <1>12, <2>1 DEF NameIInv, AckedOnBoth, Known
<1>19. QED
  BY <1>11, <1>14, <1>15, <1>16, <1>17, <1>18 DEF NameIInv, Forwarded

(* A command that changes no index leaves the invariant alone as long as   *)
(* what it forwards is known to the master.                                *)
LEMMA QuietInv ==
    ASSUME NameIInv, NameTypeOK', UNCHANGED <<index, refs, given>>,
           \A d \in Client : sync'[d].at # "none" =>
               \/ sync[d].at # "none" /\ sync'[d].cmd = sync[d].cmd
                  /\ (sync'[d].at = "ok" => sync[d].at = "ok")
               \/ /\ sync'[d].cmd \in Command
                  /\ sync'[d].cmd.op = "set" /\ Known("master", sync'[d].cmd.name),
           \A k \in stray' : k \in stray
               \/ \E d \in Client : sync[d].at # "none" /\ k = sync[d].cmd,
           \A a \in acked' : a \in acked
               \/ \E d \in Client : /\ sync[d].at = "ok" /\ sync[d].cmd.op = "add"
                                    /\ a.name = sync[d].cmd.name
    PROVE  NameIInv'
<1>1. SyncForwarded /\ StrayForwarded /\ IndexOffered /\ NameTypeOK
  BY DEF NameIInv, Forwarded
<1>2. SyncForwarded'
  BY <1>1 DEF SyncForwarded, Known
<1>3. StrayForwarded'
  BY <1>1 DEF SyncForwarded, StrayForwarded, Known
<1>4. IndexOffered' /\ SlaveBehindMaster'
  BY <1>1 DEF IndexOffered, NameIInv, SlaveBehindMaster, Known
<1>5. AckedOnBoth'
  BY <1>1 DEF SyncForwarded, NameIInv, AckedOnBoth, Known
<1>6. QED
  BY <1>2, <1>3, <1>4, <1>5 DEF NameIInv, Forwarded

(* file_info_set: forwarded only for a name the master knows; otherwise it *)
(* is one more way to stop.                                                *)
LEMMA SetInv ==
    ASSUME NameIInv, NEW c \in Client, NEW n \in Name, NEW l \in Loc,
           FileInfoSet(c, n, l)
    PROVE  NameIInv'
<1> DEFINE k == Sent("set", n, l)
<1>1. NameTypeOK
  BY DEF NameIInv
<1>2. ops' \in 0..MaxOps
  BY <1>1, NameServerAssumption DEF FileInfoSet, Received, NameTypeOK
<1>3. CASE Known("master", n) /\ Forward(c, k) /\ UNCHANGED <<stray, up, crashes>>
  <2>1. k \in Command /\ k.op = "set" /\ k.name = n
    <3>1. ops \in Nat /\ ops + 1 <= MaxOps
      BY <1>1, NameServerAssumption DEF FileInfoSet, Received, NameTypeOK
    <3>2. QED BY <3>1, NameServerAssumption DEF Command, Sent
  <2>2. /\ sess' \in [Client -> {"begin", "parked", "saved", "found", "error"}]
        /\ sync' \in [Client -> [at : {"none", "write", "ok", "lost"},
                                 cmd : Command \cup {NoCommand}]]
        /\ \A d \in Client :
              sync'[d] = sync[d] \/ (sync'[d].at = "write" /\ sync'[d].cmd = k)
    BY <1>1, <1>3, <2>1, ForwardLemma
  <2>3. NameTypeOK'
    BY <1>1, <1>2, <1>3, <2>2 DEF NameTypeOK, FileInfoSet
  <2>4. UNCHANGED <<index, refs, given, acked, stray>>
    BY <1>3 DEF FileInfoSet
  <2>5. \A d \in Client : sync'[d].at # "none" =>
               \/ sync[d].at # "none" /\ sync'[d].cmd = sync[d].cmd
                  /\ (sync'[d].at = "ok" => sync[d].at = "ok")
               \/ /\ sync'[d].cmd \in Command
                  /\ sync'[d].cmd.op = "set" /\ Known("master", sync'[d].cmd.name)
    BY <1>3, <2>1, <2>2
  <2>6. QED
    BY <2>3, <2>4, <2>5, QuietInv
<1>4. CASE Stopped("master")
  BY <1>2, <1>4, StoppedLemma DEF FileInfoSet, Server
<1>5. QED
  BY <1>3, <1>4 DEF FileInfoSet

(* Reads, and the replies to clients.                                      *)
LEMMA AnsweredInv ==
    ASSUME NameIInv, NEW c \in Client, NEW r \in {"found", "error"}, Answered(c, r)
    PROVE  NameIInv'
<1>1. NameTypeOK
  BY DEF NameIInv
<1>2. NameTypeOK'
  BY <1>1, NameServerAssumption DEF NameTypeOK, Answered, Received
<1>3. QED
  BY <1>1, <1>2, QuietInv DEF Answered

LEMMA SendReplyInv ==
    ASSUME NameIInv, NEW c \in Client, SendReply(c)
    PROVE  NameIInv'
<1>1. NameTypeOK
  BY DEF NameIInv
<1>2. NameTypeOK'
  BY <1>1 DEF NameTypeOK, SendReply
<1>3. QED
  BY <1>1, <1>2, QuietInv DEF SendReply

(* The slave learns only names the master knows.                           *)
LEMMA SlaveInv ==
    ASSUME NameIInv, NEW k \in Command, SlaveApplies(k),
           Known("master", k.name),
           k.op = "add" => k.loc \in offered[k.name],
           sync' \in [Client -> [at : {"none", "write", "ok", "lost"},
                                 cmd : Command \cup {NoCommand}]],
           stray' \subseteq stray,
           \A d \in Client :
               \/ sync'[d] = sync[d]
               \/ sync[d].at # "none" /\ sync[d].cmd = k /\ sync'[d].cmd = k
    PROVE  NameIInv'
<1>1. NameTypeOK /\ SyncForwarded /\ StrayForwarded /\ IndexOffered /\ OnIndex
  BY DEF NameIInv, Forwarded, OnIndex, NameTypeOK
<1>2. "master" \in Server /\ "slave" \in Server /\ k.name \in Name /\ k.loc \in Loc
  BY DEF Server, Command
<1>3. /\ index' \in [Server -> [Name -> Loc \cup {NoLoc}]]
      /\ refs' \in [Server -> [Name -> Nat]]
      /\ \A t \in Server, m \in Name :
            /\ Known(t, m) => index'[t][m] = index[t][m]
            /\ ~Known(t, m) => index'[t][m] = NoLoc
                  \/ (k.op = "add" /\ t = "slave" /\ m = k.name /\ index'[t][m] = k.loc)
      /\ index'["slave"][k.name] # NoLoc
  <2>1. CASE k.op = "add" /\ Apply("slave", k.name, k.loc)
    BY <1>1, <1>2, <2>1, ApplyLemma DEF Known
  <2>2. CASE Known("slave", k.name) /\ UNCHANGED <<index, refs>>
    BY <1>1, <1>2, <2>2 DEF OnIndex, Known
  <2>3. QED
    BY <2>1, <2>2 DEF SlaveApplies
<1>4. UNCHANGED <<sess, up, acked, given, ops, crashes>>
  BY DEF SlaveApplies
<1>5. NameTypeOK'
  BY <1>1, <1>3, <1>4 DEF NameTypeOK
<1>6. \A t \in Server, m \in Name : index[t][m] # NoLoc => index'[t][m] # NoLoc
  BY <1>3 DEF Known
<1>7. SyncForwarded'
  <2> SUFFICES ASSUME NEW d \in Client, sync'[d].at # "none"
               PROVE  /\ sync'[d].cmd \in Command
                      /\ index'["master"][sync'[d].cmd.name] # NoLoc
                      /\ sync'[d].cmd.op = "add" =>
                            sync'[d].cmd.loc \in offered'[sync'[d].cmd.name]
                      /\ sync'[d].at = "ok" /\ sync'[d].cmd.op = "add" =>
                            index'["slave"][sync'[d].cmd.name] # NoLoc
    BY DEF SyncForwarded, Known
  <2>1. CASE sync'[d] = sync[d]
    <3>1. sync[d].cmd \in Command /\ sync[d].cmd.name \in Name
      BY <1>1, <2>1 DEF SyncForwarded, Command
    <3>2. QED
      BY <1>1, <1>2, <1>4, <1>6, <2>1, <3>1 DEF SyncForwarded, Known
  <2>2. CASE sync'[d].cmd = k
    BY <1>2, <1>3, <1>4, <1>6, <2>2 DEF Known
  <2>3. QED
    BY <2>1, <2>2
<1>8. StrayForwarded'
  <2>1. \A j \in stray : j.name \in Name
    BY <1>1 DEF NameTypeOK, Command
  <2>2. QED
    BY <1>1, <1>2, <1>4, <1>6, <2>1 DEF StrayForwarded, Known
<1>9. IndexOffered'
  BY <1>1, <1>3, <1>4 DEF IndexOffered, Known
<1>10. SlaveBehindMaster'
  BY <1>2, <1>3, <1>6 DEF NameIInv, SlaveBehindMaster, Known
<1>11. AckedOnBoth'
  <2>1. \A a \in acked : a.name \in Name
    BY <1>1 DEF NameTypeOK
  <2>2. QED
    BY <1>2, <1>4, <1>6, <2>1 DEF NameIInv, AckedOnBoth, Known
<1>12. QED
  BY <1>5, <1>7, <1>8, <1>9, <1>10, <1>11 DEF NameIInv, Forwarded

LEMMA SlaveBreaksInv ==
    ASSUME NameIInv, NEW k, SlaveBreaks(k)
    PROVE  NameIInv'
<1>1. ops' \in 0..MaxOps
  BY DEF SlaveBreaks, NameIInv, NameTypeOK
<1>2. QED
  BY <1>1, StoppedLemma DEF SlaveBreaks, Server

LEMMA SlaveTakesInv ==
    ASSUME NameIInv, NEW c \in Client, SlaveTakes(c)
    PROVE  NameIInv'
<1>1. NameTypeOK /\ SyncForwarded
  BY DEF NameIInv, Forwarded
<1>2. CASE SlaveBreaks(sync[c].cmd)
  BY <1>2, SlaveBreaksInv
<1>3. CASE /\ SlaveApplies(sync[c].cmd)
           /\ sync' = [sync EXCEPT ![c].at = "ok"]
           /\ UNCHANGED stray
  <2> DEFINE k == sync[c].cmd
  <2>1. sync[c].at = "write"
    BY DEF SlaveTakes
  <2>2. k \in Command /\ Known("master", k.name)
        /\ (k.op = "add" => k.loc \in offered[k.name])
    BY <1>1, <2>1 DEF SyncForwarded
  <2>3. /\ sync' \in [Client -> [at : {"none", "write", "ok", "lost"},
                                 cmd : Command \cup {NoCommand}]]
        /\ sync'[c].cmd = k
        /\ \A d \in Client : d # c => sync'[d] = sync[d]
    BY <1>1, <1>3 DEF NameTypeOK
  <2>4. \A d \in Client :
               \/ sync'[d] = sync[d]
               \/ sync[d].at # "none" /\ sync[d].cmd = k /\ sync'[d].cmd = k
    BY <2>1, <2>3
  <2> HIDE DEF k
  <2>5. SlaveApplies(k)
    BY <1>3 DEF k
  <2>6. QED
    BY <1>3, <2>2, <2>3, <2>4, <2>5, SlaveInv
<1>4. QED
  BY <1>2, <1>3 DEF SlaveTakes

LEMMA SlaveTakesStrayInv ==
    ASSUME NameIInv, NEW k \in stray, SlaveTakesStray(k)
    PROVE  NameIInv'
<1>1. NameTypeOK /\ StrayForwarded
  BY DEF NameIInv, Forwarded
<1>2. CASE SlaveBreaks(k)
  BY <1>2, SlaveBreaksInv
<1>3. CASE SlaveApplies(k) /\ stray' = stray \ {k} /\ UNCHANGED sync
  <2>1. k \in Command /\ Known("master", k.name)
        /\ (k.op = "add" => k.loc \in offered[k.name])
    BY <1>1 DEF StrayForwarded, NameTypeOK
  <2>2. sync' \in [Client -> [at : {"none", "write", "ok", "lost"},
                              cmd : Command \cup {NoCommand}]]
    BY <1>1, <1>3 DEF NameTypeOK
  <2>3. QED
    BY <1>3, <2>1, <2>2, SlaveInv
<1>4. QED
  BY <1>2, <1>3 DEF SlaveTakesStray

LEMMA StrayLostInv ==
    ASSUME NameIInv, NEW k \in stray, StrayLost(k)
    PROVE  NameIInv'
<1>1. NameTypeOK
  BY DEF NameIInv
<1>2. NameTypeOK'
  BY <1>1 DEF NameTypeOK, StrayLost
<1>3. QED
  BY <1>2, QuietInv DEF StrayLost

(* A client is told of success only about what the slave has run.          *)
LEMMA SyncDoneInv ==
    ASSUME NameIInv, NEW c \in Client, SyncDone(c)
    PROVE  NameIInv'
<1>1. NameTypeOK /\ SyncForwarded
  BY DEF NameIInv, Forwarded
<1>2. /\ sync' = [sync EXCEPT ![c] = NoSync]
      /\ sess' = [sess EXCEPT ![c] = "saved"]
      /\ UNCHANGED <<index, refs, up, given, ops, crashes, stray>>
      /\ sync[c].at = "ok"
  BY DEF SyncDone, Finish
<1>3. sync[c].cmd \in Command
  BY <1>1, <1>2 DEF SyncForwarded
<1>4. sync' \in [Client -> [at : {"none", "write", "ok", "lost"}, cmd : Command \cup {NoCommand}]]
      /\ \A d \in Client : sync'[d].at # "none" => sync'[d] = sync[d]
  BY <1>1, <1>2 DEF NameTypeOK, NoSync
<1>5. \A a \in acked' : a \in acked
          \/ (sync[c].cmd.op = "add" /\ a = [name |-> sync[c].cmd.name, loc |-> sync[c].cmd.loc])
  BY DEF SyncDone
<1>6. acked' \subseteq [name : Name, loc : Loc]
  BY <1>1, <1>3, <1>5 DEF NameTypeOK, Command
<1>7. NameTypeOK'
  BY <1>1, <1>2, <1>4, <1>6 DEF NameTypeOK
<1>8. QED
  BY <1>2, <1>4, <1>5, <1>7, QuietInv

LEMMA SyncFailsInv ==
    ASSUME NameIInv, NEW c \in Client, SyncFails(c)
    PROVE  NameIInv'
<1>1. NameTypeOK /\ SyncForwarded
  BY DEF NameIInv, Forwarded
<1>2. /\ sync' = [sync EXCEPT ![c] = NoSync]
      /\ sess' = [sess EXCEPT ![c] = "error"]
      /\ UNCHANGED <<index, refs, up, acked, given, ops, crashes>>
      /\ sync[c].at # "none"
  BY DEF SyncFails, Finish
<1>3. sync[c].cmd \in Command
  BY <1>1, <1>2 DEF SyncForwarded
<1>4. sync' \in [Client -> [at : {"none", "write", "ok", "lost"}, cmd : Command \cup {NoCommand}]]
      /\ \A d \in Client : sync'[d].at # "none" => sync'[d] = sync[d]
  BY <1>1, <1>2 DEF NameTypeOK, NoSync
<1>5. \A k \in stray' : k \in stray \/ k = sync[c].cmd
  BY DEF SyncFails
<1>6. NameTypeOK'
  BY <1>1, <1>2, <1>3, <1>4, <1>5 DEF NameTypeOK
<1>7. QED
  BY <1>2, <1>4, <1>5, <1>6, QuietInv

LEMMA CrashInv ==
    ASSUME NameIInv, NEW s \in Server, Crash(s)
    PROVE  NameIInv'
<1>1. ops' \in 0..MaxOps
  BY DEF Crash, NameIInv, NameTypeOK
<1>2. QED
  BY <1>1, StoppedLemma DEF Crash

(* A restart finds every location again and changes counts only.           *)
LEMMA RestartInv ==
    ASSUME NameIInv, NEW s \in Server, Restart(s)
    PROVE  NameIInv'
<1>1. NameTypeOK
  BY DEF NameIInv
<1>2. refs' \in [Server -> [Name -> Nat]]
  BY <1>1 DEF Restart, NameTypeOK
<1>3. NameTypeOK'
  BY <1>1, <1>2 DEF NameTypeOK, Restart
<1>4. QED
  BY <1>3 DEF NameIInv, Forwarded, SyncForwarded, StrayForwarded, IndexOffered,
              SlaveBehindMaster, AckedOnBoth, Known, Restart

-----------------------------------------------------------------------------
(* Every step preserves the invariant.                                     *)
LEMMA NameNext == NameIInv /\ [Next]_vars => NameIInv'
<1> SUFFICES ASSUME NameIInv, [Next]_vars
             PROVE  NameIInv'
  OBVIOUS
<1>1. ASSUME NEW c \in Client, NEW n \in Name, FileInfoGet(c, n)
      PROVE  NameIInv'
  BY <1>1, AnsweredInv DEF FileInfoGet
<1>2. ASSUME NEW c \in Client, NEW n \in Name, NEW l \in Loc,
             FileInfoAdd(c, n, l) \/ FileInfoSet(c, n, l)
      PROVE  NameIInv'
  BY <1>2, AddInv, SetInv
<1>3. ASSUME NEW c \in Client, Refused(c) \/ SendReply(c)
      PROVE  NameIInv'
  BY <1>3, AnsweredInv, SendReplyInv DEF Refused
<1>4. ASSUME NEW c \in Client, Sync(c)
      PROVE  NameIInv'
  BY <1>4, SlaveTakesInv, SyncDoneInv, SyncFailsInv DEF Sync
<1>5. ASSUME NEW k \in stray, SlaveTakesStray(k) \/ StrayLost(k)
      PROVE  NameIInv'
  BY <1>5, SlaveTakesStrayInv, StrayLostInv
<1>6. ASSUME NEW s \in Server, Crash(s) \/ Restart(s)
      PROVE  NameIInv'
  BY <1>6, CrashInv, RestartInv
<1>7. CASE UNCHANGED vars
  BY <1>7 DEF vars, NameIInv, NameTypeOK, Forwarded, SyncForwarded, StrayForwarded,
              IndexOffered, SlaveBehindMaster, AckedOnBoth, Known
<1>8. QED
  BY <1>1, <1>2, <1>3, <1>4, <1>5, <1>6, <1>7 DEF Next

LEMMA NameInductive == Spec => []NameIInv
BY NameInit, NameNext, PTL DEF Spec

-----------------------------------------------------------------------------
(* The pair of servers stays well typed.                                   *)
THEOREM NameTypeCorrect == Spec => []NameTypeOK
<1>1. NameIInv => NameTypeOK
  BY DEF NameIInv
<1>2. QED
  BY <1>1, NameInductive, PTL

(* The slave never knows a name that the master does not.                  *)
THEOREM SlaveStaysBehind == Spec => []SlaveBehindMaster
<1>1. NameIInv => SlaveBehindMaster
  BY DEF NameIInv
<1>2. QED
  BY <1>1, NameInductive, PTL

(* What a client was told is saved is known to both servers from then on.  *)
THEOREM AckedStaysOnBoth == Spec => []AckedOnBoth
<1>1. NameIInv => AckedOnBoth
  BY DEF NameIInv
<1>2. QED
  BY <1>1, NameInductive, PTL

(* The servers give different locations only for names for which different *)
(* locations were registered.                                              *)
THEOREM AgreeWithoutConflict == Spec => []AgreeUnlessConflict
<1>1. NameIInv => AgreeUnlessConflict
  <2> SUFFICES ASSUME NameIInv, NEW n \in Name, Known("slave", n),
                      index["slave"][n] # index["master"][n]
               PROVE  \E l, m \in offered[n] : l # m
    BY DEF AgreeUnlessConflict
  <2>1. Known("master", n)
    BY DEF NameIInv, SlaveBehindMaster
  <2>2. index["slave"][n] \in offered[n] /\ index["master"][n] \in offered[n]
    BY <2>1 DEF NameIInv, Forwarded, IndexOffered, Server
  <2>3. QED
    BY <2>2
<1>2. QED
  BY <1>1, NameInductive, PTL

-----------------------------------------------------------------------------
(* Sessions that wait, and connections to the slave.                       *)

LEMMA ParkedForward ==
    ASSUME NameTypeOK, ParkedIffSync, NEW c \in Client, NEW k, sess[c] = "begin", Forward(c, k)
    PROVE  ParkedIffSync'
<1>1. CASE /\ sess' = [sess EXCEPT ![c] = "parked"]
           /\ sync' = [sync EXCEPT ![c] = [at |-> "write", cmd |-> k]]
  <2>1. sess'[c] = "parked" /\ sync'[c].at = "write"
    BY <1>1 DEF NameTypeOK
  <2>2. \A d \in Client : d # c => sess'[d] = sess[d] /\ sync'[d] = sync[d]
    BY <1>1 DEF NameTypeOK
  <2>3. QED BY <2>1, <2>2 DEF ParkedIffSync
<1>2. CASE sess' = [sess EXCEPT ![c] = "error"] /\ UNCHANGED sync
  BY <1>2 DEF NameTypeOK, ParkedIffSync
<1>3. QED BY <1>1, <1>2 DEF Forward

LEMMA ParkedStopped ==
    ASSUME NameTypeOK, ParkedIffSync, NEW s \in Server, Stopped(s)
    PROVE  ParkedIffSync'
<1>1. CASE s = "master"
  <2>1. \A c \in Client : sess'[c] = "begin" /\ sync'[c] = NoSync
    BY <1>1 DEF Stopped
  <2>2. NoSync.at = "none"
    BY DEF NoSync
  <2>3. \A c \in Client : sess'[c] # "parked" /\ sync'[c].at = "none"
    BY <2>1, <2>2
  <2>4. QED BY <2>3 DEF ParkedIffSync
<1>2. CASE s # "master"
  <2>1. \A c \in Client : sync'[c].at # "none" <=> sync[c].at # "none"
    BY <1>2 DEF Stopped, NoSync, NameTypeOK
  <2>2. QED BY <1>2, <2>1 DEF Stopped, ParkedIffSync
<1>3. QED BY <1>1, <1>2

LEMMA ParkedStep == NameTypeOK /\ ParkedIffSync /\ [Next]_vars => ParkedIffSync'
<1> SUFFICES ASSUME NameTypeOK, ParkedIffSync, [Next]_vars
             PROVE  ParkedIffSync'
  OBVIOUS
<1>1. ASSUME NEW c \in Client, NEW r \in {"found", "error"}, Answered(c, r)
      PROVE  ParkedIffSync'
  BY <1>1 DEF Answered, Received, NameTypeOK, ParkedIffSync
<1>2. ASSUME NEW c \in Client, NEW n \in Name, FileInfoGet(c, n)
      PROVE  ParkedIffSync'
  BY <1>1, <1>2 DEF FileInfoGet
<1>3. ASSUME NEW c \in Client, NEW n \in Name, NEW l \in Loc,
             FileInfoAdd(c, n, l) \/ FileInfoSet(c, n, l)
      PROVE  ParkedIffSync'
  BY <1>3, ParkedForward, ParkedStopped DEF FileInfoAdd, FileInfoSet, Received, Server
<1>4. ASSUME NEW c \in Client, Refused(c) \/ SendReply(c)
      PROVE  ParkedIffSync'
  BY <1>1, <1>4 DEF Refused, SendReply, NameTypeOK, ParkedIffSync
<1>5. ASSUME NEW c \in Client, Sync(c)
      PROVE  ParkedIffSync'
  <2>1. CASE SlaveTakes(c) /\ sync' = [sync EXCEPT ![c].at = "ok"] /\ UNCHANGED sess
    BY <2>1 DEF SlaveTakes, NameTypeOK, ParkedIffSync
  <2>2. CASE SlaveBreaks(sync[c].cmd)
    BY <2>2, ParkedStopped DEF SlaveBreaks, Server
  <2>3. CASE SyncDone(c) \/ SyncFails(c)
    BY <2>3 DEF SyncDone, SyncFails, Finish, NoSync, NameTypeOK, ParkedIffSync
  <2>4. QED BY <1>5, <2>1, <2>2, <2>3 DEF Sync, SlaveTakes, SlaveApplies
<1>6. ASSUME NEW k \in stray, SlaveTakesStray(k) \/ StrayLost(k)
      PROVE  ParkedIffSync'
  <2>1. CASE SlaveBreaks(k)
    BY <2>1, ParkedStopped DEF SlaveBreaks, Server
  <2>2. CASE UNCHANGED <<sess, sync>>
    BY <2>2 DEF ParkedIffSync
  <2>3. QED BY <1>6, <2>1, <2>2 DEF SlaveTakesStray, SlaveApplies, StrayLost
<1>7. ASSUME NEW s \in Server, Crash(s) \/ Restart(s)
      PROVE  ParkedIffSync'
  BY <1>7, ParkedStopped DEF Crash, Restart, ParkedIffSync
<1>8. CASE UNCHANGED vars
  BY <1>8 DEF vars, ParkedIffSync
<1>9. QED
  BY <1>2, <1>3, <1>4, <1>5, <1>6, <1>7, <1>8 DEF Next

-----------------------------------------------------------------------------
(* References.  Each add counts once at most: the ones on their way to the *)
(* slave are told apart by their numbers.                                  *)

OnWay == stray \cup {sync[c].cmd : c \in {d \in Client : sync[d].at = "write"}}

\* The numbers of the adds of a name that are on their way.
Pending(way, n) == {k.no : k \in {j \in way : j.op = "add" /\ j.name = n}}

\* No command is on its way twice.
OneWay ==
    /\ \A k \in OnWay : k \in Command /\ k.no <= ops
    /\ \A j, k \in OnWay : j.no = k.no => j = k
    /\ \A c \in Client : sync[c].at = "write" =>
          /\ sync[c].cmd \notin stray
          /\ \A d \in Client \ {c} : sync[d].at = "write" => sync[d].cmd # sync[c].cmd

Counted ==
    \A n \in Name :
        /\ refs["master"][n] <= added[n]
        /\ refs["slave"][n] + Cardinality(Pending(OnWay, n)) <= added[n]
        /\ \A s \in Server : Known(s, n) => refs[s][n] >= 1

CountIInv == OneWay /\ Counted

LEMMA PendingIsFinite ==
    ASSUME NEW way \in SUBSET Command, NEW n
    PROVE  IsFiniteSet(Pending(way, n)) /\ Cardinality(Pending(way, n)) \in Nat
<1>1. Pending(way, n) \subseteq 1..MaxOps
  BY DEF Pending, Command
<1>2. IsFiniteSet(1..MaxOps)
  BY NameServerAssumption, FS_Interval
<1>3. IsFiniteSet(Pending(way, n))
  BY <1>1, <1>2, FS_Subset
<1>4. QED BY <1>3, FS_CardinalityType

LEMMA PendingFewer ==
    ASSUME NEW way \in SUBSET Command, NEW new \in SUBSET way, NEW n
    PROVE  Cardinality(Pending(new, n)) <= Cardinality(Pending(way, n))
<1>1. Pending(new, n) \subseteq Pending(way, n)
  BY DEF Pending
<1>2. IsFiniteSet(Pending(way, n))
  BY PendingIsFinite
<1>3. QED BY <1>1, <1>2, FS_Subset

LEMMA PendingMore ==
    ASSUME NEW way \in SUBSET Command, NEW k \in Command, NEW n
    PROVE  Cardinality(Pending(way \cup {k}, n)) <=
               Cardinality(Pending(way, n)) + (IF k.op = "add" /\ k.name = n THEN 1 ELSE 0)
<1>1. IsFiniteSet(Pending(way, n)) /\ Cardinality(Pending(way, n)) \in Nat
  BY PendingIsFinite
<1>2. CASE k.op = "add" /\ k.name = n
  <2>1. Pending(way \cup {k}, n) = Pending(way, n) \cup {k.no}
    BY <1>2 DEF Pending
  <2>2. Cardinality(Pending(way, n) \cup {k.no}) =
           IF k.no \in Pending(way, n) THEN Cardinality(Pending(way, n))
           ELSE Cardinality(Pending(way, n)) + 1
    BY <1>1, FS_AddElement
  <2> DEFINE old == Cardinality(Pending(way, n))
             more == Cardinality(Pending(way \cup {k}, n))
  <2>3. old \in Nat /\ (more = old \/ more = old + 1)
    BY <1>1, <2>1, <2>2
  <2> HIDE DEF old, more
  <2>4. more <= old + 1
    BY <2>3
  <2>5. QED BY <1>2, <2>4 DEF old, more
<1>3. CASE ~(k.op = "add" /\ k.name = n)
  <2>1. Pending(way \cup {k}, n) = Pending(way, n)
    BY <1>3 DEF Pending
  <2>2. QED BY <1>1, <1>3, <2>1
<1>4. QED BY <1>2, <1>3

LEMMA PendingLess ==
    ASSUME NEW way \in SUBSET Command, \A j, k \in way : j.no = k.no => j = k,
           NEW k \in way, k.op = "add"
    PROVE  Cardinality(Pending(way \ {k}, k.name)) + 1 = Cardinality(Pending(way, k.name))
<1> DEFINE n == k.name
           p == Pending(way, n)
<1>1. IsFiniteSet(p) /\ Cardinality(p) \in Nat
  BY PendingIsFinite
<1>2. k.no \in p
  BY DEF Pending
<1>3. Pending(way \ {k}, n) = p \ {k.no}
  BY DEF Pending
<1>4. Cardinality(p \ {k.no}) = Cardinality(p) - 1
  BY <1>1, <1>2, FS_RemoveElement
<1> DEFINE old == Cardinality(p)
           less == Cardinality(Pending(way \ {k}, n))
<1>5. old \in Nat /\ less = old - 1
  BY <1>1, <1>3, <1>4
<1> HIDE DEF old, less
<1>6. less + 1 = old
  BY <1>5
<1>7. QED BY <1>6 DEF old, less

-----------------------------------------------------------------------------
\* Whatever is on its way still was before: it is still there once only.
LEMMA FewerOneWay ==
    ASSUME OneWay, NameTypeOK, ops' \in Nat, ops' >= ops, OnWay' \subseteq OnWay,
           \A c \in Client : sync'[c].at = "write" =>
               /\ sync[c].at = "write" /\ sync'[c].cmd = sync[c].cmd
               /\ sync[c].cmd \notin stray'
    PROVE  OneWay'
<1>1. \A k \in OnWay : k \in Command /\ k.no <= ops
  BY DEF OneWay
<1>2. ops \in Nat /\ \A k \in Command : k.no \in Nat
  BY NameServerAssumption DEF NameTypeOK, Command
<1>3. \A k \in OnWay' : k \in Command /\ k.no <= ops'
  BY <1>1, <1>2
<1>4. \A j, k \in OnWay' : j.no = k.no => j = k
  BY DEF OneWay
<1>5. \A c \in Client : sync'[c].at = "write" =>
         /\ sync'[c].cmd \notin stray'
         /\ \A d \in Client \ {c} : sync'[d].at = "write" => sync'[d].cmd # sync'[c].cmd
  BY DEF OneWay
<1>6. QED BY <1>3, <1>4, <1>5 DEF OneWay

\* A step that counts nothing and sends nothing.
LEMMA QuietCounts ==
    ASSUME NameIInv, CountIInv, OneWay', OnWay' \subseteq OnWay, UNCHANGED <<index, refs, added>>
    PROVE  CountIInv'
<1>1. OnWay \in SUBSET Command /\ OnWay' \in SUBSET OnWay
  BY DEF CountIInv, OneWay
<1>2. refs \in [Server -> [Name -> Nat]] /\ added \in [Name -> Nat]
  BY DEF NameIInv, NameTypeOK
<1>3. ASSUME NEW n \in Name
      PROVE  refs["slave"][n] + Cardinality(Pending(OnWay', n)) <= added[n]
  <2>1. /\ Cardinality(Pending(OnWay', n)) <= Cardinality(Pending(OnWay, n))
        /\ Cardinality(Pending(OnWay, n)) \in Nat /\ Cardinality(Pending(OnWay', n)) \in Nat
    BY <1>1, PendingFewer, PendingIsFinite
  <2>2. refs["slave"][n] + Cardinality(Pending(OnWay, n)) <= added[n]
    BY DEF CountIInv, Counted
  <2>3. refs["slave"][n] \in Nat /\ added[n] \in Nat
    BY <1>2 DEF Server
  <2>4. QED BY <2>1, <2>2, <2>3
<1>4. Counted'
  BY <1>3 DEF CountIInv, Counted, Known
<1>5. QED BY <1>4 DEF CountIInv

\* What is forwarded is new.
LEMMA ForwardOneWay ==
    ASSUME NameIInv, OneWay, NEW c \in Client, NEW k \in Command, k.no = ops + 1,
           Forward(c, k), ops' = ops + 1, stray' = stray
    PROVE  OneWay' /\ OnWay' \subseteq OnWay \cup {k}
<1>1. NameTypeOK /\ ops \in Nat
  BY NameServerAssumption DEF NameIInv, NameTypeOK
<1>2. \A d \in Client : sync'[d] = sync[d] \/ (d = c /\ sync'[d].at = "write" /\ sync'[d].cmd = k)
  BY <1>1 DEF Forward, NameTypeOK
<1>3. OnWay' \subseteq OnWay \cup {k}
  BY <1>2 DEF OnWay
<1>4. \A j \in OnWay : j \in Command /\ j.no <= ops /\ j.no \in Nat
  BY NameServerAssumption DEF OneWay, Command
<1>5. \A j \in OnWay : j.no # k.no
  BY <1>1, <1>4
<1>6. \A j \in OnWay' : j \in Command /\ j.no <= ops'
  BY <1>1, <1>3, <1>4
<1>7. \A i, j \in OnWay' : i.no = j.no => i = j
  BY <1>3, <1>5 DEF OneWay
<1>8. ASSUME NEW d \in Client, sync'[d].at = "write"
      PROVE  /\ sync'[d].cmd \notin stray'
             /\ \A e \in Client \ {d} : sync'[e].at = "write" => sync'[e].cmd # sync'[d].cmd
  <2>1. k \notin stray /\ \A e \in Client : sync[e].at = "write" => sync[e].cmd # k
    BY <1>5 DEF OnWay
  <2>2. QED BY <1>2, <1>8, <2>1 DEF OneWay
<1>9. QED BY <1>3, <1>6, <1>7, <1>8 DEF OneWay

LEMMA AddCounts ==
    ASSUME NameIInv, CountIInv, NEW c \in Client, NEW n \in Name, NEW l \in Loc,
           FileInfoAdd(c, n, l)
    PROVE  CountIInv'
<1> DEFINE k == Sent("add", n, l)
<1>1. NameTypeOK /\ OnIndex /\ ops \in Nat /\ ops + 1 <= MaxOps /\ ops' = ops + 1 /\ stray' = stray
  BY NameServerAssumption DEF NameIInv, NameTypeOK, OnIndex, FileInfoAdd, Received
<1>2. k \in Command /\ k.no = ops + 1 /\ k.op = "add" /\ k.name = n
  BY <1>1, NameServerAssumption DEF Sent, Command
<1>3. Forward(c, k) /\ Apply("master", n, l)
      /\ added' = [added EXCEPT ![n] = @ + 1]
  BY DEF FileInfoAdd, Given
<1> HIDE DEF k
<1>4. OneWay' /\ OnWay' \subseteq OnWay \cup {k}
  BY <1>1, <1>2, <1>3, ForwardOneWay DEF CountIInv
<1>5. OnWay \in SUBSET Command /\ OnWay' \in SUBSET Command
  BY <1>4 DEF CountIInv, OneWay
<1>6. "master" \in Server /\ "slave" \in Server
  BY DEF Server
<1>7. ASSUME NEW m \in Name
      PROVE  /\ refs'["master"][m] <= added'[m]
             /\ refs'["slave"][m] + Cardinality(Pending(OnWay', m)) <= added'[m]
             /\ \A s \in Server : Known(s, m)' => refs'[s][m] >= 1
  <2> DEFINE one == IF m = n THEN 1 ELSE 0
             old == Cardinality(Pending(OnWay, m))
             new == Cardinality(Pending(OnWay', m))
  <2>1. old \in Nat /\ new \in Nat /\ new <= old + one
    <3> DEFINE more == OnWay \cup {k}
    <3>1. more \in SUBSET Command /\ OnWay' \in SUBSET more
      BY <1>2, <1>4, <1>5
    <3>2. Cardinality(Pending(more, m)) <= old + one
      BY <1>2, <1>5, PendingMore
    <3> HIDE DEF more
    <3>3. new <= Cardinality(Pending(more, m)) /\ Cardinality(Pending(more, m)) \in Nat
      BY <3>1, PendingFewer, PendingIsFinite
    <3>4. old \in Nat /\ new \in Nat
      BY <1>5, PendingIsFinite
    <3>5. QED BY <3>2, <3>3, <3>4
  <2>2. /\ refs["master"][m] \in Nat /\ refs["slave"][m] \in Nat /\ added[m] \in Nat
        /\ refs["master"][m] <= added[m] /\ refs["slave"][m] + old <= added[m]
        /\ \A s \in Server : Known(s, m) => refs[s][m] >= 1
    BY <1>1, <1>6 DEF OnIndex, CountIInv, Counted
  <2>3. added'[m] = added[m] + one
    BY <1>1, <1>3 DEF OnIndex
  <2>4. refs'["slave"][m] = refs["slave"][m] /\ refs'["master"][m] = refs["master"][m] + one
    BY <1>1, <1>3, <1>6 DEF OnIndex, Apply
  <2>5. ASSUME NEW s \in Server, Known(s, m)' PROVE refs'[s][m] >= 1
    <3>1. Known(s, m) \/ (s = "master" /\ m = n)
      BY <1>1, <1>3, <1>6, <2>5, ApplyLemma DEF Known
    <3>2. s = "master" \/ s = "slave"
      BY DEF Server
    <3>3. QED BY <2>2, <2>4, <3>1, <3>2
  <2> HIDE DEF old, new
  <2>6. QED BY <2>1, <2>2, <2>3, <2>4, <2>5 DEF old, new
<1>8. Counted'
  BY <1>7 DEF Counted
<1>9. QED BY <1>4, <1>8 DEF CountIInv

\* The slave takes a command off its way.
LEMMA SlaveCounts ==
    ASSUME NameIInv, CountIInv, NEW k \in OnWay, SlaveApplies(k), OnWay' \subseteq OnWay \ {k},
           OneWay'
    PROVE  CountIInv'
<1>1. OnIndex /\ OnWay \in SUBSET Command /\ k \in Command /\ k.name \in Name /\ k.loc \in Loc
  BY DEF NameIInv, NameTypeOK, OnIndex, CountIInv, OneWay, Command
<1>2. CASE UNCHANGED <<index, refs>>
  <2>1. UNCHANGED <<index, refs, added>> /\ OnWay' \subseteq OnWay
    BY <1>2 DEF SlaveApplies
  <2>2. QED BY <2>1, QuietCounts
<1>3. CASE k.op = "add" /\ Apply("slave", k.name, k.loc)
  <2>1. added' = added
    BY DEF SlaveApplies
  <2>2. "master" \in Server /\ "slave" \in Server
    BY DEF Server
  <2>3. ASSUME NEW m \in Name
        PROVE  /\ refs'["master"][m] <= added'[m]
               /\ refs'["slave"][m] + Cardinality(Pending(OnWay', m)) <= added'[m]
               /\ \A s \in Server : Known(s, m)' => refs'[s][m] >= 1
    <3> DEFINE one == IF m = k.name THEN 1 ELSE 0
               old == Cardinality(Pending(OnWay, m))
               new == Cardinality(Pending(OnWay', m))
    <3>1. old \in Nat /\ new \in Nat /\ new + one <= old
      <4> DEFINE less == OnWay \ {k}
      <4>1. less \in SUBSET Command /\ OnWay' \in SUBSET less /\ less \in SUBSET OnWay
            /\ OnWay' \in SUBSET Command
        BY <1>1
      <4>2. \A i, j \in OnWay : i.no = j.no => i = j
        BY DEF CountIInv, OneWay
      <4>3. m = k.name => Cardinality(Pending(less, m)) + 1 = old
        BY <1>1, <1>3, <4>2, PendingLess
      <4> HIDE DEF less
      <4>4. /\ new <= Cardinality(Pending(less, m)) /\ Cardinality(Pending(less, m)) <= old
            /\ Cardinality(Pending(less, m)) \in Nat
        BY <1>1, <4>1, PendingFewer, PendingIsFinite
      <4>5. old \in Nat /\ new \in Nat
        BY <1>1, <4>1, PendingIsFinite
      <4>6. QED BY <4>3, <4>4, <4>5
    <3>2. /\ refs["master"][m] \in Nat /\ refs["slave"][m] \in Nat /\ added[m] \in Nat
          /\ refs["master"][m] <= added[m] /\ refs["slave"][m] + old <= added[m]
          /\ \A s \in Server : Known(s, m) => refs[s][m] >= 1
      BY <1>1, <2>2 DEF OnIndex, CountIInv, Counted
    <3>3. refs'["master"][m] = refs["master"][m] /\ refs'["slave"][m] = refs["slave"][m] + one
      BY <1>1, <1>3, <2>2 DEF OnIndex, Apply
    <3>4. ASSUME NEW s \in Server, Known(s, m)' PROVE refs'[s][m] >= 1
      <4>1. Known(s, m) \/ (s = "slave" /\ m = k.name)
        BY <1>1, <1>3, <2>2, <3>4, ApplyLemma DEF Known
      <4>2. s = "master" \/ s = "slave"
        BY DEF Server
      <4>3. QED BY <3>2, <3>3, <4>1, <4>2
    <3> HIDE DEF old, new
    <3>5. QED BY <2>1, <3>1, <3>2, <3>3, <3>4 DEF old, new
  <2>4. Counted'
    BY <2>3 DEF Counted
  <2>5. QED BY <2>4 DEF CountIInv
<1>4. QED BY <1>2, <1>3 DEF SlaveApplies

LEMMA StoppedCounts ==
    ASSUME NameIInv, CountIInv, NEW s \in Server, Stopped(s), UNCHANGED <<index, refs, added>>,
           ops' \in Nat, ops' >= ops
    PROVE  CountIInv'
<1>1. NameTypeOK
  BY DEF NameIInv
<1>2. CASE s = "master"
  <2>1. /\ sync' = [c \in Client |-> NoSync] /\ stray' = OnWay
    BY <1>2 DEF Stopped, OnWay
  <2>2. \A c \in Client : sync'[c].at = "none"
    BY <2>1 DEF NoSync
  <2>3. OnWay' \subseteq OnWay
    BY <2>1, <2>2 DEF OnWay
  <2>4. OneWay'
    BY <1>1, <2>2, <2>3, FewerOneWay DEF CountIInv
  <2>5. QED BY <2>3, <2>4, QuietCounts
<1>3. CASE s = "slave"
  <2>1. /\ sync' = [c \in Client |->
                      IF sync[c].at = "none" THEN NoSync ELSE [sync[c] EXCEPT !.at = "lost"]]
        /\ stray' = {}
    BY <1>3 DEF Stopped
  <2>2. \A c \in Client : sync'[c].at # "write"
    <3> TAKE c \in Client
    <3>1. CASE sync[c].at = "none"
      BY <2>1, <3>1 DEF NoSync
    <3>2. CASE sync[c].at # "none"
      BY <1>1, <2>1, <3>2 DEF NameTypeOK
    <3>3. QED BY <3>1, <3>2
  <2>3. OnWay' \subseteq OnWay
    BY <2>1, <2>2 DEF OnWay
  <2>4. OneWay'
    BY <1>1, <2>2, <2>3, FewerOneWay DEF CountIInv
  <2>5. QED BY <2>3, <2>4, QuietCounts
<1>4. QED BY <1>2, <1>3 DEF Server

LEMMA CountStep == NameIInv /\ CountIInv /\ [Next]_vars => CountIInv'
<1> SUFFICES ASSUME NameIInv, CountIInv, [Next]_vars
             PROVE  CountIInv'
  OBVIOUS
<1>1. NameTypeOK /\ OneWay /\ ops \in Nat
  BY NameServerAssumption DEF NameIInv, NameTypeOK, CountIInv
<1>2. ASSUME UNCHANGED <<index, refs, added, stray, sync>>, ops' = ops \/ ops' = ops + 1
      PROVE  CountIInv'
  <2>1. OnWay' \subseteq OnWay
    BY <1>2 DEF OnWay
  <2>2. OneWay'
    BY <1>1, <1>2, <2>1, FewerOneWay DEF OneWay
  <2>3. QED BY <1>2, <2>1, <2>2, QuietCounts
<1>3. ASSUME NEW k, SlaveBreaks(k) PROVE CountIInv'
  BY <1>1, <1>3, StoppedCounts DEF SlaveBreaks, Server
<1>4. ASSUME NEW c \in Client, Refused(c) \/ \E n \in Name : FileInfoGet(c, n)
      PROVE  CountIInv'
  BY <1>2, <1>4 DEF FileInfoGet, Refused, Answered, Received
<1>5. ASSUME NEW c \in Client, NEW n \in Name, NEW l \in Loc, FileInfoSet(c, n, l)
      PROVE  CountIInv'
  <2> DEFINE k == Sent("set", n, l)
  <2>1. ops < MaxOps /\ ops' = ops + 1 /\ UNCHANGED <<index, refs, added>>
    BY <1>5 DEF FileInfoSet, Received
  <2>2. CASE Stopped("master")
    BY <1>1, <2>1, <2>2, StoppedCounts DEF Server
  <2>3. CASE Forward(c, k) /\ stray' = stray
    <3>1. k \in Command /\ k.no = ops + 1 /\ k.op = "set"
      BY <1>1, <2>1, NameServerAssumption DEF Sent, Command
    <3> HIDE DEF k
    <3>2. OneWay' /\ OnWay' \subseteq OnWay \cup {k}
      BY <1>1, <2>1, <2>3, <3>1, ForwardOneWay
    <3>3. OnWay \in SUBSET Command /\ OnWay' \in SUBSET (OnWay \cup {k})
      BY <1>1, <3>2 DEF OneWay
    <3>4. \A m : Pending(OnWay', m) \subseteq Pending(OnWay, m)
      BY <3>1, <3>3 DEF Pending
    <3>5. ASSUME NEW m \in Name
          PROVE  refs["slave"][m] + Cardinality(Pending(OnWay', m)) <= added[m]
      <4>1. /\ Cardinality(Pending(OnWay', m)) <= Cardinality(Pending(OnWay, m))
            /\ Cardinality(Pending(OnWay, m)) \in Nat /\ Cardinality(Pending(OnWay', m)) \in Nat
        <5>1. IsFiniteSet(Pending(OnWay, m)) /\ Cardinality(Pending(OnWay, m)) \in Nat
          BY <3>3, PendingIsFinite
        <5>2. QED BY <3>4, <5>1, FS_Subset, FS_CardinalityType
      <4>2. refs["slave"][m] + Cardinality(Pending(OnWay, m)) <= added[m]
        BY DEF CountIInv, Counted
      <4>3. refs["slave"][m] \in Nat /\ added[m] \in Nat
        BY <1>1 DEF NameTypeOK, Server
      <4>4. QED BY <4>1, <4>2, <4>3
    <3>6. Counted'
      BY <2>1, <3>5 DEF CountIInv, Counted, Known
    <3>7. QED BY <3>2, <3>6 DEF CountIInv
  <2>4. QED BY <1>5, <2>2, <2>3 DEF FileInfoSet
<1>6. ASSUME NEW c \in Client, SendReply(c) PROVE CountIInv'
  BY <1>2, <1>6 DEF SendReply
<1>7. ASSUME NEW c \in Client, SlaveTakes(c) PROVE CountIInv'
  <2> DEFINE k == sync[c].cmd
  <2>1. CASE SlaveApplies(k) /\ sync' = [sync EXCEPT ![c].at = "ok"] /\ stray' = stray
    <3>1. sync[c].at = "write" /\ ops' = ops
      BY <1>7, <2>1 DEF SlaveTakes, SlaveApplies
    <3>2. k \in OnWay
      BY <3>1 DEF OnWay
    <3>3. sync'[c].at = "ok" /\ \A d \in Client \ {c} : sync'[d] = sync[d]
      BY <1>1, <2>1 DEF NameTypeOK
    <3>4. k \notin stray /\ \A d \in Client \ {c} : sync[d].at = "write" => sync[d].cmd # k
      BY <1>1, <3>1 DEF OneWay
    <3> HIDE DEF k
    <3>5. OnWay' \subseteq OnWay \ {k}
      BY <2>1, <3>3, <3>4 DEF OnWay
    <3>6. \A d \in Client : sync'[d].at = "write" =>
             /\ sync[d].at = "write" /\ sync'[d].cmd = sync[d].cmd
             /\ sync[d].cmd \notin stray'
      BY <1>1, <2>1, <3>3 DEF OneWay
    <3>7. OneWay'
      BY <1>1, <3>1, <3>5, <3>6, FewerOneWay
    <3>8. QED BY <2>1, <3>2, <3>5, <3>7, SlaveCounts
  <2>2. QED BY <1>3, <1>7, <2>1 DEF SlaveTakes
<1>8. ASSUME NEW c \in Client, SyncDone(c) \/ SyncFails(c) PROVE CountIInv'
  <2>1. /\ sync' = [sync EXCEPT ![c] = NoSync] /\ sync[c].at # "none"
        /\ UNCHANGED <<index, refs, added, ops>>
        /\ \/ stray' = stray
           \/ sync[c].at = "write" /\ stray' = stray \cup {sync[c].cmd}
    BY <1>8 DEF SyncDone, SyncFails, Finish
  <2>2. sync'[c].at = "none" /\ \A d \in Client \ {c} : sync'[d] = sync[d]
    BY <1>1, <2>1 DEF NameTypeOK, NoSync
  <2>3. OnWay' \subseteq OnWay
    BY <2>1, <2>2 DEF OnWay
  <2>4. \A d \in Client : sync'[d].at = "write" =>
           /\ sync[d].at = "write" /\ sync'[d].cmd = sync[d].cmd
           /\ sync[d].cmd \notin stray'
    BY <1>1, <2>1, <2>2 DEF OneWay
  <2>5. OneWay'
    BY <1>1, <2>1, <2>3, <2>4, FewerOneWay
  <2>6. QED BY <2>1, <2>3, <2>5, QuietCounts
<1>9. ASSUME NEW k \in stray, SlaveTakesStray(k) \/ StrayLost(k) PROVE CountIInv'
  <2>1. CASE stray' = stray \ {k} /\ sync' = sync /\ ops' = ops
             /\ (SlaveApplies(k) \/ UNCHANGED <<index, refs, added>>)
    <3>1. k \in OnWay /\ \A c \in Client : sync[c].at = "write" => sync[c].cmd # k
      BY <1>1 DEF OneWay, OnWay
    <3>2. OnWay' \subseteq OnWay \ {k}
      BY <2>1, <3>1 DEF OnWay
    <3>3. \A d \in Client : sync'[d].at = "write" =>
             /\ sync[d].at = "write" /\ sync'[d].cmd = sync[d].cmd
             /\ sync[d].cmd \notin stray'
      BY <1>1, <2>1 DEF OneWay
    <3>4. OneWay'
      BY <1>1, <2>1, <3>2, <3>3, FewerOneWay
    <3>5. QED BY <2>1, <3>1, <3>2, <3>4, SlaveCounts, QuietCounts
  <2>2. QED BY <1>3, <1>9, <2>1 DEF SlaveTakesStray, StrayLost, SlaveApplies
<1>10. ASSUME NEW s \in Server, Crash(s) PROVE CountIInv'
  BY <1>1, <1>10, StoppedCounts DEF Crash
<1>11. ASSUME NEW s \in Server, Restart(s) PROVE CountIInv'
  <2>1. /\ UNCHANGED <<index, added, sync, stray, ops>>
        /\ refs' = [refs EXCEPT ![s] = [n \in Name |-> IF Known(s, n) THEN 1 ELSE 0]]
    BY <1>11 DEF Restart
  <2>2. OnWay' = OnWay
    BY <2>1 DEF OnWay
  <2>3. OneWay'
    BY <1>1, <2>1, <2>2 DEF OneWay
  <2>4. refs \in [Server -> [Name -> Nat]] /\ added \in [Name -> Nat]
    BY <1>1 DEF NameTypeOK
  <2>5. ASSUME NEW t \in Server, NEW n \in Name
        PROVE  /\ refs'[t][n] \in Nat /\ refs'[t][n] <= refs[t][n]
               /\ Known(t, n) => refs'[t][n] >= 1
    <3>1. refs'[t][n] = IF t = s THEN (IF Known(s, n) THEN 1 ELSE 0) ELSE refs[t][n]
      BY <2>1, <2>4
    <3>2. refs[t][n] \in Nat /\ (Known(t, n) => refs[t][n] >= 1)
      BY <2>4 DEF CountIInv, Counted
    <3>3. QED BY <3>1, <3>2
  <2>6. ASSUME NEW n \in Name
        PROVE  /\ refs'["master"][n] <= added[n]
               /\ refs'["slave"][n] + Cardinality(Pending(OnWay, n)) <= added[n]
    <3>1. OnWay \in SUBSET Command
      BY <1>1 DEF OneWay
    <3>2. Cardinality(Pending(OnWay, n)) \in Nat
      BY <3>1, PendingIsFinite
    <3>3. /\ refs["master"][n] <= added[n]
          /\ refs["slave"][n] + Cardinality(Pending(OnWay, n)) <= added[n]
      BY DEF CountIInv, Counted
    <3>4. /\ refs["master"][n] \in Nat /\ refs["slave"][n] \in Nat /\ added[n] \in Nat
          /\ refs'["master"][n] \in Nat /\ refs'["slave"][n] \in Nat
          /\ refs'["master"][n] <= refs["master"][n] /\ refs'["slave"][n] <= refs["slave"][n]
      BY <2>4, <2>5 DEF Server
    <3>5. QED BY <3>2, <3>3, <3>4
  <2>7. Counted'
    BY <2>1, <2>2, <2>5, <2>6 DEF Counted, Known
  <2>8. QED BY <2>3, <2>7 DEF CountIInv
<1>12. CASE UNCHANGED vars
  BY <1>2, <1>12 DEF vars
<1>13. QED
  BY <1>4, <1>5, <1>6, <1>7, <1>8, <1>9, <1>10, <1>11, <1>12, AddCounts DEF Next, Sync

LEMMA CountInit == Init => CountIInv
<1> SUFFICES ASSUME Init PROVE CountIInv
  OBVIOUS
<1>1. /\ stray = {} /\ sync = [c \in Client |-> NoSync] /\ added = [n \in Name |-> 0]
      /\ refs = [s \in Server |-> [n \in Name |-> 0]]
      /\ index = [s \in Server |-> [n \in Name |-> NoLoc]]
  BY DEF Init
<1>2. \A c \in Client : sync[c].at = "none"
  BY <1>1 DEF NoSync
<1>3. OnWay = {}
  BY <1>1, <1>2 DEF OnWay
<1>4. OneWay
  BY <1>2, <1>3 DEF OneWay
<1>5. \A n \in Name : Pending(OnWay, n) = {}
  BY <1>3 DEF Pending
<1>6. Cardinality({}) = 0
  BY FS_EmptySet
<1>7. Counted
  BY <1>1, <1>5, <1>6 DEF Counted, Known, Server
<1>8. QED BY <1>4, <1>7 DEF CountIInv

-----------------------------------------------------------------------------
(* A client's session is parked exactly while there is a connection to the *)
(* slave for it (name_server_sync and __name_server_sync_finish): nobody   *)
(* waits for an answer that cannot come, and nobody is answered twice.     *)
THEOREM ParkedOnlyForSync == Spec => []ParkedIffSync
<1>1. Init => ParkedIffSync
  <2>1. ASSUME Init PROVE \A c \in Client : sess[c] = "begin" /\ sync[c] = NoSync
    BY <2>1 DEF Init
  <2>2. NoSync.at = "none"
    BY DEF NoSync
  <2>3. ASSUME Init PROVE \A c \in Client : sess[c] # "parked" /\ sync[c].at = "none"
    BY <2>1, <2>2, <2>3
  <2>4. QED BY <2>3 DEF ParkedIffSync
<1>2. NameIInv => NameTypeOK
  BY DEF NameIInv
<1>3. QED
  BY <1>1, <1>2, ParkedStep, NameInductive, PTL DEF Spec

(* A registration raises the count of its name once on each server at most *)
(* (fblock_mem_add), whatever breaks, comes late or is restarted between   *)
(* the master and the slave (name_server_sync, hashdb_init).               *)
THEOREM AddsCountOnce == Spec => []CountedOnce
<1>1. NameIInv /\ CountIInv => CountedOnce
  <2> SUFFICES ASSUME NameIInv, CountIInv, NEW n \in Name
               PROVE  refs["master"][n] <= added[n] /\ refs["slave"][n] <= added[n]
    BY DEF CountedOnce, Server
  <2>1. Cardinality(Pending(OnWay, n)) \in Nat
    BY PendingIsFinite DEF CountIInv, OneWay
  <2>2. refs["slave"][n] \in Nat /\ added[n] \in Nat
    BY DEF NameIInv, NameTypeOK, Server
  <2>3. refs["master"][n] <= added[n]
        /\ refs["slave"][n] + Cardinality(Pending(OnWay, n)) <= added[n]
    BY DEF CountIInv, Counted
  <2>4. QED BY <2>1, <2>2, <2>3
<1>2. QED
  BY <1>1, CountInit, CountStep, NameInductive, PTL DEF Spec

(* What is on its way from the master to the slave, or lost on the way, the *)
(* master has done before (fblock_mem_add, then name_server_sync), and a    *)
(* location that is given was offered by a client.                          *)
THEOREM MasterDoesFirst == Spec => []Forwarded
<1>1. NameIInv => Forwarded
  BY DEF NameIInv
<1>2. QED
  BY <1>1, NameInductive, PTL
=============================================================================
