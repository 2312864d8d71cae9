---------------------------- MODULE DataServerProofs ----------------------------
(***************************************************************************)
(* Whatever fails and however the sessions interleave:                     *)
(*                                                                         *)
(*   - a session is parked just while its file is being registered, and a  *)
(*     client is told that its file is saved only when the name server has *)
(*     the name;                                                           *)
(*   - the sessions call the block store only in the orders it allows, so  *)
(*     that all it promises holds under them;                              *)
(*   - what is registered has been written, what is written, buffered and  *)
(*     still to come is what was declared, and num counts the uploads.     *)
(***************************************************************************)
EXTENDS DataServer, BlockStoreProofs, FiniteSetTheorems, TLAPS

SessionFields == {"state", "next", "proc", "fb", "done", "buf", "bf", "reply"}

Held(s) == s.fb.name \in Name /\ s.fb.block \in Block

\* What a session, its task and its request to the name server have to do with
\* each other: while a body is received or registered the file is there, and
\* state and next only part ways over a reply.
InOrder(s, t, k) ==
    /\ s.next = "READ" => Held(s)
    /\ s.state = "READ" /\ t # "NOOP" => s.next = "READ"
    /\ s.state = "WRITE" => s.next = "WRITE"
    /\ t = "NOOP" <=> k # "none"
    /\ k # "none" => s.next = "BEGIN" /\ Held(s) /\ s.done = 0

IsSession(s) ==
    /\ s = [f \in SessionFields |-> s[f]]
    /\ s.fb = [f \in {"name", "block", "off", "size"} |-> s.fb[f]]

DataShape ==
    /\ sess = [c \in Client |-> sess[c]] /\ task = [c \in Client |-> task[c]]
    /\ child = [c \in Client |-> child[c]] /\ index = [n \in Name |-> index[n]]
    /\ \A c \in Client : IsSession(sess[c])
    /\ cbf \in Block \cup {NoBlock}

SessionsInOrder == \A c \in Client : InOrder(sess[c], task[c], child[c])

OkIsRegistered ==
    \A c \in Client : child[c] = "ok" => index[sess[c].fb.name] # Unregistered

AckedInOrder == \A a \in acked : a.who[2] \in Name /\ index[a.who[2]] # Unregistered

DataIInv == DataShape /\ SessionsInOrder /\ OkIsRegistered /\ AckedInOrder

-----------------------------------------------------------------------------
LEMMA DataInitHolds == Init => DataIInv
<1>1. SUFFICES ASSUME Init PROVE DataIInv
  OBVIOUS
<1>2. IsSession(NewSession) /\ InOrder(NewSession, "READ", "none")
  BY DEF IsSession, NewSession, NoFile, SessionFields, InOrder
<1>3. \A c \in Client : sess[c] = NewSession /\ task[c] = "READ" /\ child[c] = "none"
  BY <1>1 DEF Init
<1>4. DataShape
  BY <1>1, <1>2, <1>3 DEF Init, DataShape, StoreInit
<1>5. SessionsInOrder
  BY <1>2, <1>3 DEF SessionsInOrder
<1>6. OkIsRegistered
  BY <1>3 DEF OkIsRegistered
<1>7. AckedInOrder
  BY <1>1 DEF Init, AckedInOrder
<1>8. QED BY <1>4, <1>5, <1>6, <1>7 DEF DataIInv

\* A step of one session leaves the others as they are; while the file of a
\* request that has been taken stays the same, so does what is said of it.
LEMMA OneSession ==
    ASSUME DataIInv, NEW c \in Client, NEW s, NEW t, NEW k,
           sess' = [sess EXCEPT ![c] = s], task' = [task EXCEPT ![c] = t],
           child' = [child EXCEPT ![c] = k], UNCHANGED <<index, acked>>,
           IsSession(s), InOrder(s, t, k), cbf' \in Block \cup {NoBlock},
           k = "ok" => child[c] = "ok" /\ s.fb = sess[c].fb
    PROVE  DataIInv'
<1>1. /\ sess'[c] = s /\ task'[c] = t /\ child'[c] = k
      /\ \A d \in Client \ {c} : /\ sess'[d] = sess[d] /\ task'[d] = task[d]
                                 /\ child'[d] = child[d]
  BY DEF DataIInv, DataShape
<1>2. /\ sess' = [d \in Client |-> sess'[d]] /\ task' = [d \in Client |-> task'[d]]
      /\ child' = [d \in Client |-> child'[d]] /\ index' = [n \in Name |-> index'[n]]
  BY DEF DataIInv, DataShape
<1>3. \A d \in Client : IsSession(sess'[d])
  BY <1>1 DEF DataIInv, DataShape
<1>4. DataShape'
  BY <1>2, <1>3 DEF DataShape, IsSession
<1>5. SessionsInOrder'
  <2>1. \A d \in Client : InOrder(sess'[d], task'[d], child'[d])
    BY <1>1 DEF DataIInv, SessionsInOrder
  <2>2. QED BY <2>1 DEF SessionsInOrder, InOrder, Held
<1>6. OkIsRegistered'
  BY <1>1 DEF DataIInv, OkIsRegistered, Unregistered
<1>7. AckedInOrder'
  BY DEF DataIInv, AckedInOrder, Unregistered
<1>8. QED BY <1>4, <1>5, <1>6, <1>7 DEF DataIInv

\* The current block file, whatever happens to the store.
LEMMA CurrentBlock ==
    ASSUME DataShape
    PROVE  /\ \A w, size, pos : \A b \in Block : AppendCreate(w, size, pos, b) => cbf' = b
           /\ \A w, size : AppendExtend(w, size) => cbf' = cbf /\ cbf \in Block
           /\ \A size : AppendCreateFail(size) \/ AppendExtendFail(size) => cbf' = cbf
           /\ UNCHANGED storeVars => cbf' = cbf
  BY DEF DataShape, AppendCreate, AppendExtend, MustCreate, AppendCreateFail, AppendExtendFail,
         storeVars

LEMMA NothingMoves ==
    ASSUME DataIInv, UNCHANGED <<sess, task, child, index, acked>>, cbf' \in Block \cup {NoBlock}
    PROVE  DataIInv'
  BY DEF DataIInv, DataShape, SessionsInOrder, InOrder, Held, IsSession, OkIsRegistered,
         AckedInOrder, Unregistered

LEMMA Unmoved ==
    ASSUME DataShape, NEW c \in Client
    PROVE  /\ sess = [sess EXCEPT ![c] = sess[c]] /\ task = [task EXCEPT ![c] = task[c]]
           /\ child = [child EXCEPT ![c] = child[c]]
  BY DEF DataShape

-----------------------------------------------------------------------------
(* Commands.                                                               *)

LEMMA CommandKeeps ==
    ASSUME DataIInv, NEW c \in Client, Command(c)
    PROVE  DataIInv'
<1>1. DataShape /\ IsSession(sess[c]) /\ InOrder(sess[c], task[c], child[c])
  BY DEF DataIInv, DataShape, SessionsInOrder
<1>2. Reading(c, "BEGIN") /\ child[c] = "none" /\ cbf \in Block \cup {NoBlock}
  BY <1>1 DEF Command, OtherCommand, CommandCut, FileAdd, FileGet, Reading, InOrder, DataShape
<1>3. ASSUME NEW s, Answers(c, s), IsSession(s), s.state = "REPLY", s.next = "READ" => Held(s),
             cbf' \in Block \cup {NoBlock}
      PROVE  DataIInv'
  <2>1. InOrder(s, "WRITE", "none")
    BY <1>3 DEF InOrder
  <2>2. child' = [child EXCEPT ![c] = "none"]
    BY <1>1, <1>2, <1>3, Unmoved DEF Answers
  <2>3. QED BY <1>3, <2>1, <2>2, OneSession DEF Answers
<1>4. \A proc : IsSession(Begun(c, proc)) /\ Begun(c, proc).next = "BEGIN"
  BY <1>1 DEF Begun, IsSession, SessionFields
<1>5. CASE OtherCommand(c)
  <2>1. IsSession(Return(Begun(c, "other"), "error"))
        /\ Return(Begun(c, "other"), "error").state = "REPLY"
        /\ Return(Begun(c, "other"), "error").next = "BEGIN"
    BY <1>4 DEF Return, IsSession, SessionFields
  <2>2. QED BY <1>1, <1>2, <1>3, <1>5, <2>1, CurrentBlock DEF OtherCommand
<1>6. CASE CommandCut(c)
  <2> DEFINE s == [sess[c] EXCEPT !.next = "BEGIN"]
  <2>1. IsSession(s) /\ InOrder(s, task[c], child[c])
    BY <1>1, <1>2 DEF IsSession, SessionFields, InOrder, Reading
  <2>2. sess' = [sess EXCEPT ![c] = s] /\ UNCHANGED <<task, child, index, acked, cbf>>
    BY <1>6 DEF CommandCut, storeVars
  <2> HIDE DEF s
  <2>3. QED BY <1>1, <1>2, <2>1, <2>2, Unmoved, OneSession
<1>7. ASSUME NEW name \in Name, NEW size \in Size, FileAdd(c, name, size)
      PROVE  DataIInv'
  <2>1. ASSUME NEW b \in Block, NEW off
        PROVE  /\ IsSession(Ready(c, name, size, b, off)) /\ Held(Ready(c, name, size, b, off))
               /\ Ready(c, name, size, b, off).state = "REPLY"
    <3> DEFINE d == Declared(c, name, size)
               p == [d EXCEPT !.fb.block = b, !.fb.off = off, !.bf = b, !.next = "READ"]
    <3>1. IsSession(d) /\ d.fb.name = name
      BY <1>4 DEF Declared, IsSession, SessionFields
    <3>2. Ready(c, name, size, b, off) = Return(p, "ready")
      BY DEF Ready
    <3> HIDE DEF d
    <3>3. IsSession(p) /\ p.fb.name = name /\ p.fb.block = b
      BY <3>1 DEF IsSession, SessionFields
    <3> HIDE DEF p
    <3>4. QED BY <3>2, <3>3 DEF Return, IsSession, SessionFields, Held
  <2>2. /\ IsSession(Return(Declared(c, name, size), "error"))
        /\ Return(Declared(c, name, size), "error").state = "REPLY"
        /\ Return(Declared(c, name, size), "error").next = "BEGIN"
    BY <1>4 DEF Declared, Return, IsSession, SessionFields
  <2>3. CASE \E b \in Block : /\ AppendCreate(<<c, name>>, size, sess[c].fb.off, b)
                              /\ Answers(c, Ready(c, name, size, b, sess[c].fb.off))
    BY <1>1, <1>3, <2>1, <2>3, CurrentBlock
  <2>4. CASE /\ AppendExtend(<<c, name>>, size)
             /\ Answers(c, Ready(c, name, size, cbf, bf[cbf].size))
    BY <1>1, <1>2, <1>3, <2>1, <2>4, CurrentBlock
  <2>5. CASE /\ AppendCreateFail(size) \/ AppendExtendFail(size)
             /\ Answers(c, Return(Declared(c, name, size), "error"))
    BY <1>1, <1>2, <1>3, <2>2, <2>5, CurrentBlock
  <2>6. QED BY <1>7, <2>3, <2>4, <2>5 DEF FileAdd
<1>8. ASSUME NEW name \in Name, FileGet(c, name)
      PROVE  DataIInv'
  <2> DEFINE loc == index[name]
             asked == [Begun(c, "get") EXCEPT !.fb =
                         [name |-> name, block |-> loc.block, off |-> loc.off, size |-> loc.size]]
  <2>1. /\ IsSession(Return([asked EXCEPT !.done = 0, !.next = "WRITE"], "opened"))
        /\ Return([asked EXCEPT !.done = 0, !.next = "WRITE"], "opened").state = "REPLY"
        /\ Return([asked EXCEPT !.done = 0, !.next = "WRITE"], "opened").next = "WRITE"
    BY <1>4 DEF Return, IsSession, SessionFields
  <2>2. /\ IsSession(Return(asked, "error"))
        /\ Return(asked, "error").state = "REPLY" /\ Return(asked, "error").next = "BEGIN"
    BY <1>4 DEF Return, IsSession, SessionFields
  <2>3. cbf' \in Block \cup {NoBlock}
    BY <1>2, <1>8 DEF FileGet, storeVars
  <2>4. \/ Answers(c, Return([asked EXCEPT !.done = 0, !.next = "WRITE"], "opened"))
        \/ Answers(c, Return(asked, "error"))
    BY <1>8 DEF FileGet
  <2> HIDE DEF asked
  <2>5. QED BY <1>3, <2>1, <2>2, <2>3, <2>4
<1>9. QED BY <1>5, <1>6, <1>7, <1>8 DEF Command

-----------------------------------------------------------------------------
(* Replies and bodies.                                                     *)

LEMMA ReplyKeeps ==
    ASSUME DataIInv, NEW c \in Client, SendReply(c) \/ PartialReply(c) \/ ReplyToClosed(c)
    PROVE  DataIInv'
<1>1. DataShape /\ IsSession(sess[c]) /\ InOrder(sess[c], task[c], child[c])
  BY DEF DataIInv, DataShape, SessionsInOrder
<1>2. /\ task[c] \in {"READ", "WRITE"} /\ child[c] = "none" /\ sess[c].state = "REPLY"
      /\ cbf' \in Block \cup {NoBlock} /\ UNCHANGED <<child, index, acked>>
  BY <1>1 DEF SendReply, PartialReply, ReplyToClosed, Sending, InOrder, DataShape, storeVars
<1>3. CASE SendReply(c)
  <2> DEFINE s == [sess[c] EXCEPT !.state = sess[c].next, !.reply = "none"]
             t == IF sess[c].next = "WRITE" THEN "WRITE" ELSE "READ"
  <2>1. IsSession(s) /\ InOrder(s, t, "none")
    BY <1>1, <1>2 DEF IsSession, SessionFields, InOrder, Held
  <2>2. sess' = [sess EXCEPT ![c] = s] /\ task' = [task EXCEPT ![c] = t]
    BY <1>3 DEF SendReply
  <2> HIDE DEF s, t
  <2>3. child' = [child EXCEPT ![c] = "none"]
    BY <1>1, <1>2, Unmoved
  <2>4. QED BY <1>2, <2>1, <2>2, <2>3, OneSession
<1>4. CASE PartialReply(c)
  <2>1. InOrder(sess[c], "READ", "none")
    BY <1>1, <1>2 DEF InOrder
  <2>2. QED BY <1>1, <1>2, <1>4, <2>1, Unmoved, OneSession DEF PartialReply
<1>5. CASE ReplyToClosed(c)
  BY <1>2, <1>5, NothingMoves DEF ReplyToClosed
<1>6. QED BY <1>3, <1>4, <1>5

LEMMA RecvKeeps ==
    ASSUME DataIInv, NEW c \in Client, RecvBody(c) \/ RecvTrouble(c)
    PROVE  DataIInv'
<1>1. DataShape /\ IsSession(sess[c]) /\ InOrder(sess[c], task[c], child[c])
  BY DEF DataIInv, DataShape, SessionsInOrder
<1>2. /\ task[c] = "READ" /\ child[c] = "none" /\ sess[c].state = "READ"
      /\ sess[c].next = "READ" /\ Held(sess[c])
      /\ cbf' \in Block \cup {NoBlock} /\ UNCHANGED <<index, acked>>
  BY <1>1 DEF RecvBody, RecvTrouble, RecvSome, RecvLast, RecvEof, RecvReset, RecvWriteError, Reading,
              InOrder, DataShape
<1>3. ASSUME NEW s, sess' = [sess EXCEPT ![c] = s], IsSession(s), UNCHANGED <<task, child>>,
             s.fb = sess[c].fb, s.next = "READ", s.state = "READ"
      PROVE  DataIInv'
  <2>1. InOrder(s, task[c], child[c])
    BY <1>2, <1>3 DEF InOrder, Held
  <2>2. QED BY <1>1, <1>2, <1>3, <2>1, Unmoved, OneSession
<1>4. ASSUME NEW done, NEW buf, sess' = [sess EXCEPT ![c].done = done, ![c].buf = buf],
             UNCHANGED <<task, child>>
      PROVE  DataIInv'
  <2> DEFINE s == [sess[c] EXCEPT !.done = done, !.buf = buf]
  <2>1. IsSession(s) /\ s.fb = sess[c].fb /\ s.next = "READ" /\ s.state = "READ"
    BY <1>1, <1>2 DEF IsSession, SessionFields
  <2>2. sess' = [sess EXCEPT ![c] = s]
    BY <1>4
  <2> HIDE DEF s
  <2>3. QED BY <1>3, <1>4, <2>1, <2>2
<1>5. ASSUME NEW n, sess' = [sess EXCEPT ![c] = Taken(c, n)], UNCHANGED <<task, child>>
      PROVE  DataIInv'
  <2>1. /\ IsSession(Taken(c, n)) /\ Taken(c, n).fb = sess[c].fb /\ Taken(c, n).next = "READ"
        /\ Taken(c, n).state = "READ"
    BY <1>1, <1>2 DEF IsSession, SessionFields, Taken
  <2>2. QED BY <1>3, <1>5, <2>1
<1>6. ASSUME NEW n, RecvLast(c, n)
      PROVE  DataIInv'
  <2> DEFINE over == [sess[c] EXCEPT !.done = 0, !.buf = 0, !.next = "BEGIN"]
  <2>1. IsSession(over) /\ InOrder(over, "NOOP", "write")
    BY <1>1, <1>2 DEF IsSession, SessionFields, InOrder, Held
  <2>2. IsSession(Return(over, "error")) /\ InOrder(Return(over, "error"), "WRITE", "none")
    BY <1>1 DEF IsSession, SessionFields, InOrder, Return
  <2>3. \/ /\ sess' = [sess EXCEPT ![c] = over] /\ task' = [task EXCEPT ![c] = "NOOP"]
           /\ child' = [child EXCEPT ![c] = "write"]
        \/ /\ sess' = [sess EXCEPT ![c] = Return(over, "error")]
           /\ task' = [task EXCEPT ![c] = "WRITE"] /\ child' = child
    BY <1>6 DEF RecvLast
  <2> HIDE DEF over
  <2>4. child = [child EXCEPT ![c] = "none"]
    BY <1>1, <1>2, Unmoved
  <2>5. QED BY <1>2, <2>1, <2>2, <2>3, <2>4, OneSession
<1>7. CASE RecvBody(c)
  BY <1>5, <1>6, <1>7 DEF RecvBody, RecvSome
<1>8. CASE RecvTrouble(c)
  <2>1. ASSUME NEW n, NEW k, RecvWriteError(c, n, k) PROVE DataIInv'
    <3>1. \E done, buf : sess' = [sess EXCEPT ![c].done = done, ![c].buf = buf]
      BY <2>1 DEF RecvWriteError
    <3>2. UNCHANGED <<task, child>>
      BY <2>1 DEF RecvWriteError
    <3>3. QED BY <1>4, <3>1, <3>2
  <2>2. QED BY <1>5, <1>8, <2>1 DEF RecvTrouble, RecvEof, RecvReset
<1>9. QED BY <1>7, <1>8

LEMMA SendKeeps ==
    ASSUME DataIInv, NEW c \in Client, SendBody(c)
    PROVE  DataIInv'
<1>1. DataShape /\ IsSession(sess[c]) /\ InOrder(sess[c], task[c], child[c])
  BY DEF DataIInv, DataShape, SessionsInOrder
<1>2. /\ task[c] \in {"READ", "WRITE"} /\ child[c] = "none" /\ sess[c].state = "WRITE"
      /\ sess[c].next = "WRITE"
      /\ cbf' \in Block \cup {NoBlock} /\ UNCHANGED <<child, index, acked>>
  BY <1>1 DEF SendBody, SendFile, SendPastEnd, SendPart, SendError, Sending, Answers, InOrder, DataShape,
              storeVars
<1>3. child' = [child EXCEPT ![c] = "none"]
  BY <1>1, <1>2, Unmoved
<1>4. CASE SendFile(c)
  <2> DEFINE s == [sess[c] EXCEPT !.state = "BEGIN", !.done = 0, !.fb = NoFile]
  <2>1. IsSession(s) /\ InOrder(s, "READ", "none")
    BY <1>1, <1>2 DEF IsSession, SessionFields, NoFile, InOrder
  <2>2. sess' = [sess EXCEPT ![c] = s] /\ task' = [task EXCEPT ![c] = "READ"]
    BY <1>4 DEF SendFile
  <2> HIDE DEF s
  <2>3. QED BY <1>2, <1>3, <2>1, <2>2, OneSession
<1>5. CASE SendPastEnd(c)
  BY <1>2, <1>5, NothingMoves DEF SendPastEnd
<1>6. ASSUME NEW k, SendPart(c, k)
      PROVE  DataIInv'
  <2> DEFINE s == [sess[c] EXCEPT !.done = @ + k]
  <2>1. IsSession(s) /\ InOrder(s, "READ", "none")
    BY <1>1, <1>2 DEF IsSession, SessionFields, InOrder
  <2>2. sess' = [sess EXCEPT ![c] = s] /\ task' = [task EXCEPT ![c] = "READ"]
    BY <1>6 DEF SendPart
  <2> HIDE DEF s
  <2>3. QED BY <1>2, <1>3, <2>1, <2>2, OneSession
<1>7. CASE SendError(c)
  <2>1. IsSession(Return(sess[c], "error")) /\ InOrder(Return(sess[c], "error"), "WRITE", "none")
    BY <1>1, <1>2 DEF IsSession, SessionFields, InOrder, Return
  <2>2. QED BY <1>2, <1>3, <1>7, <2>1, OneSession DEF SendError, Answers
<1>8. QED BY <1>4, <1>5, <1>6, <1>7 DEF SendBody

LEMMA EndKeeps ==
    ASSUME DataIInv, NEW c \in Client, CloseSeen(c) \/ EndSession(c) \/ ClientClose(c)
    PROVE  DataIInv'
<1>1. DataShape /\ IsSession(sess[c]) /\ InOrder(sess[c], task[c], child[c])
  BY DEF DataIInv, DataShape, SessionsInOrder
<1>2. cbf' \in Block \cup {NoBlock} /\ UNCHANGED <<child, index, acked>>
  BY <1>1 DEF CloseSeen, EndSession, ClientClose, DataShape, storeVars
<1>3. CASE CloseSeen(c)
  <2> DEFINE s == [sess[c] EXCEPT !.next = "BEGIN"]
  <2>1. child[c] = "none" /\ sess[c].state = "BEGIN"
    BY <1>1, <1>3 DEF CloseSeen, Reading, InOrder
  <2>2. IsSession(s) /\ InOrder(s, "END", "none")
    BY <1>1, <2>1 DEF IsSession, SessionFields, InOrder
  <2>3. sess' = [sess EXCEPT ![c] = s] /\ task' = [task EXCEPT ![c] = "END"]
    BY <1>3 DEF CloseSeen
  <2> HIDE DEF s
  <2>4. QED BY <1>1, <1>2, <2>1, <2>2, <2>3, Unmoved, OneSession
<1>4. CASE EndSession(c)
  <2>1. child[c] = "none"
    BY <1>1, <1>4 DEF EndSession, InOrder
  <2>2. IsSession(NewSession) /\ InOrder(NewSession, "READ", "none")
    BY DEF IsSession, NewSession, NoFile, SessionFields, InOrder
  <2>3. QED BY <1>1, <1>2, <1>4, <2>1, <2>2, Unmoved, OneSession DEF EndSession
<1>5. CASE ClientClose(c)
  BY <1>2, <1>5, NothingMoves DEF ClientClose
<1>6. QED BY <1>3, <1>4, <1>5

-----------------------------------------------------------------------------
(* The request to the name server.                                         *)

LEMMA TakenKeeps ==
    ASSUME DataIInv, NEW c \in Client, NameServerTakes(c)
    PROVE  DataIInv'
<1>1. DataShape /\ IsSession(sess[c]) /\ InOrder(sess[c], task[c], child[c])
  BY DEF DataIInv, DataShape, SessionsInOrder
<1>2. /\ child[c] = "write" /\ child' = [child EXCEPT ![c] = "ok"]
      /\ index' = [index EXCEPT ![sess[c].fb.name] = IF @ = Unregistered THEN Location(c) ELSE @]
      /\ UNCHANGED <<sess, task, acked, cbf>>
  BY DEF NameServerTakes, storeVars
<1>3. Held(sess[c])
  BY <1>1, <1>2 DEF InOrder
<1>4. Location(c) # Unregistered
  <2>1. Location(c).block \in Block /\ Unregistered.block = NoBlock
    BY <1>3 DEF Location, Unregistered, Held
  <2>2. QED BY <2>1, BlockAssumption
<1>5. /\ index' = [n \in Name |-> index'[n]] /\ index'[sess[c].fb.name] # Unregistered
      /\ \A n \in Name : index[n] # Unregistered => index'[n] # Unregistered
  BY <1>1, <1>2, <1>3, <1>4 DEF DataShape, Held
<1>6. /\ child' = [d \in Client |-> child'[d]] /\ child'[c] = "ok"
      /\ \A d \in Client \ {c} : child'[d] = child[d]
  BY <1>1, <1>2 DEF DataShape
<1>7. DataShape'
  BY <1>1, <1>2, <1>5, <1>6 DEF DataShape, IsSession
<1>8. SessionsInOrder'
  BY <1>2, <1>6 DEF DataIInv, SessionsInOrder, InOrder, Held
<1>9. OkIsRegistered'
  <2>1. ASSUME NEW d \in Client, child'[d] = "ok" PROVE index'[sess[d].fb.name] # Unregistered
    <3>1. CASE d = c
      BY <1>5, <3>1
    <3>2. CASE d # c
      <4>1. child[d] = "ok" /\ index[sess[d].fb.name] # Unregistered
        BY <1>6, <2>1, <3>2 DEF DataIInv, OkIsRegistered
      <4>2. sess[d].fb.name \in Name
        BY <4>1 DEF DataIInv, SessionsInOrder, InOrder, Held
      <4>3. QED BY <1>5, <4>1, <4>2
    <3>3. QED BY <3>1, <3>2
  <2>2. QED BY <1>2, <2>1 DEF OkIsRegistered, Unregistered
<1>10. AckedInOrder'
  BY <1>2, <1>5 DEF DataIInv, AckedInOrder, Unregistered
<1>11. QED BY <1>7, <1>8, <1>9, <1>10 DEF DataIInv

LEMMA AnswerKeeps ==
    ASSUME DataIInv, NEW c \in Client, Registered(c) \/ NotRegistered(c)
    PROVE  DataIInv'
<1>1. DataShape /\ IsSession(sess[c]) /\ InOrder(sess[c], task[c], child[c])
  BY DEF DataIInv, DataShape, SessionsInOrder
<1>2. PICK reply : Finish(c, reply)
  BY DEF Registered, NotRegistered
<1>3. sess[c].next = "BEGIN" /\ Held(sess[c])
  BY <1>1 DEF Registered, NotRegistered, InOrder
<1> DEFINE s == Return([sess[c] EXCEPT !.fb = NoFile], reply)
<1>4. IsSession(s) /\ InOrder(s, "WRITE", "none")
  BY <1>1, <1>3 DEF IsSession, SessionFields, NoFile, InOrder, Return
<1>5. /\ sess' = [sess EXCEPT ![c] = s] /\ task' = [task EXCEPT ![c] = "WRITE"]
      /\ child' = [child EXCEPT ![c] = "none"] /\ UNCHANGED <<index, cbf>>
  BY <1>2 DEF Finish, storeVars
<1> HIDE DEF s
<1>6. /\ sess'[c] = s /\ task'[c] = "WRITE" /\ child'[c] = "none"
      /\ \A d \in Client \ {c} : /\ sess'[d] = sess[d] /\ task'[d] = task[d]
                                 /\ child'[d] = child[d]
  BY <1>1, <1>5 DEF DataShape
<1>7. DataShape'
  <2>1. \A d \in Client : IsSession(sess'[d])
    BY <1>1, <1>4, <1>6 DEF DataShape
  <2>2. /\ sess' = [d \in Client |-> sess'[d]] /\ task' = [d \in Client |-> task'[d]]
        /\ child' = [d \in Client |-> child'[d]] /\ index' = [n \in Name |-> index'[n]]
    BY <1>1, <1>5 DEF DataShape
  <2>3. QED BY <1>1, <1>5, <2>1, <2>2 DEF DataShape, IsSession
<1>8. SessionsInOrder'
  <2>1. \A d \in Client : InOrder(sess'[d], task'[d], child'[d])
    BY <1>4, <1>6 DEF DataIInv, SessionsInOrder
  <2>2. QED BY <2>1 DEF SessionsInOrder, InOrder, Held
<1>9. OkIsRegistered'
  BY <1>5, <1>6 DEF DataIInv, OkIsRegistered, Unregistered
<1>10. AckedInOrder'
  <2>1. Registered(c) => index[Location(c).who[2]] # Unregistered /\ Location(c).who[2] \in Name
    BY <1>3 DEF Registered, DataIInv, OkIsRegistered, Location, Held
  <2>2. \/ Registered(c) /\ acked' = acked \cup {Location(c)}
        \/ acked' = acked
    BY DEF Registered, NotRegistered
  <2>3. QED BY <1>5, <2>1, <2>2 DEF DataIInv, AckedInOrder, Unregistered
<1>11. QED BY <1>7, <1>8, <1>9, <1>10 DEF DataIInv

-----------------------------------------------------------------------------
LEMMA DataStep == DataIInv /\ [Next]_vars => DataIInv'
<1>1. SUFFICES ASSUME DataIInv, [Next]_vars PROVE DataIInv'
  OBVIOUS
<1>2. ASSUME NEW c \in Client, Command(c) \/ Serve(c) \/ Child(c) \/ ClientClose(c)
      PROVE  DataIInv'
  BY <1>1, <1>2, CommandKeeps, ReplyKeeps, RecvKeeps, SendKeeps, EndKeeps, TakenKeeps, AnswerKeeps
     DEF Serve, Child
<1>3. CASE UNCHANGED vars
  BY <1>1, <1>3, NothingMoves DEF vars, storeVars, sessVars, DataIInv, DataShape
<1>4. QED BY <1>1, <1>2, <1>3 DEF Next

LEMMA DataInvariant == Spec => []DataIInv
  BY DataInitHolds, DataStep, PTL DEF Spec

\* A session is parked just while a request to the name server is made for it,
\* which is about the file just received (ns_file_add, __ns_process_finish):
\* none waits for an answer that cannot come, whatever breaks or is dropped.
THEOREM ParkedJustWhileAsking == Spec => []ParkedIffAsking
<1>1. DataIInv => ParkedIffAsking
  BY DEF DataIInv, SessionsInOrder, InOrder, Held, OkIsRegistered, ParkedIffAsking
<1>2. QED BY <1>1, DataInvariant, PTL

\* A client is told that its file is saved only when the name server has its
\* name, and the name server keeps it.
THEOREM AckedNamesAreKnown == Spec => []AckedIsRegistered
<1>1. DataIInv => AckedIsRegistered
  BY DEF DataIInv, AckedInOrder, AckedIsRegistered
<1>2. QED BY <1>1, DataInvariant, PTL

-----------------------------------------------------------------------------
(* What a handler does to the block files.                                 *)

\* The upload g is at the place loc, and if it was placed behind the recorded
\* size its first n bytes are written in the files d.
Fills(d, g, loc, n) ==
    /\ g.who = loc.who /\ g.block = loc.block /\ g.off = loc.off /\ g.size = loc.size
    /\ g.how = "extend" => \A i \in (g.off + 1)..(g.off + n) : d[g.block][i] # Hole

Filled(d, given, loc, n) == \E g \in given : Fills(d, g, loc, n)

StoreSound == StoreIInv /\ BytesIInv

\* A step gives out places and fills them, and takes nothing back.
StoreMoves ==
    /\ StoreIInv' /\ BytesIInv' /\ grants \subseteq grants'
    /\ \A g \in Extended : \A i \in (g.off + 1)..(g.off + g.size) :
          data[g.block][i] # Hole => data'[g.block][i] # Hole

LEMMA StoreStepMoves ==
    ASSUME StoreSound, [StoreNext]_storeVars
    PROVE  StoreMoves
<1>1. grants \subseteq grants'
  BY DEF StoreNext, AppendCreate, AppendExtend, AppendCreateFail, Close, Write, storeVars
<1>2. QED
  BY <1>1, NextIInv, BytesStep, BytesKeptStep DEF StoreSound, StoreMoves

LEMMA FlushMoves ==
    ASSUME StoreSound, NEW h \in grants, NEW done \in Nat, NEW n \in Nat,
           WriteBytes(h, done, n), CloseHandle(h.block) \/ UNCHANGED <<bf, live>>,
           UNCHANGED <<files, cbf, grants>>
    PROVE  /\ StoreMoves
           /\ h.how = "extend" =>
                 \A i \in (h.off + done + 1)..(h.off + done + n) : data'[h.block][i] # Hole
<1>1. /\ StoreTypeOK /\ h \in Grant /\ h.block \in Block /\ h.who \in Writer
      /\ h.off \in Int /\ h.size \in Nat /\ h.who # Hole
  BY BlockAssumption DEF StoreSound, StoreIInv, StoreTypeOK, Grant
<1>2. \A g \in Extended : \A i \in (g.off + 1)..(g.off + g.size) :
          data[g.block][i] # Hole => data'[g.block][i] # Hole
  BY <1>1, WriteKeeps DEF StoreSound
<1>3. StoreMoves
  BY <1>2, FlushInv DEF StoreSound, StoreMoves
<1>4. ASSUME h.how = "extend", NEW i \in (h.off + done + 1)..(h.off + done + n)
      PROVE  data'[h.block][i] # Hole
  <2> DEFINE at == h.off + done
             end == IF n = 0 \/ Len(data[h.block]) > at + n THEN Len(data[h.block]) ELSE at + n
  <2>1. at \in Int /\ i \in (at + 1)..(at + n) /\ data[h.block] \in Seq(Byte)
    BY <1>1 DEF StoreTypeOK, Byte
  <2>2. data'[h.block] = WriteAt(data[h.block], at, n, h.who)
    BY <1>1 DEF WriteBytes, StoreTypeOK
  <2>3. WriteAt(data[h.block], at, n, h.who)
          = [j \in 1..end |-> IF j \in (at + 1)..(at + n) THEN h.who
                              ELSE IF j \in DOMAIN data[h.block] THEN data[h.block][j] ELSE Hole]
    BY DEF WriteAt
  <2> HIDE DEF at, end
  <2>4. h.off >= 0
    BY <1>4 DEF StoreSound, StoreIInv, ExtendedInsideFile, Extended
  <2>5. Len(data[h.block]) \in Nat /\ i \in 1..end
    BY <1>1, <1>4, <2>1, <2>4, SMTT(30) DEF StoreTypeOK, at, end
  <2>6. QED BY <1>1, <2>1, <2>2, <2>3, <2>5
<1>5. QED BY <1>3, <1>4

LEMMA FilledStays ==
    ASSUME StoreSound, StoreMoves, NEW loc, NEW n \in Nat, loc.size \in Nat, n <= loc.size,
           Filled(data, grants, loc, n)
    PROVE  Filled(data', grants', loc, n)
<1>1. PICK g \in grants : Fills(data, g, loc, n)
  BY DEF Filled
<1>2. g \in grants' /\ g.off \in Int /\ g.size = loc.size
  BY <1>1 DEF StoreMoves, StoreSound, StoreIInv, StoreTypeOK, Grant, Fills
<1>3. ASSUME g.how = "extend", NEW i \in (g.off + 1)..(g.off + n)
      PROVE  data'[g.block][i] # Hole
  <2>1. g \in Extended /\ i \in (g.off + 1)..(g.off + g.size)
    BY <1>2, <1>3 DEF Extended
  <2>2. data[g.block][i] # Hole
    BY <1>1, <1>3 DEF Fills
  <2>3. QED BY <2>1, <2>2 DEF StoreMoves
<1>4. QED BY <1>1, <1>2, <1>3 DEF Filled, Fills

-----------------------------------------------------------------------------
(* An upload from the place it is given to its registration.               *)

Place(c, fb) == [who |-> <<c, fb.name>>, block |-> fb.block, off |-> fb.off, size |-> fb.size]

Offsets(given) == {0} \cup {g.off : g \in given}

\* A session s of client c whose request to the name server is k, with r bytes of
\* the body to come, over the files d and the places given: what it has done of
\* an upload is written at its place, whether or not (f) something has failed.
SessionSound(c, s, k, r, f, d, given) ==
    /\ s.done \in Nat /\ s.buf \in Nat /\ s.fb.size \in Nat /\ s.fb.off \in Offsets(given)
    /\ s.state # "READ" \/ k # "none" => s.buf = 0
    /\ s.state = "BEGIN" \/ (s.state = "REPLY" /\ s.next # "WRITE") => s.done = 0
    /\ k # "none" => Filled(d, given, Place(c, s.fb), s.fb.size)
    /\ s.next = "READ" =>
        /\ s.proc = "add" /\ s.bf = s.fb.block /\ s.state \in {"REPLY", "READ"}
        /\ s.state = "REPLY" => s.reply = "ready"
        /\ s.state = "READ" /\ ~f => s.done + s.buf + r = s.fb.size
        /\ s.done <= s.fb.size /\ Filled(d, given, Place(c, s.fb), s.done)

IndexFilled ==
    \A n \in Name : index[n] # Unregistered => Filled(data, grants, index[n], index[n].size)

UploadIInv ==
    /\ rest \in [Client -> Nat]
    /\ \A c \in Client :
          SessionSound(c, sess[c], child[c], rest[c], c \in failed, data, grants)
    /\ IndexFilled

LEMMA FilledTypes ==
    ASSUME StoreSound, NEW loc, NEW n, Filled(data, grants, loc, n)
    PROVE  loc.size \in Nat /\ loc.off \in Offsets(grants)
  BY BlockAssumption DEF StoreSound, StoreIInv, StoreTypeOK, Grant, Filled, Fills, Offsets

LEMMA SessionStays ==
    ASSUME StoreSound, StoreMoves, NEW c, NEW s, NEW k, NEW r, NEW f,
           SessionSound(c, s, k, r, f, data, grants)
    PROVE  SessionSound(c, s, k, r, f, data', grants')
<1>1. Offsets(grants) \subseteq Offsets(grants')
  BY DEF StoreMoves, Offsets
<1>2. Place(c, s.fb).size = s.fb.size
  BY DEF Place
<1>3. k # "none" => Filled(data', grants', Place(c, s.fb), s.fb.size)
  BY <1>2, FilledStays DEF SessionSound
<1>4. s.next = "READ" => Filled(data', grants', Place(c, s.fb), s.done)
  BY <1>2, FilledStays DEF SessionSound
<1>5. QED BY <1>1, <1>3, <1>4 DEF SessionSound

LEMMA IndexStays ==
    ASSUME StoreSound, StoreMoves, IndexFilled, UNCHANGED index
    PROVE  IndexFilled'
<1>1. \A n \in Name : index[n] # Unregistered =>
          index[n].size \in Nat /\ Filled(data', grants', index[n], index[n].size)
  BY FilledTypes, FilledStays DEF IndexFilled
<1>2. QED BY <1>1 DEF IndexFilled, Unregistered

\* A step of one session.
LEMMA OneUpload ==
    ASSUME DataIInv, UploadIInv, StoreSound, StoreMoves,
           NEW c \in Client, NEW s, NEW k, NEW r \in Nat,
           sess' = [sess EXCEPT ![c] = s], child' = [child EXCEPT ![c] = k],
           rest' = [rest EXCEPT ![c] = r], UNCHANGED index,
           \A d \in Client \ {c} : d \in failed' <=> d \in failed,
           SessionSound(c, s, k, r, c \in failed', data', grants')
    PROVE  UploadIInv'
<1>1. /\ sess'[c] = s /\ child'[c] = k /\ rest'[c] = r /\ rest' \in [Client -> Nat]
      /\ \A d \in Client \ {c} : sess'[d] = sess[d] /\ child'[d] = child[d] /\ rest'[d] = rest[d]
  BY DEF DataIInv, DataShape, UploadIInv
<1>2. ASSUME NEW d \in Client
      PROVE  SessionSound(d, sess'[d], child'[d], rest'[d], d \in failed', data', grants')
  <2>1. CASE d = c
    BY <1>1, <2>1
  <2>2. CASE d # c
    <3>1. SessionSound(d, sess[d], child[d], rest[d], d \in failed, data, grants)
      BY DEF UploadIInv
    <3>2. SessionSound(d, sess[d], child[d], rest[d], d \in failed, data', grants')
      BY <3>1, SessionStays
    <3>3. QED BY <1>1, <2>2, <3>2
  <2>3. QED BY <2>1, <2>2
<1>3. IndexFilled'
  BY IndexStays DEF UploadIInv
<1>4. QED BY <1>1, <1>2, <1>3 DEF UploadIInv

LEMMA NothingUploaded ==
    ASSUME UploadIInv, StoreSound, StoreMoves, UNCHANGED <<sess, child, rest, index, failed>>
    PROVE  UploadIInv'
<1>1. \A c \in Client :
          SessionSound(c, sess[c], child[c], rest[c], c \in failed, data', grants')
  BY SessionStays DEF UploadIInv
<1>2. IndexFilled'
  BY IndexStays DEF UploadIInv
<1>3. rest' \in [Client -> Nat]
  BY DEF UploadIInv
<1>4. QED BY <1>1, <1>2, <1>3 DEF UploadIInv

\* A step that does nothing to the block files.
LEMMA StoreRests ==
    ASSUME StoreSound, UNCHANGED storeVars
    PROVE  StoreMoves
  BY StoreStepMoves

\* Where the session of a handler that reads is.
LEMMA ReadingAt ==
    ASSUME DataIInv, UploadIInv, NEW c \in Client, NEW state, Reading(c, state)
    PROVE  /\ DataShape /\ IsSession(sess[c]) /\ InOrder(sess[c], task[c], child[c])
           /\ SessionSound(c, sess[c], child[c], rest[c], c \in failed, data, grants)
           /\ task[c] = "READ" /\ child[c] = "none" /\ sess[c].state = state
           /\ rest[c] \in Nat
  BY DEF DataIInv, DataShape, SessionsInOrder, InOrder, Reading, UploadIInv

LEMMA CommandUploads ==
    ASSUME DataIInv, UploadIInv, StoreSound, NEW c \in Client, Command(c)
    PROVE  StoreMoves /\ UploadIInv'
<1>1. Reading(c, "BEGIN")
  BY DEF Command, OtherCommand, CommandCut, FileAdd, FileGet
<1>2. /\ DataShape /\ IsSession(sess[c]) /\ child[c] = "none" /\ rest[c] \in Nat
      /\ sess[c].done = 0 /\ sess[c].buf = 0 /\ sess[c].next # "READ"
      /\ sess[c].fb.size \in Nat /\ sess[c].fb.off \in Offsets(grants)
  BY <1>1, ReadingAt DEF SessionSound
<1>3. ASSUME NEW s, Answers(c, s), s.state = "REPLY", s.done = 0, s.buf = 0, StoreMoves,
             s.fb.size \in Nat, s.fb.off \in Offsets(grants'),
             s.next = "READ" =>
                /\ s.proc = "add" /\ s.bf = s.fb.block /\ s.reply = "ready"
                /\ Filled(data', grants', Place(c, s.fb), 0)
      PROVE  StoreMoves /\ UploadIInv'
  <2>1. SessionSound(c, s, "none", rest[c], c \in failed', data', grants')
    BY <1>3 DEF SessionSound
  <2>2. /\ sess' = [sess EXCEPT ![c] = s] /\ UNCHANGED <<child, rest, index, failed>>
        /\ child = [child EXCEPT ![c] = "none"] /\ rest = [rest EXCEPT ![c] = rest[c]]
    BY <1>2, <1>3, Unmoved DEF Answers, UploadIInv
  <2>3. QED BY <1>2, <1>3, <2>1, <2>2, OneUpload
<1>4. CASE OtherCommand(c)
  <2> DEFINE s == Return(Begun(c, "other"), "error")
  <2>1. /\ s.state = "REPLY" /\ s.done = 0 /\ s.buf = 0 /\ s.fb = sess[c].fb /\ s.next = "BEGIN"
    BY <1>2 DEF Return, Begun, IsSession, SessionFields
  <2>2. Answers(c, s) /\ UNCHANGED storeVars
    BY <1>4 DEF OtherCommand
  <2>3. grants' = grants
    BY <2>2 DEF storeVars
  <2> HIDE DEF s
  <2>4. QED BY <1>2, <1>3, <2>1, <2>2, <2>3, StoreRests
<1>5. CASE CommandCut(c)
  <2> DEFINE s == [sess[c] EXCEPT !.next = "BEGIN"]
  <2>1. /\ s.state = "BEGIN" /\ s.done = 0 /\ s.buf = 0 /\ s.fb = sess[c].fb /\ s.next = "BEGIN"
    BY <1>1, <1>2 DEF Reading, IsSession, SessionFields
  <2>2. /\ sess' = [sess EXCEPT ![c] = s] /\ UNCHANGED storeVars
        /\ UNCHANGED <<child, rest, index, failed>>
        /\ child = [child EXCEPT ![c] = "none"] /\ rest = [rest EXCEPT ![c] = rest[c]]
    BY <1>2, <1>5, Unmoved DEF CommandCut, UploadIInv
  <2>3. grants' = grants
    BY <2>2 DEF storeVars
  <2> HIDE DEF s
  <2>4. SessionSound(c, s, "none", rest[c], c \in failed', data', grants')
    BY <1>2, <2>1, <2>3 DEF SessionSound
  <2>5. StoreMoves
    BY <2>2, StoreRests
  <2>6. /\ child' = [child EXCEPT ![c] = "none"] /\ rest' = [rest EXCEPT ![c] = rest[c]]
        /\ UNCHANGED index /\ sess' = [sess EXCEPT ![c] = s]
    BY <2>2
  <2>7. \A d \in Client \ {c} : d \in failed' <=> d \in failed
    BY <2>2
  <2>8. rest[c] \in Nat
    BY <1>2
  <2>9. QED BY <2>4, <2>5, <2>6, <2>7, <2>8, OneUpload
<1>6. ASSUME NEW name \in Name, NEW size \in Size, FileAdd(c, name, size)
      PROVE  StoreMoves /\ UploadIInv'
  <2> DEFINE w == <<c, name>>
  <2>1. /\ w \in Writer /\ size \in Nat /\ StoreTypeOK
        /\ sess[c].fb.off \in StaleOffset /\ Offsets(grants) = StaleOffset
    BY <1>2, BlockAssumption, DataServerAssumption DEF Offsets, StaleOffset, StoreSound, StoreIInv
  <2>2. ASSUME NEW b \in Block, NEW off
        PROVE  LET s == Ready(c, name, size, b, off)
               IN  /\ s.state = "REPLY" /\ s.done = 0 /\ s.buf = 0 /\ s.proc = "add" /\ s.bf = b
                   /\ s.reply = "ready" /\ s.next = "READ"
                   /\ s.fb.name = name /\ s.fb.block = b /\ s.fb.off = off /\ s.fb.size = size
    <3> DEFINE d == Declared(c, name, size)
               p == [d EXCEPT !.fb.block = b, !.fb.off = off, !.bf = b, !.next = "READ"]
    <3>1. /\ IsSession(d) /\ d.fb.name = name /\ d.fb.size = size /\ d.proc = "add"
          /\ d.done = 0 /\ d.buf = 0
      BY <1>2 DEF Declared, Begun, IsSession, SessionFields
    <3>2. Ready(c, name, size, b, off) = Return(p, "ready")
      BY DEF Ready
    <3> HIDE DEF d
    <3>3. /\ IsSession(p) /\ p.fb.name = name /\ p.fb.block = b /\ p.fb.off = off
          /\ p.fb.size = size /\ p.proc = "add" /\ p.done = 0 /\ p.buf = 0 /\ p.bf = b
          /\ p.next = "READ"
      BY <3>1 DEF IsSession, SessionFields
    <3> HIDE DEF p
    <3>4. QED BY <3>2, <3>3 DEF Return, IsSession, SessionFields
  <2>3. ASSUME NEW b \in Block, NEW off, StoreMoves, Answers(c, Ready(c, name, size, b, off)),
               NEW g \in grants', Fills(data', g, [who |-> w, block |-> b, off |-> off, size |-> size], 0)
        PROVE  StoreMoves /\ UploadIInv'
    <3> DEFINE s == Ready(c, name, size, b, off)
    <3>1. off \in Offsets(grants')
      BY <2>3 DEF Fills, Offsets
    <3>2. Place(c, s.fb) = [who |-> w, block |-> b, off |-> off, size |-> size]
      BY <2>2 DEF Place
    <3>3. Filled(data', grants', Place(c, s.fb), 0)
      BY <2>3, <3>2 DEF Filled
    <3>4. QED BY <1>3, <2>1, <2>2, <2>3, <3>1, <3>3
  <2>4. ASSUME NEW b \in Block, AppendCreate(w, size, sess[c].fb.off, b),
               Answers(c, Ready(c, name, size, b, sess[c].fb.off))
        PROVE  StoreMoves /\ UploadIInv'
    <3>1. StoreMoves
      BY <2>1, <2>4, StoreStepMoves DEF StoreNext
    <3> DEFINE g == [who |-> w, block |-> b, off |-> sess[c].fb.off, size |-> size,
                     how |-> "create"]
    <3>2. g \in grants' /\ Fills(data', g, [who |-> w, block |-> b, off |-> sess[c].fb.off,
                                            size |-> size], 0)
      BY <2>4 DEF AppendCreate, Fills
    <3>3. QED BY <2>3, <2>4, <3>1, <3>2
  <2>5. CASE AppendExtend(w, size) /\ Answers(c, Ready(c, name, size, cbf, bf[cbf].size))
    <3>1. StoreMoves
      BY <2>1, <2>5, StoreStepMoves DEF StoreNext
    <3>2. cbf \in Block /\ bf[cbf].size \in Nat
      BY <2>1, <2>5, ExtendKeeps DEF StoreSound
    <3> DEFINE g == [who |-> w, block |-> cbf, off |-> bf[cbf].size, size |-> size,
                     how |-> "extend"]
    <3>3. g \in grants' /\ Fills(data', g, [who |-> w, block |-> cbf, off |-> bf[cbf].size,
                                            size |-> size], 0)
      BY <2>5, <3>2 DEF AppendExtend, Fills
    <3>4. QED BY <2>3, <2>5, <3>1, <3>2, <3>3
  <2>6. CASE /\ AppendCreateFail(size) \/ AppendExtendFail(size)
             /\ Answers(c, Return(Declared(c, name, size), "error"))
    <3> DEFINE s == Return(Declared(c, name, size), "error")
    <3>1. /\ s.state = "REPLY" /\ s.done = 0 /\ s.buf = 0 /\ s.next = "BEGIN"
          /\ s.fb.size = size /\ s.fb.off = sess[c].fb.off
      BY <1>2 DEF Declared, Begun, Return, IsSession, SessionFields
    <3>2. StoreMoves /\ grants' = grants
      BY <2>1, <2>6, StoreStepMoves DEF StoreNext, AppendCreateFail, AppendExtendFail, storeVars
    <3> HIDE DEF s
    <3>3. Answers(c, s)
      BY <2>6 DEF s
    <3>4. QED BY <1>2, <1>3, <2>1, <3>1, <3>2, <3>3
  <2>7. QED BY <1>6, <2>4, <2>5, <2>6 DEF FileAdd
<1>7. ASSUME NEW name \in Name, FileGet(c, name)
      PROVE  StoreMoves /\ UploadIInv'
  <2> DEFINE loc == index[name]
             asked == [Begun(c, "get") EXCEPT !.fb =
                         [name |-> name, block |-> loc.block, off |-> loc.off, size |-> loc.size]]
             ok == Return([asked EXCEPT !.done = 0, !.next = "WRITE"], "opened")
             no == Return(asked, "error")
  <2>1. /\ ok.state = "REPLY" /\ ok.done = 0 /\ ok.buf = 0 /\ ok.next = "WRITE"
        /\ ok.fb.off = loc.off /\ ok.fb.size = loc.size
        /\ no.state = "REPLY" /\ no.done = 0 /\ no.buf = 0 /\ no.next = "BEGIN"
        /\ no.fb.off = loc.off /\ no.fb.size = loc.size
    BY <1>2 DEF Begun, Return, IsSession, SessionFields
  <2>2. loc.size \in Nat /\ loc.off \in Offsets(grants)
    BY <1>7, FilledTypes DEF FileGet, UploadIInv, IndexFilled
  <2>3. UNCHANGED storeVars /\ (Answers(c, ok) \/ Answers(c, no))
    BY <1>7 DEF FileGet
  <2>4. grants' = grants /\ StoreMoves
    BY <2>3, StoreRests DEF storeVars
  <2> HIDE DEF ok, no, loc
  <2>5. QED BY <1>3, <2>1, <2>2, <2>3, <2>4
<1>8. QED BY <1>4, <1>5, <1>6, <1>7 DEF Command

LEMMA ReplyUploads ==
    ASSUME DataIInv, UploadIInv, StoreSound, NEW c \in Client,
           SendReply(c) \/ PartialReply(c) \/ ReplyToClosed(c)
    PROVE  StoreMoves /\ UploadIInv'
<1>1. UNCHANGED storeVars /\ StoreMoves /\ grants' = grants /\ data' = data
  <2>1. UNCHANGED storeVars
    BY DEF SendReply, PartialReply, ReplyToClosed
  <2>2. QED BY <2>1, StoreRests DEF storeVars
<1>2. CASE SendReply(c)
  <2> DEFINE s == [sess[c] EXCEPT !.state = sess[c].next, !.reply = "none"]
             r == IF sess[c].reply = "ready" THEN sess[c].fb.size ELSE rest[c]
  <2>1. /\ IsSession(sess[c]) /\ InOrder(sess[c], task[c], child[c]) /\ sess[c].state = "REPLY"
        /\ SessionSound(c, sess[c], child[c], rest[c], c \in failed, data, grants)
        /\ task[c] \in {"READ", "WRITE"} /\ child[c] = "none" /\ rest[c] \in Nat
    BY <1>2 DEF DataIInv, DataShape, SessionsInOrder, InOrder, UploadIInv, SendReply, Sending
  <2>2. /\ s.state = sess[c].next /\ s.next = sess[c].next /\ s.done = sess[c].done
        /\ s.buf = sess[c].buf /\ s.fb = sess[c].fb /\ s.proc = sess[c].proc /\ s.bf = sess[c].bf
    BY <2>1 DEF IsSession, SessionFields
  <2>3. r \in Nat /\ (sess[c].next = "READ" => r = sess[c].fb.size)
    BY <2>1 DEF SessionSound
  <2> HIDE DEF s, r
  <2>4. SessionSound(c, s, "none", r, c \in failed', data', grants')
    <3>1. s.buf = 0 /\ (s.state # "WRITE" => s.done = 0)
      BY <2>1, <2>2 DEF SessionSound
    <3>2. s.next = "READ" => s.done + s.buf + r = s.fb.size
      BY <2>1, <2>2, <2>3, <3>1 DEF SessionSound
    <3>3. QED BY <1>1, <2>1, <2>2, <3>1, <3>2 DEF SessionSound
  <2>5. /\ sess' = [sess EXCEPT ![c] = s] /\ rest' = [rest EXCEPT ![c] = r]
        /\ UNCHANGED <<child, index, failed>> /\ child = [child EXCEPT ![c] = "none"]
    BY <1>2, <2>1, Unmoved DEF SendReply, s, r, DataIInv
  <2>6. QED BY <1>1, <2>3, <2>4, <2>5, OneUpload
<1>3. CASE PartialReply(c) \/ ReplyToClosed(c)
  BY <1>1, <1>3, NothingUploaded DEF PartialReply, ReplyToClosed
<1>4. QED BY <1>2, <1>3

-----------------------------------------------------------------------------
(* Receiving a body.                                                       *)

\* Not more is flushed than has come.
LEMMA FlushedBounds ==
    ASSUME NEW c, NEW n \in Nat, sess[c].buf \in Nat
    PROVE  /\ Flushed(c, n) \in Nat /\ Flushed(c, n) <= sess[c].buf + n
           /\ sess[c].buf + n - Flushed(c, n) \in Nat
<1> DEFINE total == sess[c].buf + n
<1>1. total \in Nat /\ Buf \in Nat /\ Buf > 0
  BY DataServerAssumption
<1> HIDE DEF total
<1>2. total \div Buf \in Nat /\ Buf * (total \div Buf) \in Nat /\ Buf * (total \div Buf) <= total
  <2>1. \A b \in Nat, t \in Nat : b > 0 =>
            t \div b \in Int /\ t = b * (t \div b) + (t % b) /\ t % b \in 0..(b - 1)
    OBVIOUS
  <2>2. \A b \in Nat, q \in Int, t \in Nat, m \in Nat : t = b * q + m /\ m < b => b * q \in Int /\ b * q <= t
    OBVIOUS
  <2>3. \A b \in Nat, q \in Int, t \in Nat, m \in Nat : b > 0 /\ t = b * q + m /\ m < b => q >= 0
    OBVIOUS
  <2>4. \A b \in Nat, q \in Nat : b * q \in Nat
    OBVIOUS
  <2>5. total % Buf \in Nat /\ total % Buf < Buf
    BY <1>1, <2>1
  <2>6. QED BY <1>1, <2>1, <2>2, <2>3, <2>4, <2>5
<1>3. QED BY <1>1, <1>2 DEF Flushed, total

\* What is written of an upload is written at its place.
LEMMA RecvWrites ==
    ASSUME DataIInv, UploadIInv, StoreSound, NEW c \in Client, NEW m \in Nat,
           sess[c].next = "READ", WriteBytes(Location(c), sess[c].done, m),
           CloseHandle(sess[c].bf) \/ UNCHANGED <<bf, live>>, UNCHANGED <<files, cbf, grants>>
    PROVE  /\ StoreMoves /\ sess[c].done + m <= sess[c].fb.size
           /\ Filled(data', grants', Place(c, sess[c].fb), sess[c].done + m)
<1>1. SessionSound(c, sess[c], child[c], rest[c], c \in failed, data, grants)
  BY DEF UploadIInv
<1> DEFINE loc == Place(c, sess[c].fb)
           done == sess[c].done
<1>2. /\ Location(c) = loc /\ loc.size = sess[c].fb.size /\ loc.block = sess[c].bf
      /\ done \in Nat /\ loc.size \in Nat /\ done <= loc.size
  BY <1>1 DEF SessionSound, Place, Location
<1>3. PICK g \in grants : Fills(data, g, loc, done)
  BY <1>1 DEF SessionSound, Filled
<1>4. WriteBytes(g, done, m) /\ done + m <= loc.size
  <2>1. WriteBytes(loc, done, m)
    BY <1>2
  <2>2. g.who = loc.who /\ g.block = loc.block /\ g.off = loc.off /\ g.size = loc.size
    BY <1>3 DEF Fills
  <2>3. QED BY <2>1, <2>2 DEF WriteBytes
<1>5. CloseHandle(g.block) \/ UNCHANGED <<bf, live>>
  BY <1>2, <1>3 DEF Fills
<1>6. /\ StoreMoves
      /\ g.how = "extend" =>
           \A i \in (g.off + done + 1)..(g.off + done + m) : data'[g.block][i] # Hole
  BY <1>2, <1>4, <1>5, FlushMoves
<1>7. g.off \in Int /\ g.size = loc.size /\ g \in grants'
  BY <1>3, <1>6 DEF StoreSound, StoreIInv, StoreTypeOK, Grant, Fills, StoreMoves
<1> HIDE DEF loc, done
<1>8. ASSUME g.how = "extend", NEW i \in (g.off + 1)..(g.off + (done + m))
      PROVE  data'[g.block][i] # Hole
  <2>1. CASE i <= g.off + done
    <3>1. data[g.block][i] # Hole
      BY <1>2, <1>3, <1>7, <1>8, <2>1 DEF Fills
    <3>2. g \in Extended /\ i \in (g.off + 1)..(g.off + g.size)
      BY <1>2, <1>4, <1>7, <1>8 DEF Extended
    <3>3. QED BY <1>6, <3>1, <3>2 DEF StoreMoves
  <2>2. CASE i > g.off + done
    <3>1. i \in (g.off + done + 1)..(g.off + done + m)
      BY <1>2, <1>7, <1>8, <2>2
    <3>2. QED BY <1>6, <1>8, <3>1
  <2>3. QED BY <1>2, <1>7, <1>8, <2>1, <2>2
<1>9. Filled(data', grants', loc, done + m)
  <2>1. Fills(data', g, loc, done + m)
    BY <1>3, <1>8 DEF Fills
  <2>2. QED BY <1>7, <2>1 DEF Filled
<1>10. QED BY <1>2, <1>4, <1>6, <1>9 DEF loc, done

LEMMA RecvUploads ==
    ASSUME DataIInv, UploadIInv, StoreSound, NEW c \in Client, RecvBody(c) \/ RecvTrouble(c)
    PROVE  StoreMoves /\ UploadIInv'
<1>1. /\ Reading(c, "READ") /\ UNCHANGED <<files, cbf, grants, index>>
      /\ \A d \in Client \ {c} : d \in failed' <=> d \in failed
      /\ c \in failed => c \in failed'
  BY DEF RecvBody, RecvTrouble, RecvSome, RecvLast, RecvEof, RecvReset, RecvWriteError
<1>2. /\ DataShape /\ IsSession(sess[c]) /\ InOrder(sess[c], task[c], child[c])
      /\ SessionSound(c, sess[c], child[c], rest[c], c \in failed, data, grants)
      /\ child[c] = "none" /\ sess[c].state = "READ" /\ rest[c] \in Nat /\ task[c] = "READ"
  BY <1>1, ReadingAt
<1>3. /\ sess[c].next = "READ" /\ sess[c].proc = "add" /\ sess[c].bf = sess[c].fb.block
      /\ sess[c].done \in Nat /\ sess[c].buf \in Nat /\ sess[c].fb.size \in Nat
      /\ sess[c].fb.off \in Offsets(grants) /\ sess[c].done <= sess[c].fb.size
      /\ c \notin failed => sess[c].done + sess[c].buf + rest[c] = sess[c].fb.size
  BY <1>2 DEF InOrder, SessionSound
<1>4. child = [child EXCEPT ![c] = "none"]
  BY <1>2, Unmoved
<1>5. ASSUME NEW n \in 0..rest[c], NEW m \in Nat, NEW s, IsSession(s), NEW k,
             WriteBytes(Location(c), sess[c].done, m),
             CloseHandle(sess[c].bf) \/ UNCHANGED <<bf, live>>,
             sess' = [sess EXCEPT ![c] = s], child' = [child EXCEPT ![c] = k],
             rest' = [rest EXCEPT ![c] = @ - n],
             Filled(data', grants', Place(c, sess[c].fb), sess[c].done + m) =>
                SessionSound(c, s, k, rest[c] - n, c \in failed', data', grants')
      PROVE  StoreMoves /\ UploadIInv'
  <2>1. StoreMoves /\ Filled(data', grants', Place(c, sess[c].fb), sess[c].done + m)
    BY <1>1, <1>3, <1>5, RecvWrites
  <2>2. rest[c] - n \in Nat /\ rest' = [rest EXCEPT ![c] = rest[c] - n]
    BY <1>2, <1>5
  <2>3. QED BY <1>1, <1>5, <2>1, <2>2, OneUpload
\* The upload goes on, or its handler has given it up.
<1>6. ASSUME NEW n \in 0..rest[c], NEW m \in Nat, NEW buf \in Nat,
             WriteBytes(Location(c), sess[c].done, m),
             CloseHandle(sess[c].bf) \/ UNCHANGED <<bf, live>>, UNCHANGED child,
             sess' = [sess EXCEPT ![c] = [sess[c] EXCEPT !.done = @ + m, !.buf = buf]],
             rest' = [rest EXCEPT ![c] = @ - n],
             buf = sess[c].buf + n - m \/ c \in failed'
      PROVE  StoreMoves /\ UploadIInv'
  <2> DEFINE s == [sess[c] EXCEPT !.done = @ + m, !.buf = buf]
  <2>1. /\ IsSession(s) /\ s.done = sess[c].done + m /\ s.buf = buf /\ s.fb = sess[c].fb
        /\ s.state = "READ" /\ s.next = "READ" /\ s.proc = "add" /\ s.bf = sess[c].bf
    BY <1>2, <1>3 DEF IsSession, SessionFields
  <2>2. sess[c].done + m <= sess[c].fb.size
    BY <1>1, <1>3, <1>6, RecvWrites
  <2>3. sess' = [sess EXCEPT ![c] = s] /\ child' = [child EXCEPT ![c] = "none"]
    BY <1>4, <1>6
  <2> HIDE DEF s
  <2>4. c \notin failed' => s.done + s.buf + (rest[c] - n) = s.fb.size
    BY <1>1, <1>2, <1>3, <1>6, <2>1
  <2>5. s.done \in Nat
    BY <1>3, <1>6, <2>1
  <2>6. Filled(data', grants', Place(c, sess[c].fb), sess[c].done + m) =>
           SessionSound(c, s, "none", rest[c] - n, c \in failed', data', grants')
    BY <1>1, <1>3, <1>6, <2>1, <2>2, <2>4, <2>5 DEF SessionSound
  <2>7. QED BY <1>5, <1>6, <2>1, <2>3, <2>6
<1>7. ASSUME NEW n \in 0..rest[c]
      PROVE  /\ Flushed(c, n) \in Nat /\ sess[c].buf + n - Flushed(c, n) \in Nat
             /\ Taken(c, n) = [sess[c] EXCEPT !.done = @ + Flushed(c, n),
                                              !.buf = sess[c].buf + n - Flushed(c, n)]
  BY <1>2, <1>3, FlushedBounds DEF Taken, IsSession, SessionFields
<1>8. ASSUME NEW n \in 0..rest[c], RecvSome(c, n) \/ RecvEof(c, n) \/ RecvReset(c, n)
      PROVE  StoreMoves /\ UploadIInv'
  <2>1. /\ WriteBytes(Location(c), sess[c].done, Flushed(c, n))
        /\ CloseHandle(sess[c].bf) \/ UNCHANGED <<bf, live>>
        /\ sess' = [sess EXCEPT ![c] = Taken(c, n)] /\ rest' = [rest EXCEPT ![c] = @ - n]
        /\ UNCHANGED child
    BY <1>8 DEF RecvSome, RecvEof, RecvReset, TakeBytes
  <2>2. QED BY <1>6, <1>7, <2>1
<1>9. ASSUME NEW n \in 0..rest[c], RecvLast(c, n)
      PROVE  StoreMoves /\ UploadIInv'
  <2> DEFINE over == [sess[c] EXCEPT !.done = 0, !.buf = 0, !.next = "BEGIN"]
             no == Return(over, "error")
  <2>1. /\ WriteBytes(Location(c), sess[c].done, Flushed(c, n))
        /\ sess[c].done + Flushed(c, n) = sess[c].fb.size
        /\ CloseHandle(sess[c].bf) /\ rest' = [rest EXCEPT ![c] = @ - n]
        /\ \/ /\ sess' = [sess EXCEPT ![c] = over]
              /\ child' = [child EXCEPT ![c] = "write"]
           \/ /\ sess' = [sess EXCEPT ![c] = no]
              /\ UNCHANGED child
    BY <1>9 DEF RecvLast, TakeBytes, Whole
  <2>2. /\ IsSession(over) /\ over.done = 0 /\ over.buf = 0 /\ over.fb = sess[c].fb
        /\ over.next = "BEGIN" /\ over.state = "READ"
        /\ IsSession(no) /\ no.done = 0 /\ no.buf = 0 /\ no.fb = sess[c].fb
        /\ no.next = "BEGIN" /\ no.state = "REPLY"
    BY <1>2 DEF IsSession, SessionFields, Return
  <2> HIDE DEF over, no
  <2>3. Filled(data', grants', Place(c, sess[c].fb), sess[c].done + Flushed(c, n)) =>
          /\ SessionSound(c, over, "write", rest[c] - n, c \in failed', data', grants')
          /\ SessionSound(c, no, "none", rest[c] - n, c \in failed', data', grants')
    BY <1>1, <1>3, <2>1, <2>2 DEF SessionSound
  <2>4. CASE sess' = [sess EXCEPT ![c] = over] /\ child' = [child EXCEPT ![c] = "write"]
    BY <1>5, <1>7, <2>1, <2>2, <2>3, <2>4
  <2>5. CASE sess' = [sess EXCEPT ![c] = no] /\ UNCHANGED child
    <3>1. child' = [child EXCEPT ![c] = "none"]
      BY <1>4, <2>5
    <3>2. QED BY <1>5, <1>7, <2>1, <2>2, <2>3, <2>5, <3>1
  <2>6. QED BY <2>1, <2>4, <2>5
<1>10. ASSUME NEW n \in 0..rest[c], NEW k \in 0..n, RecvWriteError(c, n, k)
       PROVE  StoreMoves /\ UploadIInv'
  <2> DEFINE left == sess[c].buf + n - k * Buf
             buf == IF left < Buf THEN left ELSE Buf
  <2>1. k * Buf \in Nat /\ Buf \in Nat
    BY DataServerAssumption
  <2>2. buf \in Nat
    <3>1. Flushed(c, n) \in Nat /\ Flushed(c, n) <= sess[c].buf + n /\ k * Buf < Flushed(c, n)
      BY <1>2, <1>3, <1>10, FlushedBounds DEF RecvWriteError
    <3>2. QED BY <1>2, <1>3, <2>1, <3>1
  <2> HIDE DEF buf
  <2>3. /\ WriteBytes(Location(c), sess[c].done, k * Buf) /\ CloseHandle(sess[c].bf)
        /\ sess' = [sess EXCEPT ![c].done = @ + k * Buf, ![c].buf = buf]
        /\ rest' = [rest EXCEPT ![c] = @ - n] /\ UNCHANGED child /\ c \in failed'
    BY <1>10 DEF RecvWriteError, buf
  <2>4. sess' = [sess EXCEPT ![c] = [sess[c] EXCEPT !.done = @ + k * Buf, !.buf = buf]]
    BY <1>2, <2>3 DEF DataShape
  <2>5. QED BY <1>6, <2>1, <2>2, <2>3, <2>4
<1>11. CASE RecvBody(c)
  BY <1>2, <1>8, <1>9, <1>11 DEF RecvBody
<1>12. CASE RecvTrouble(c)
  BY <1>8, <1>10, <1>12 DEF RecvTrouble
<1>13. QED BY <1>11, <1>12

-----------------------------------------------------------------------------
(* Sending a file, the end of a session, and the name server.              *)

LEMMA SendUploads ==
    ASSUME DataIInv, UploadIInv, StoreSound, NEW c \in Client, SendBody(c)
    PROVE  StoreMoves /\ UploadIInv'
<1>1. /\ UNCHANGED storeVars /\ UNCHANGED <<child, rest, index, failed>>
      /\ sess[c].state = "WRITE" /\ task[c] # "NOOP"
  BY DEF SendBody, SendFile, SendPastEnd, SendPart, SendError, Sending, Answers
<1>2. StoreMoves /\ grants' = grants /\ data' = data
  BY <1>1, StoreRests DEF storeVars
<1>3. /\ DataShape /\ IsSession(sess[c]) /\ child[c] = "none" /\ rest[c] \in Nat
      /\ sess[c].next = "WRITE" /\ sess[c].buf = 0 /\ sess[c].done \in Nat
      /\ sess[c].fb.size \in Nat /\ sess[c].fb.off \in Offsets(grants)
  BY <1>1 DEF DataIInv, DataShape, SessionsInOrder, InOrder, UploadIInv, SessionSound
<1>4. /\ child' = [child EXCEPT ![c] = "none"] /\ rest' = [rest EXCEPT ![c] = rest[c]]
      /\ 0 \in Offsets(grants)
  BY <1>1, <1>3, Unmoved DEF UploadIInv, Offsets
<1>5. ASSUME NEW s, sess' = [sess EXCEPT ![c] = s], s.next = "WRITE", s.buf = 0, s.done \in Nat,
             s.state = "BEGIN" => s.done = 0, s.fb = sess[c].fb \/ s.fb = NoFile
      PROVE  UploadIInv'
  <2>1. s.fb.size \in Nat /\ s.fb.off \in Offsets(grants)
    BY <1>3, <1>4, <1>5 DEF NoFile
  <2>2. SessionSound(c, s, "none", rest[c], c \in failed', data', grants')
    BY <1>2, <1>5, <2>1 DEF SessionSound
  <2>3. QED BY <1>1, <1>2, <1>3, <1>4, <1>5, <2>2, OneUpload
<1>6. CASE SendFile(c)
  <2> DEFINE s == [sess[c] EXCEPT !.state = "BEGIN", !.done = 0, !.fb = NoFile]
  <2>1. s.next = "WRITE" /\ s.buf = 0 /\ s.done = 0 /\ s.fb = NoFile
    BY <1>3 DEF IsSession, SessionFields
  <2>2. sess' = [sess EXCEPT ![c] = s]
    BY <1>6 DEF SendFile
  <2> HIDE DEF s
  <2>3. s.done \in Nat
    BY <2>1
  <2>4. UploadIInv'
    BY <1>5, <2>1, <2>2, <2>3
  <2>5. QED BY <1>2, <2>4
<1>7. CASE SendPastEnd(c)
  BY <1>1, <1>2, <1>7, NothingUploaded DEF SendPastEnd
<1>8. ASSUME NEW k \in Nat, SendPart(c, k)
      PROVE  UploadIInv'
  <2> DEFINE s == [sess[c] EXCEPT !.done = @ + k]
  <2>1. /\ s.next = "WRITE" /\ s.buf = 0 /\ s.done \in Nat /\ s.fb = sess[c].fb
        /\ s.state = "WRITE"
    BY <1>1, <1>3 DEF IsSession, SessionFields
  <2>2. sess' = [sess EXCEPT ![c] = s]
    BY <1>8 DEF SendPart
  <2> HIDE DEF s
  <2>3. QED BY <1>5, <2>1, <2>2
<1>9. CASE SendError(c)
  <2> DEFINE s == Return(sess[c], "error")
  <2>1. /\ s.next = "WRITE" /\ s.buf = 0 /\ s.done = sess[c].done /\ s.fb = sess[c].fb
        /\ s.state = "REPLY"
    BY <1>3 DEF IsSession, SessionFields, Return
  <2>2. sess' = [sess EXCEPT ![c] = s]
    BY <1>9 DEF SendError, Answers
  <2> HIDE DEF s
  <2>3. QED BY <1>2, <1>3, <1>5, <2>1, <2>2
<1>10. \A k \in 0..(sess[c].fb.size - sess[c].done - 1) : k \in Nat
  BY <1>3
<1>11. CASE \E k \in 0..(sess[c].fb.size - sess[c].done - 1) : SendPart(c, k)
  BY <1>2, <1>8, <1>10, <1>11
<1>12. QED BY <1>2, <1>6, <1>7, <1>9, <1>11 DEF SendBody

LEMMA EndUploads ==
    ASSUME DataIInv, UploadIInv, StoreSound, NEW c \in Client,
           CloseSeen(c) \/ EndSession(c) \/ ClientClose(c)
    PROVE  StoreMoves /\ UploadIInv'
<1>1. UNCHANGED storeVars /\ UNCHANGED <<child, index>>
  BY DEF CloseSeen, EndSession, ClientClose
<1>2. StoreMoves /\ grants' = grants /\ data' = data
  BY <1>1, StoreRests DEF storeVars
<1>3. CASE CloseSeen(c)
  <2> DEFINE s == [sess[c] EXCEPT !.next = "BEGIN"]
  <2>1. /\ DataShape /\ IsSession(sess[c]) /\ child[c] = "none" /\ rest[c] \in Nat
        /\ SessionSound(c, sess[c], child[c], rest[c], c \in failed, data, grants)
        /\ sess[c].state = "BEGIN"
    BY <1>3, ReadingAt DEF CloseSeen
  <2>2. /\ s.next = "BEGIN" /\ s.buf = sess[c].buf /\ s.done = sess[c].done /\ s.fb = sess[c].fb
        /\ s.state = "BEGIN"
    BY <2>1 DEF IsSession, SessionFields
  <2>3. /\ sess' = [sess EXCEPT ![c] = s] /\ rest' = [rest EXCEPT ![c] = rest[c]]
        /\ child' = [child EXCEPT ![c] = "none"] /\ UNCHANGED failed
    BY <1>1, <1>3, <2>1, Unmoved DEF CloseSeen, UploadIInv
  <2> HIDE DEF s
  <2>4. SessionSound(c, s, "none", rest[c], c \in failed', data', grants')
    BY <1>2, <2>1, <2>2 DEF SessionSound
  <2>5. \A d \in Client \ {c} : d \in failed' <=> d \in failed
    BY <2>3
  <2>6. UNCHANGED index /\ rest[c] \in Nat
    BY <1>1, <2>1
  <2>7. QED BY <1>2, <2>3, <2>4, <2>5, <2>6, OneUpload
<1>4. CASE EndSession(c)
  <2>1. child[c] = "none" /\ DataShape
    BY <1>4 DEF EndSession, DataIInv, SessionsInOrder, InOrder
  <2>2. /\ sess' = [sess EXCEPT ![c] = NewSession] /\ rest' = [rest EXCEPT ![c] = 0]
        /\ child' = [child EXCEPT ![c] = "none"] /\ failed' = failed \ {c}
    BY <1>1, <1>4, <2>1, Unmoved DEF EndSession
  <2>3. SessionSound(c, NewSession, "none", 0, c \in failed', data', grants')
    BY DEF SessionSound, NewSession, NoFile, Offsets
  <2>4. \A d \in Client \ {c} : d \in failed' <=> d \in failed
    BY <2>2
  <2>5. QED BY <1>1, <1>2, <2>2, <2>3, <2>4, OneUpload
<1>5. CASE ClientClose(c)
  BY <1>1, <1>2, <1>5, NothingUploaded DEF ClientClose
<1>6. QED BY <1>3, <1>4, <1>5

LEMMA TakenUploads ==
    ASSUME DataIInv, UploadIInv, StoreSound, NEW c \in Client, NameServerTakes(c)
    PROVE  StoreMoves /\ UploadIInv'
<1>1. /\ UNCHANGED storeVars /\ UNCHANGED <<sess, rest, failed>>
      /\ child[c] = "write" /\ child' = [child EXCEPT ![c] = "ok"]
      /\ index' = [index EXCEPT ![sess[c].fb.name] = IF @ = Unregistered THEN Location(c) ELSE @]
  BY DEF NameServerTakes
<1>2. StoreMoves /\ grants' = grants /\ data' = data
  BY <1>1, StoreRests DEF storeVars
<1>3. DataShape /\ \A d \in Client \ {c} : child'[d] = child[d]
  BY <1>1 DEF DataIInv, DataShape
<1>4. \A d \in Client : child'[d] # "none" => child[d] # "none"
  BY <1>1, <1>3
<1>5. \A d \in Client :
          SessionSound(d, sess[d], child'[d], rest[d], d \in failed, data, grants)
  <2>1. ASSUME NEW d \in Client
        PROVE  SessionSound(d, sess[d], child'[d], rest[d], d \in failed, data, grants)
    <3>1. SessionSound(d, sess[d], child[d], rest[d], d \in failed, data, grants)
      BY DEF UploadIInv
    <3>2. QED BY <1>4, <3>1 DEF SessionSound
  <2>2. QED BY <2>1
<1>6. Filled(data, grants, Location(c), Location(c).size)
  <2>1. Filled(data, grants, Place(c, sess[c].fb), sess[c].fb.size)
    BY <1>1 DEF UploadIInv, SessionSound
  <2>2. Location(c) = Place(c, sess[c].fb) /\ Location(c).size = sess[c].fb.size
    BY DEF Location, Place
  <2>3. QED BY <2>1, <2>2
<1>7. IndexFilled'
  <2>1. ASSUME NEW n \in Name, index'[n] # Unregistered
        PROVE  Filled(data, grants, index'[n], index'[n].size)
    <3>1. index'[n] = index[n] \/ index'[n] = Location(c)
      BY <1>1, <1>3 DEF DataShape
    <3>2. QED BY <1>6, <2>1, <3>1 DEF UploadIInv, IndexFilled
  <2>2. QED BY <1>2, <2>1 DEF IndexFilled, Unregistered
<1>8. UploadIInv'
  BY <1>1, <1>2, <1>5, <1>7 DEF UploadIInv
<1>9. QED BY <1>2, <1>8

LEMMA AnswerUploads ==
    ASSUME DataIInv, UploadIInv, StoreSound, NEW c \in Client, Registered(c) \/ NotRegistered(c)
    PROVE  StoreMoves /\ UploadIInv'
<1>1. PICK reply : Finish(c, reply)
  BY DEF Registered, NotRegistered
<1> DEFINE s == Return([sess[c] EXCEPT !.fb = NoFile], reply)
<1>2. /\ UNCHANGED storeVars /\ UNCHANGED <<rest, index, failed>>
      /\ sess' = [sess EXCEPT ![c] = s] /\ child' = [child EXCEPT ![c] = "none"]
  BY <1>1 DEF Finish
<1>3. StoreMoves /\ grants' = grants /\ data' = data
  BY <1>2, StoreRests DEF storeVars
<1>4. /\ IsSession(sess[c]) /\ child[c] # "none" /\ InOrder(sess[c], task[c], child[c])
      /\ SessionSound(c, sess[c], child[c], rest[c], c \in failed, data, grants)
      /\ rest[c] \in Nat /\ rest' = [rest EXCEPT ![c] = rest[c]]
  BY <1>2 DEF Registered, NotRegistered, DataIInv, DataShape, SessionsInOrder, UploadIInv
<1>5. sess[c].next = "BEGIN" /\ sess[c].done = 0 /\ sess[c].buf = 0
  BY <1>4 DEF InOrder, SessionSound
<1>6. /\ s.next = "BEGIN" /\ s.done = 0 /\ s.buf = 0 /\ s.fb = NoFile /\ s.state = "REPLY"
  BY <1>4, <1>5 DEF IsSession, SessionFields, Return
<1> HIDE DEF s
<1>7. SessionSound(c, s, "none", rest[c], c \in failed', data', grants')
  BY <1>6 DEF SessionSound, NoFile, Offsets
<1>8. QED BY <1>2, <1>3, <1>4, <1>7, OneUpload

-----------------------------------------------------------------------------
LEMMA UploadStep ==
    ASSUME DataIInv, StoreSound, UploadIInv, [Next]_vars
    PROVE  StoreMoves /\ UploadIInv'
<1>1. ASSUME NEW c \in Client, Command(c) \/ Serve(c) \/ Child(c) \/ ClientClose(c)
      PROVE  StoreMoves /\ UploadIInv'
  BY <1>1, CommandUploads, ReplyUploads, RecvUploads, SendUploads, EndUploads, TakenUploads,
     AnswerUploads DEF Serve, Child
<1>2. CASE UNCHANGED vars
  <2>1. UNCHANGED storeVars /\ UNCHANGED <<sess, child, rest, index, failed>>
    BY <1>2 DEF vars, sessVars
  <2>2. QED BY <2>1, StoreRests, NothingUploaded
<1>3. QED BY <1>1, <1>2 DEF Next

ServerIInv == DataIInv /\ StoreSound /\ UploadIInv

LEMMA ServerInitHolds == Init => ServerIInv
<1>1. SUFFICES ASSUME Init PROVE StoreSound /\ UploadIInv
  BY DataInitHolds DEF ServerIInv
<1>2. StoreSound
  BY <1>1, InitIInv DEF Init, StoreInit, StoreSound, BytesIInv, ExtendedBytesOwned,
                        BeyondIsCreators, Extended
<1>3. ASSUME NEW c \in Client
      PROVE  SessionSound(c, sess[c], child[c], rest[c], c \in failed, data, grants)
  BY <1>1 DEF Init, NewSession, NoFile, SessionSound, Offsets
<1>4. IndexFilled /\ rest \in [Client -> Nat]
  BY <1>1 DEF Init, IndexFilled
<1>5. QED BY <1>2, <1>3, <1>4 DEF UploadIInv

LEMMA ServerStep == ServerIInv /\ [Next]_vars => ServerIInv' /\ StoreMoves
<1>1. SUFFICES ASSUME ServerIInv, [Next]_vars PROVE ServerIInv' /\ StoreMoves
  OBVIOUS
<1>2. DataIInv'
  BY <1>1, DataStep DEF ServerIInv
<1>3. StoreMoves /\ UploadIInv'
  BY <1>1, UploadStep DEF ServerIInv
<1>4. StoreSound'
  BY <1>3 DEF StoreMoves, StoreSound
<1>5. QED BY <1>2, <1>3, <1>4 DEF ServerIInv

LEMMA ServerInvariant == Spec => []ServerIInv
  BY ServerInitHolds, ServerStep, PTL DEF Spec

\* However sessions interleave, and whatever breaks, stalls or is dropped, a
\* name is registered only for an upload that block_file_append has placed, and
\* all bytes of one placed behind the recorded size are written by then.
THEOREM RegisteredFilesIntact == Spec => []RegisteredIntact
<1>1. ASSUME ServerIInv PROVE RegisteredIntact
  <2>1. ASSUME NEW n \in Name, index[n] # Unregistered
        PROVE  \E g \in grants :
                  /\ g.who = index[n].who /\ g.block = index[n].block
                  /\ g.off = index[n].off /\ g.size = index[n].size
                  /\ g.how = "extend" =>
                        \A i \in (g.off + 1)..(g.off + g.size) :
                            data[g.block][i] \in {g.who} \cup Creators(g.block)
    <3>1. PICK g \in grants : Fills(data, g, index[n], index[n].size)
      BY <1>1, <2>1 DEF ServerIInv, UploadIInv, IndexFilled, Filled
    <3>2. /\ g.who = index[n].who /\ g.block = index[n].block
          /\ g.off = index[n].off /\ g.size = index[n].size
          /\ g.how = "extend" =>
                \A i \in (g.off + 1)..(g.off + g.size) : data[g.block][i] # Hole
      BY <3>1 DEF Fills
    <3>3. g.how = "extend" =>
            \A i \in (g.off + 1)..(g.off + g.size) :
                data[g.block][i] \in {g.who} \cup Creators(g.block)
      BY <1>1, <3>2 DEF ServerIInv, StoreSound, BytesIInv, ExtendedBytesOwned, Extended
    <3>4. QED BY <3>2, <3>3
  <2>2. QED BY <2>1 DEF RegisteredIntact
<1>2. QED BY <1>1, ServerInvariant, PTL

\* While a body is received, what is written, what is buffered and what is
\* still to come are the whole file (__file_add_loop_recv, session_write_file).
THEOREM UploadsAddUp == Spec => []BytesAccounted
<1>1. ASSUME ServerIInv PROVE BytesAccounted
  BY <1>1 DEF ServerIInv, UploadIInv, SessionSound, BytesAccounted, Uploading
<1>2. QED BY <1>1, ServerInvariant, PTL

\* What holds of the block files for any caller holds in the server, whose
\* handlers flush and close in one step: extents are disjoint, inside their
\* files, hold their owners' bytes (data_file.c), and nothing written is lost.
THEOREM ServerKeepsStore ==
    Spec => /\ [](StoreTypeOK /\ ExtendedDisjoint /\ ExtendedInsideFile /\ ExtendedBytesOwned)
            /\ ExtendedBytesKept
<1>1. ServerIInv => StoreTypeOK /\ ExtendedDisjoint /\ ExtendedInsideFile /\ ExtendedBytesOwned
  BY DEF ServerIInv, StoreSound, StoreIInv, BytesIInv
<1>2. ServerIInv /\ [Next]_vars =>
        [\A g \in Extended : \A i \in (g.off + 1)..(g.off + g.size) :
            data[g.block][i] # Hole => data[g.block]'[i] # Hole]_storeVars
  <2>1. SUFFICES ASSUME ServerIInv, [Next]_vars, NEW g \in Extended,
                        NEW i \in (g.off + 1)..(g.off + g.size), data[g.block][i] # Hole
                 PROVE  data[g.block]'[i] # Hole
    OBVIOUS
  <2>2. data'[g.block][i] # Hole
    BY <2>1, ServerStep DEF StoreMoves
  <2>3. QED BY <2>2
<1>3. QED BY <1>1, <1>2, ServerInvariant, PTL DEF Spec, ExtendedBytesKept

\* Only file_add gives out places.
LEMMA OnlyAddGrants ==
    ASSUME ServerIInv, [Next]_vars
    PROVE  [StoreNext]_storeVars \/ grants' = grants
<1>1. ASSUME NEW c \in Client, NEW name \in Name, NEW size \in Size, FileAdd(c, name, size)
      PROVE  [StoreNext]_storeVars
  <2>1. <<c, name>> \in Writer /\ sess[c].fb.off \in StaleOffset
    BY DataServerAssumption DEF ServerIInv, UploadIInv, SessionSound, Offsets, StaleOffset
  <2>2. QED BY <1>1, <2>1 DEF FileAdd, StoreNext, AppendExtendFail
<1>2. ASSUME NEW c \in Client, NEW name \in Name, FileGet(c, name)
      PROVE  UNCHANGED storeVars
  BY <1>2 DEF FileGet
<1>3. ASSUME NEW c \in Client, Command(c)
      PROVE  [StoreNext]_storeVars
  BY <1>1, <1>2, <1>3 DEF Command, OtherCommand, CommandCut
<1>4. ASSUME NEW c \in Client, Serve(c) \/ Child(c) \/ ClientClose(c)
      PROVE  grants' = grants
  BY <1>4 DEF Serve, Child, ClientClose, SendReply, PartialReply, ReplyToClosed, RecvBody, RecvTrouble,
              RecvSome, RecvLast, RecvEof, RecvReset, RecvWriteError, SendBody, SendFile, SendPastEnd,
              SendPart, SendError, CloseSeen, EndSession, NameServerTakes, Registered, NotRegistered,
              Finish, storeVars
<1>5. QED BY <1>3, <1>4 DEF Next, vars

\* Towards its clients the whole server is an allocator of extents, as
\* block_file_append is: no handler of a session gives one out twice.
THEOREM ServerImplementsAllocator == Spec => ExtendRefinesAllocator
<1>1. Init => Alloc!AllocInit
  BY DEF Init, StoreInit, Alloc!AllocInit, Extended
<1>2. ServerIInv /\ [Next]_vars
        => [Alloc!AllocNext]_{[block |-> g.block, off |-> g.off, size |-> g.size] : g \in Extended}
  <2>1. SUFFICES ASSUME ServerIInv, [Next]_vars PROVE [Alloc!AllocNext]_Extents
    BY DEF Extents
  <2>2. CASE [StoreNext]_storeVars
    BY <2>1, <2>2, StepAllocates DEF ServerIInv, StoreSound
  <2>3. CASE grants' = grants
    BY <2>3 DEF Extents, Extended
  <2>4. QED BY <2>1, <2>2, <2>3, OnlyAddGrants
<1>3. QED
  BY <1>1, <1>2, ServerInvariant, PTL DEF Spec, ExtendRefinesAllocator, Alloc!AllocSpec

-----------------------------------------------------------------------------
(* The count of the uploads that use a block.                              *)

Users(b) == {c \in Client : Uploading(c) /\ sess[c].bf = b}

Counted ==
    /\ \A c \in Client : Uploading(c) => sess[c].bf \in live
    /\ \A b \in live : IsFiniteSet(Users(b)) /\ bf[b].num = Cardinality(Users(b))

\* As long as no body can be cut short every upload is in the count of its
\* block, and no session gets to where it is ended.
Calm ==
    faults \cap {"io", "close", "timeout"} = {} =>
        /\ \A c \in Client : peer[c] = "open" /\ task[c] # "END"
        /\ Counted

\* Who uploads, and where to, stays the same, and so do the counts.
UploadersRest ==
    \A c \in Client : /\ Uploading(c)' <=> Uploading(c)
                      /\ Uploading(c) => sess'[c].bf = sess[c].bf

LEMMA CountedStays ==
    ASSUME Counted, UploadersRest, live' = live, \A b \in live : bf'[b].num = bf[b].num
    PROVE  Counted'
<1>1. \A b \in live : Users(b)' = Users(b)
  BY DEF UploadersRest, Users
<1>2. QED BY <1>1 DEF Counted, UploadersRest

\* A step of one session: the others upload on.
LEMMA OneUser ==
    ASSUME DataShape, NEW c \in Client, NEW s, sess' = [sess EXCEPT ![c] = s]
    PROVE  /\ Uploading(c)' <=> s.proc = "add" /\ s.next = "READ"
           /\ sess'[c] = s
           /\ \A d \in Client \ {c} : Uploading(d)' <=> Uploading(d)
           /\ \A d \in Client \ {c} : sess'[d] = sess[d]
  BY DEF DataShape, Uploading

\* A new upload of the block b.
LEMMA CountedMore ==
    ASSUME Counted, StoreTypeOK, NEW c \in Client, NEW b, ~Uploading(c), Uploading(c)',
           sess'[c].bf = b,
           \A d \in Client \ {c} : (Uploading(d)' <=> Uploading(d)) /\ sess'[d] = sess[d],
           live' = live \cup {b}, \A a \in live \ {b} : bf'[a].num = bf[a].num,
           IF b \in live THEN bf'[b].num = bf[b].num + 1 ELSE bf'[b].num = 1
    PROVE  Counted'
<1>1. \A a : a # b => Users(a)' = Users(a)
  BY DEF Users
<1>2. Users(b)' = Users(b) \cup {c} /\ c \notin Users(b)
  BY DEF Users
<1>3. IsFiniteSet(Users(b)') /\ bf'[b].num = Cardinality(Users(b)')
  <2>1. CASE b \in live
    <3>1. IsFiniteSet(Users(b)) /\ bf[b].num = Cardinality(Users(b))
      BY <2>1 DEF Counted
    <3>2. /\ IsFiniteSet(Users(b) \cup {c})
          /\ Cardinality(Users(b) \cup {c}) = Cardinality(Users(b)) + 1
      BY <1>2, <3>1, FS_AddElement
    <3>3. QED BY <1>2, <2>1, <3>1, <3>2
  <2>2. CASE b \notin live
    <3>1. Users(b) = {}
      BY <2>2 DEF Counted, Users
    <3>2. Users(b)' = {c}
      BY <1>2, <3>1
    <3>3. IsFiniteSet({c}) /\ Cardinality({c}) = 1
      BY FS_Singleton
    <3>4. QED BY <2>2, <3>2, <3>3
  <2>3. QED BY <2>1, <2>2
<1>4. \A a \in live' : IsFiniteSet(Users(a)') /\ bf'[a].num = Cardinality(Users(a)')
  BY <1>1, <1>3 DEF Counted
<1>5. \A d \in Client : Uploading(d)' => sess'[d].bf \in live'
  BY DEF Counted
<1>6. QED BY <1>4, <1>5 DEF Counted

\* An upload that ends and closes its block.
LEMMA CountedLess ==
    ASSUME Counted, StoreTypeOK, NEW c \in Client, NEW b, sess[c].bf = b,
           Uploading(c), ~Uploading(c)',
           \A d \in Client \ {c} : (Uploading(d)' <=> Uploading(d)) /\ sess'[d] = sess[d],
           CloseHandle(b)
    PROVE  Counted'
<1>1. /\ b \in live /\ live \subseteq Block /\ bf \in [Block -> Handle]
      /\ IsFiniteSet(Users(b)) /\ bf[b].num = Cardinality(Users(b))
  BY DEF Counted, StoreTypeOK
<1>2. c \in Users(b)
  BY DEF Users
<1>3. bf[b].num # 0
  BY <1>1, <1>2, FS_EmptySet
<1>4. live' = live /\ bf' = [bf EXCEPT ![b].num = @ - 1]
  BY <1>3 DEF CloseHandle
<1>5. bf'[b].num = bf[b].num - 1 /\ \A a \in live \ {b} : bf'[a].num = bf[a].num
  <2>1. bf[b] \in Handle
    BY <1>1
  <2>2. QED BY <1>1, <1>4, <2>1 DEF Handle
<1>6. Users(b)' = Users(b) \ {c} /\ \A a : a # b => Users(a)' = Users(a)
  BY DEF Users
<1>7. IsFiniteSet(Users(b)') /\ bf'[b].num = Cardinality(Users(b)')
  <2>1. /\ IsFiniteSet(Users(b) \ {c})
        /\ Cardinality(Users(b) \ {c}) = Cardinality(Users(b)) - 1
    BY <1>1, <1>2, FS_RemoveElement
  <2>2. QED BY <1>1, <1>5, <1>6, <2>1
<1>8. \A a \in live' : IsFiniteSet(Users(a)') /\ bf'[a].num = Cardinality(Users(a)')
  <2>1. ASSUME NEW a \in live, a # b
        PROVE  IsFiniteSet(Users(a)') /\ bf'[a].num = Cardinality(Users(a)')
    <3>1. Users(a)' = Users(a) /\ bf'[a].num = bf[a].num
      BY <1>5, <1>6, <2>1
    <3>2. QED BY <3>1 DEF Counted
  <2>2. QED BY <1>4, <1>7, <2>1
<1>9. \A d \in Client : Uploading(d)' => sess'[d].bf \in live'
  BY <1>4 DEF Counted
<1>10. QED BY <1>8, <1>9 DEF Counted

LEMMA CommandCounts ==
    ASSUME ServerIInv, Counted, NEW c \in Client, Command(c)
    PROVE  Counted'
<1>1. Reading(c, "BEGIN")
  BY DEF Command, OtherCommand, CommandCut, FileAdd, FileGet
<1>2. /\ DataShape /\ IsSession(sess[c]) /\ sess[c].next # "READ" /\ ~Uploading(c)
      /\ StoreTypeOK
  BY <1>1, ReadingAt DEF ServerIInv, SessionSound, StoreSound, StoreIInv, Uploading
<1>3. ASSUME NEW s, sess' = [sess EXCEPT ![c] = s], s.next # "READ", live' = live,
             \A b \in live : bf'[b].num = bf[b].num
      PROVE  Counted'
  BY <1>2, <1>3, OneUser, CountedStays DEF UploadersRest
<1>4. CASE OtherCommand(c)
  <2> DEFINE s == Return(Begun(c, "other"), "error")
  <2>1. s.next # "READ"
    BY <1>2 DEF Return, Begun, IsSession, SessionFields
  <2>2. sess' = [sess EXCEPT ![c] = s] /\ UNCHANGED <<live, bf>>
    BY <1>4 DEF OtherCommand, Answers, storeVars
  <2> HIDE DEF s
  <2>3. QED BY <1>3, <2>1, <2>2
<1>5. CASE CommandCut(c)
  <2> DEFINE s == [sess[c] EXCEPT !.next = "BEGIN"]
  <2>1. s.next # "READ"
    BY <1>2 DEF IsSession, SessionFields
  <2>2. sess' = [sess EXCEPT ![c] = s] /\ UNCHANGED <<live, bf>>
    BY <1>5 DEF CommandCut, storeVars
  <2> HIDE DEF s
  <2>3. QED BY <1>3, <2>1, <2>2
<1>6. ASSUME NEW name \in Name, NEW size \in Size, FileAdd(c, name, size)
      PROVE  Counted'
  <2>1. Retired(size) \in [Block -> Handle] /\ \A b \in Block : Retired(size)[b].num = bf[b].num
    <3>1. Retired(size) \in [Block -> Handle]
      BY <1>2, RetiredType
    <3>2. bf \in [Block -> Handle]
      BY <1>2 DEF StoreTypeOK
    <3>3. \A b \in Block : bf[b] \in Handle => [bf EXCEPT ![cbf].state = 2][b].num = bf[b].num
      BY <3>2 DEF Handle
    <3>4. QED BY <3>1, <3>2, <3>3 DEF Retired
  <2>2. ASSUME NEW b \in Block, NEW off, Answers(c, Ready(c, name, size, b, off)),
               live' = live \cup {b}, \A a \in live \ {b} : bf'[a].num = bf[a].num,
               IF b \in live THEN bf'[b].num = bf[b].num + 1 ELSE bf'[b].num = 1
        PROVE  Counted'
    <3> DEFINE s == Ready(c, name, size, b, off)
    <3>1. s.proc = "add" /\ s.next = "READ" /\ s.bf = b
      <4> DEFINE d == Declared(c, name, size)
                 p == [d EXCEPT !.fb.block = b, !.fb.off = off, !.bf = b, !.next = "READ"]
      <4>1. IsSession(d) /\ d.proc = "add"
        BY <1>2 DEF Declared, Begun, IsSession, SessionFields
      <4>2. Ready(c, name, size, b, off) = Return(p, "ready")
        BY DEF Ready
      <4> HIDE DEF d
      <4>3. IsSession(p) /\ p.proc = "add" /\ p.bf = b /\ p.next = "READ"
        BY <4>1 DEF IsSession, SessionFields
      <4> HIDE DEF p
      <4>4. QED BY <4>2, <4>3 DEF Return, IsSession, SessionFields
    <3>2. sess' = [sess EXCEPT ![c] = s]
      BY <2>2 DEF Answers
    <3> HIDE DEF s
    <3>3. /\ Uploading(c)' /\ sess'[c].bf = b
          /\ \A d \in Client \ {c} : (Uploading(d)' <=> Uploading(d)) /\ sess'[d] = sess[d]
      <4>1. DataShape
        BY <1>2
      <4>2. QED BY <3>1, <3>2, <4>1, OneUser
    <3>4. QED BY <1>2, <2>2, <3>3, CountedMore
  <2>3. ASSUME NEW b \in Block, AppendCreate(<<c, name>>, size, sess[c].fb.off, b),
               Answers(c, Ready(c, name, size, b, sess[c].fb.off))
        PROVE  Counted'
    <3>1. /\ b \notin live /\ live' = live \cup {b} /\ live \subseteq Block
          /\ bf' = [Retired(size) EXCEPT ![b] = Fresh]
      BY <1>2, <2>3 DEF AppendCreate, StoreTypeOK
    <3>2. bf'[b].num = 1 /\ \A a \in live \ {b} : bf'[a].num = bf[a].num
      BY <2>1, <3>1 DEF Fresh
    <3>3. QED BY <2>2, <2>3, <3>1, <3>2
  <2>4. CASE AppendExtend(<<c, name>>, size) /\ Answers(c, Ready(c, name, size, cbf, bf[cbf].size))
    <3>0. PICK off : off = bf[cbf].size
      OBVIOUS
    <3>1. PICK b \in Block : b = cbf
      BY <1>2, <2>4 DEF AppendExtend, MustCreate, StoreTypeOK
    <3>2. /\ b \in live /\ live' = live /\ live \subseteq Block /\ bf \in [Block -> Handle]
          /\ bf' = [bf EXCEPT ![b].size = bf[b].size + size, ![b].num = @ + 1]
      BY <1>2, <2>4, <3>1, BlockAssumption DEF AppendExtend, MustCreate, CbfDefined, StoreTypeOK
    <3>3. bf'[b].num = bf[b].num + 1 /\ \A a \in live \ {b} : bf'[a].num = bf[a].num
      BY <3>2 DEF Handle
    <3>4. QED BY <2>2, <2>4, <3>0, <3>1, <3>2, <3>3
  <2>5. CASE /\ AppendCreateFail(size) \/ AppendExtendFail(size)
             /\ Answers(c, Return(Declared(c, name, size), "error"))
    <3> DEFINE s == Return(Declared(c, name, size), "error")
    <3>1. s.next # "READ"
      BY <1>2 DEF Declared, Begun, Return, IsSession, SessionFields
    <3>2. live \subseteq Block
      BY <1>2 DEF StoreTypeOK
    <3>3. live' = live /\ \A b \in live : bf'[b].num = bf[b].num
      BY <2>1, <2>5, <3>2 DEF AppendCreateFail, AppendExtendFail, storeVars
    <3>4. sess' = [sess EXCEPT ![c] = s]
      BY <2>5 DEF Answers
    <3> HIDE DEF s
    <3>5. QED BY <1>3, <3>1, <3>3, <3>4
  <2>6. QED BY <1>6, <2>3, <2>4, <2>5 DEF FileAdd
<1>7. ASSUME NEW name \in Name, FileGet(c, name)
      PROVE  Counted'
  <2> DEFINE loc == index[name]
             asked == [Begun(c, "get") EXCEPT !.fb =
                         [name |-> name, block |-> loc.block, off |-> loc.off, size |-> loc.size]]
             ok == Return([asked EXCEPT !.done = 0, !.next = "WRITE"], "opened")
             no == Return(asked, "error")
  <2>1. ok.next # "READ" /\ no.next # "READ"
    BY <1>2 DEF Begun, Return, IsSession, SessionFields
  <2>2. /\ UNCHANGED <<live, bf>>
        /\ sess' = [sess EXCEPT ![c] = ok] \/ sess' = [sess EXCEPT ![c] = no]
    BY <1>7 DEF FileGet, Answers, storeVars
  <2> HIDE DEF ok, no, loc
  <2>3. QED BY <1>3, <2>1, <2>2
<1>8. QED BY <1>4, <1>5, <1>6, <1>7 DEF Command

\* Nothing goes wrong with the body of an upload, so nothing is undone.
LEMMA ServeCounts ==
    ASSUME ServerIInv, Counted, NEW c \in Client, Serve(c) \/ Child(c),
           peer[c] = "open", task[c] # "END",
           "io" \notin faults, "timeout" \notin faults
    PROVE  Counted'
<1>1. /\ DataShape /\ IsSession(sess[c]) /\ InOrder(sess[c], task[c], child[c]) /\ StoreTypeOK
      /\ SessionSound(c, sess[c], child[c], rest[c], c \in failed, data, grants)
  BY DEF ServerIInv, DataIInv, DataShape, SessionsInOrder, StoreSound, StoreIInv, UploadIInv
<1>2. ASSUME NEW s, sess' = [sess EXCEPT ![c] = s], s.next = sess[c].next, s.proc = sess[c].proc,
             s.bf = sess[c].bf, UNCHANGED <<live, bf>>
      PROVE  Counted'
  <2>1. UploadersRest
    BY <1>1, <1>2, OneUser DEF UploadersRest, Uploading
  <2>2. QED BY <1>2, <2>1, CountedStays
<1>3. ASSUME UNCHANGED <<sess, live, bf>>
      PROVE  Counted'
  BY <1>3, CountedStays DEF UploadersRest, Uploading
<1>4. CASE SendReply(c) \/ PartialReply(c) \/ ReplyToClosed(c)
  <2> DEFINE s == [sess[c] EXCEPT !.state = sess[c].next, !.reply = "none"]
  <2>1. s.next = sess[c].next /\ s.proc = sess[c].proc /\ s.bf = sess[c].bf
    BY <1>1 DEF IsSession, SessionFields
  <2>2. /\ sess' = [sess EXCEPT ![c] = s] \/ sess' = sess
        /\ UNCHANGED <<live, bf>>
    BY <1>4 DEF SendReply, PartialReply, ReplyToClosed, storeVars
  <2> HIDE DEF s
  <2>3. QED BY <1>2, <1>3, <2>1, <2>2
<1>5. ASSUME NEW n, RecvSome(c, n)
      PROVE  Counted'
  <2>1. /\ Taken(c, n).next = sess[c].next /\ Taken(c, n).proc = sess[c].proc
        /\ Taken(c, n).bf = sess[c].bf
    BY <1>1 DEF Taken, IsSession, SessionFields
  <2>2. QED BY <1>2, <1>5, <2>1 DEF RecvSome
<1>6. ASSUME NEW n, RecvLast(c, n)
      PROVE  Counted'
  <2> DEFINE over == [sess[c] EXCEPT !.done = 0, !.buf = 0, !.next = "BEGIN"]
             no == Return(over, "error")
  <2>1. over.next = "BEGIN" /\ no.next = "BEGIN"
    BY <1>1 DEF IsSession, SessionFields, Return
  <2>2. /\ sess' = [sess EXCEPT ![c] = over] \/ sess' = [sess EXCEPT ![c] = no]
        /\ CloseHandle(sess[c].bf) /\ sess[c].proc = "add" /\ sess[c].state = "READ"
        /\ task[c] = "READ"
    BY <1>6 DEF RecvLast, Reading
  <2>3. Uploading(c)
    BY <1>1, <2>2 DEF InOrder, Uploading
  <2> HIDE DEF over, no
  <2>4. PICK b : sess[c].bf = b
    OBVIOUS
  <2>5. /\ ~Uploading(c)'
        /\ \A d \in Client \ {c} : (Uploading(d)' <=> Uploading(d)) /\ sess'[d] = sess[d]
    BY <1>1, <2>1, <2>2, OneUser
  <2>6. QED BY <1>1, <2>2, <2>3, <2>4, <2>5, CountedLess
<1>7. CASE SendBody(c)
  <2>1. UNCHANGED <<live, bf>>
    BY <1>7 DEF SendBody, SendFile, SendPastEnd, SendPart, SendError, storeVars
  <2>2. CASE SendFile(c)
    <3> DEFINE s == [sess[c] EXCEPT !.state = "BEGIN", !.done = 0, !.fb = NoFile]
    <3>1. s.next = sess[c].next /\ s.proc = sess[c].proc /\ s.bf = sess[c].bf
      BY <1>1 DEF IsSession, SessionFields
    <3>2. sess' = [sess EXCEPT ![c] = s]
      BY <2>2 DEF SendFile
    <3> HIDE DEF s
    <3>3. QED BY <1>2, <2>1, <3>1, <3>2
  <2>3. CASE SendPastEnd(c)
    BY <1>3, <2>1, <2>3 DEF SendPastEnd
  <2>4. ASSUME NEW k, SendPart(c, k)
        PROVE  Counted'
    <3> DEFINE s == [sess[c] EXCEPT !.done = @ + k]
    <3>1. s.next = sess[c].next /\ s.proc = sess[c].proc /\ s.bf = sess[c].bf
      BY <1>1 DEF IsSession, SessionFields
    <3>2. sess' = [sess EXCEPT ![c] = s]
      BY <2>4 DEF SendPart
    <3> HIDE DEF s
    <3>3. QED BY <1>2, <2>1, <3>1, <3>2
  <2>5. CASE SendError(c)
    <3> DEFINE s == Return(sess[c], "error")
    <3>1. s.next = sess[c].next /\ s.proc = sess[c].proc /\ s.bf = sess[c].bf
      BY <1>1 DEF IsSession, SessionFields, Return
    <3>2. sess' = [sess EXCEPT ![c] = s]
      BY <2>5 DEF SendError, Answers
    <3> HIDE DEF s
    <3>3. QED BY <1>2, <2>1, <3>1, <3>2
  <2>6. QED BY <1>7, <2>2, <2>3, <2>4, <2>5 DEF SendBody
<1>8. CASE Child(c)
  <2>1. UNCHANGED <<live, bf>>
    BY <1>8 DEF Child, NameServerTakes, Registered, NotRegistered, Finish, storeVars
  <2>2. CASE NameServerTakes(c)
    BY <1>3, <2>1, <2>2 DEF NameServerTakes
  <2>3. CASE Registered(c) \/ NotRegistered(c)
    <3>1. PICK reply : sess' = [sess EXCEPT ![c] = Return([@ EXCEPT !.fb = NoFile], reply)]
      BY <2>3 DEF Registered, NotRegistered, Finish
    <3> DEFINE s == Return([sess[c] EXCEPT !.fb = NoFile], reply)
    <3>2. s.next = sess[c].next /\ s.proc = sess[c].proc /\ s.bf = sess[c].bf
      BY <1>1 DEF IsSession, SessionFields, Return
    <3>3. sess' = [sess EXCEPT ![c] = s]
      BY <3>1
    <3> HIDE DEF s
    <3>4. QED BY <1>2, <2>1, <3>2, <3>3
  <2>4. QED BY <1>8, <2>2, <2>3 DEF Child
<1>9. ~RecvTrouble(c) /\ ~CloseSeen(c) /\ ~EndSession(c)
  BY DEF RecvTrouble, RecvEof, RecvReset, RecvWriteError, CloseSeen, EndSession
<1>10. CASE RecvBody(c)
  BY <1>5, <1>6, <1>10 DEF RecvBody
<1>11. QED BY <1>4, <1>7, <1>8, <1>9, <1>10 DEF Serve

\* Nobody hangs up, and no session is ended.
LEMMA CalmTasks ==
    ASSUME ServerIInv, Calm, faults \cap {"io", "close", "timeout"} = {}, [Next]_vars
    PROVE  \A c \in Client : peer'[c] = "open" /\ task'[c] # "END"
<1>1. \A d \in Client : peer[d] = "open" /\ task[d] # "END"
  BY DEF Calm
<1>2. task = [d \in Client |-> task[d]]
  BY DEF ServerIInv, DataIInv, DataShape
<1>3. ASSUME NEW c \in Client, Command(c) \/ Serve(c) \/ Child(c) \/ ClientClose(c)
      PROVE  /\ UNCHANGED peer
             /\ UNCHANGED task \/ \E t \in {"READ", "WRITE", "NOOP"} : task' = [task EXCEPT ![c] = t]
  <2>1. ~CloseSeen(c) /\ ~EndSession(c) /\ ~ClientClose(c) /\ ~RecvTrouble(c)
    BY <1>1 DEF CloseSeen, EndSession, ClientClose, RecvTrouble, RecvEof, RecvReset, RecvWriteError
  <2>2. CASE Command(c)
    BY <2>2 DEF Command, OtherCommand, CommandCut, FileAdd, FileGet, Answers
  <2>3. CASE Serve(c)
    BY <2>1, <2>3 DEF Serve, SendReply, PartialReply, ReplyToClosed, RecvBody, RecvSome, RecvLast,
                      SendBody, SendFile, SendPastEnd, SendPart, SendError, Answers
  <2>4. CASE Child(c)
    BY <2>4 DEF Child, NameServerTakes, Registered, NotRegistered, Finish
  <2>5. QED BY <1>3, <2>1, <2>2, <2>3, <2>4
<1>4. CASE UNCHANGED vars
  BY <1>1, <1>4 DEF vars, sessVars
<1>5. CASE Next
  <2>1. PICK c \in Client : Command(c) \/ Serve(c) \/ Child(c) \/ ClientClose(c)
    BY <1>5 DEF Next
  <2>2. \A d \in Client : task'[d] = task[d] \/ task'[d] \in {"READ", "WRITE", "NOOP"}
    BY <1>2, <1>3, <2>1
  <2>3. QED BY <1>1, <1>3, <2>1, <2>2
<1>6. QED BY <1>4, <1>5

LEMMA FaultsStay == [Next]_vars => UNCHANGED faults
<1>1. ASSUME NEW c \in Client, Command(c)
      PROVE  UNCHANGED faults
  BY <1>1 DEF Command, OtherCommand, CommandCut, FileAdd, FileGet, Answers
<1>2. ASSUME NEW c \in Client, RecvBody(c) \/ RecvTrouble(c)
      PROVE  UNCHANGED faults
  BY <1>2 DEF RecvBody, RecvTrouble, RecvSome, RecvLast, RecvEof, RecvReset, RecvWriteError
<1>3. ASSUME NEW c \in Client, SendBody(c)
      PROVE  UNCHANGED faults
  BY <1>3 DEF SendBody, SendFile, SendPastEnd, SendPart, SendError, Answers
<1>4. ASSUME NEW c \in Client, Serve(c)
      PROVE  UNCHANGED faults
  BY <1>2, <1>3, <1>4 DEF Serve, SendReply, PartialReply, ReplyToClosed, CloseSeen, EndSession
<1>5. ASSUME NEW c \in Client, Child(c) \/ ClientClose(c)
      PROVE  UNCHANGED faults
  BY <1>5 DEF Child, NameServerTakes, Registered, NotRegistered, Finish, ClientClose
<1>6. QED BY <1>1, <1>4, <1>5 DEF Next, vars, sessVars

LEMMA CalmStep == ServerIInv /\ Calm /\ [Next]_vars => Calm'
<1>1. SUFFICES ASSUME ServerIInv, Calm, [Next]_vars, faults \cap {"io", "close", "timeout"} = {}
               PROVE  (\A c \in Client : peer'[c] = "open" /\ task'[c] # "END") /\ Counted'
  BY FaultsStay DEF Calm
<1>2. Counted /\ \A c \in Client : peer[c] = "open" /\ task[c] # "END"
  BY <1>1 DEF Calm
<1>3. ASSUME NEW c \in Client, Command(c) \/ Serve(c) \/ Child(c) \/ ClientClose(c)
      PROVE  Counted'
  BY <1>1, <1>2, <1>3, CommandCounts, ServeCounts DEF ClientClose
<1>4. CASE UNCHANGED vars
  BY <1>2, <1>4, CountedStays DEF vars, storeVars, sessVars, UploadersRest, Uploading
<1>5. QED BY <1>1, <1>3, <1>4, CalmTasks DEF Next

LEMMA CalmInitHolds == Init => Calm
  BY DEF Init, StoreInit, NewSession, Calm, Counted, Uploading

\* Unless bodies are cut short, num of a live block is the number of uploads
\* that use it, through retirements, failed appends, stalls and failing
\* registrations (block_file_append, block_file_close): it is never negative, and
\* no handle that an upload still uses is freed.
THEOREM NumCountsUploads == Spec => []NumIsRefCount
<1>1. Calm => NumIsRefCount
  BY DEF Calm, Counted, Users, NumIsRefCount
<1>2. QED BY <1>1, CalmInitHolds, CalmStep, ServerInvariant, PTL DEF Spec

=============================================================================
