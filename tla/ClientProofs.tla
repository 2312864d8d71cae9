------------------------------ MODULE ClientProofs ------------------------------
(***************************************************************************)
(* However the runs interleave, whatever part of a chunk a socket takes    *)
(* and whenever a server ends: what was received for a registered name are *)
(* the bytes that give it the name, and a download that ends well leaves   *)
(* them.  The proof has three layers.  The first follows the bytes of an   *)
(* upload to the data server; the second says that a block holds them at   *)
(* the place it has given, from then on; the third follows what is sent of *)
(* the block to a download.                                                *)
(***************************************************************************)
EXTENDS Client, SequenceTheorems, FiniteSetTheorems, WellFoundedInduction, TLAPS

Byte == {Nul, Line} \cup UNION {Range(Body[n]) : n \in Name}

RunFields == {"opt", "at", "iret", "name", "named", "addr", "fb", "sent", "file"}
ConnFields == {"up", "taken", "done", "fb", "down", "ready", "closed"}
PlaceFields == {"server", "block", "off", "size", "holder", "first", "bytes"}

\* The bytes that have reached a session are the first ones of the file, all of
\* them; or some are missing, and then there are fewer than the client counts.
SentInOrder(t, c) ==
    LET all == c.taken \o c.up
    IN  /\ t.sent \in 0..Len(Body[t.name])
        /\ c.fb # NoFile => Len(all) < t.sent \/ all = SubSeq(Body[t.name], 1, t.sent)

Uploads(t, c) ==
    /\ t.at \in {"index", "find", "find again", "file_add", "body", "last"}
    /\ t.at \in {"file_add", "body", "last"} => t.addr \in Running
    /\ t.at \in {"body", "last"} => SentInOrder(t, c)
    /\ t.at \notin {"body", "last"} => t.sent = 0 /\ ~c.ready

Downloads(t, c) ==
    /\ t.at \in {"index", "get", "first", "more"}
    /\ c.ready => t.at \in {"first", "more"}

\* The session has the place of the file exactly as long as it takes its bytes.
Session(t, c) ==
    /\ c.up \in Seq(Byte) /\ c.taken \in Seq(Byte) /\ c.ready \in BOOLEAN
    /\ c.fb = [f \in PlaceFields |-> c.fb[f]]
    /\ c.fb # NoFile => /\ t.at \in {"body", "last"} /\ t.opt = "add" /\ c.ready
                        /\ c.fb.size = Len(Body[t.name])
    /\ t.opt = "add" /\ c.ready => c.fb # NoFile

\* A run of the program and its connection.
RunInOrder(t, c) ==
    /\ t = [f \in RunFields |-> t[f]] /\ c = [f \in ConnFields |-> c[f]]
    /\ t.at # "idle" => t.name \in Name /\ t.iret = "none"
    /\ t.iret = "OK" => t.opt = "none"
    /\ Session(t, c)
    /\ \/ t.opt = "none" /\ t.at = "idle" /\ ~c.ready
       \/ t.opt = "add" /\ Uploads(t, c)
       \/ t.opt = "get" /\ Downloads(t, c)

RunsInOrder ==
    /\ tc = [p \in Proc |-> tc[p]] /\ net = [p \in Proc |-> net[p]]
    /\ \A p \in Proc : RunInOrder(tc[p], net[p])

IndexWhole ==
    /\ index = [n \in Name |-> index[n]]
    /\ \A n \in Name : index[n] # NoFile =>
          index[n].bytes = Body[n] /\ index[n].size = Len(Body[n])

ClientIInv == RunsInOrder /\ IndexWhole

-----------------------------------------------------------------------------
(* Sequences of bytes.                                                     *)

LEMMA BodyIsSeq ==
    ASSUME NEW n \in Name
    PROVE  Body[n] \in Seq(Byte) /\ Len(Body[n]) \in Nat \ {0}
<1>1. Body[n] \in Seq(Range(Body[n])) /\ Body[n] # <<>>
  BY ClientAssumption
<1>2. Range(Body[n]) \subseteq Byte
  BY DEF Byte
<1>3. Body[n] \in Seq(Byte)
  BY <1>1, <1>2, SeqMonotonic
<1>4. QED BY <1>1, <1>3, EmptySeq

LEMMA SmallerIs ==
    ASSUME NEW a \in Nat, NEW b \in Nat
    PROVE  Min({a, b}) = IF a <= b THEN a ELSE b
<1> DEFINE m == IF a <= b THEN a ELSE b
<1>1. m \in {a, b} /\ \A y \in {a, b} : m =< y
  OBVIOUS
<1>2. Min({a, b}) \in {a, b} /\ \A y \in {a, b} : Min({a, b}) =< y
  BY <1>1 DEF Min
<1>3. QED BY <1>1, <1>2

LEMMA LeastIs ==
    ASSUME NEW T \in SUBSET Nat, T # {}
    PROVE  Min(T) \in T /\ \A y \in T : Min(T) =< y
<1>1. PICK m \in T : \A k \in T : <<k, m>> \notin OpToRel(<, Nat)
  BY NatLessThanWellFounded, WFMin
<1>2. ASSUME NEW y \in T PROVE m =< y
  <2>1. <<y, m>> \notin OpToRel(<, Nat)
    BY <1>1
  <2>2. y \in Nat /\ m \in Nat
    OBVIOUS
  <2>3. ~(y < m)
    BY <2>1, <2>2 DEF OpToRel
  <2>4. QED BY <2>2, <2>3
<1>3. QED BY <1>2 DEF Min

LEMMA PartIs ==
    ASSUME NEW s \in Seq(Byte), NEW m \in 0..Len(s), NEW n \in m..Len(s)
    PROVE  LET part == SubSeq(s, m + 1, n)
           IN  /\ part \in Seq(Byte) /\ Len(part) = n - m
               /\ \A i \in 1..(n - m) : part[i] = s[m + i]
<1>1. Len(s) \in Nat
  BY LenProperties
<1>2. m + 1 \in Int /\ n \in Int /\ m \in Int
  BY <1>1
<1>3. \A i \in (m + 1)..n : s[i] \in Byte
  BY <1>1, ElementOfSeq
<1> DEFINE part == SubSeq(s, m + 1, n)
<1>4. /\ part \in Seq(Byte) /\ Len(part) = IF m + 1 <= n THEN n - (m + 1) + 1 ELSE 0
      /\ \A i \in 1..(n - (m + 1) + 1) : part[i] = s[(m + 1) + i - 1]
  BY <1>2, <1>3, SubSeqProperties
<1> HIDE DEF part
<1>5. Len(part) = n - m
  BY <1>1, <1>2, <1>4
<1>6. ASSUME NEW i \in 1..(n - m) PROVE part[i] = s[m + i]
  <2>1. i \in 1..(n - (m + 1) + 1) /\ (m + 1) + i - 1 = m + i
    BY <1>2
  <2>2. QED BY <1>4, <2>1
<1>7. QED BY <1>4, <1>5, <1>6 DEF part

\* What comes and what is left of it.
LEMMA PartsOf ==
    ASSUME NEW s \in Seq(Byte), NEW k \in 0..Len(s)
    PROVE  LET front == SubSeq(s, 1, k)
               rest == SubSeq(s, k + 1, Len(s))
           IN  front \in Seq(Byte) /\ rest \in Seq(Byte) /\ front \o rest = s
<1>1. Len(s) \in Nat
  BY LenProperties
<1>2. 0 \in 0..Len(s) /\ k \in 0..Len(s) /\ Len(s) \in k..Len(s) /\ 0 + 1 = 1
  BY <1>1
<1>3. SubSeq(s, 1, k) \in Seq(Byte) /\ SubSeq(s, k + 1, Len(s)) \in Seq(Byte)
  BY <1>2, PartIs
<1>4. 1 \in 1..(Len(s) + 1) /\ k \in (1 - 1)..Len(s)
  BY <1>1
<1>5. SubSeq(s, 1, k) \o SubSeq(s, k + 1, Len(s)) = SubSeq(s, 1, Len(s))
  BY <1>2, <1>4, ConcatAdjacentSubSeq
<1>6. SubSeq(s, 1, Len(s)) = s
  BY SubSeqFull
<1>7. QED BY <1>3, <1>5, <1>6

\* One more chunk, taken up to its k-th byte.
LEMMA ChunkFollows ==
    ASSUME NEW body \in Seq(Byte), NEW m \in 0..Len(body), NEW n \in m..Len(body),
           NEW all \in Seq(Byte), Len(all) < m \/ all = SubSeq(body, 1, m),
           NEW k \in 1..(n - m)
    PROVE  LET part == SubSeq(SubSeq(body, m + 1, n), 1, k)
           IN  /\ part \in Seq(Byte)
               /\ Len(all \o part) < n \/ all \o part = SubSeq(body, 1, n)
<1> DEFINE chunk == SubSeq(body, m + 1, n)
           part == SubSeq(chunk, 1, k)
<1>1. Len(body) \in Nat /\ m \in Nat /\ n \in Nat /\ k \in Nat /\ m < n
  BY LenProperties
<1>2. \A i \in (m + 1)..n : body[i] \in Byte
  BY <1>1, ElementOfSeq
<1>3. chunk \in Seq(Byte) /\ Len(chunk) = n - m
  <2>1. m + 1 \in Int /\ n \in Int /\ m + 1 <= n /\ n - (m + 1) + 1 = n - m
    BY <1>1
  <2>2. chunk \in Seq(Byte) /\ Len(chunk) = IF m + 1 <= n THEN n - (m + 1) + 1 ELSE 0
    BY <1>2, <2>1, SubSeqProperties
  <2>3. QED BY <2>1, <2>2
<1> HIDE DEF chunk
<1>4. \A i \in 1..k : chunk[i] \in Byte
  BY <1>1, <1>3, ElementOfSeq
<1>5. part \in Seq(Byte) /\ Len(part) = k
  <2>1. 1 \in Int /\ k \in Int /\ 1 <= k
    BY <1>1
  <2>2. QED BY <1>4, <2>1, SubSeqProperties
<1>6. Len(all \o part) = Len(all) + k /\ Len(all) \in Nat
  BY <1>5, ConcatProperties, LenProperties
<1>7. CASE Len(all) < m
  BY <1>1, <1>5, <1>6, <1>7
<1>8. CASE all = SubSeq(body, 1, m)
  <2>1. \A i \in 1..m : body[i] \in Byte
    BY <1>1, ElementOfSeq
  <2>2. Len(all) = m
    <3>1. 1 \in Int /\ m \in Int
      BY <1>1
    <3>2. Len(all) = IF 1 <= m THEN m - 1 + 1 ELSE 0
      BY <1>8, <2>1, <3>1, SubSeqProperties
    <3>3. QED BY <1>1, <3>2
  <2>3. CASE k < n - m
    BY <1>1, <1>5, <1>6, <2>2, <2>3
  <2>4. CASE k = n - m
    <3>1. part = chunk
      BY <1>3, <2>4, SubSeqFull
    <3>2. SubSeq(body, 1, m) \o SubSeq(body, m + 1, n) = SubSeq(body, 1, n)
      <4>1. 1 \in 1..(Len(body) + 1) /\ m \in (1 - 1)..Len(body) /\ n \in m..Len(body)
        BY <1>1
      <4>2. QED BY <4>1, ConcatAdjacentSubSeq
    <3>3. QED BY <1>5, <1>8, <3>1, <3>2 DEF chunk
  <2>5. QED BY <1>1, <2>3, <2>4
<1>9. QED BY <1>7, <1>8 DEF chunk

-----------------------------------------------------------------------------
(* The bytes of an upload: a step of one run.                              *)

\* A step that brings a run and its connection to t and c leaves the others alone.
LEMMA OneRunMoves ==
    ASSUME ClientIInv, NEW p \in Proc, NEW t, NEW c,
           tc' = [tc EXCEPT ![p] = t], net' = [net EXCEPT ![p] = c], RunInOrder(t, c)
    PROVE  RunsInOrder'
<1>1. tc = [q \in Proc |-> tc[q]] /\ net = [q \in Proc |-> net[q]]
      /\ \A q \in Proc : RunInOrder(tc[q], net[q])
  BY DEF ClientIInv, RunsInOrder
<1>2. tc'[p] = t /\ net'[p] = c
  BY <1>1
<1>3. \A q \in Proc : q # p => tc'[q] = tc[q] /\ net'[q] = net[q]
  BY <1>1
<1>4. tc' = [q \in Proc |-> tc'[q]] /\ net' = [q \in Proc |-> net'[q]]
  BY <1>1
<1>5. ASSUME NEW q \in Proc PROVE RunInOrder(tc'[q], net'[q])
  <2>1. CASE q = p
    BY <1>2, <2>1
  <2>2. CASE q # p
    <3>1. RunInOrder(tc[q], net[q]) /\ tc'[q] = tc[q] /\ net'[q] = net[q]
      BY <1>1, <1>3, <2>2
    <3>2. QED BY <3>1
  <2>3. QED BY <2>1, <2>2
<1>6. QED
  BY <1>4, <1>5 DEF RunsInOrder, RunInOrder, Session, Uploads, Downloads, SentInOrder

LEMMA OneRun ==
    ASSUME ClientIInv, NEW p \in Proc, NEW t, NEW c,
           tc' = [tc EXCEPT ![p] = t], net' = [net EXCEPT ![p] = c], index' = index,
           RunInOrder(t, c)
    PROVE  ClientIInv'
<1>1. RunsInOrder'
  BY OneRunMoves
<1>2. IndexWhole'
  BY DEF ClientIInv, IndexWhole
<1>3. QED BY <1>1, <1>2 DEF ClientIInv

LEMMA GoesAlone ==
    ASSUME ClientIInv, NEW p \in Proc, NEW t, Goes(p, t),
           index' = index, net' = net, RunInOrder(t, net[p])
    PROVE  ClientIInv'
<1>1. net = [q \in Proc |-> net[q]]
  BY DEF ClientIInv, RunsInOrder
<1>2. net' = [net EXCEPT ![p] = net[p]]
  BY <1>1
<1>3. QED BY <1>2, OneRun DEF Goes

LEMMA AnswersAlone ==
    ASSUME ClientIInv, NEW p \in Proc, NEW c, net' = [net EXCEPT ![p] = c],
           index' = index, tc' = tc, RunInOrder(tc[p], c)
    PROVE  ClientIInv'
<1>1. tc = [q \in Proc |-> tc[q]]
  BY DEF ClientIInv, RunsInOrder
<1>2. tc' = [tc EXCEPT ![p] = tc[p]]
  BY <1>1
<1>3. QED BY <1>2, OneRun

\* What is known of a run.
LEMMA RunIs ==
    ASSUME ClientIInv, NEW p \in Proc
    PROVE  /\ RunInOrder(tc[p], net[p])
           /\ tc[p] = [f \in RunFields |-> tc[p][f]] /\ net[p] = [f \in ConnFields |-> net[p][f]]
           /\ tc[p].at # "idle" => tc[p].name \in Name /\ tc[p].iret = "none"
           /\ tc[p].iret = "OK" => tc[p].opt = "none"
           /\ Session(tc[p], net[p])
           /\ \/ tc[p].opt = "none" /\ tc[p].at = "idle" /\ ~net[p].ready
              \/ tc[p].opt = "add" /\ Uploads(tc[p], net[p])
              \/ tc[p].opt = "get" /\ Downloads(tc[p], net[p])
           /\ tc = [q \in Proc |-> tc[q]] /\ net = [q \in Proc |-> net[q]]
  BY DEF ClientIInv, RunsInOrder, RunInOrder

\* An upload, and a download, in the middle.
LEMMA UploadIs ==
    ASSUME ClientIInv, NEW p \in Proc,
           tc[p].at \in {"find", "find again", "file_add", "body", "last"}
    PROVE  tc[p].opt = "add" /\ Uploads(tc[p], net[p]) /\ tc[p].name \in Name
           /\ tc[p].iret = "none"
  BY RunIs DEF Downloads

LEMMA DownloadIs ==
    ASSUME ClientIInv, NEW p \in Proc, tc[p].at \in {"get", "first", "more"}
    PROVE  tc[p].opt = "get" /\ Downloads(tc[p], net[p]) /\ tc[p].name \in Name
           /\ tc[p].iret = "none" /\ net[p].fb = NoFile
  BY RunIs DEF Uploads, Session

LEMMA IdleIs ==
    /\ Idle = [f \in RunFields |-> Idle[f]]
    /\ Idle.opt = "none" /\ Idle.at = "idle" /\ Idle.iret = "none" /\ Idle.sent = 0
  BY DEF Idle, RunFields

LEMMA NoConnIs ==
    /\ NoConn = [f \in ConnFields |-> NoConn[f]] /\ NoConn.fb = NoFile /\ NoConn.ready = FALSE
    /\ NoConn.up = <<>> /\ NoConn.taken = <<>> /\ NoConn.done = 0 /\ NoConn.down = <<>>
    /\ ~NoConn.closed /\ NoFile = [f \in PlaceFields |-> NoFile[f]]
  BY DEF NoConn, NoFile, ConnFields, PlaceFields

\* A connection without an upload, whatever has come on it.
LEMMA QuietSession ==
    ASSUME NEW t, NEW c, c.fb = NoFile, c.up = <<>>, c.taken = <<>>, c.ready \in BOOLEAN,
           t.opt = "add" => ~c.ready
    PROVE  Session(t, c)
<1>1. <<>> \in Seq(Byte)
  BY EmptySeq
<1>2. QED BY <1>1, NoConnIs DEF Session

LEMMA EndsInOrder ==
    ASSUME ClientIInv, NEW p \in Proc, NEW t, NEW iret, Ends(p, t, iret)
    PROVE  ClientIInv'
<1> DEFINE u == IF iret = "OK" /\ t.opt = "get"
                THEN [Idle EXCEPT !.iret = "OK", !.name = t.name, !.file = t.file] ELSE Idle
<1>1. u = [f \in RunFields |-> u[f]] /\ u.at = "idle" /\ u.opt = "none"
  BY IdleIs DEF RunFields
<1>2. tc' = [tc EXCEPT ![p] = u] /\ net' = [net EXCEPT ![p] = NoConn] /\ index' = index
  BY DEF Ends, Goes
<1> HIDE DEF u
<1>3. Session(u, NoConn)
  BY <1>1, NoConnIs, QuietSession
<1>4. RunInOrder(u, NoConn)
  BY <1>1, <1>3, NoConnIs DEF RunInOrder
<1>5. QED BY <1>2, <1>4, OneRun

LEMMA FailsInOrder ==
    ASSUME ClientIInv, NEW p \in Proc, Fails(p)
    PROVE  ClientIInv'
  BY EndsInOrder DEF Fails

-----------------------------------------------------------------------------
(* The steps of the program.                                               *)

LEMMA MainStep ==
    ASSUME ClientIInv, NEW p \in Proc, NEW opt \in {"add", "get"}, NEW n \in Name,
           NEW named \in BOOLEAN, Main(p, opt, n, named)
    PROVE  ClientIInv'
<1> DEFINE s == [Idle EXCEPT !.opt = opt, !.name = n, !.named = named]
           t == [s EXCEPT !.at = "index"]
<1>1. CASE Configured
  <2>1. t = [f \in RunFields |-> t[f]] /\ t.at = "index" /\ t.opt = opt /\ t.name = n
        /\ t.iret = "none" /\ t.sent = 0
    BY IdleIs DEF RunFields
  <2>2. Goes(p, t) /\ index' = index /\ net' = net
    BY <1>1 DEF Main, others
  <2>3. tc[p].at = "idle"
    BY DEF Main
  <2> HIDE DEF t
  <2>4. ~net[p].ready /\ net[p].fb = NoFile
    BY <2>3, RunIs DEF Uploads, Downloads, Session
  <2>5. Session(t, net[p])
    BY <2>4, RunIs DEF Session
  <2>6. RunInOrder(t, net[p])
    BY <2>1, <2>4, <2>5, RunIs DEF RunInOrder, Uploads, Downloads
  <2>7. QED BY <2>2, <2>6, GoesAlone
<1>2. CASE ~Configured
  <2>1. Ends(p, s, "ERR")
    BY <1>2 DEF Main
  <2> HIDE DEF s
  <2>2. QED BY <2>1, EndsInOrder
<1>3. QED BY <1>1, <1>2

LEMMA AddLookupStep ==
    ASSUME ClientIInv, NEW p \in Proc, AddLookup(p)
    PROVE  ClientIInv'
<1>1. CASE Fails(p)
  BY <1>1, FailsInOrder
<1>2. CASE ~Fails(p)
  <2> DEFINE t == [tc[p] EXCEPT !.at = "find", !.named = FALSE]
  <2>1. tc[p].at = "index" /\ tc[p].opt = "add" /\ Goes(p, t) /\ index' = index /\ net' = net
    BY <1>2 DEF AddLookup, others
  <2>2. Uploads(tc[p], net[p]) /\ tc[p].name \in Name /\ tc[p].iret = "none"
    BY <2>1, RunIs
  <2>3. t = [f \in RunFields |-> t[f]] /\ t.at = "find" /\ t.opt = "add"
        /\ t.name = tc[p].name /\ t.iret = "none" /\ t.sent = tc[p].sent
    BY <2>1, <2>2, RunIs DEF RunFields
  <2> HIDE DEF t
  <2>4. Session(t, net[p])
    BY <2>1, <2>3, RunIs DEF Session
  <2>5. RunInOrder(t, net[p])
    BY <2>1, <2>2, <2>3, <2>4, RunIs DEF RunInOrder, Uploads
  <2>6. QED BY <2>1, <2>5, GoesAlone
<1>3. QED BY <1>1, <1>2

LEMMA GetLookupStep ==
    ASSUME ClientIInv, NEW p \in Proc, GetLookup(p)
    PROVE  ClientIInv'
<1>1. CASE Fails(p)
  BY <1>1, FailsInOrder
<1>2. CASE ~Fails(p)
  <2> DEFINE fb == index[tc[p].name]
             t == [tc[p] EXCEPT !.at = "get", !.fb = fb,
                                !.addr = DsAddrById(ClientConf, fb.server)]
  <2>1. tc[p].at = "index" /\ tc[p].opt = "get" /\ Goes(p, t) /\ index' = index /\ net' = net
    BY <1>2 DEF GetLookup, others
  <2>2. tc[p].name \in Name /\ tc[p].iret = "none" /\ Downloads(tc[p], net[p])
        /\ net[p].fb = NoFile /\ ~net[p].ready
    BY <2>1, RunIs DEF Session, Downloads
  <2>3. t = [f \in RunFields |-> t[f]] /\ t.at = "get" /\ t.opt = "get"
        /\ t.name = tc[p].name /\ t.iret = "none"
    BY <2>1, <2>2, RunIs DEF RunFields
  <2> HIDE DEF t
  <2>4. Session(t, net[p])
    BY <2>2, <2>3, RunIs DEF Session
  <2>5. RunInOrder(t, net[p])
    BY <2>2, <2>3, <2>4, RunIs DEF RunInOrder, Downloads
  <2>6. QED BY <2>1, <2>5, GoesAlone
<1>3. QED BY <1>1, <1>2

LEMMA StorageStep ==
    ASSUME ClientIInv, NEW p \in Proc, StorageFromMaster(p)
    PROVE  ClientIInv'
<1>1. CASE Fails(p)
  BY <1>1, FailsInOrder
<1>2. CASE ~Fails(p)
  <2>1. tc[p].at \in {"find", "find again"}
    BY DEF StorageFromMaster
  <2>2. PICK d \in Running :
           /\ IF tc[p].at = "find" THEN Goes(p, [tc[p] EXCEPT !.at = "find again"])
              ELSE Goes(p, [tc[p] EXCEPT !.at = "file_add", !.addr = d])
           /\ index' = index /\ net' = net
    BY <1>2 DEF StorageFromMaster, GoesTo, others
  <2>3. tc[p].opt = "add" /\ Uploads(tc[p], net[p]) /\ tc[p].name \in Name
        /\ tc[p].iret = "none"
    BY <2>1, UploadIs
  <2> DEFINE t == IF tc[p].at = "find" THEN [tc[p] EXCEPT !.at = "find again"]
                  ELSE [tc[p] EXCEPT !.at = "file_add", !.addr = d]
  <2>4. t = [f \in RunFields |-> t[f]] /\ t.at \in {"find again", "file_add"}
        /\ t.opt = "add" /\ t.name = tc[p].name /\ t.iret = "none" /\ t.sent = tc[p].sent
        /\ (t.at = "file_add" => t.addr \in Running)
    BY <2>3, RunIs DEF RunFields
  <2>5. Goes(p, t)
    BY <2>2
  <2> HIDE DEF t
  <2>6. Session(t, net[p])
    BY <2>1, <2>3, <2>4, RunIs DEF Session
  <2>7. RunInOrder(t, net[p])
    BY <2>1, <2>3, <2>4, <2>6, RunIs DEF RunInOrder, Uploads
  <2>8. QED BY <2>2, <2>5, <2>7, GoesAlone
<1>3. QED BY <1>1, <1>2

LEMMA SendFileAddStep ==
    ASSUME ClientIInv, NEW p \in Proc, SendFileAdd(p)
    PROVE  ClientIInv'
<1>1. CASE Fails(p)
  BY <1>1, FailsInOrder
<1>2. CASE ~Fails(p)
  <2> DEFINE body == Body[tc[p].name]
             fb == Located(tc[p].addr, Len(body))
             t == [tc[p] EXCEPT !.at = "body"]
  <2>1. tc[p].at = "file_add" /\ index' = index /\ Goes(p, t)
    BY <1>2 DEF SendFileAdd, GoesTo, others
  <2>2. PICK c : /\ net' = [net EXCEPT ![p] = c]
                 /\ \/ c = [NoConn EXCEPT !.ready = TRUE, !.fb = fb]
                    \/ \E closed \in BOOLEAN : c = [NoConn EXCEPT !.closed = closed]
    BY <1>2 DEF SendFileAdd
  <2>3. tc[p].opt = "add" /\ tc[p].sent = 0 /\ tc[p].name \in Name /\ tc[p].iret = "none"
        /\ tc[p].addr \in Running
    BY <2>1, UploadIs DEF Uploads
  <2>4. t = [f \in RunFields |-> t[f]] /\ t.at = "body" /\ t.opt = "add"
        /\ t.name = tc[p].name /\ t.iret = "none" /\ t.sent = 0 /\ t.addr = tc[p].addr
    BY <2>3, RunIs DEF RunFields
  <2>5. body \in Seq(Byte) /\ Len(body) \in Nat \ {0}
    BY <2>3, BodyIsSeq
  <2>6. fb = [f \in PlaceFields |-> fb[f]] /\ fb.size = Len(body)
    BY NoConnIs DEF Located, PlaceFields
  <2>7. fb # NoFile
    BY <2>5, <2>6 DEF NoFile
  <2> HIDE DEF fb, t
  <2>8. c = [f \in ConnFields |-> c[f]] /\ c.taken = <<>> /\ c.up = <<>>
        /\ \/ c.ready = TRUE /\ c.fb = fb
           \/ c.ready = FALSE /\ c.fb = NoFile
    <3>1. CASE c = [NoConn EXCEPT !.ready = TRUE, !.fb = fb]
      BY <3>1, NoConnIs DEF ConnFields
    <3>2. ASSUME NEW closed, c = [NoConn EXCEPT !.closed = closed]
          PROVE  c = [f \in ConnFields |-> c[f]] /\ c.taken = <<>> /\ c.up = <<>>
                 /\ c.ready = FALSE /\ c.fb = NoFile
      BY <3>2, NoConnIs DEF ConnFields
    <3>3. QED BY <2>2, <3>1, <3>2
  <2>9. Session(t, c)
    BY <2>4, <2>6, <2>7, <2>8, NoConnIs, EmptySeq DEF Session
  <2>10. SentInOrder(t, c)
    <3>1. SubSeq(body, 1, 0) = <<>>
      BY SubSeqEmpty
    <3>2. c.taken \o c.up = <<>>
      BY <2>8, EmptySeq, ConcatEmptySeq
    <3>3. QED BY <2>4, <2>5, <3>1, <3>2 DEF SentInOrder
  <2>11. RunInOrder(t, c)
    BY <2>3, <2>4, <2>8, <2>9, <2>10 DEF RunInOrder, Uploads
  <2>12. tc' = [tc EXCEPT ![p] = t]
    BY <2>1 DEF Goes
  <2>13. QED BY <2>1, <2>2, <2>11, <2>12, OneRun
<1>3. QED BY <1>1, <1>2

\* What fread gives are the next bytes of the file.
LEMMA ChunkIs ==
    ASSUME NEW p \in Proc, NEW body \in Seq(Byte), body = Body[tc[p].name],
           tc[p].sent \in 0..Len(body)
    PROVE  \E n \in tc[p].sent..Len(body) :
              /\ Chunk(p) = SubSeq(body, tc[p].sent + 1, n)
              /\ Len(Chunk(p)) = n - tc[p].sent
<1> DEFINE m == tc[p].sent
           n == m + Min({Buf, Len(body) - m})
<1>1. Len(body) \in Nat /\ m \in Nat /\ Len(body) - m \in Nat /\ Buf \in Nat
  BY LenProperties, ClientAssumption
<1>2. Min({Buf, Len(body) - m}) = IF Buf <= Len(body) - m THEN Buf ELSE Len(body) - m
  BY <1>1, SmallerIs
<1>3. n \in m..Len(body)
  BY <1>1, <1>2, SMTT(30)
<1>4. Chunk(p) = SubSeq(body, m + 1, n)
  BY DEF Chunk
<1> HIDE DEF n
<1>5. \A i \in (m + 1)..n : body[i] \in Byte
  BY <1>1, <1>3, ElementOfSeq
<1>6. m + 1 \in Int /\ n \in Int
  BY <1>1, <1>3
<1>7. Len(SubSeq(body, m + 1, n)) = IF m + 1 <= n THEN n - (m + 1) + 1 ELSE 0
  BY <1>5, <1>6, SubSeqProperties
<1>8. Len(Chunk(p)) = n - m
  BY <1>1, <1>3, <1>4, <1>7, SMTT(30)
<1>9. QED BY <1>3, <1>4, <1>8

LEMMA SendBodyStep ==
    ASSUME ClientIInv, NEW p \in Proc, SendBody(p)
    PROVE  ClientIInv'
<1>1. CASE Fails(p)
  BY <1>1, FailsInOrder
<1>2. CASE ~Fails(p)
  <2> DEFINE body == Body[tc[p].name]
             all == net[p].taken \o net[p].up
  <2>1. tc[p].at = "body"
    BY DEF SendBody
  <2>2. tc[p].opt = "add" /\ Uploads(tc[p], net[p]) /\ SentInOrder(tc[p], net[p])
        /\ tc[p].name \in Name /\ tc[p].iret = "none"
    BY <2>1, UploadIs DEF Uploads
  <2>3. body \in Seq(Byte) /\ Len(body) \in Nat
    BY <2>2, BodyIsSeq
  <2>4. tc[p].sent \in 0..Len(body)
        /\ (net[p].fb # NoFile => Len(all) < tc[p].sent \/ all = SubSeq(body, 1, tc[p].sent))
    BY <2>2 DEF SentInOrder
  <2>5. PICK n \in tc[p].sent..Len(body) :
           Chunk(p) = SubSeq(body, tc[p].sent + 1, n) /\ Len(Chunk(p)) = n - tc[p].sent
    BY <2>3, <2>4, ChunkIs
  <2>6. PICK k \in 1..Len(Chunk(p)) :
           /\ net' = [net EXCEPT ![p].up = IF net[p].ready THEN @ \o SubSeq(Chunk(p), 1, k)
                                             ELSE @]
           /\ Goes(p, [tc[p] EXCEPT !.sent = AfterSend(p, k), !.at =
                        IF AfterSend(p, k) = Len(body) THEN "last" ELSE "body"])
           /\ index' = index
    BY <1>2 DEF SendBody, others
  <2>7. AfterSend(p, k) = n /\ k \in 1..(n - tc[p].sent) /\ n \in 0..Len(body)
    <3> DEFINE m == tc[p].sent
               l == Len(Chunk(p))
    <3>1. m \in 0..Len(body) /\ l = n - m /\ k \in 1..l /\ n \in m..Len(body)
      BY <2>4, <2>5, <2>6
    <3>2. AfterSend(p, k) = m + l
      BY DEF AfterSend
    <3> HIDE DEF m, l, body
    <3>3. m + l = n /\ k \in 1..(n - m) /\ n \in 0..Len(body)
      BY <2>3, <3>1
    <3>4. QED BY <3>2, <3>3 DEF m, body
  <2> DEFINE part == SubSeq(Chunk(p), 1, k)
             c == [net[p] EXCEPT !.up = IF net[p].ready THEN @ \o part ELSE @]
             t == [tc[p] EXCEPT !.sent = n, !.at = IF n = Len(body) THEN "last" ELSE "body"]
  <2>8. net[p].up \in Seq(Byte) /\ net[p].taken \in Seq(Byte) /\ all \in Seq(Byte)
    BY RunIs, ConcatProperties DEF Session
  <2>9. part \in Seq(Byte)
        /\ (net[p].fb # NoFile => Len(all \o part) < n \/ all \o part = SubSeq(body, 1, n))
    <3> DEFINE m == tc[p].sent
               some == IF net[p].fb # NoFile THEN all ELSE SubSeq(body, 1, m)
    <3>1. m \in 0..Len(body) /\ n \in m..Len(body) /\ k \in 1..(n - m)
      BY <2>4, <2>5, <2>7
    <3>2. Len(some) < m \/ some = SubSeq(body, 1, m)
      BY <2>4
    <3>3. part = SubSeq(SubSeq(body, m + 1, n), 1, k)
      BY <2>5
    <3>4. some \in Seq(Byte)
      <4>1. 0 \in 0..Len(body) /\ m \in 0..Len(body) /\ 0 + 1 = 1
        BY <2>3, <3>1
      <4>2. SubSeq(body, 1, m) \in Seq(Byte)
        BY <2>3, <4>1, PartIs
      <4>3. QED BY <2>8, <4>2
    <3> HIDE DEF m, body, all, part, some
    <3>5. part \in Seq(Byte) /\ (Len(some \o part) < n \/ some \o part = SubSeq(body, 1, n))
      BY <2>3, <3>1, <3>2, <3>3, <3>4, ChunkFollows, ZenonT(40)
    <3>6. QED BY <3>5 DEF some
  <2>10. net' = [net EXCEPT ![p] = c]
    BY <2>6, RunIs
  <2>11. tc' = [tc EXCEPT ![p] = t]
    BY <2>6, <2>7 DEF Goes
  <2>12. t = [f \in RunFields |-> t[f]] /\ t.at \in {"body", "last"} /\ t.opt = "add"
         /\ t.name = tc[p].name /\ t.iret = "none" /\ t.sent = n /\ t.addr = tc[p].addr
    BY <2>2, RunIs DEF RunFields
  <2> HIDE DEF part, t
  <2>13. net[p].up \o part \in Seq(Byte)
    BY <2>8, <2>9, ConcatProperties
  <2>14. c = [f \in ConnFields |-> c[f]] /\ c.taken = net[p].taken /\ c.fb = net[p].fb
         /\ c.up = (IF net[p].ready THEN net[p].up \o part ELSE net[p].up)
         /\ c.ready = net[p].ready
    <3>1. net[p] = [f \in ConnFields |-> net[p][f]]
      BY RunIs
    <3> DEFINE old == net[p]
               up == IF old.ready THEN old.up \o part ELSE old.up
    <3>2. c = [old EXCEPT !.up = up]
      OBVIOUS
    <3> HIDE DEF old, up, c
    <3>3. c = [f \in ConnFields |-> c[f]] /\ c.taken = old.taken /\ c.fb = old.fb
          /\ c.up = up /\ c.ready = old.ready
      BY <3>1, <3>2 DEF ConnFields, old
    <3>4. QED BY <3>3 DEF old, up
  <2>15. net[p].ready => c.taken \o c.up = all \o part
    <3>1. net[p].taken \in Seq(Byte) /\ net[p].up \in Seq(Byte) /\ part \in Seq(Byte)
      BY <2>8, <2>9
    <3>2. \A a, b, d \in Seq(Byte) : (a \o b) \o d = a \o (b \o d)
      BY ConcatAssociative, SMTT(30)
    <3>3. (net[p].taken \o net[p].up) \o part = net[p].taken \o (net[p].up \o part)
      BY <3>1, <3>2, Zenon
    <3>4. QED BY <2>14, <3>3
  <2> HIDE DEF c, all, body
  <2>16. Session(t, c)
    BY <2>1, <2>2, <2>8, <2>12, <2>13, <2>14, RunIs DEF Session
  <2>17. c.fb # NoFile => net[p].ready
    BY <2>14, RunIs DEF Session
  <2>18. SentInOrder(t, c)
    BY <2>7, <2>9, <2>12, <2>14, <2>15, <2>17 DEF SentInOrder, body
  <2>19. tc[p].addr \in Running
    BY <2>1, <2>2 DEF Uploads
  <2>20. RunInOrder(t, c)
    BY <2>2, <2>12, <2>14, <2>16, <2>18, <2>19 DEF RunInOrder, Uploads
  <2>21. QED BY <2>6, <2>10, <2>11, <2>20, OneRun
<1>3. QED BY <1>1, <1>2

LEMMA SendFileGetStep ==
    ASSUME ClientIInv, NEW p \in Proc, SendFileGet(p)
    PROVE  ClientIInv'
<1>1. CASE Fails(p)
  BY <1>1, FailsInOrder
<1>2. CASE ~Fails(p)
  <2> DEFINE t == [tc[p] EXCEPT !.at = "first"]
  <2>1. tc[p].at = "get" /\ index' = index /\ Goes(p, t)
    BY <1>2 DEF SendFileGet, GoesTo, others
  <2>2. PICK opened \in BOOLEAN :
           net' = [net EXCEPT ![p] = [NoConn EXCEPT !.ready = opened, !.down = <<Line>>]]
    BY <1>2 DEF SendFileGet
  <2> DEFINE c == [NoConn EXCEPT !.ready = opened, !.down = <<Line>>]
  <2>3. c = [f \in ConnFields |-> c[f]] /\ c.up = <<>> /\ c.taken = <<>> /\ c.fb = NoFile
        /\ c.ready = opened
    BY NoConnIs DEF ConnFields
  <2>4. t = [f \in RunFields |-> t[f]] /\ t.at = "first" /\ t.opt = "get"
        /\ t.name = tc[p].name /\ t.iret = "none"
    BY <2>1, DownloadIs, RunIs DEF RunFields
  <2>5. tc' = [tc EXCEPT ![p] = t] /\ net' = [net EXCEPT ![p] = c]
    BY <2>1, <2>2 DEF Goes
  <2> HIDE DEF t, c
  <2>6. Session(t, c)
    BY <2>3, <2>4, QuietSession
  <2>7. RunInOrder(t, c)
    BY <2>1, <2>3, <2>4, <2>6, DownloadIs DEF RunInOrder, Downloads
  <2>8. QED BY <2>1, <2>5, <2>7, OneRun
<1>3. QED BY <1>1, <1>2

LEMMA ReadFirstStep ==
    ASSUME ClientIInv, NEW p \in Proc, ReadFirst(p)
    PROVE  ClientIInv'
<1>1. CASE Fails(p)
  BY <1>1, FailsInOrder
<1>2. CASE ~Fails(p)
  <2>1. tc[p].at = "first"
    BY DEF ReadFirst
  <2>2. PICK k \in 1..Min({Buf, Len(net[p].down)}) :
           IF FirstSize(k) = tc[p].fb.size
           THEN Ends(p, [tc[p] EXCEPT !.file = BeforeNul(SubSeq(net[p].down, 2, k))], "OK")
           ELSE /\ net' = [net EXCEPT ![p].down = SubSeq(@, k + 1, Len(@))]
                /\ Goes(p, [tc[p] EXCEPT !.at = "more"]) /\ index' = index
    BY <1>2 DEF ReadFirst, GoesTo, others
  <2>3. CASE FirstSize(k) = tc[p].fb.size
    BY <2>2, <2>3, EndsInOrder
  <2>4. CASE FirstSize(k) # tc[p].fb.size
    <3> DEFINE t == [tc[p] EXCEPT !.at = "more"]
               c == [net[p] EXCEPT !.down = SubSeq(@, k + 1, Len(@))]
    <3>1. t = [f \in RunFields |-> t[f]] /\ t.at = "more" /\ t.opt = "get"
          /\ t.name = tc[p].name /\ t.iret = "none"
      BY <2>1, DownloadIs, RunIs DEF RunFields
    <3>2. c = [f \in ConnFields |-> c[f]] /\ c.up = net[p].up /\ c.taken = net[p].taken
          /\ c.fb = NoFile /\ c.ready = net[p].ready
      BY <2>1, DownloadIs, RunIs DEF ConnFields
    <3>3. tc' = [tc EXCEPT ![p] = t] /\ net' = [net EXCEPT ![p] = c] /\ index' = index
      BY <2>2, <2>4, RunIs DEF Goes
    <3> HIDE DEF t, c
    <3>4. Session(t, c)
      BY <3>1, <3>2, RunIs, NoConnIs DEF Session
    <3>5. RunInOrder(t, c)
      BY <2>1, <3>1, <3>2, <3>4, DownloadIs DEF RunInOrder, Downloads
    <3>6. QED BY <3>3, <3>5, OneRun
  <2>5. QED BY <2>3, <2>4
<1>3. QED BY <1>1, <1>2

LEMMA ReadMoreStep ==
    ASSUME ClientIInv, NEW p \in Proc, ReadMore(p)
    PROVE  ClientIInv'
<1>1. tc[p].at = "more" /\ index' = index /\ tc' = tc
  BY DEF ReadMore, others
<1>2. PICK k \in 1..Min({Buf, Len(net[p].down)}) :
         net' = [net EXCEPT ![p].down = SubSeq(@, k + 1, Len(@))]
  BY DEF ReadMore
<1> DEFINE c == [net[p] EXCEPT !.down = SubSeq(@, k + 1, Len(@))]
<1>3. c = [f \in ConnFields |-> c[f]] /\ c.up = net[p].up /\ c.taken = net[p].taken
      /\ c.fb = net[p].fb /\ c.ready = net[p].ready
  BY RunIs DEF ConnFields
<1>4. net' = [net EXCEPT ![p] = c]
  BY <1>2, RunIs
<1> HIDE DEF c
<1>5. Session(tc[p], c)
  BY <1>3, RunIs DEF Session
<1>6. RunInOrder(tc[p], c)
  BY <1>1, <1>3, <1>5, DownloadIs, RunIs DEF RunInOrder, Downloads
<1>7. QED BY <1>1, <1>4, <1>6, AnswersAlone

LEMMA StepKeepsOrder ==
    ASSUME ClientIInv, NEW p \in Proc, ClientStep(p)
    PROVE  ClientIInv'
<1>1. CASE TimesOut(p)
  BY <1>1, FailsInOrder DEF TimesOut
<1>2. CASE ReadLast(p)
  BY <1>2, EndsInOrder DEF ReadLast
<1>3. QED
  BY <1>1, <1>2, AddLookupStep, GetLookupStep, StorageStep, SendFileAddStep, SendBodyStep,
     SendFileGetStep, ReadFirstStep, ReadMoreStep DEF ClientStep

-----------------------------------------------------------------------------
(* The steps of the data server.                                           *)

\* As many bytes as the file has are the file.
LEMMA AllIsBody ==
    ASSUME NEW t, NEW c, t.name \in Name, SentInOrder(t, c), c.fb # NoFile,
           Len(c.taken \o c.up) = Len(Body[t.name])
    PROVE  c.taken \o c.up = Body[t.name]
<1> DEFINE body == Body[t.name]
           all == c.taken \o c.up
<1>1. body \in Seq(Byte) /\ Len(body) \in Nat
  BY BodyIsSeq
<1>2. t.sent \in 0..Len(body) /\ (Len(all) < t.sent \/ all = SubSeq(body, 1, t.sent))
      /\ Len(all) = Len(body)
  BY DEF SentInOrder
<1> DEFINE m == t.sent
<1> HIDE DEF body, all, m
<1>3. m \in 0..Len(body) /\ all = SubSeq(body, 1, m)
  BY <1>1, <1>2 DEF m
<1>4. m \in Int /\ 1 \in Int /\ \A i \in 1..m : body[i] \in Byte
  BY <1>1, <1>3, ElementOfSeq
<1>5. Len(all) = IF 1 <= m THEN m - 1 + 1 ELSE 0
  BY <1>3, <1>4, SubSeqProperties
<1>6. m = Len(body)
  BY <1>1, <1>2, <1>3, <1>5 DEF m
<1>7. all = body
  BY <1>1, <1>3, <1>6, SubSeqFull
<1>8. QED BY <1>7 DEF all, body

\* A session has never taken more bytes than the file has.
LEMMA TakenFits ==
    ASSUME NEW t, NEW c, t.name \in Name, SentInOrder(t, c), c.fb # NoFile,
           c.taken \in Seq(Byte), c.up \in Seq(Byte)
    PROVE  Len(c.taken) + Len(c.up) <= Len(Body[t.name])
<1> DEFINE body == Body[t.name]
           all == c.taken \o c.up
           m == t.sent
<1>1. body \in Seq(Byte) /\ Len(body) \in Nat
  BY BodyIsSeq
<1>2. Len(all) = Len(c.taken) + Len(c.up) /\ all \in Seq(Byte) /\ Len(all) \in Nat
  BY ConcatProperties, LenProperties
<1>3. m \in 0..Len(body) /\ (Len(all) < m \/ all = SubSeq(body, 1, m))
  BY DEF SentInOrder
<1> HIDE DEF body, all, m
<1>4. 0 \in 0..Len(body) /\ m \in 0..Len(body) /\ 0 + 1 = 1 /\ m - 0 = m
  BY <1>1, <1>3
<1>5. Len(SubSeq(body, 1, m)) = m
  BY <1>1, <1>4, PartIs
<1>6. Len(all) <= Len(body)
  <2>1. CASE Len(all) < m
    <3> DEFINE l == Len(all)
               b == Len(body)
    <3>1. l \in Nat /\ b \in Nat /\ m \in 0..b /\ l < m
      BY <1>1, <1>2, <1>3, <2>1
    <3> HIDE DEF l, b
    <3>2. l <= b
      BY <3>1
    <3>3. QED BY <3>2 DEF l, b
  <2>2. CASE all = SubSeq(body, 1, m)
    <3>1. Len(all) = m
      BY <1>5, <2>2
    <3>2. QED BY <1>3, <3>1
  <2>3. QED BY <1>3, <2>1, <2>2
<1>7. QED BY <1>2, <1>6 DEF body, all

\* A session that takes k more bytes, and what it has then.
LEMMA TakesMore ==
    ASSUME ClientIInv, NEW p \in Proc, NEW k \in 1..Len(net[p].up), tc[p].opt = "add",
           net[p].ready
    PROVE  LET taken == net[p].taken \o SubSeq(net[p].up, 1, k)
               rest == SubSeq(net[p].up, k + 1, Len(net[p].up))
           IN  /\ net[p].fb # NoFile /\ tc[p].at \in {"body", "last"}
               /\ tc[p].name \in Name /\ net[p].fb.size = Len(Body[tc[p].name])
               /\ SentInOrder(tc[p], net[p])
               /\ taken \in Seq(Byte) /\ rest \in Seq(Byte)
               /\ taken \o rest = net[p].taken \o net[p].up
               /\ Len(taken) <= Len(Body[tc[p].name])
               /\ Len(taken) = Len(Body[tc[p].name]) => taken = Body[tc[p].name]
<1> DEFINE up == net[p].up
           old == net[p].taken
           front == SubSeq(up, 1, k)
           rest == SubSeq(up, k + 1, Len(up))
           taken == old \o front
           body == Body[tc[p].name]
<1>1. net[p].fb # NoFile /\ tc[p].at \in {"body", "last"} /\ tc[p].name \in Name
      /\ net[p].fb.size = Len(body) /\ SentInOrder(tc[p], net[p])
      /\ up \in Seq(Byte) /\ old \in Seq(Byte)
  BY RunIs DEF Session, Uploads
<1>2. k \in 0..Len(up)
  BY <1>1, LenProperties
<1> HIDE DEF up, old, body
<1>3. front \in Seq(Byte) /\ rest \in Seq(Byte) /\ front \o rest = up
  BY <1>1, <1>2, PartsOf
<1> HIDE DEF front, rest
<1>4. taken \in Seq(Byte)
  BY <1>1, <1>3, ConcatProperties
<1>5. taken \o rest = old \o up
  <2>1. \A a, b, d \in Seq(Byte) : (a \o b) \o d = a \o (b \o d)
    BY ConcatAssociative, SMTT(30)
  <2>2. (old \o front) \o rest = old \o (front \o rest)
    BY <1>1, <1>3, <2>1, Zenon
  <2>3. QED BY <1>3, <2>2
<1> HIDE DEF taken
<1>6. Len(old) + Len(up) <= Len(body)
  BY <1>1, TakenFits DEF old, up, body
<1>7. Len(taken) + Len(rest) = Len(old) + Len(up) /\ Len(taken) \in Nat /\ Len(rest) \in Nat
      /\ Len(old) \in Nat /\ Len(up) \in Nat
  <2>1. Len(taken \o rest) = Len(taken) + Len(rest)
    BY <1>3, <1>4, ConcatProperties
  <2>2. Len(old \o up) = Len(old) + Len(up)
    BY <1>1, ConcatProperties
  <2>3. QED BY <1>1, <1>3, <1>4, <1>5, <2>1, <2>2, LenProperties
<1>8. Len(body) \in Nat
  BY <1>1, BodyIsSeq DEF body
<1>9. Len(taken) <= Len(body)
  BY <1>6, <1>7, <1>8
<1>10. ASSUME Len(taken) = Len(body) PROVE taken = body
  <2>1. Len(rest) = 0 /\ Len(old) + Len(up) = Len(body)
    BY <1>6, <1>7, <1>8, <1>10
  <2>2. rest = <<>>
    BY <1>3, <2>1, EmptySeq
  <2>3. taken \o rest = taken
    BY <1>4, <2>2, ConcatEmptySeq
  <2>4. Len(old \o up) = Len(body)
    BY <1>1, <2>1, ConcatProperties
  <2>5. old \o up = body
    BY <1>1, <2>4, AllIsBody DEF old, up, body
  <2>6. QED BY <1>5, <2>3, <2>5
<1>11. QED
  BY <1>1, <1>3, <1>4, <1>5, <1>9, <1>10 DEF taken, front, rest, old, up, body

LEMMA ServerTakesStep ==
    ASSUME ClientIInv, NEW p \in Proc, NEW k \in 1..Len(net[p].up), ServerTakes(p, k)
    PROVE  ClientIInv'
<1> DEFINE n == tc[p].name
           fb == net[p].fb
           up == net[p].up
           taken == net[p].taken \o SubSeq(up, 1, k)
           rest == SubSeq(up, k + 1, Len(up))
           done == Flushed(taken, fb.size)
           whole == Len(taken) = fb.size
           part == [net[p] EXCEPT !.up = rest, !.taken = taken, !.done = done]
           over == [NoConn EXCEPT !.down = <<Line>>]
           c == IF whole THEN over ELSE part
           new == [fb EXCEPT !.bytes = taken]
<1>1. /\ tc[p].opt = "add" /\ net[p].ready /\ tc' = tc
      /\ net' = [net EXCEPT ![p] = c]
      /\ index' = IF whole THEN Register(n, new) ELSE index
  <2>1. net = [q \in Proc |-> net[q]]
    BY RunIs
  <2>2. net' = IF whole THEN [net EXCEPT ![p] = over]
               ELSE [net EXCEPT ![p].up = SubSeq(@, k + 1, Len(@)),
                                ![p].taken = taken, ![p].done = done]
    BY DEF ServerTakes
  <2>3. net' = [net EXCEPT ![p] = c]
    <3>1. ~whole => net' = [net EXCEPT ![p] = part]
      BY <2>1, <2>2
    <3> HIDE DEF whole, part
    <3>2. QED BY <2>2, <3>1
  <2>4. QED BY <2>3 DEF ServerTakes
<1>2. /\ fb # NoFile /\ tc[p].at \in {"body", "last"} /\ n \in Name
      /\ fb.size = Len(Body[n]) /\ SentInOrder(tc[p], net[p])
      /\ taken \in Seq(Byte) /\ rest \in Seq(Byte)
      /\ taken \o rest = net[p].taken \o up
      /\ whole => taken = Body[n]
  BY <1>1, TakesMore
<1>3. Uploads(tc[p], net[p]) /\ tc[p].iret = "none" /\ Session(tc[p], net[p])
  BY <1>1, <1>2, RunIs
<1>4. c = [f \in ConnFields |-> c[f]] /\ c.ready \in BOOLEAN
      /\ \/ whole /\ c.fb = NoFile /\ c.up = <<>> /\ c.taken = <<>> /\ c.ready = FALSE
         \/ ~whole /\ c.fb = fb /\ c.up = rest /\ c.taken = taken /\ c.ready = net[p].ready
  <2>1. over = [f \in ConnFields |-> over[f]] /\ over.fb = NoFile /\ over.up = <<>>
        /\ over.taken = <<>> /\ over.ready = FALSE
    BY NoConnIs DEF ConnFields
  <2>2. part = [f \in ConnFields |-> part[f]] /\ part.fb = fb /\ part.up = rest
        /\ part.taken = taken /\ part.ready = net[p].ready
    BY RunIs DEF ConnFields
  <2> HIDE DEF over, part, whole, taken, rest, fb
  <2>3. net[p].ready \in BOOLEAN
    BY <1>3 DEF Session
  <2>4. CASE whole
    BY <2>1, <2>4
  <2>5. CASE ~whole
    BY <2>2, <2>3, <2>5
  <2>6. QED BY <2>4, <2>5
<1> HIDE DEF c, taken, rest, done, part, over
<1>5. Session(tc[p], c)
  BY <1>1, <1>2, <1>3, <1>4, NoConnIs, EmptySeq DEF Session
<1>6. SentInOrder(tc[p], c)
  BY <1>2, <1>4 DEF SentInOrder
<1>7. RunInOrder(tc[p], c)
  BY <1>1, <1>2, <1>3, <1>4, <1>5, <1>6, RunIs DEF RunInOrder, Uploads
<1>8. RunsInOrder'
  <2>1. tc' = [tc EXCEPT ![p] = tc[p]]
    BY <1>1, RunIs
  <2>2. QED BY <1>1, <1>7, <2>1, OneRunMoves
<1>9. IndexWhole'
  <2>1. IndexWhole
    BY DEF ClientIInv
  <2>2. CASE index' = index
    BY <2>1, <2>2 DEF IndexWhole
  <2>3. CASE index' # index
    <3>1. whole /\ index' = [index EXCEPT ![n] = new]
      BY <1>1, <2>3 DEF Register
    <3>2. fb = [f \in PlaceFields |-> fb[f]]
      BY <1>3 DEF Session
    <3>3. new.bytes = taken /\ new.size = fb.size
      BY <3>2 DEF PlaceFields
    <3>4. new.bytes = Body[n] /\ new.size = Len(Body[n])
      BY <1>2, <3>1, <3>3
    <3> HIDE DEF new, n
    <3>5. QED BY <2>1, <3>1, <3>4 DEF IndexWhole
  <2>4. QED BY <2>2, <2>3
<1>10. QED BY <1>8, <1>9 DEF ClientIInv

LEMMA ServerSendsStep ==
    ASSUME ClientIInv, NEW p \in Proc, ServerSends(p)
    PROVE  ClientIInv'
<1>1. tc[p].opt = "get" /\ net[p].ready /\ tc' = tc /\ index' = index
  BY DEF ServerSends
<1> DEFINE stored == Stored(blocks[tc[p].addr][tc[p].fb.block], tc[p].fb)
<1>2. PICK k \in 0..Len(stored) :
         net' = [net EXCEPT ![p].down = @ \o SubSeq(stored, 1, k),
                            ![p].done = k, ![p].ready = k < tc[p].fb.size]
  BY DEF ServerSends
<1> DEFINE down == net[p].down \o SubSeq(stored, 1, k)
           ready == k < tc[p].fb.size
           c == [net[p] EXCEPT !.down = down, !.done = k, !.ready = ready]
<1>3. ready \in BOOLEAN
  OBVIOUS
<1>4. net' = [net EXCEPT ![p] = c]
  BY <1>2, RunIs
<1> HIDE DEF down, ready
<1>5. c = [f \in ConnFields |-> c[f]] /\ c.up = net[p].up /\ c.taken = net[p].taken
      /\ c.fb = net[p].fb /\ c.ready = ready
  BY RunIs DEF ConnFields
<1> HIDE DEF c
<1>6. tc[p].at \in {"first", "more"} /\ Downloads(tc[p], net[p]) /\ net[p].fb = NoFile
  BY <1>1, RunIs, DownloadIs DEF Downloads, Uploads
<1>7. Session(tc[p], c)
  BY <1>1, <1>3, <1>5, <1>6, RunIs DEF Session
<1>8. RunInOrder(tc[p], c)
  BY <1>1, <1>5, <1>6, <1>7, RunIs DEF RunInOrder, Downloads
<1>9. QED BY <1>1, <1>4, <1>8, AnswersAlone

LEMMA ClosedIs ==
    ASSUME NEW c
    PROVE  /\ Closed(c) = [f \in ConnFields |-> Closed(c)[f]]
           /\ Closed(c).fb = NoFile /\ Closed(c).up = <<>> /\ Closed(c).taken = <<>>
           /\ Closed(c).ready = FALSE /\ Closed(c).down = c.down /\ Closed(c).closed
  BY NoConnIs DEF Closed, ConnFields

LEMMA ClosedInOrder ==
    ASSUME ClientIInv, NEW p \in Proc, Connected(p)
    PROVE  RunInOrder(tc[p], Closed(net[p]))
<1>1. tc[p].at \in {"body", "last", "first", "more"}
  BY DEF Connected
<1>2. Session(tc[p], Closed(net[p]))
  BY ClosedIs, QuietSession
<1>3. CASE tc[p].at \in {"body", "last"}
  <2>1. tc[p].opt = "add" /\ Uploads(tc[p], net[p]) /\ tc[p].name \in Name
        /\ tc[p].iret = "none"
    BY <1>3, UploadIs
  <2>2. SentInOrder(tc[p], Closed(net[p]))
    BY <1>3, <2>1, ClosedIs DEF Uploads, SentInOrder
  <2>3. QED BY <1>2, <1>3, <2>1, <2>2, ClosedIs, RunIs DEF RunInOrder, Uploads
<1>4. CASE tc[p].at \in {"first", "more"}
  BY <1>2, <1>4, ClosedIs, DownloadIs, RunIs DEF RunInOrder, Downloads
<1>5. QED BY <1>1, <1>3, <1>4

LEMMA ServerClosesStep ==
    ASSUME ClientIInv, NEW p \in Proc, ServerCloses(p)
    PROVE  ClientIInv'
<1>1. Connected(p) /\ tc' = tc /\ index' = index /\ net' = [net EXCEPT ![p] = Closed(net[p])]
  BY RunIs DEF ServerCloses, others
<1>2. QED BY <1>1, ClosedInOrder, AnswersAlone

LEMMA ServerRestartsStep ==
    ASSUME ClientIInv, NEW d \in Running, ServerRestarts(d)
    PROVE  ClientIInv'
<1>1. tc' = tc /\ index' = index
      /\ net' = [p \in Proc |-> IF Connected(p) /\ tc[p].addr = d THEN Closed(net[p]) ELSE net[p]]
  BY DEF ServerRestarts
<1>2. tc' = [p \in Proc |-> tc'[p]] /\ net' = [p \in Proc |-> net'[p]]
  BY <1>1 DEF ClientIInv, RunsInOrder
<1>3. ASSUME NEW p \in Proc PROVE RunInOrder(tc'[p], net'[p])
  <2>1. tc'[p] = tc[p] /\ (net'[p] = net[p] \/ (Connected(p) /\ net'[p] = Closed(net[p])))
    BY <1>1
  <2>2. CASE net'[p] = net[p]
    <3>1. RunInOrder(tc[p], net[p])
      BY RunIs
    <3>2. QED BY <2>1, <2>2, <3>1
  <2>3. CASE Connected(p) /\ net'[p] = Closed(net[p])
    <3>1. RunInOrder(tc[p], Closed(net[p]))
      BY <2>3, ClosedInOrder
    <3>2. QED BY <2>1, <2>3, <3>1
  <2>4. QED BY <2>1, <2>2, <2>3
<1>4. RunsInOrder'
  BY <1>2, <1>3 DEF RunsInOrder, RunInOrder, Session, Uploads, Downloads, SentInOrder
<1>5. IndexWhole'
  BY <1>1 DEF ClientIInv, IndexWhole
<1>6. QED BY <1>4, <1>5 DEF ClientIInv

LEMMA ClientInductive == ClientSpec => []ClientIInv
<1>1. ClientInit => ClientIInv
  <2>1. SUFFICES ASSUME ClientInit PROVE ClientIInv
    OBVIOUS
  <2>2. RunInOrder(Idle, NoConn)
    BY IdleIs, NoConnIs, QuietSession DEF RunInOrder
  <2>3. RunsInOrder
    BY <2>1, <2>2 DEF ClientInit, RunsInOrder
  <2>4. IndexWhole
    BY <2>1 DEF ClientInit, IndexWhole
  <2>5. QED BY <2>3, <2>4 DEF ClientIInv
<1>2. ClientIInv /\ [ClientNext]_clientVars => ClientIInv'
  <2>1. SUFFICES ASSUME ClientIInv, [ClientNext]_clientVars PROVE ClientIInv'
    OBVIOUS
  <2>2. CASE UNCHANGED clientVars
    <3>1. tc' = tc /\ net' = net /\ index' = index
      BY <2>2 DEF clientVars, others
    <3>2. RunsInOrder'
      <4>1. tc = [q \in Proc |-> tc[q]] /\ net = [q \in Proc |-> net[q]]
            /\ \A q \in Proc : RunInOrder(tc[q], net[q])
        BY <2>1 DEF ClientIInv, RunsInOrder
      <4>2. tc' = [q \in Proc |-> tc'[q]] /\ net' = [q \in Proc |-> net'[q]]
            /\ \A q \in Proc : RunInOrder(tc'[q], net'[q])
        BY <3>1, <4>1
      <4>3. QED
        BY <4>2 DEF RunsInOrder, RunInOrder, Session, Uploads, Downloads, SentInOrder
    <3>3. IndexWhole'
      BY <2>1, <3>1 DEF ClientIInv, IndexWhole
    <3>4. QED BY <3>2, <3>3 DEF ClientIInv
  <2>3. ASSUME NEW p \in Proc, NEW opt \in {"add", "get"}, NEW n \in Name,
               NEW named \in BOOLEAN, Main(p, opt, n, named)
        PROVE  ClientIInv'
    BY <2>1, <2>3, MainStep
  <2>4. ASSUME NEW p \in Proc, ClientStep(p) PROVE ClientIInv'
    BY <2>1, <2>4, StepKeepsOrder
  <2>5. ASSUME NEW p \in Proc, NEW k \in 1..Len(net[p].up), ServerTakes(p, k)
        PROVE  ClientIInv'
    BY <2>1, <2>5, ServerTakesStep
  <2>6. ASSUME NEW p \in Proc, ServerSends(p) \/ ServerCloses(p) PROVE ClientIInv'
    BY <2>1, <2>6, ServerSendsStep, ServerClosesStep
  <2>7. ASSUME NEW d \in Running, ServerRestarts(d) PROVE ClientIInv'
    BY <2>1, <2>7, ServerRestartsStep
  <2>8. QED BY <2>1, <2>2, <2>3, <2>4, <2>5, <2>6, <2>7 DEF ClientNext
<1>3. QED BY <1>1, <1>2, PTL DEF ClientSpec

(* What was received for a registered file are the bytes whose md5 its     *)
(* name is, whatever part of a chunk a socket takes (add_file_to_storage   *)
(* counts the whole of it), in whatever pieces they come and whenever the  *)
(* data server closes the connection or ends (__file_add_loop_recv).       *)
THEOREM RegisteredByContent == ClientSpec => []NamedByContent
<1>1. ClientIInv => NamedByContent
  BY DEF ClientIInv, IndexWhole, NamedByContent
<1>2. QED BY <1>1, ClientInductive, PTL

-----------------------------------------------------------------------------
(* What a block file holds.                                                *)

BlockFile == [first : Nat \ {0}, size : Nat, bytes : Seq(Byte)]

BlocksSound(bl) ==
    bl = [d \in Running |-> bl[d]] /\ \A d \in Running : bl[d] \in Seq(BlockFile)

StoreSound(bl, md) ==
    /\ BlocksSound(bl) /\ md = [d \in Running |-> md[d]]
    /\ \A d \in Running : md[d] = "appends" => bl[d] # <<>>

BlockOf(bl, fb) == bl[fb.holder][fb.block]

ApartIn(bl, fb) == BlockOf(bl, fb).size = 0 \/ fb.off >= BlockOf(bl, fb).first

\* A place that block_file_append has given.
Placed(bl, fb) ==
    /\ fb.holder \in Running /\ fb.block \in 1..Len(bl[fb.holder])
    /\ fb.off \in Nat /\ fb.size \in Nat \ {0} /\ fb.first \in BOOLEAN
    /\ fb.server = ServerConf(fb.holder).id
    /\ IF fb.first THEN fb.off = 0 /\ fb.size = BlockOf(bl, fb).first
       ELSE fb.off + fb.size <= BlockOf(bl, fb).size

\* The block has the first n of these bytes at the place, when the place is the
\* file's own.
Kept(bl, fb, bytes, n) ==
    /\ Placed(bl, fb) /\ n \in 0..fb.size
    /\ ApartIn(bl, fb) =>
          \A i \in 1..n : /\ fb.off + i <= Len(BlockOf(bl, fb).bytes)
                          /\ BlockOf(bl, fb).bytes[fb.off + i] = bytes[i]

\* Two places never share a byte, but for the one a block was created for.
Clear(e, f) ==
    e.holder = f.holder /\ e.block = f.block =>
        /\ ~(e.first /\ f.first)
        /\ e.first \/ f.first \/ e.off + e.size <= f.off \/ f.off + f.size <= e.off

LEMMA FunIsSeq ==
    ASSUME NEW n \in Nat, NEW f \in [1..n -> Byte]
    PROVE  f \in Seq(Byte) /\ Len(f) = n
<1>1. f \in Seq(Byte)
  BY SeqDef
<1>2. Len(f) \in Nat /\ DOMAIN f = 1..Len(f) /\ DOMAIN f = 1..n
  BY <1>1, LenProperties
<1>3. QED BY <1>1, <1>2

LEMMA GreaterIs ==
    ASSUME NEW a \in Nat, NEW b \in Nat
    PROVE  Max({a, b}) = IF a >= b THEN a ELSE b
<1> DEFINE m == IF a >= b THEN a ELSE b
<1>1. m \in {a, b} /\ \A y \in {a, b} : m >= y
  OBVIOUS
<1>2. Max({a, b}) \in {a, b} /\ \A y \in {a, b} : Max({a, b}) >= y
  BY <1>1 DEF Max
<1>3. QED BY <1>1, <1>2

LEMMA TruncatedIs ==
    ASSUME NEW bytes \in Seq(Byte), NEW n \in Nat
    PROVE  /\ Truncated(bytes, n) \in Seq(Byte) /\ Len(Truncated(bytes, n)) = n
           /\ \A i \in 1..n : i <= Len(bytes) => Truncated(bytes, n)[i] = bytes[i]
<1> DEFINE cut == [i \in 1..n |-> IF i \in DOMAIN bytes THEN bytes[i] ELSE Nul]
<1>1. DOMAIN bytes = 1..Len(bytes) /\ Len(bytes) \in Nat /\ Nul \in Byte
      /\ bytes \in [1..Len(bytes) -> Byte]
  BY LenProperties DEF Byte
<1>2. cut \in [1..n -> Byte]
  BY <1>1
<1>3. Truncated(bytes, n) = cut
  BY DEF Truncated
<1>4. \A i \in 1..n : i <= Len(bytes) => cut[i] = bytes[i]
  BY <1>1
<1> HIDE DEF cut
<1>5. QED BY <1>2, <1>3, <1>4, FunIsSeq

LEMMA WrittenIs ==
    ASSUME NEW bytes \in Seq(Byte), NEW off \in Nat, NEW part \in Seq(Byte)
    PROVE  LET all == Written(bytes, off, part)
           IN  /\ all \in Seq(Byte) /\ Len(all) >= Len(bytes)
               /\ \A j \in 1..Len(bytes) : j \notin (off + 1)..(off + Len(part)) =>
                     all[j] = bytes[j]
               /\ \A i \in 1..Len(part) : off + i <= Len(all) /\ all[off + i] = part[i]
<1> DEFINE p == Len(part)
           b == Len(bytes)
           n == IF part = <<>> THEN b ELSE Max({b, off + p})
           at(i) == IF i \in (off + 1)..(off + p) THEN part[i - off]
                    ELSE IF i \in DOMAIN bytes THEN bytes[i] ELSE Nul
           all == [i \in 1..n |-> at(i)]
<1>1. DOMAIN bytes = 1..b /\ b \in Nat /\ p \in Nat /\ Nul \in Byte
      /\ part \in [1..p -> Byte] /\ bytes \in [1..b -> Byte] /\ (part = <<>> => p = 0)
  BY LenProperties, EmptySeq DEF Byte
<1>2. Written(bytes, off, part) = all
  BY DEF Written
<1>3. n \in Nat /\ n >= b /\ (p > 0 => n >= off + p)
  <2> HIDE DEF p, b
  <2>1. Max({b, off + p}) = IF b >= off + p THEN b ELSE off + p
    BY <1>1, GreaterIs
  <2>2. QED BY <1>1, <2>1
<1> HIDE DEF n
<1>4. \A i \in 1..n : at(i) \in Byte
  <2> HIDE DEF p, b
  <2>1. SUFFICES ASSUME NEW i \in 1..n PROVE at(i) \in Byte
    OBVIOUS
  <2>2. CASE i \in (off + 1)..(off + p)
    <3>1. i - off \in 1..p
      BY <1>1, <1>3, <2>2
    <3>2. QED BY <1>1, <2>2, <3>1
  <2>3. CASE i \notin (off + 1)..(off + p)
    BY <1>1, <2>3
  <2>4. QED BY <2>2, <2>3
<1>5. \A j \in 1..n : all[j] = at(j)
  OBVIOUS
<1>6. all \in Seq(Byte) /\ Len(all) = n
  <2>1. all \in [1..n -> Byte]
    BY <1>4
  <2> HIDE DEF all
  <2>2. QED BY <1>3, <2>1, FunIsSeq
<1> HIDE DEF all, p, b
<1>7. ASSUME NEW j \in 1..b, j \notin (off + 1)..(off + p) PROVE all[j] = bytes[j]
  <2>1. j \in 1..n
    BY <1>1, <1>3
  <2>2. QED BY <1>1, <1>5, <1>7, <2>1
<1>8. ASSUME NEW i \in 1..p PROVE off + i <= n /\ all[off + i] = part[i]
  <2>1. off + i \in (off + 1)..(off + p) /\ off + i \in 1..n /\ (off + i) - off = i
        /\ off + i <= n
    BY <1>1, <1>3
  <2>2. QED BY <1>5, <2>1
<1>9. QED BY <1>2, <1>3, <1>6, <1>7, <1>8 DEF p, b

LEMMA FlushedIs ==
    ASSUME NEW taken \in Seq(Byte), NEW size \in Nat
    PROVE  Flushed(taken, size) \in 0..Len(taken)
<1> DEFINE t == Len(taken)
<1>1. t \in Nat /\ DsBuf \in Nat \ {0}
  BY LenProperties, ClientAssumption
<1> HIDE DEF t
<1>2. DsBuf * (t \div DsBuf) \in 0..t
  <2>1. \A b \in Nat, l \in Nat : b > 0 =>
            l \div b \in Int /\ l = b * (l \div b) + (l % b) /\ l % b \in 0..(b - 1)
    OBVIOUS
  <2>2. \A b \in Nat, q \in Int, l \in Nat, m \in Nat :
            l = b * q + m /\ m < b => b * q \in Int /\ b * q <= l
    OBVIOUS
  <2>3. \A b \in Nat, q \in Int, l \in Nat, m \in Nat : b > 0 /\ l = b * q + m /\ m < b => q >= 0
    OBVIOUS
  <2>4. \A b \in Nat, q \in Nat : b * q \in Nat
    OBVIOUS
  <2>5. t % DsBuf \in Nat /\ t % DsBuf < DsBuf
    BY <1>1, <2>1
  <2>6. QED BY <1>1, <2>1, <2>2, <2>3, <2>4, <2>5
<1>3. QED BY <1>1, <1>2 DEF Flushed, t

-----------------------------------------------------------------------------
(* Blocks that grow keep what they hold.                                   *)

Grown(bl, new) ==
    \A d \in Running : /\ Len(new[d]) >= Len(bl[d])
                       /\ \A k \in 1..Len(bl[d]) : /\ new[d][k].first = bl[d][k].first
                                                   /\ new[d][k].size >= bl[d][k].size

LEMMA BlockIs ==
    ASSUME NEW bl, NEW md, StoreSound(bl, md), NEW d \in Running, NEW k \in 1..Len(bl[d])
    PROVE  /\ bl[d] \in Seq(BlockFile) /\ Len(bl[d]) \in Nat /\ bl[d][k] \in BlockFile
           /\ bl[d][k].first \in Nat \ {0} /\ bl[d][k].size \in Nat
           /\ bl[d][k].bytes \in Seq(Byte) /\ Len(bl[d][k].bytes) \in Nat
<1>1. bl[d] \in Seq(BlockFile)
  BY DEF StoreSound, BlocksSound
<1>2. Len(bl[d]) \in Nat /\ bl[d][k] \in BlockFile
  BY <1>1, LenProperties, ElementOfSeq
<1>3. bl[d][k].bytes \in Seq(Byte)
  BY <1>2 DEF BlockFile
<1>4. Len(bl[d][k].bytes) \in Nat
  BY <1>3, LenProperties
<1>5. QED BY <1>1, <1>2, <1>3, <1>4 DEF BlockFile

LEMMA PlacedStays ==
    ASSUME NEW bl, NEW md, NEW new, NEW nd, StoreSound(bl, md), StoreSound(new, nd),
           Grown(bl, new), NEW fb, Placed(bl, fb)
    PROVE  Placed(new, fb) /\ (ApartIn(new, fb) => ApartIn(bl, fb))
<1> DEFINE d == fb.holder
           k == fb.block
<1>1. d \in Running /\ k \in 1..Len(bl[d])
  BY DEF Placed
<1>2. bl[d] \in Seq(BlockFile) /\ new[d] \in Seq(BlockFile)
  BY <1>1 DEF StoreSound, BlocksSound
<1>3. Len(bl[d]) \in Nat /\ Len(new[d]) \in Nat
  BY <1>2, LenProperties
<1>4. k \in 1..Len(new[d])
  BY <1>1, <1>3 DEF Grown
<1>5. bl[d][k].size \in Nat /\ bl[d][k].first \in Nat
  BY <1>1, BlockIs
<1>6. new[d][k].size \in Nat /\ new[d][k].first \in Nat
  BY <1>1, <1>4, BlockIs
<1>7. new[d][k].first = bl[d][k].first /\ new[d][k].size >= bl[d][k].size
  BY <1>1 DEF Grown
<1>8. fb.off \in Nat /\ fb.size \in Nat
  BY DEF Placed
<1>9. Placed(new, fb)
  <2>1. CASE fb.first
    BY <1>4, <1>7, <2>1 DEF Placed, BlockOf
  <2>2. CASE ~fb.first
    <3>1. fb.off + fb.size <= bl[d][k].size
      BY <2>2 DEF Placed, BlockOf
    <3>2. fb.off + fb.size <= new[d][k].size
      BY <1>5, <1>6, <1>7, <1>8, <3>1
    <3>3. QED BY <1>4, <2>2, <3>2 DEF Placed, BlockOf
  <2>3. QED BY <2>1, <2>2
<1>10. ApartIn(new, fb) => ApartIn(bl, fb)
  BY <1>5, <1>6, <1>7, <1>8 DEF ApartIn, BlockOf
<1>11. QED BY <1>9, <1>10

\* A block is created behind the others.
LEMMA BlockAdded ==
    ASSUME NEW bl, NEW md, StoreSound(bl, md), NEW d \in Running, NEW b \in BlockFile
    PROVE  LET new == [bl EXCEPT ![d] = Append(bl[d], b)]
           IN  /\ BlocksSound(new) /\ Grown(bl, new)
               /\ Len(new[d]) = Len(bl[d]) + 1 /\ new[d][Len(bl[d]) + 1] = b /\ new[d] # <<>>
               /\ \A q \in Running : \A k \in 1..Len(bl[q]) : new[q][k] = bl[q][k]
<1> DEFINE new == [bl EXCEPT ![d] = Append(bl[d], b)]
<1>1. bl = [q \in Running |-> bl[q]] /\ \A q \in Running : bl[q] \in Seq(BlockFile)
  BY DEF StoreSound, BlocksSound
<1> DEFINE longer == Append(bl[d], b)
<1>2. /\ longer \in Seq(BlockFile) /\ longer # <<>> /\ Len(longer) = Len(bl[d]) + 1
      /\ \A i \in 1..Len(bl[d]) : longer[i] = bl[d][i]
      /\ longer[Len(bl[d]) + 1] = b
  BY <1>1, AppendProperties
<1>3. new[d] = longer /\ (\A q \in Running : q # d => new[q] = bl[q])
      /\ new = [q \in Running |-> new[q]]
  BY <1>1
<1> HIDE DEF longer, new
<1>4. \A q \in Running : new[q] \in Seq(BlockFile)
  BY <1>1, <1>2, <1>3
<1>5. \A q \in Running : \A k \in 1..Len(bl[q]) : new[q][k] = bl[q][k]
  BY <1>2, <1>3
<1>6. ASSUME NEW q \in Running, NEW k \in 1..Len(bl[q])
      PROVE  new[q][k].first = bl[q][k].first /\ new[q][k].size >= bl[q][k].size
  <2>1. bl[q][k].size \in Nat
    BY BlockIs
  <2>2. QED BY <1>5, <2>1
<1>7. ASSUME NEW q \in Running PROVE Len(new[q]) >= Len(bl[q])
  <2>1. Len(bl[q]) \in Nat
    BY <1>1, LenProperties
  <2>2. QED BY <1>2, <1>3, <2>1
<1>8. QED BY <1>2, <1>3, <1>4, <1>5, <1>6, <1>7 DEF Grown, BlocksSound, new

\* A block gets other bytes, or more of them.
LEMMA BlockReplaced ==
    ASSUME NEW bl, NEW md, StoreSound(bl, md), NEW d \in Running, NEW k \in 1..Len(bl[d]),
           NEW b \in BlockFile, b.first = bl[d][k].first, b.size >= bl[d][k].size
    PROVE  LET new == [bl EXCEPT ![d] = [bl[d] EXCEPT ![k] = b]]
           IN  /\ StoreSound(new, md) /\ Grown(bl, new)
               /\ Len(new[d]) = Len(bl[d]) /\ new[d][k] = b
               /\ \A q \in Running : \A j \in 1..Len(bl[q]) :
                     q # d \/ j # k => new[q][j] = bl[q][j]
<1> DEFINE new == [bl EXCEPT ![d] = [bl[d] EXCEPT ![k] = b]]
<1>1. bl = [q \in Running |-> bl[q]] /\ \A q \in Running : bl[q] \in Seq(BlockFile)
  BY DEF StoreSound, BlocksSound
<1> DEFINE other == [bl[d] EXCEPT ![k] = b]
<1>2. /\ other \in Seq(BlockFile) /\ Len(other) = Len(bl[d])
      /\ \A i \in 1..Len(bl[d]) : other[i] = IF i = k THEN b ELSE bl[d][i]
  BY <1>1, ExceptSeq
<1>3. new[d] = other /\ (\A q \in Running : q # d => new[q] = bl[q])
      /\ new = [q \in Running |-> new[q]]
  BY <1>1
<1> HIDE DEF other, new
<1>4. \A q \in Running : new[q] \in Seq(BlockFile) /\ Len(new[q]) = Len(bl[q])
  BY <1>1, <1>2, <1>3
<1>5. ASSUME NEW q \in Running, NEW j \in 1..Len(bl[q])
      PROVE  new[q][j] = IF q = d /\ j = k THEN b ELSE bl[q][j]
  BY <1>2, <1>3
<1>6. ASSUME NEW q \in Running, NEW j \in 1..Len(bl[q])
      PROVE  new[q][j].first = bl[q][j].first /\ new[q][j].size >= bl[q][j].size
  <2>1. bl[q][j].size \in Nat
    BY BlockIs
  <2>2. QED BY <1>5, <2>1
<1>7. \A q \in Running : Len(new[q]) >= Len(bl[q])
  <2>1. \A q \in Running : Len(bl[q]) \in Nat
    BY <1>1, LenProperties
  <2>2. QED BY <1>4, <2>1
<1>8. Grown(bl, new)
  BY <1>6, <1>7 DEF Grown
<1>9. \A q \in Running : md[q] = "appends" => new[q] # <<>>
  <2>1. \A q \in Running : Len(bl[q]) = 0 <=> bl[q] = <<>>
    BY <1>1, EmptySeq
  <2>2. \A q \in Running : Len(new[q]) = 0 <=> new[q] = <<>>
    BY <1>4, EmptySeq
  <2>3. QED BY <1>4, <2>1, <2>2 DEF StoreSound, BlocksSound
<1>10. StoreSound(new, md)
  BY <1>3, <1>4, <1>9 DEF StoreSound, BlocksSound
<1>11. QED BY <1>3, <1>4, <1>5, <1>8, <1>10 DEF new

\* A block that is the same keeps what it holds.
LEMMA SameKeeps ==
    ASSUME NEW bl, NEW new, NEW fb, NEW bytes, NEW n, Kept(bl, fb, bytes, n),
           Placed(new, fb), BlockOf(new, fb) = BlockOf(bl, fb)
    PROVE  Kept(new, fb, bytes, n)
  BY DEF Kept, ApartIn

LEMMA LocatedIs ==
    ASSUME NEW d, NEW n
    PROVE  LET fb == Located(d, n)
               k == Len(blocks[d])
           IN  /\ fb.holder = d /\ fb.size = n /\ fb.server = ServerConf(d).id
               /\ MustCreate(d, n) => fb.block = k + 1 /\ fb.off = 0 /\ fb.first
               /\ ~MustCreate(d, n) => fb.block = k /\ fb.off = blocks[d][k].size /\ ~fb.first
               /\ fb.first \in BOOLEAN
<1> DEFINE fb == [NoFile EXCEPT !.server = ServerConf(d).id, !.holder = d, !.size = n]
           k == Len(blocks[d])
           one == [fb EXCEPT !.block = k + 1, !.first = TRUE]
           two == [fb EXCEPT !.block = k, !.off = blocks[d][k].size]
<1>1. one.holder = d /\ one.size = n /\ one.server = ServerConf(d).id
      /\ one.block = k + 1 /\ one.off = 0 /\ one.first /\ one.first \in BOOLEAN
  BY DEF NoFile
<1>2. two.holder = d /\ two.size = n /\ two.server = ServerConf(d).id
      /\ two.block = k /\ two.off = blocks[d][k].size
      /\ ~two.first /\ two.first \in BOOLEAN
  BY DEF NoFile
<1>3. Located(d, n) = IF MustCreate(d, n) THEN one ELSE two
  BY DEF Located
<1> HIDE DEF one, two, fb
<1>4. QED BY <1>1, <1>2, <1>3

\* block_file_append with a new block.
LEMMA CreateKeeps ==
    ASSUME StoreSound(blocks, mode), NEW d \in Running, NEW n \in Nat \ {0},
           BlockFileAppend(d, n), MustCreate(d, n)
    PROVE  LET fb == Located(d, n)
           IN  /\ StoreSound(blocks', mode') /\ Grown(blocks, blocks')
               /\ Placed(blocks', fb)
               /\ \A e, bytes, m : Kept(blocks, e, bytes, m) =>
                     Kept(blocks', e, bytes, m) /\ Clear(fb, e)
<1> DEFINE fb == Located(d, n)
           k == Len(blocks[d])
           b == Created(n)
<1>1. blocks' = [blocks EXCEPT ![d] = Append(blocks[d], b)]
      /\ mode' = [mode EXCEPT ![d] = "appends"]
  BY DEF BlockFileAppend
<1>2. b \in BlockFile /\ b.first = n
  <2>1. Truncated(<<>>, n) \in Seq(Byte)
    BY EmptySeq, TruncatedIs
  <2>2. QED BY <2>1 DEF Created, BlockFile
<1> HIDE DEF b
<1>3. /\ BlocksSound(blocks') /\ Grown(blocks, blocks')
      /\ Len(blocks'[d]) = k + 1 /\ blocks'[d][k + 1] = b /\ blocks'[d] # <<>>
      /\ \A q \in Running : \A j \in 1..Len(blocks[q]) : blocks'[q][j] = blocks[q][j]
  <2> DEFINE new == [blocks EXCEPT ![d] = Append(blocks[d], b)]
  <2>1. /\ BlocksSound(new) /\ Grown(blocks, new)
        /\ Len(new[d]) = k + 1 /\ new[d][k + 1] = b /\ new[d] # <<>>
        /\ \A q \in Running : \A j \in 1..Len(blocks[q]) : new[q][j] = blocks[q][j]
    BY <1>2, BlockAdded
  <2>2. blocks' = new
    BY <1>1
  <2> HIDE DEF new
  <2>3. QED BY <2>1, <2>2
<1>4. blocks[d] \in Seq(BlockFile) /\ k \in Nat
  BY LenProperties DEF StoreSound, BlocksSound
<1>5. StoreSound(blocks', mode')
  <2>1. mode' = [q \in Running |-> mode'[q]] /\ \A q \in Running : q # d => mode'[q] = mode[q]
    BY <1>1 DEF StoreSound, BlocksSound
  <2>2. ASSUME NEW q \in Running, q # d PROVE blocks'[q] = blocks[q]
    BY <1>1, <2>2 DEF StoreSound, BlocksSound
  <2>3. \A q \in Running : mode'[q] = "appends" => blocks'[q] # <<>>
    BY <1>3, <2>1, <2>2 DEF StoreSound, BlocksSound
  <2>4. QED BY <1>3, <2>1, <2>3 DEF StoreSound, BlocksSound
<1>6. fb.holder = d /\ fb.size = n /\ fb.server = ServerConf(d).id /\ fb.block = k + 1
      /\ fb.off = 0 /\ fb.first /\ fb.first \in BOOLEAN
  BY LocatedIs
<1> HIDE DEF fb, k
<1>7. Placed(blocks', fb)
  <2>1. fb.block \in 1..Len(blocks'[fb.holder])
    BY <1>3, <1>4, <1>6
  <2>2. BlockOf(blocks', fb) = b
    BY <1>3, <1>6 DEF BlockOf
  <2>3. QED BY <1>2, <1>6, <2>1, <2>2 DEF Placed
<1>8. ASSUME NEW e, NEW bytes, NEW m, Kept(blocks, e, bytes, m)
      PROVE  Kept(blocks', e, bytes, m) /\ Clear(fb, e)
  <2>1. Placed(blocks, e)
    BY <1>8 DEF Kept
  <2>2. e.holder \in Running /\ e.block \in 1..Len(blocks[e.holder])
    BY <2>1 DEF Placed
  <2>3. Placed(blocks', e)
    BY <1>3, <1>5, <2>1, PlacedStays
  <2>4. BlockOf(blocks', e) = BlockOf(blocks, e)
    BY <1>3, <2>2 DEF BlockOf
  <2>5. Kept(blocks', e, bytes, m)
    BY <1>8, <2>3, <2>4, SameKeeps
  <2>6. e.holder = d => e.block # k + 1
    BY <1>4, <2>2 DEF k
  <2>7. Clear(fb, e)
    BY <1>6, <2>6 DEF Clear
  <2>8. QED BY <2>5, <2>7
<1>9. QED BY <1>3, <1>5, <1>7, <1>8 DEF fb

LEMMA ExtendedIs ==
    ASSUME NEW b \in BlockFile, NEW n \in Nat
    PROVE  /\ Extended(b, n) \in BlockFile /\ Extended(b, n).first = b.first
           /\ Extended(b, n).size = b.size + n
           /\ Extended(b, n).bytes = Truncated(b.bytes, b.size + n)
<1>1. b.first \in Nat \ {0} /\ b.size \in Nat /\ b.bytes \in Seq(Byte) /\ b.size + n \in Nat
  BY DEF BlockFile
<1>2. Truncated(b.bytes, b.size + n) \in Seq(Byte)
  BY <1>1, TruncatedIs
<1> DEFINE s == b.size + n
           bytes == Truncated(b.bytes, b.size + n)
<1>3. s \in Nat /\ bytes \in Seq(Byte)
  BY <1>1, <1>2
<1>4. Extended(b, n) = [b EXCEPT !.size = s, !.bytes = bytes]
  BY DEF Extended
<1> HIDE DEF s, bytes
<1>5. Extended(b, n) \in BlockFile /\ Extended(b, n).first = b.first
      /\ Extended(b, n).size = s /\ Extended(b, n).bytes = bytes
  BY <1>3, <1>4 DEF BlockFile
<1>6. QED BY <1>5 DEF s, bytes

\* block_file_append behind the recorded size of the last block.
LEMMA ExtendKeeps ==
    ASSUME StoreSound(blocks, mode), NEW d \in Running, NEW n \in Nat \ {0},
           BlockFileAppend(d, n), ~MustCreate(d, n)
    PROVE  LET fb == Located(d, n)
           IN  /\ StoreSound(blocks', mode') /\ Grown(blocks, blocks')
               /\ Placed(blocks', fb)
               /\ \A e, bytes, m : Kept(blocks, e, bytes, m) =>
                     Kept(blocks', e, bytes, m) /\ Clear(fb, e)
<1> DEFINE fb == Located(d, n)
           k == Len(blocks[d])
           old == blocks[d][k]
           b == Extended(old, n)
<1>1. blocks' = [blocks EXCEPT ![d][k] = Extended(@, n)] /\ mode' = mode
  BY DEF BlockFileAppend
<1>2. blocks[d] \in Seq(BlockFile) /\ blocks[d] # <<>> /\ k \in Nat
  BY LenProperties DEF StoreSound, BlocksSound, MustCreate
<1>3. k \in 1..k
  <2>1. k # 0
    BY <1>2, EmptySeq
  <2>2. QED BY <1>2, <2>1
<1>4. old \in BlockFile /\ old.size \in Nat /\ old.first \in Nat \ {0} /\ old.bytes \in Seq(Byte)
      /\ Len(old.bytes) \in Nat
  BY <1>3, BlockIs
<1>5. /\ b \in BlockFile /\ b.first = old.first /\ b.size = old.size + n
      /\ b.bytes = Truncated(old.bytes, old.size + n)
  BY <1>4, ExtendedIs
<1>6. blocks' = [blocks EXCEPT ![d] = [blocks[d] EXCEPT ![k] = b]]
  BY <1>1
<1> HIDE DEF b
<1>7. /\ StoreSound(blocks', mode') /\ Grown(blocks, blocks')
      /\ Len(blocks'[d]) = k /\ blocks'[d][k] = b
      /\ \A q \in Running : \A j \in 1..Len(blocks[q]) :
            q # d \/ j # k => blocks'[q][j] = blocks[q][j]
  <2>1. b.size >= old.size
    BY <1>4, <1>5
  <2>2. k \in 1..Len(blocks[d])
    BY <1>3
  <2> HIDE DEF k
  <2> DEFINE new == [blocks EXCEPT ![d] = [blocks[d] EXCEPT ![k] = b]]
  <2>3. /\ StoreSound(new, mode) /\ Grown(blocks, new)
        /\ Len(new[d]) = Len(blocks[d]) /\ new[d][k] = b
        /\ \A q \in Running : \A j \in 1..Len(blocks[q]) :
              q # d \/ j # k => new[q][j] = blocks[q][j]
    BY <1>5, <2>1, <2>2, BlockReplaced
  <2>4. blocks' = new
    BY <1>6
  <2> HIDE DEF new
  <2>5. QED BY <1>1, <2>3, <2>4 DEF k
<1>8. fb.holder = d /\ fb.size = n /\ fb.server = ServerConf(d).id /\ fb.block = k
      /\ fb.off = old.size /\ ~fb.first /\ fb.first \in BOOLEAN
  BY LocatedIs
<1> HIDE DEF fb
<1>9. Placed(blocks', fb)
  <2>1. BlockOf(blocks', fb) = b
    BY <1>7, <1>8 DEF BlockOf
  <2>2. fb.off + fb.size <= b.size
    BY <1>4, <1>5, <1>8
  <2>3. QED BY <1>3, <1>4, <1>7, <1>8, <2>1, <2>2 DEF Placed
<1>10. ASSUME NEW e, NEW bytes, NEW m, Kept(blocks, e, bytes, m)
       PROVE  Kept(blocks', e, bytes, m) /\ Clear(fb, e)
  <2>1. Placed(blocks, e) /\ m \in 0..e.size
    BY <1>10 DEF Kept
  <2>2. e.holder \in Running /\ e.block \in 1..Len(blocks[e.holder]) /\ e.off \in Nat
        /\ e.size \in Nat \ {0} /\ e.first \in BOOLEAN
    BY <2>1 DEF Placed
  <2>3. Placed(blocks', e) /\ (ApartIn(blocks', e) => ApartIn(blocks, e))
    BY <1>7, <2>1, PlacedStays
  <2>4. CASE e.holder = d /\ e.block = k
    <3>1. BlockOf(blocks, e) = old /\ BlockOf(blocks', e) = b
      BY <1>7, <2>4 DEF BlockOf
    <3>2. CASE e.first
      <4>1. e.off = 0
        BY <2>1, <3>2 DEF Placed
      <4>2. ~ApartIn(blocks', e)
        BY <1>4, <1>5, <3>1, <4>1 DEF ApartIn
      <4>3. Kept(blocks', e, bytes, m)
        BY <2>1, <2>3, <4>2 DEF Kept
      <4>4. QED BY <1>8, <3>2, <4>3 DEF Clear
    <3>3. CASE ~e.first
      <4>1. e.off + e.size <= old.size
        BY <2>1, <3>1, <3>3 DEF Placed
      <4>2. ASSUME ApartIn(blocks', e), NEW i \in 1..m
            PROVE  e.off + i <= Len(b.bytes) /\ b.bytes[e.off + i] = bytes[i]
        <5>1. e.off + i <= Len(old.bytes) /\ old.bytes[e.off + i] = bytes[i]
          BY <1>10, <2>3, <3>1, <4>2 DEF Kept
        <5>2. e.off + i \in 1..(old.size + n)
          <6> DEFINE o == e.off
                     z == e.size
                     a == old.size
          <6>1. o \in Nat /\ z \in Nat /\ a \in Nat /\ o + z <= a /\ i \in 1..m /\ m \in 0..z
            BY <1>4, <2>1, <2>2, <4>1
          <6> HIDE DEF o, z, a
          <6>2. o + i \in 1..(a + n)
            BY <6>1
          <6>3. QED BY <6>2 DEF o, a
        <5>3. old.size + n \in Nat
          BY <1>4
        <5>4. Len(b.bytes) = old.size + n /\ b.bytes[e.off + i] = old.bytes[e.off + i]
          <6> DEFINE bs == old.bytes
                     a == old.size + n
                     j == e.off + i
          <6>1. bs \in Seq(Byte) /\ a \in Nat /\ j \in 1..a /\ j <= Len(bs)
                /\ b.bytes = Truncated(bs, a)
            BY <1>4, <1>5, <5>1, <5>2, <5>3
          <6> HIDE DEF bs, a, j
          <6>2. Len(b.bytes) = a /\ b.bytes[j] = bs[j]
            BY <6>1, TruncatedIs
          <6>3. QED BY <6>2 DEF bs, a, j
        <5>5. e.off + i <= old.size + n
          BY <5>2, <5>3
        <5>6. QED BY <5>1, <5>4, <5>5
      <4>3. Kept(blocks', e, bytes, m)
        BY <2>1, <2>3, <3>1, <4>2 DEF Kept
      <4>4. Clear(fb, e)
        BY <1>8, <3>3, <4>1 DEF Clear
      <4>5. QED BY <4>3, <4>4
    <3>4. QED BY <3>2, <3>3
  <2>5. CASE ~(e.holder = d /\ e.block = k)
    <3>1. BlockOf(blocks', e) = BlockOf(blocks, e)
      BY <1>7, <2>2, <2>5 DEF BlockOf
    <3>2. Kept(blocks', e, bytes, m)
      BY <1>10, <2>3, <3>1, SameKeeps
    <3>3. QED BY <1>8, <2>5, <3>2 DEF Clear
  <2>6. QED BY <2>4, <2>5
<1>11. QED BY <1>7, <1>9, <1>10 DEF fb

\* Outside its own block, and beside the place a block was created for, a place is
\* apart from every other.
LEMMA ApartClear ==
    ASSUME NEW bl, NEW md, StoreSound(bl, md), NEW fb, NEW e, Placed(bl, fb), Placed(bl, e),
           Clear(fb, e), fb.holder = e.holder, fb.block = e.block, ApartIn(bl, e)
    PROVE  e.off + e.size <= fb.off \/ fb.off + fb.size <= e.off
<1> DEFINE b == BlockOf(bl, e)
<1>1. b.size \in Nat /\ b.first \in Nat
  BY BlockIs DEF Placed, BlockOf
<1>2. BlockOf(bl, fb) = b
  BY DEF BlockOf
<1> HIDE DEF b
<1>3. /\ fb.off \in Nat /\ fb.size \in Nat \ {0} /\ e.off \in Nat /\ e.size \in Nat \ {0}
      /\ IF fb.first THEN fb.off = 0 /\ fb.size = b.first ELSE fb.off + fb.size <= b.size
      /\ IF e.first THEN e.off = 0 /\ e.size = b.first ELSE e.off + e.size <= b.size
  BY <1>2 DEF Placed, b
<1>4. ~(fb.first /\ e.first)
      /\ (fb.first \/ e.first \/ fb.off + fb.size <= e.off \/ e.off + e.size <= fb.off)
  BY DEF Clear
<1>5. b.size = 0 \/ e.off >= b.first
  BY DEF ApartIn, b
<1>6. QED BY <1>1, <1>3, <1>4, <1>5

\* The blocks with the bytes from done to to of a body written to its place.
FlushedTo(bl, fb, done, more, to) ==
    [bl EXCEPT ![fb.holder] = [bl[fb.holder] EXCEPT ![fb.block] =
        [bl[fb.holder][fb.block] EXCEPT !.bytes =
            Written(bl[fb.holder][fb.block].bytes, fb.off + done, SubSeq(more, done + 1, to))]]]

\* The bytes of a body that are flushed to their place leave those of the others.
LEMMA WriteKeeps ==
    ASSUME NEW bl, NEW md, StoreSound(bl, md), NEW fb, NEW taken, NEW done \in Nat,
           Kept(bl, fb, taken, done), NEW more \in Seq(Byte), done <= Len(more),
           Len(more) <= fb.size, NEW to \in 0..Len(more),
           \A i \in 1..done : more[i] = taken[i]
    PROVE  LET new == FlushedTo(bl, fb, done, more, to)
           IN  /\ StoreSound(new, md) /\ Grown(bl, new)
               /\ Kept(new, fb, more, to)
               /\ \A e, bytes, m : Kept(bl, e, bytes, m) /\ Clear(fb, e) =>
                     Kept(new, e, bytes, m)
<1> DEFINE d == fb.holder
           k == fb.block
           old == bl[d][k]
           part == SubSeq(more, done + 1, to)
           w == Written(old.bytes, fb.off + done, part)
           b == [old EXCEPT !.bytes = w]
           new == [bl EXCEPT ![d] = [bl[d] EXCEPT ![k] = b]]
           o == fb.off
<1>1. /\ Placed(bl, fb) /\ d \in Running /\ k \in 1..Len(bl[d]) /\ o \in Nat
      /\ fb.size \in Nat /\ done \in 0..fb.size
  BY DEF Kept, Placed
<1>2. /\ old \in BlockFile /\ old.size \in Nat /\ old.first \in Nat \ {0}
      /\ old.bytes \in Seq(Byte) /\ Len(old.bytes) \in Nat
  BY <1>1, BlockIs
<1>3. Len(more) \in Nat /\ to \in Nat
  BY LenProperties
<1> HIDE DEF d, k, old, o
<1>4. /\ part \in Seq(Byte) /\ Len(part) = IF to >= done THEN to - done ELSE 0
      /\ \A i \in 1..Len(part) : part[i] = more[done + i]
  <2>1. CASE to >= done
    <3>1. done \in 0..Len(more) /\ to \in done..Len(more)
      BY <1>3, <2>1
    <3>2. part \in Seq(Byte) /\ Len(part) = to - done
          /\ \A i \in 1..(to - done) : part[i] = more[done + i]
      BY <3>1, PartIs
    <3>3. QED BY <2>1, <3>2
  <2>2. CASE to < done
    <3>1. part = <<>>
      BY <1>3, <2>2, SubSeqEmpty
    <3>2. part \in Seq(Byte) /\ Len(part) = 0
      BY <3>1, EmptySeq
    <3>3. QED BY <1>3, <2>2, <3>2
  <2>3. QED BY <1>3, <2>1, <2>2
<1> HIDE DEF part
<1>5. /\ w \in Seq(Byte) /\ Len(w) >= Len(old.bytes) /\ Len(w) \in Nat
      /\ \A j \in 1..Len(old.bytes) : j \notin (o + done + 1)..(o + done + Len(part)) =>
            w[j] = old.bytes[j]
      /\ \A i \in 1..Len(part) : o + done + i <= Len(w) /\ w[o + done + i] = part[i]
  <2>1. o + done \in Nat
    BY <1>1
  <2> DEFINE at == o + done
  <2> HIDE DEF at
  <2> DEFINE bs == old.bytes
  <2>2. w = Written(bs, at, part) /\ bs \in Seq(Byte) /\ at \in Nat
    BY <1>2, <2>1 DEF at, o
  <2> HIDE DEF bs, w
  <2>3. /\ w \in Seq(Byte) /\ Len(w) >= Len(bs)
        /\ \A j \in 1..Len(bs) : j \notin (at + 1)..(at + Len(part)) => w[j] = bs[j]
        /\ \A i \in 1..Len(part) : at + i <= Len(w) /\ w[at + i] = part[i]
    <3>1. LET all == Written(bs, at, part)
          IN  /\ all \in Seq(Byte) /\ Len(all) >= Len(bs)
              /\ \A j \in 1..Len(bs) : j \notin (at + 1)..(at + Len(part)) => all[j] = bs[j]
              /\ \A i \in 1..Len(part) : at + i <= Len(all) /\ all[at + i] = part[i]
      BY <1>4, <2>2, WrittenIs
    <3>2. QED BY <2>2, <3>1
  <2>4. Len(w) \in Nat
    BY <2>3, LenProperties
  <2>5. QED BY <2>3, <2>4 DEF at, bs
<1> HIDE DEF w
<1>6. b \in BlockFile /\ b.first = old.first /\ b.size = old.size /\ b.bytes = w
  BY <1>2, <1>5 DEF BlockFile
<1> HIDE DEF b
<1>7. /\ StoreSound(new, md) /\ Grown(bl, new)
      /\ Len(new[d]) = Len(bl[d]) /\ new[d][k] = b
      /\ \A q \in Running : \A j \in 1..Len(bl[q]) : q # d \/ j # k => new[q][j] = bl[q][j]
  <2>1. b.first = bl[d][k].first /\ b.size >= bl[d][k].size
    BY <1>2, <1>6 DEF old
  <2>2. d \in Running /\ k \in 1..Len(bl[d]) /\ b \in BlockFile
    BY <1>1, <1>6
  <2>3. QED BY <2>1, <2>2, BlockReplaced, SMTT(60)
<1> HIDE DEF new
<1>8. Placed(new, fb)
  BY <1>1, <1>7, PlacedStays
<1>9. BlockOf(new, fb) = b /\ BlockOf(bl, fb) = old
  BY <1>7 DEF BlockOf, d, k, old
<1>10. ASSUME ApartIn(new, fb), NEW i \in 1..to
       PROVE  o + i <= Len(w) /\ w[o + i] = more[i]
  <2>1. ApartIn(bl, fb)
    BY <1>1, <1>7, <1>10, PlacedStays
  <2>2. CASE i <= done
    <3>1. i \in 1..done
      BY <1>3, <2>2
    <3>2. o + i <= Len(old.bytes) /\ old.bytes[o + i] = taken[i]
      BY <1>9, <2>1, <3>1 DEF Kept, o
    <3>3. o + i \in 1..Len(old.bytes) /\ o + i \notin (o + done + 1)..(o + done + Len(part))
      BY <1>1, <1>2, <3>1, <3>2
    <3>4. w[o + i] = old.bytes[o + i]
      BY <1>5, <3>3
    <3>5. QED BY <1>1, <1>2, <1>5, <3>1, <3>2, <3>4
  <2>3. CASE i > done
    <3> DEFINE j == i - done
    <3>1. j \in 1..Len(part) /\ done + j = i /\ o + done + j = o + i
      BY <1>1, <1>3, <1>4, <2>3
    <3> HIDE DEF j
    <3>2. o + done + j <= Len(w) /\ w[o + done + j] = part[j] /\ part[j] = more[done + j]
      BY <1>4, <1>5, <3>1
    <3>3. QED BY <3>1, <3>2
  <2>4. QED BY <1>1, <1>3, <2>2, <2>3
<1>11. Kept(new, fb, more, to)
  <2>1. to \in 0..fb.size
    BY <1>1, <1>3
  <2>2. QED BY <1>6, <1>8, <1>9, <1>10, <2>1 DEF Kept, o
<1>12. ASSUME NEW e, NEW bytes, NEW m, Kept(bl, e, bytes, m), Clear(fb, e)
       PROVE  Kept(new, e, bytes, m)
  <2>1. Placed(bl, e) /\ m \in 0..e.size
    BY <1>12 DEF Kept
  <2>2. e.holder \in Running /\ e.block \in 1..Len(bl[e.holder]) /\ e.off \in Nat
        /\ e.size \in Nat
    BY <2>1 DEF Placed
  <2>3. Placed(new, e) /\ (ApartIn(new, e) => ApartIn(bl, e))
    BY <1>7, <2>1, PlacedStays
  <2>4. CASE e.holder = d /\ e.block = k
    <3>1. BlockOf(bl, e) = old /\ BlockOf(new, e) = b
      BY <1>7, <2>4 DEF BlockOf, old
    <3>2. ASSUME ApartIn(new, e), NEW i \in 1..m
          PROVE  e.off + i <= Len(w) /\ w[e.off + i] = bytes[i]
      <4>1. e.off + i <= Len(old.bytes) /\ old.bytes[e.off + i] = bytes[i]
        BY <1>12, <2>3, <3>1, <3>2 DEF Kept
      <4>2. e.off + e.size <= o \/ o + fb.size <= e.off
        BY <1>1, <1>12, <2>1, <2>3, <2>4, <3>2, ApartClear DEF d, k, o
      <4> DEFINE a == e.off
                 z == e.size
                 f == fb.size
                 l == Len(old.bytes)
                 p == Len(part)
      <4>3. /\ a \in Nat /\ z \in Nat /\ f \in Nat /\ l \in Nat /\ o \in Nat
            /\ m \in 0..z /\ i \in 1..m /\ (a + z <= o \/ o + f <= a) /\ a + i <= l
            /\ p \in Nat /\ done + p <= f
        <5>1. Len(part) \in Nat /\ done + Len(part) <= fb.size
          BY <1>1, <1>3, <1>4
        <5>2. QED BY <1>1, <1>2, <2>1, <2>2, <4>1, <4>2, <5>1
      <4> HIDE DEF a, z, f, l, p
      <4>4. a + i \in 1..l /\ a + i \notin (o + done + 1)..(o + done + p)
        BY <4>3
      <4>5. w[e.off + i] = old.bytes[e.off + i]
        BY <1>5, <4>4 DEF a, l, p
      <4>6. a + i <= Len(w)
        BY <1>5, <4>3 DEF l
      <4>7. QED BY <4>1, <4>5, <4>6 DEF a
    <3>3. QED BY <1>6, <2>1, <2>3, <3>1, <3>2 DEF Kept
  <2>5. CASE ~(e.holder = d /\ e.block = k)
    <3>1. BlockOf(new, e) = BlockOf(bl, e)
      BY <1>7, <2>2, <2>5 DEF BlockOf
    <3>2. QED BY <1>12, <2>3, <3>1, SameKeeps
  <2>6. QED BY <2>4, <2>5
<1>13. QED BY <1>7, <1>11, <1>12 DEF FlushedTo, new, b, w, part, old, d, k, o

-----------------------------------------------------------------------------
(* The blocks hold what was flushed to them.                               *)

SessionsKept(bl, nt) ==
    \A p \in Proc : nt[p].fb # NoFile =>
        /\ nt[p].done \in 0..Len(nt[p].taken)
        /\ Kept(bl, nt[p].fb, nt[p].taken, nt[p].done)

FilesKept(bl, idx) ==
    \A n \in Name : idx[n] # NoFile => Kept(bl, idx[n], Body[n], idx[n].size)

PlacesClear(nt, idx) ==
    \A p \in Proc : nt[p].fb # NoFile =>
        /\ \A q \in Proc \ {p} : nt[q].fb # NoFile => Clear(nt[p].fb, nt[q].fb)
        /\ \A n \in Name : idx[n] # NoFile => Clear(nt[p].fb, idx[n])

StoreIInv ==
    /\ StoreSound(blocks, mode) /\ SessionsKept(blocks, net)
    /\ FilesKept(blocks, index) /\ PlacesClear(net, index)

\* What is registered stays, and no block gets smaller.
Lasting ==
    /\ Grown(blocks, blocks')
    /\ \A n \in Name : index[n] # NoFile => index'[n] = index[n]

\* A step that writes to no block: a session is over, or it is as it was.
Quiet ==
    /\ blocks' = blocks /\ index' = index /\ StoreSound(blocks, mode')
    /\ \A p \in Proc : \/ net'[p].fb = NoFile
                       \/ /\ net'[p].fb = net[p].fb /\ net'[p].taken = net[p].taken
                          /\ net'[p].done = net[p].done

LEMMA GrownSame ==
    ASSUME NEW bl, NEW md, StoreSound(bl, md)
    PROVE  Grown(bl, bl)
<1>1. ASSUME NEW d \in Running PROVE Len(bl[d]) \in Nat
  BY LenProperties DEF StoreSound, BlocksSound
<1>2. ASSUME NEW d \in Running, NEW k \in 1..Len(bl[d]) PROVE bl[d][k].size \in Nat
  BY BlockIs
<1>3. QED BY <1>1, <1>2 DEF Grown

LEMMA QuietKeeps ==
    ASSUME StoreIInv, Quiet
    PROVE  StoreIInv' /\ Lasting
<1>1. blocks' = blocks /\ index' = index /\ StoreSound(blocks', mode')
  BY DEF Quiet
<1>2. ASSUME NEW p \in Proc, net'[p].fb # NoFile
      PROVE  net'[p].fb = net[p].fb /\ net'[p].taken = net[p].taken
             /\ net'[p].done = net[p].done
  BY <1>2 DEF Quiet
<1>3. SessionsKept(blocks', net')
  BY <1>1, <1>2 DEF StoreIInv, SessionsKept
<1>4. FilesKept(blocks', index')
  BY <1>1 DEF StoreIInv
<1>5. PlacesClear(net', index')
  BY <1>1, <1>2 DEF StoreIInv, PlacesClear
<1>6. Lasting
  BY <1>1, GrownSame DEF StoreIInv, Lasting
<1>7. QED BY <1>1, <1>3, <1>4, <1>5, <1>6 DEF StoreIInv

LEMMA ModeKeeps ==
    ASSUME NEW bl, NEW md, StoreSound(bl, md), NEW d, NEW m \in {"fresh", "hung"}
    PROVE  StoreSound(bl, [md EXCEPT ![d] = m])
<1> DEFINE nd == [md EXCEPT ![d] = m]
<1>1. md = [q \in Running |-> md[q]]
  BY DEF StoreSound
<1>2. nd = [q \in Running |-> IF q = d THEN m ELSE md[q]]
  BY <1>1
<1> HIDE DEF nd
<1>3. nd = [q \in Running |-> nd[q]] /\ \A q \in Running : nd[q] = "appends" => md[q] = "appends"
  BY <1>2
<1>4. StoreSound(bl, nd)
  BY <1>3 DEF StoreSound
<1>5. QED BY <1>4 DEF nd

LEMMA HangsSound ==
    ASSUME StoreIInv, NEW d, mode' = mode \/ mode' = [mode EXCEPT ![d] = "hung"]
    PROVE  StoreSound(blocks, mode')
<1>1. StoreSound(blocks, mode)
  BY DEF StoreIInv
<1>2. StoreSound(blocks, [mode EXCEPT ![d] = "hung"])
  BY <1>1, ModeKeeps
<1>3. CASE mode' = mode
  BY <1>1, <1>3
<1>4. CASE mode' = [mode EXCEPT ![d] = "hung"]
  BY <1>2, <1>4
<1>5. QED BY <1>3, <1>4

\* What one run does to its connection is quiet, when it takes nothing.
LEMMA OneQuiet ==
    ASSUME ClientIInv, StoreIInv, NEW p \in Proc, NEW c, net' = [net EXCEPT ![p] = c],
           \/ c.fb = NoFile
           \/ c.fb = net[p].fb /\ c.taken = net[p].taken /\ c.done = net[p].done,
           blocks' = blocks, index' = index, StoreSound(blocks, mode')
    PROVE  Quiet
<1>1. net = [q \in Proc |-> net[q]]
  BY DEF ClientIInv, RunsInOrder
<1>2. net'[p] = c /\ \A q \in Proc : q # p => net'[q] = net[q]
  BY <1>1
<1>3. QED BY <1>2 DEF Quiet

LEMMA NothingQuiet ==
    ASSUME ClientIInv, StoreIInv, net' = net, UNCHANGED others
    PROVE  Quiet
  BY DEF Quiet, StoreIInv, others

LEMMA EndsQuiet ==
    ASSUME ClientIInv, StoreIInv, NEW p \in Proc, NEW t, NEW iret, Ends(p, t, iret)
    PROVE  Quiet
<1>1. net' = [net EXCEPT ![p] = NoConn] /\ blocks' = blocks /\ index' = index
      /\ (mode' = mode \/ mode' = [mode EXCEPT ![tc[p].addr] = "hung"])
  BY DEF Ends, Hangs
<1>2. StoreSound(blocks, mode')
  BY <1>1, HangsSound
<1>3. QED BY <1>1, <1>2, NoConnIs, OneQuiet

LEMMA FailsQuiet ==
    ASSUME ClientIInv, StoreIInv, NEW p \in Proc, Fails(p)
    PROVE  Quiet
  BY EndsQuiet DEF Fails

LEMMA StepsQuiet ==
    ASSUME ClientIInv, StoreIInv, NEW p \in Proc,
           \/ AddLookup(p) \/ GetLookup(p) \/ StorageFromMaster(p) \/ SendBody(p)
           \/ ReadLast(p) \/ SendFileGet(p) \/ ReadFirst(p) \/ ReadMore(p) \/ TimesOut(p)
    PROVE  Quiet
<1>1. CASE Fails(p)
  BY <1>1, FailsQuiet
<1>2. CASE ~Fails(p) /\ (AddLookup(p) \/ GetLookup(p) \/ StorageFromMaster(p))
  <2>1. net' = net /\ UNCHANGED others
    BY <1>2 DEF AddLookup, GetLookup, StorageFromMaster
  <2>2. QED BY <2>1, NothingQuiet
<1>3. CASE ~Fails(p) /\ SendBody(p)
  <2>1. PICK up : net' = [net EXCEPT ![p].up = up] /\ UNCHANGED others
    BY <1>3 DEF SendBody
  <2> DEFINE c == [net[p] EXCEPT !.up = up]
  <2>2. net' = [net EXCEPT ![p] = c] /\ c.fb = net[p].fb /\ c.taken = net[p].taken
        /\ c.done = net[p].done
    BY <2>1, RunIs DEF ConnFields
  <2>3. QED BY <2>1, <2>2, OneQuiet DEF others, StoreIInv
<1>4. CASE ReadLast(p)
  BY <1>4, EndsQuiet DEF ReadLast
<1>5. CASE ~Fails(p) /\ SendFileGet(p)
  <2>1. PICK opened \in BOOLEAN :
           /\ net' = [net EXCEPT ![p] = [NoConn EXCEPT !.ready = opened, !.down = <<Line>>]]
           /\ UNCHANGED others
    BY <1>5 DEF SendFileGet
  <2> DEFINE c == [NoConn EXCEPT !.ready = opened, !.down = <<Line>>]
  <2>2. c.fb = NoFile
    BY NoConnIs DEF ConnFields
  <2> HIDE DEF c
  <2>3. QED BY <2>1, <2>2, OneQuiet DEF others, StoreIInv, c
<1>6. CASE \E down : net' = [net EXCEPT ![p].down = down] /\ UNCHANGED others
  <2>1. PICK down : net' = [net EXCEPT ![p].down = down] /\ UNCHANGED others
    BY <1>6
  <2> DEFINE c == [net[p] EXCEPT !.down = down]
  <2>2. net' = [net EXCEPT ![p] = c] /\ c.fb = net[p].fb /\ c.taken = net[p].taken
        /\ c.done = net[p].done
    BY <2>1, RunIs DEF ConnFields
  <2>3. QED BY <2>1, <2>2, OneQuiet DEF others, StoreIInv
<1>7. CASE ~Fails(p) /\ ReadFirst(p)
  <2>1. PICK k \in 1..Min({Buf, Len(net[p].down)}) :
           IF FirstSize(k) = tc[p].fb.size
           THEN Ends(p, [tc[p] EXCEPT !.file = BeforeNul(SubSeq(net[p].down, 2, k))], "OK")
           ELSE net' = [net EXCEPT ![p].down = SubSeq(@, k + 1, Len(@))] /\ UNCHANGED others
    BY <1>7 DEF ReadFirst
  <2>2. CASE FirstSize(k) = tc[p].fb.size
    BY <2>1, <2>2, EndsQuiet
  <2>3. CASE FirstSize(k) # tc[p].fb.size
    BY <1>6, <2>1, <2>3
  <2>4. QED BY <2>2, <2>3
<1>8. CASE ReadMore(p)
  BY <1>6, <1>8 DEF ReadMore
<1>9. CASE TimesOut(p)
  BY <1>1, <1>9 DEF TimesOut
<1>10. QED
  BY <1>1, <1>2, <1>3, <1>4, <1>5, <1>7, <1>8, <1>9

LEMMA ServerQuiet ==
    ASSUME ClientIInv, StoreIInv, NEW p \in Proc, ServerSends(p) \/ ServerCloses(p)
    PROVE  Quiet
<1>1. CASE ServerSends(p)
  <2> DEFINE stored == Stored(blocks[tc[p].addr][tc[p].fb.block], tc[p].fb)
  <2>1. PICK k \in 0..Len(stored) :
           net' = [net EXCEPT ![p].down = @ \o SubSeq(stored, 1, k),
                              ![p].done = k, ![p].ready = k < tc[p].fb.size]
    BY <1>1 DEF ServerSends
  <2> DEFINE down == net[p].down \o SubSeq(stored, 1, k)
             ready == k < tc[p].fb.size
  <2>2. tc[p].opt = "get" /\ blocks' = blocks /\ index' = index
        /\ (mode' = mode \/ mode' = [mode EXCEPT ![tc[p].addr] = "hung"])
    BY <1>1 DEF ServerSends, Hangs
  <2> DEFINE c == [net[p] EXCEPT !.down = down, !.done = k, !.ready = ready]
  <2>3. net' = [net EXCEPT ![p] = c] /\ c.fb = net[p].fb
    BY <2>1, RunIs DEF ConnFields
  <2>4. net[p].fb = NoFile
    BY <2>2, RunIs DEF Session
  <2>5. StoreSound(blocks, mode')
    BY <2>2, HangsSound
  <2> HIDE DEF c
  <2>6. QED BY <2>2, <2>3, <2>4, <2>5, OneQuiet
<1>2. CASE ServerCloses(p)
  <2>1. net' = [net EXCEPT ![p] = Closed(net[p])] /\ UNCHANGED others
    BY <1>2 DEF ServerCloses
  <2>2. QED BY <2>1, ClosedIs, OneQuiet DEF others, StoreIInv
<1>3. QED BY <1>1, <1>2

LEMMA RestartsQuiet ==
    ASSUME ClientIInv, StoreIInv, NEW d \in Running, ServerRestarts(d)
    PROVE  Quiet
<1>1. /\ blocks' = blocks /\ index' = index /\ mode' = [mode EXCEPT ![d] = "fresh"]
      /\ net' = [p \in Proc |-> IF Connected(p) /\ tc[p].addr = d THEN Closed(net[p]) ELSE net[p]]
  BY DEF ServerRestarts
<1>2. StoreSound(blocks, mode')
  BY <1>1, ModeKeeps DEF StoreIInv
<1>3. ASSUME NEW p \in Proc PROVE net'[p].fb = NoFile \/ net'[p] = net[p]
  BY <1>1, ClosedIs
<1>4. QED BY <1>1, <1>2, <1>3 DEF Quiet

LEMMA ClearBoth ==
    ASSUME NEW e, NEW f, Clear(e, f)
    PROVE  Clear(f, e)
  BY DEF Clear

\* A step that writes to a block, for the session of one run.
LEMMA OnePlace ==
    ASSUME ClientIInv, StoreIInv, NEW p \in Proc, NEW c, net' = [net EXCEPT ![p] = c],
           StoreSound(blocks', mode'),
           c.fb # NoFile => c.done \in 0..Len(c.taken) /\ Kept(blocks', c.fb, c.taken, c.done),
           \A q \in Proc \ {p} : net[q].fb # NoFile =>
               /\ Kept(blocks', net[q].fb, net[q].taken, net[q].done)
               /\ c.fb # NoFile => Clear(c.fb, net[q].fb),
           \A n \in Name : index'[n] # NoFile =>
               /\ Kept(blocks', index'[n], Body[n], index'[n].size)
               /\ c.fb # NoFile => Clear(c.fb, index'[n])
               /\ \A q \in Proc \ {p} : net[q].fb # NoFile => Clear(net[q].fb, index'[n])
    PROVE  StoreIInv'
<1>1. net'[p] = c /\ \A q \in Proc \ {p} : net'[q] = net[q]
  BY DEF ClientIInv, RunsInOrder
<1>2. SessionsKept(blocks', net')
  <2>1. ASSUME NEW q \in Proc, net'[q].fb # NoFile
        PROVE  /\ net'[q].done \in 0..Len(net'[q].taken)
               /\ Kept(blocks', net'[q].fb, net'[q].taken, net'[q].done)
    <3>1. CASE q = p
      BY <1>1, <2>1, <3>1
    <3>2. CASE q # p
      <4>1. net'[q] = net[q] /\ net[q].fb # NoFile
        BY <1>1, <2>1, <3>2
      <4>2. net[q].done \in 0..Len(net[q].taken)
        BY <4>1 DEF StoreIInv, SessionsKept
      <4>3. QED BY <3>2, <4>1, <4>2
    <3>3. QED BY <3>1, <3>2
  <2>2. QED BY <2>1 DEF SessionsKept
<1>3. FilesKept(blocks', index')
  BY DEF FilesKept
<1>4. PlacesClear(net', index')
  <2>1. ASSUME NEW q \in Proc, net'[q].fb # NoFile, NEW r \in Proc \ {q}, net'[r].fb # NoFile
        PROVE  Clear(net'[q].fb, net'[r].fb)
    <3>1. CASE q = p
      <4>1. r \in Proc \ {p} /\ net'[r] = net[r] /\ net'[q] = c
        BY <1>1, <3>1
      <4>2. QED BY <2>1, <4>1
    <3>2. CASE r = p
      <4>1. q \in Proc \ {p} /\ net'[q] = net[q] /\ net'[r] = c
        BY <1>1, <3>2
      <4>2. Clear(net'[r].fb, net'[q].fb)
        BY <2>1, <4>1
      <4>3. QED BY <4>2, ClearBoth
    <3>3. CASE q # p /\ r # p
      <4>1. net'[q] = net[q] /\ net'[r] = net[r]
        BY <1>1, <3>3
      <4>2. QED BY <2>1, <4>1 DEF StoreIInv, PlacesClear
    <3>4. QED BY <3>1, <3>2, <3>3
  <2>2. ASSUME NEW q \in Proc, net'[q].fb # NoFile, NEW n \in Name, index'[n] # NoFile
        PROVE  Clear(net'[q].fb, index'[n])
    <3>1. CASE q = p
      BY <1>1, <2>2, <3>1
    <3>2. CASE q # p
      BY <1>1, <2>2, <3>2
    <3>3. QED BY <3>1, <3>2
  <2>3. QED BY <2>1, <2>2 DEF PlacesClear
<1>5. QED BY <1>2, <1>3, <1>4 DEF StoreIInv

LEMMA AppendKeeps ==
    ASSUME StoreSound(blocks, mode), NEW d \in Running, NEW n \in Nat \ {0},
           BlockFileAppend(d, n)
    PROVE  LET fb == Located(d, n)
           IN  /\ StoreSound(blocks', mode') /\ Grown(blocks, blocks')
               /\ Placed(blocks', fb)
               /\ \A e, bytes, m : Kept(blocks, e, bytes, m) =>
                     Kept(blocks', e, bytes, m) /\ Clear(fb, e)
<1>1. CASE MustCreate(d, n)
  BY <1>1, CreateKeeps
<1>2. CASE ~MustCreate(d, n)
  BY <1>2, ExtendKeeps
<1>3. QED BY <1>1, <1>2

LEMMA AddKeeps ==
    ASSUME ClientIInv, StoreIInv, NEW p \in Proc, SendFileAdd(p)
    PROVE  StoreIInv' /\ Lasting
<1>1. CASE Fails(p)
  BY <1>1, FailsQuiet, QuietKeeps
<1>2. CASE \E closed \in BOOLEAN : /\ net' = [net EXCEPT ![p] = [NoConn EXCEPT !.closed = closed]]
                                   /\ UNCHANGED others
  <2>1. PICK closed \in BOOLEAN : net' = [net EXCEPT ![p] = [NoConn EXCEPT !.closed = closed]]
    BY <1>2
  <2> DEFINE c == [NoConn EXCEPT !.closed = closed]
  <2>2. c.fb = NoFile /\ UNCHANGED others
    BY <1>2, NoConnIs DEF ConnFields
  <2> HIDE DEF c
  <2>3. Quiet
    BY <2>1, <2>2, OneQuiet DEF others, StoreIInv, c
  <2>4. QED BY <2>3, QuietKeeps
<1> DEFINE d == tc[p].addr
           n == Len(Body[tc[p].name])
           fb == Located(d, n)
           c == [NoConn EXCEPT !.ready = TRUE, !.fb = fb]
<1>3. CASE BlockFileAppend(d, n) /\ net' = [net EXCEPT ![p] = c] /\ index' = index
  <2>1. d \in Running /\ n \in Nat \ {0}
    BY UploadIs, BodyIsSeq DEF SendFileAdd, Uploads
  <2>2. StoreSound(blocks, mode)
    BY DEF StoreIInv
  <2>3. /\ StoreSound(blocks', mode') /\ Grown(blocks, blocks')
        /\ Placed(blocks', fb)
        /\ \A e, bytes, m : Kept(blocks, e, bytes, m) =>
              Kept(blocks', e, bytes, m) /\ Clear(fb, e)
    <3> HIDE DEF d, n
    <3>1. QED BY <1>3, <2>1, <2>2, AppendKeeps
  <2>4. c.fb = fb /\ c.taken = <<>> /\ c.done = 0
    BY NoConnIs DEF ConnFields
  <2>5. fb.size \in Nat
    BY <2>3 DEF Placed
  <2>6. c.done \in 0..Len(c.taken) /\ Kept(blocks', c.fb, c.taken, c.done)
    BY <2>3, <2>4, <2>5 DEF Kept
  <2> HIDE DEF c, fb
  <2>7. ASSUME NEW q \in Proc \ {p}, net[q].fb # NoFile
        PROVE  Kept(blocks', net[q].fb, net[q].taken, net[q].done) /\ Clear(c.fb, net[q].fb)
    BY <2>3, <2>4, <2>7 DEF StoreIInv, SessionsKept
  <2>8. ASSUME NEW m \in Name, index'[m] # NoFile
        PROVE  /\ Kept(blocks', index'[m], Body[m], index'[m].size) /\ Clear(c.fb, index'[m])
               /\ \A q \in Proc \ {p} : net[q].fb # NoFile => Clear(net[q].fb, index'[m])
    <3>1. index'[m] = index[m]
      BY <1>3
    <3>2. Kept(blocks, index[m], Body[m], index[m].size)
      BY <2>8, <3>1 DEF StoreIInv, FilesKept
    <3>3. \A q \in Proc : net[q].fb # NoFile => Clear(net[q].fb, index[m])
      BY <2>8, <3>1 DEF StoreIInv, PlacesClear
    <3>4. QED BY <2>3, <2>4, <3>1, <3>2, <3>3
  <2>9. StoreIInv'
    BY <1>3, <2>3, <2>6, <2>7, <2>8, OnePlace
  <2>10. QED BY <1>3, <2>3, <2>9 DEF Lasting
<1>4. QED BY <1>1, <1>2, <1>3 DEF SendFileAdd, others

LEMMA TakesKeeps ==
    ASSUME ClientIInv, StoreIInv, NEW p \in Proc, NEW k \in 1..Len(net[p].up),
           ServerTakes(p, k)
    PROVE  StoreIInv' /\ Lasting
<1> DEFINE n == tc[p].name
           fb == net[p].fb
           old == net[p].taken
           done == net[p].done
           taken == old \o SubSeq(net[p].up, 1, k)
           to == Flushed(taken, fb.size)
           whole == Len(taken) = fb.size
           new == [fb EXCEPT !.bytes = taken]
           over == [NoConn EXCEPT !.down = <<Line>>]
           rest == SubSeq(net[p].up, k + 1, Len(net[p].up))
           part == [net[p] EXCEPT !.up = rest, !.taken = taken, !.done = to]
           c == IF whole THEN over ELSE part
           bl == FlushedTo(blocks, fb, done, taken, to)
<1>1. tc[p].opt = "add" /\ net[p].ready /\ mode' = mode
  BY DEF ServerTakes
<1>2. index' = IF whole THEN Register(n, new) ELSE index
  BY DEF ServerTakes
<1>3. blocks' = bl
  <2>1. blocks' = [blocks EXCEPT ![fb.holder][fb.block].bytes =
                      Written(@, fb.off + done, SubSeq(taken, done + 1, to))]
    BY DEF ServerTakes
  <2>2. QED BY <2>1 DEF FlushedTo
<1>4. net' = [net EXCEPT ![p] = c]
  <2>1. net = [q \in Proc |-> net[q]]
    BY RunIs
  <2>2. net' = IF whole THEN [net EXCEPT ![p] = over]
               ELSE [net EXCEPT ![p].up = SubSeq(@, k + 1, Len(@)),
                                ![p].taken = taken, ![p].done = to]
    BY DEF ServerTakes
  <2>3. ~whole => net' = [net EXCEPT ![p] = part]
    BY <2>1, <2>2
  <2> HIDE DEF whole, part
  <2>4. QED BY <2>2, <2>3
<1>5. /\ fb # NoFile /\ n \in Name /\ fb.size = Len(Body[n]) /\ taken \in Seq(Byte)
      /\ Len(taken) <= fb.size /\ (whole => taken = Body[n])
  <2> HIDE DEF fb, n, taken
  <2>1. /\ net[p].fb # NoFile /\ tc[p].name \in Name /\ net[p].fb.size = Len(Body[tc[p].name])
        /\ taken \in Seq(Byte) /\ Len(taken) <= Len(Body[tc[p].name])
        /\ (Len(taken) = Len(Body[tc[p].name]) => taken = Body[tc[p].name])
    BY <1>1, TakesMore DEF taken
  <2>2. QED BY <2>1 DEF fb, n
<1>6. /\ old \in Seq(Byte) /\ fb = [f \in PlaceFields |-> fb[f]]
      /\ done \in 0..Len(old) /\ Kept(blocks, fb, old, done)
  BY <1>5, RunIs DEF Session, StoreIInv, SessionsKept
<1>7. /\ done \in Nat /\ Len(old) \in Nat /\ done <= Len(taken)
      /\ \A i \in 1..done : taken[i] = old[i]
  <2> DEFINE up == net[p].up
             front == SubSeq(up, 1, k)
  <2>1. up \in Seq(Byte)
    BY RunIs DEF Session
  <2>2. k \in 0..Len(up)
    BY <2>1, LenProperties
  <2>3. front \in Seq(Byte)
    <3> HIDE DEF up
    <3>1. QED BY <2>1, <2>2, PartsOf
  <2>4. taken = old \o front
    OBVIOUS
  <2> HIDE DEF front, taken, old, done
  <2>5. /\ Len(taken) = Len(old) + Len(front) /\ Len(old) \in Nat /\ Len(front) \in Nat
        /\ \A i \in 1..(Len(old) + Len(front)) :
              taken[i] = IF i <= Len(old) THEN old[i] ELSE front[i - Len(old)]
    BY <1>6, <2>3, <2>4, ConcatProperties, LenProperties
  <2>6. QED BY <1>6, <2>5
<1>8. to \in 0..Len(taken)
  <2>1. fb.size \in Nat
    BY <1>6 DEF Kept, Placed
  <2> HIDE DEF fb, taken
  <2>2. QED BY <1>5, <2>1, FlushedIs
<1>9. /\ StoreSound(bl, mode) /\ Grown(blocks, bl) /\ Kept(bl, fb, taken, to)
      /\ \A e, bytes, m : Kept(blocks, e, bytes, m) /\ Clear(fb, e) => Kept(bl, e, bytes, m)
  <2>1. StoreSound(blocks, mode)
    BY DEF StoreIInv
  <2>2. /\ Kept(blocks, fb, old, done) /\ done \in Nat /\ taken \in Seq(Byte)
        /\ done <= Len(taken) /\ Len(taken) <= fb.size /\ to \in 0..Len(taken)
        /\ \A i \in 1..done : taken[i] = old[i]
    BY <1>5, <1>6, <1>7, <1>8
  <2> HIDE DEF fb, taken, to, old, done
  <2>3. QED BY <2>1, <2>2, WriteKeeps
<1> HIDE DEF bl
<1>10. ASSUME ~whole
       PROVE  c.fb = fb /\ c.taken = taken /\ c.done = to
  <2>1. part.fb = fb /\ part.taken = taken /\ part.done = to
    BY RunIs DEF ConnFields
  <2> HIDE DEF part, whole, over
  <2>2. QED BY <1>10, <2>1
<1>11. ASSUME whole PROVE c.fb = NoFile
  <2>1. over.fb = NoFile
    BY NoConnIs DEF ConnFields
  <2> HIDE DEF part, whole, over
  <2>2. QED BY <1>11, <2>1
<1> HIDE DEF c, to
<1>12. ASSUME NEW q \in Proc \ {p}, net[q].fb # NoFile
       PROVE  Kept(bl, net[q].fb, net[q].taken, net[q].done) /\ Clear(fb, net[q].fb)
  <2>1. Clear(fb, net[q].fb)
    BY <1>5, <1>12 DEF StoreIInv, PlacesClear
  <2>2. Kept(blocks, net[q].fb, net[q].taken, net[q].done)
    BY <1>12 DEF StoreIInv, SessionsKept
  <2> HIDE DEF fb
  <2>3. QED BY <1>9, <2>1, <2>2
<1>13. ASSUME NEW m \in Name, index[m] # NoFile
       PROVE  /\ Kept(bl, index[m], Body[m], index[m].size) /\ Clear(fb, index[m])
              /\ \A q \in Proc \ {p} : net[q].fb # NoFile => Clear(net[q].fb, index[m])
  <2>1. \A q \in Proc : net[q].fb # NoFile => Clear(net[q].fb, index[m])
    BY <1>13 DEF StoreIInv, PlacesClear
  <2>2. Clear(fb, index[m])
    BY <1>5, <2>1
  <2>3. Kept(blocks, index[m], Body[m], index[m].size)
    BY <1>13 DEF StoreIInv, FilesKept
  <2> HIDE DEF fb
  <2>4. Kept(bl, index[m], Body[m], index[m].size)
    BY <1>9, <2>2, <2>3
  <2>5. QED BY <2>1, <2>2, <2>4
<1>14. CASE index' = index
  <2>1. StoreSound(blocks', mode')
    BY <1>1, <1>3, <1>9
  <2>2. c.fb # NoFile => c.done \in 0..Len(c.taken) /\ Kept(blocks', c.fb, c.taken, c.done)
    <3>1. CASE whole
      BY <1>11, <3>1
    <3>2. CASE ~whole
      <4> HIDE DEF fb, taken, whole
      <4>1. QED BY <1>3, <1>8, <1>9, <1>10, <3>2
    <3>3. QED BY <3>1, <3>2
  <2>3. c.fb # NoFile => c.fb = fb
    BY <1>10, <1>11
  <2> HIDE DEF fb
  <2>4. ASSUME NEW q \in Proc \ {p}, net[q].fb # NoFile
        PROVE  /\ Kept(blocks', net[q].fb, net[q].taken, net[q].done)
               /\ c.fb # NoFile => Clear(c.fb, net[q].fb)
    BY <1>3, <1>12, <2>3, <2>4
  <2>5. ASSUME NEW m \in Name, index'[m] # NoFile
        PROVE  /\ Kept(blocks', index'[m], Body[m], index'[m].size)
               /\ c.fb # NoFile => Clear(c.fb, index'[m])
               /\ \A q \in Proc \ {p} : net[q].fb # NoFile => Clear(net[q].fb, index'[m])
    BY <1>3, <1>13, <1>14, <2>3, <2>5
  <2>6. StoreIInv'
    BY <1>4, <2>1, <2>2, <2>4, <2>5, OnePlace
  <2>7. QED BY <1>3, <1>9, <1>14, <2>6 DEF Lasting
<1>15. CASE index' # index
  <2>1. whole /\ index' = [index EXCEPT ![n] = new] /\ index[n] = NoFile
    BY <1>2, <1>15 DEF Register
  <2>2. index = [m \in Name |-> index[m]]
    BY DEF ClientIInv, IndexWhole
  <2>3. index'[n] = new /\ \A m \in Name \ {n} : index'[m] = index[m]
    BY <1>5, <2>1, <2>2
  <2>4. /\ new.holder = fb.holder /\ new.block = fb.block /\ new.off = fb.off
        /\ new.size = fb.size /\ new.first = fb.first /\ new.server = fb.server
    BY <1>6 DEF PlaceFields
  <2>5. to = fb.size /\ taken = Body[n] /\ c.fb = NoFile
    BY <1>5, <1>11, <2>1 DEF Flushed, to
  <2> HIDE DEF fb, new, n, taken
  <2>6. Kept(bl, new, Body[n], new.size)
    BY <1>9, <2>4, <2>5 DEF Kept, Placed, ApartIn, BlockOf
  <2>7. ASSUME NEW q \in Proc \ {p}, net[q].fb # NoFile PROVE Clear(net[q].fb, new)
    BY <1>12, <2>4, <2>7 DEF Clear
  <2>8. StoreSound(blocks', mode')
    BY <1>1, <1>3, <1>9
  <2>9. ASSUME NEW q \in Proc \ {p}, net[q].fb # NoFile
        PROVE  /\ Kept(blocks', net[q].fb, net[q].taken, net[q].done)
               /\ c.fb # NoFile => Clear(c.fb, net[q].fb)
    BY <1>3, <1>12, <2>5, <2>9
  <2>10. ASSUME NEW m \in Name, index'[m] # NoFile
         PROVE  /\ Kept(blocks', index'[m], Body[m], index'[m].size)
                /\ c.fb # NoFile => Clear(c.fb, index'[m])
                /\ \A q \in Proc \ {p} : net[q].fb # NoFile => Clear(net[q].fb, index'[m])
    <3>1. CASE m = n
      BY <1>3, <2>3, <2>5, <2>6, <2>7, <3>1
    <3>2. CASE m # n
      BY <1>3, <1>13, <2>3, <2>5, <2>10, <3>2
    <3>3. QED BY <3>1, <3>2
  <2>11. StoreIInv'
    BY <1>4, <2>5, <2>8, <2>9, <2>10, OnePlace
  <2>12. \A m \in Name : index[m] # NoFile => index'[m] = index[m]
    BY <2>1, <2>3
  <2>13. QED BY <1>3, <1>9, <2>11, <2>12 DEF Lasting
<1>16. QED BY <1>14, <1>15


LEMMA StoreKept ==
    ASSUME ClientIInv, StoreIInv, [ClientNext]_clientVars
    PROVE  StoreIInv' /\ Lasting
<1>1. CASE UNCHANGED clientVars
  <2>1. net' = net /\ UNCHANGED others
    BY <1>1 DEF clientVars
  <2>2. QED BY <2>1, NothingQuiet, QuietKeeps
<1>2. ASSUME NEW p \in Proc, NEW opt \in {"add", "get"}, NEW n \in Name, NEW named \in BOOLEAN,
             Main(p, opt, n, named)
      PROVE  StoreIInv' /\ Lasting
  <2> DEFINE t == [Idle EXCEPT !.opt = opt, !.name = n, !.named = named]
  <2>1. (UNCHANGED <<others, net>>) \/ Ends(p, t, "ERR")
    BY <1>2 DEF Main
  <2> HIDE DEF t
  <2>2. QED BY <2>1, NothingQuiet, EndsQuiet, QuietKeeps
<1>3. ASSUME NEW p \in Proc, ClientStep(p) PROVE StoreIInv' /\ Lasting
  BY <1>3, StepsQuiet, AddKeeps, QuietKeeps DEF ClientStep
<1>4. ASSUME NEW p \in Proc, NEW k \in 1..Len(net[p].up), ServerTakes(p, k)
      PROVE  StoreIInv' /\ Lasting
  BY <1>4, TakesKeeps
<1>5. ASSUME NEW p \in Proc, ServerSends(p) \/ ServerCloses(p) PROVE StoreIInv' /\ Lasting
  BY <1>5, ServerQuiet, QuietKeeps
<1>6. ASSUME NEW d \in Running, ServerRestarts(d) PROVE StoreIInv' /\ Lasting
  BY <1>6, RestartsQuiet, QuietKeeps
<1>7. QED BY <1>1, <1>2, <1>3, <1>4, <1>5, <1>6 DEF ClientNext

LEMMA StoreInit == ClientInit => StoreIInv
<1> SUFFICES ASSUME ClientInit PROVE StoreIInv
  OBVIOUS
<1>1. /\ blocks = [d \in Running |-> <<>>] /\ mode = [d \in Running |-> "fresh"]
      /\ index = [n \in Name |-> NoFile] /\ net = [p \in Proc |-> NoConn]
  BY DEF ClientInit
<1>2. BlocksSound(blocks)
  BY <1>1, EmptySeq DEF BlocksSound
<1>3. StoreSound(blocks, mode)
  BY <1>1, <1>2 DEF StoreSound
<1>4. \A p \in Proc : net[p].fb = NoFile
  BY <1>1, NoConnIs
<1>5. QED
  BY <1>1, <1>3, <1>4 DEF StoreIInv, SessionsKept, FilesKept, PlacesClear

-----------------------------------------------------------------------------
(* What a download gets.                                                   *)

LeftOf(file, body) == IF Nul \in Range(body) THEN IsPrefix(file, body) ELSE file = body

\* What has come after the line are the first bytes of the file.
Begins(down, body) ==
    /\ down \in Seq(Byte) /\ Len(down) <= Len(body) + 1
    /\ \A i \in 1..(Len(down) - 1) : down[i + 1] = body[i]

Loads(t, c, idx, bl) ==
    /\ t.opt = "get" /\ t.at # "index" =>
          /\ t.name \in Name /\ idx[t.name] # NoFile /\ t.fb = idx[t.name]
          /\ t.addr \in Running => t.addr = t.fb.holder
          /\ t.at \in {"first", "more"} => t.addr \in Running
          /\ t.at = "first" => /\ c.ready /\ c.done = 0 => c.down = <<Line>>
                               /\ ApartIn(bl, t.fb) => Begins(c.down, Body[t.name])
    /\ t.iret = "OK" =>
          /\ t.name \in Name /\ idx[t.name] # NoFile
          /\ ApartIn(bl, idx[t.name]) => LeftOf(t.file, Body[t.name])

LoadIInv ==
    /\ clientFile \in ClientFiles
    /\ SameNumbers => \A p \in Proc : Loads(tc[p], net[p], index, blocks)

LEMMA NoLoad ==
    ASSUME NEW t, NEW c, NEW idx, NEW bl, t.iret # "OK", t.opt # "get" \/ t.at = "index"
    PROVE  Loads(t, c, idx, bl)
  BY DEF Loads

\* What a download knows stays true, and nothing new is sent to it.
LEMMA LoadsStay ==
    ASSUME StoreIInv, StoreIInv', Lasting, NEW t, NEW c, NEW d, Loads(t, c, index, blocks),
           d.down = c.down, d.ready => c.ready /\ d.done = c.done
    PROVE  Loads(t, d, index', blocks')
<1>1. ASSUME NEW n \in Name, index[n] # NoFile
      PROVE  index'[n] = index[n] /\ (ApartIn(blocks', index[n]) => ApartIn(blocks, index[n]))
  <2>1. Placed(blocks, index[n])
    BY <1>1 DEF StoreIInv, FilesKept, Kept
  <2>2. StoreSound(blocks, mode) /\ StoreSound(blocks', mode') /\ Grown(blocks, blocks')
    BY DEF StoreIInv, Lasting
  <2>3. QED BY <1>1, <2>1, <2>2, PlacedStays DEF Lasting
<1>2. QED BY <1>1 DEF Loads

\* A step of one run.
LEMMA OneLoads ==
    ASSUME ClientIInv, StoreIInv, StoreIInv', Lasting, LoadIInv, clientFile' = clientFile,
           NEW p \in Proc, NEW t, NEW c,
           tc' = [tc EXCEPT ![p] = t], net' = [net EXCEPT ![p] = c],
           SameNumbers => Loads(t, c, index', blocks')
    PROVE  LoadIInv'
<1>1. tc'[p] = t /\ net'[p] = c
      /\ \A q \in Proc : q # p => tc'[q] = tc[q] /\ net'[q] = net[q]
  BY RunIs
<1>2. SameNumbers' <=> SameNumbers
  BY DEF SameNumbers
<1>3. ASSUME SameNumbers, NEW q \in Proc PROVE Loads(tc'[q], net'[q], index', blocks')
  <2>1. CASE q = p
    BY <1>1, <1>3, <2>1
  <2>2. CASE q # p
    <3>1. Loads(tc[q], net[q], index, blocks)
      BY <1>3 DEF LoadIInv
    <3>2. QED BY <1>1, <2>2, <3>1, LoadsStay
  <2>3. QED BY <2>1, <2>2
<1>4. QED BY <1>2, <1>3 DEF LoadIInv

LEMMA GoesLoads ==
    ASSUME ClientIInv, StoreIInv, StoreIInv', Lasting, LoadIInv, clientFile' = clientFile,
           NEW p \in Proc, NEW t, Goes(p, t), net' = net,
           SameNumbers => Loads(t, net[p], index', blocks')
    PROVE  LoadIInv'
<1>1. net' = [net EXCEPT ![p] = net[p]]
  BY RunIs
<1>2. QED BY <1>1, OneLoads DEF Goes

LEMMA AnswersLoads ==
    ASSUME ClientIInv, StoreIInv, StoreIInv', Lasting, LoadIInv, clientFile' = clientFile,
           NEW p \in Proc, NEW c, net' = [net EXCEPT ![p] = c], tc' = tc,
           SameNumbers => Loads(tc[p], c, index', blocks')
    PROVE  LoadIInv'
<1>1. tc' = [tc EXCEPT ![p] = tc[p]]
  BY RunIs
<1>2. QED BY <1>1, OneLoads

LEMMA EndsLoads ==
    ASSUME ClientIInv, StoreIInv, StoreIInv', Lasting, LoadIInv,
           NEW p \in Proc, NEW t, NEW iret, Ends(p, t, iret),
           iret = "OK" /\ t.opt = "get" /\ SameNumbers =>
               /\ t.name \in Name /\ index[t.name] # NoFile
               /\ ApartIn(blocks, index[t.name]) => LeftOf(t.file, Body[t.name])
    PROVE  LoadIInv'
<1> DEFINE u == [Idle EXCEPT !.iret = "OK", !.name = t.name, !.file = t.file]
           v == IF iret = "OK" /\ t.opt = "get" THEN u ELSE Idle
<1>1. /\ tc' = [tc EXCEPT ![p] = v] /\ net' = [net EXCEPT ![p] = NoConn]
      /\ clientFile' = clientFile /\ index' = index /\ blocks' = blocks
  BY DEF Ends, Goes
<1>2. u.opt = "none" /\ u.iret = "OK" /\ u.name = t.name /\ u.file = t.file
  BY IdleIs DEF RunFields
<1> HIDE DEF u
<1>3. SameNumbers => Loads(v, NoConn, index', blocks')
  <2>1. CASE iret = "OK" /\ t.opt = "get"
    BY <1>1, <1>2, <2>1 DEF Loads
  <2>2. CASE ~(iret = "OK" /\ t.opt = "get")
    BY <2>2, IdleIs, NoLoad
  <2>3. QED BY <2>1, <2>2
<1> HIDE DEF v
<1>4. QED BY <1>1, <1>3, OneLoads

LEMMA FailsLoads ==
    ASSUME ClientIInv, StoreIInv, StoreIInv', Lasting, LoadIInv, NEW p \in Proc, Fails(p)
    PROVE  LoadIInv'
  BY EndsLoads DEF Fails

LEMMA GreatestIs ==
    ASSUME NEW L \in Nat, NEW T \in SUBSET (0..L), T # {}
    PROVE  Max(T) \in T
<1> DEFINE U == {L - i : i \in T}
<1>1. U \in SUBSET Nat /\ U # {}
  <2>1. \A i \in T : L - i \in Nat
    OBVIOUS
  <2>2. PICK i \in T : TRUE
    OBVIOUS
  <2>3. L - i \in U
    OBVIOUS
  <2>4. QED BY <2>1, <2>3
<1>2. Min(U) \in U /\ \A y \in U : Min(U) =< y
  BY <1>1, LeastIs
<1>3. PICK m \in T : Min(U) = L - m
  BY <1>2
<1>4. ASSUME NEW y \in T PROVE m >= y
  <2>1. L - m =< L - y
    BY <1>2, <1>3
  <2>2. QED BY <2>1
<1>5. QED BY <1>4 DEF Max

\* A data server is found by its number, where the numbers are the same.
LEMMA AddrIsHolder ==
    ASSUME clientFile \in ClientFiles, SameNumbers, NEW h \in Running,
           DsAddrById(ClientConf, ServerConf(h).id) # "error",
           DsAddrById(ClientConf, ServerConf(h).id) \in Running
    PROVE  DsAddrById(ClientConf, ServerConf(h).id) = h
<1> DEFINE all == DataFile.addrs
           own == clientFile.addrs
           fits == {i \in Positions(all) : At(all, i) = h}
           id == ServerConf(h).id
<1>1. DataFile.complete /\ all \in Seq(Range(all)) /\ all # <<>> /\ own \in Seq(Range(own))
      /\ Nowhere \notin Running
  BY ClientAssumption
<1>2. Len(all) \in Nat \ {0} /\ Len(own) \in Nat
  BY <1>1, EmptySeq, LenProperties
<1>3. id = LastPosition(fits)
  BY <1>1, <1>2 DEF ServerConf, DataServerConfigLoad
<1>4. fits # {} /\ fits \in SUBSET (0..Len(all))
  BY <1>2 DEF SameNumbers, Positions
<1>5. id \in fits
  <2>1. Max(fits) \in fits
    BY <1>2, <1>4, GreatestIs
  <2>2. QED BY <1>3, <1>4, <2>1 DEF LastPosition
<1>6. id \in Nat /\ id < Len(all) /\ At(all, id) = h
  BY <1>2, <1>5 DEF Positions
<1> HIDE DEF id, fits
<1>7. ClientConf.server = own \/ ClientConf.server = <<>>
  BY DEF ClientConf, DataServerConfigLoad, Unloaded
<1> DEFINE server == ClientConf.server
           addr == DsAddrById(ClientConf, id)
<1>8. addr # "error" /\ addr # Nowhere
  BY <1>1 DEF id
<1>9. server # <<>>
  <2>1. ASSUME server = <<>> PROVE FALSE
    <3>1. Len(server) = 0
      BY <2>1, EmptySeq
    <3>2. addr = "error" \/ addr = Nowhere
      BY <1>6, <3>1 DEF DsAddrById
    <3>3. QED BY <1>8, <3>2
  <2>2. QED BY <2>1
<1>10. server = own
  BY <1>7, <1>9
<1>11. addr = At(own, id) /\ id \in Positions(own)
  <2>1. ~(Len(own) < id \/ id < 0) /\ id # Len(own)
    BY <1>8, <1>10 DEF DsAddrById
  <2>2. addr = At(own, id)
    BY <1>10, <2>1 DEF DsAddrById
  <2>3. QED BY <1>2, <1>6, <2>1, <2>2 DEF Positions
<1>12. addr = h
  BY <1>6, <1>11 DEF SameNumbers
<1>13. QED BY <1>12 DEF id

\* A name that has no location gives an empty reply, which is refused.
LEMMA FoundIsRegistered ==
    ASSUME NEW p \in Proc, NEW reply \in Replies(p), Found(p, reply)
    PROVE  index[tc[p].name] # NoFile
<1> DEFINE keys == {"name", "file", "offset", "size", "server"}
<1>1. SUFFICES ASSUME index[tc[p].name] = NoFile PROVE FALSE
  OBVIOUS
<1>2. reply = <<>>
  BY <1>1 DEF Replies
<1>3. {i \in DOMAIN <<>> : <<>>[i] \in keys} = {}
  OBVIOUS
<1>4. Cardinality({}) >= Cardinality(keys)
  BY <1>2, <1>3 DEF Found, RequestParse
<1>5. IsFiniteSet({}) /\ Cardinality({}) = 0
  BY FS_EmptySet
<1>6. IsFiniteSet({"name"}) /\ IsFiniteSet({"name", "file"})
      /\ IsFiniteSet({"name", "file", "offset"})
      /\ IsFiniteSet({"name", "file", "offset", "size"}) /\ IsFiniteSet(keys)
  <2>1. \A S, x : IsFiniteSet(S) => IsFiniteSet(S \cup {x})
    BY FS_AddElement
  <2>2. IsFiniteSet({"name"})
    BY FS_Singleton
  <2>3. IsFiniteSet({"name"} \cup {"file"})
    BY <2>1, <2>2
  <2>4. IsFiniteSet({"name"} \cup {"file"} \cup {"offset"})
    BY <2>1, <2>3
  <2>5. IsFiniteSet({"name"} \cup {"file"} \cup {"offset"} \cup {"size"})
    BY <2>1, <2>4
  <2>6. IsFiniteSet({"name"} \cup {"file"} \cup {"offset"} \cup {"size"} \cup {"server"})
    BY <2>1, <2>5
  <2>7. {"name"} \cup {"file"} = {"name", "file"}
        /\ {"name"} \cup {"file"} \cup {"offset"} = {"name", "file", "offset"}
        /\ {"name"} \cup {"file"} \cup {"offset"} \cup {"size"} = {"name", "file", "offset", "size"}
        /\ {"name"} \cup {"file"} \cup {"offset"} \cup {"size"} \cup {"server"} = keys
    OBVIOUS
  <2>8. QED BY <2>2, <2>3, <2>4, <2>5, <2>6, <2>7
<1>7. Cardinality(keys) \in Nat /\ (Cardinality(keys) = 0 <=> keys = {})
  BY <1>6, FS_EmptySet, FS_CardinalityType
<1>8. keys # {}
  OBVIOUS
<1>9. QED BY <1>4, <1>5, <1>7, <1>8

\* What is written of the first bytes of a download, when these are all.
LEMMA BeforeNulLeaves ==
    ASSUME NEW body \in Seq(Byte)
    PROVE  LeftOf(BeforeNul(body), body)
<1> DEFINE nuls == {i \in DOMAIN body : body[i] = Nul}
<1>1. Range(body) = {body[i] : i \in DOMAIN body} /\ DOMAIN body = 1..Len(body)
      /\ Len(body) \in Nat
  BY LenProperties DEF Range
<1>2. CASE nuls = {}
  <2>1. Nul \notin Range(body)
    BY <1>1, <1>2
  <2>2. BeforeNul(body) = body
    BY <1>2 DEF BeforeNul
  <2>3. QED BY <2>1, <2>2 DEF LeftOf
<1>3. CASE nuls # {}
  <2>1. Nul \in Range(body)
    BY <1>1, <1>3
  <2>2. nuls \in SUBSET Nat
    BY <1>1
  <2>3. Min(nuls) \in nuls
    BY <1>3, <2>2, LeastIs
  <2> DEFINE k == Min(nuls) - 1
  <2>4. Min(nuls) \in 1..Len(body)
    BY <1>1, <2>3
  <2>5. k \in 0..Len(body)
    BY <1>1, <2>4
  <2>6. BeforeNul(body) = SubSeq(body, 1, k)
    BY <1>3 DEF BeforeNul
  <2> HIDE DEF k
  <2>7. \A i \in 1..k : body[i] \in Byte
    BY <1>1, <2>5, ElementOfSeq
  <2> DEFINE cut == SubSeq(body, 1, k)
  <2>8. cut \in Seq(Byte) /\ Len(cut) = k
    BY <2>5, <2>7, SubSeqProperties
  <2>9. SubSeq(cut, 1, Len(cut)) = cut
    BY <2>8, SubSeqFull
  <2>10. IsPrefix(cut, body)
    BY <1>1, <2>5, <2>8, <2>9 DEF IsPrefix
  <2>11. QED BY <2>1, <2>6, <2>10 DEF LeftOf
<1>4. QED BY <1>2, <1>3

LEMMA GetLookupLoads ==
    ASSUME ClientIInv, StoreIInv, StoreIInv', Lasting, LoadIInv, NEW p \in Proc, GetLookup(p)
    PROVE  LoadIInv'
<1>1. CASE Fails(p)
  BY <1>1, FailsLoads
<1>2. CASE ~Fails(p)
  <2> DEFINE n == tc[p].name
             fb == index[n]
             a == DsAddrById(ClientConf, fb.server)
             t == [tc[p] EXCEPT !.at = "get", !.fb = fb, !.addr = a]
  <2>1. PICK reply \in Replies(p) : Found(p, reply)
    BY <1>2 DEF GetLookup
  <2>2. /\ tc[p].at = "index" /\ tc[p].opt = "get" /\ Goes(p, t) /\ net' = net
        /\ UNCHANGED others
    BY <1>2 DEF GetLookup
  <2>3. fb # NoFile /\ a # "error" /\ n \in Name /\ tc[p].iret = "none"
    BY <2>1, <2>2, FoundIsRegistered, RunIs DEF Found
  <2>4. t.opt = "get" /\ t.at = "get" /\ t.name = n /\ t.fb = fb /\ t.addr = a
        /\ t.iret = "none"
    BY <2>2, <2>3, RunIs DEF RunFields
  <2>5. fb.holder \in Running /\ fb.server = ServerConf(fb.holder).id
    BY <2>3 DEF StoreIInv, FilesKept, Kept, Placed
  <2>6. ASSUME SameNumbers, a \in Running PROVE a = fb.holder
    BY <2>3, <2>5, <2>6, AddrIsHolder DEF LoadIInv
  <2>7. index' = index /\ clientFile' = clientFile
    BY <2>2 DEF others
  <2> HIDE DEF t, a, fb
  <2>8. SameNumbers => Loads(t, net[p], index', blocks')
    BY <2>3, <2>4, <2>6, <2>7 DEF Loads, fb
  <2>9. QED BY <2>2, <2>7, <2>8, GoesLoads
<1>3. QED BY <1>1, <1>2

LEMMA SendFileGetLoads ==
    ASSUME ClientIInv, StoreIInv, StoreIInv', Lasting, LoadIInv, NEW p \in Proc, SendFileGet(p)
    PROVE  LoadIInv'
<1>1. CASE Fails(p)
  BY <1>1, FailsLoads
<1>2. CASE ~Fails(p)
  <2> DEFINE t == [tc[p] EXCEPT !.at = "first"]
  <2>1. PICK opened \in BOOLEAN :
           net' = [net EXCEPT ![p] = [NoConn EXCEPT !.ready = opened, !.down = <<Line>>]]
    BY <1>2 DEF SendFileGet
  <2> DEFINE c == [NoConn EXCEPT !.ready = opened, !.down = <<Line>>]
  <2>2. /\ tc[p].at = "get" /\ tc[p].addr \in Running /\ Goes(p, t) /\ UNCHANGED others
    BY <1>2 DEF SendFileGet, GoesTo
  <2>3. tc[p].opt = "get" /\ tc[p].name \in Name /\ tc[p].iret = "none"
    BY <2>2, DownloadIs
  <2>4. t.opt = "get" /\ t.at = "first" /\ t.name = tc[p].name /\ t.fb = tc[p].fb
        /\ t.addr = tc[p].addr /\ t.iret = "none"
    BY <2>3, RunIs DEF RunFields
  <2>5. c.down = <<Line>>
    BY NoConnIs DEF ConnFields
  <2>6. index' = index /\ blocks' = blocks /\ clientFile' = clientFile
    BY <2>2 DEF others
  <2>7. Begins(<<Line>>, Body[tc[p].name])
    <3>1. <<Line>> \in Seq(Byte) /\ Len(<<Line>>) = 1
      BY DEF Byte
    <3>2. Len(Body[tc[p].name]) \in Nat
      BY <2>3, BodyIsSeq
    <3>3. QED BY <3>1, <3>2 DEF Begins
  <2> HIDE DEF t, c
  <2>8. ASSUME SameNumbers PROVE Loads(t, c, index', blocks')
    <3>1. Loads(tc[p], net[p], index, blocks)
      BY <2>8 DEF LoadIInv
    <3>2. index[tc[p].name] # NoFile /\ tc[p].fb = index[tc[p].name]
          /\ (tc[p].addr \in Running => tc[p].addr = tc[p].fb.holder)
      BY <2>2, <2>3, <3>1 DEF Loads
    <3>3. QED BY <2>2, <2>3, <2>4, <2>5, <2>6, <2>7, <3>2 DEF Loads
  <2>9. tc' = [tc EXCEPT ![p] = t] /\ net' = [net EXCEPT ![p] = c]
    BY <2>1, <2>2 DEF Goes, c
  <2>10. QED BY <2>6, <2>8, <2>9, OneLoads
<1>3. QED BY <1>1, <1>2

\* As many bytes as the file has, after the line, are the file.
LEMMA FirstIsBody ==
    ASSUME NEW body \in Seq(Byte), NEW down, Begins(down, body),
           NEW k \in 1..Min({Buf, Len(down)}), FirstSize(k) = Len(body)
    PROVE  SubSeq(down, 2, k) = body
<1>1. down \in Seq(Byte) /\ Len(down) \in Nat /\ Len(body) \in Nat /\ Buf \in Nat
  BY LenProperties, ClientAssumption DEF Begins
<1>2. k <= Len(down)
  BY <1>1, SmallerIs
<1>3. k \in Nat /\ k = Len(body) + 1
  BY <1>1, SmallerIs DEF FirstSize
<1>4. 1 \in 0..Len(down) /\ k \in 1..Len(down) /\ 1 + 1 = 2
  BY <1>1, <1>2, <1>3
<1> DEFINE part == SubSeq(down, 2, k)
<1>5. part \in Seq(Byte) /\ Len(part) = k - 1 /\ \A i \in 1..(k - 1) : part[i] = down[1 + i]
  BY <1>1, <1>4, PartIs
<1> HIDE DEF part
<1>6. ASSUME NEW i \in 1..Len(part) PROVE part[i] = body[i]
  <2>1. i \in 1..(k - 1) /\ i \in 1..(Len(down) - 1) /\ 1 + i = i + 1
    BY <1>1, <1>2, <1>3, <1>5
  <2>2. QED BY <1>5, <2>1 DEF Begins
<1>7. part = body
  BY <1>1, <1>3, <1>5, <1>6, SeqEqual
<1>8. QED BY <1>7 DEF part

LEMMA ReadFirstLoads ==
    ASSUME ClientIInv, StoreIInv, StoreIInv', Lasting, LoadIInv, NEW p \in Proc, ReadFirst(p)
    PROVE  LoadIInv'
<1>1. CASE Fails(p)
  BY <1>1, FailsLoads
<1>2. CASE ~Fails(p)
  <2>1. PICK k \in 1..Min({Buf, Len(net[p].down)}) :
           IF FirstSize(k) = tc[p].fb.size
           THEN Ends(p, [tc[p] EXCEPT !.file = BeforeNul(SubSeq(net[p].down, 2, k))], "OK")
           ELSE /\ net' = [net EXCEPT ![p].down = SubSeq(@, k + 1, Len(@))]
                /\ Goes(p, [tc[p] EXCEPT !.at = "more"]) /\ UNCHANGED others
    BY <1>2 DEF ReadFirst, GoesTo
  <2>2. tc[p].at = "first" /\ tc[p].opt = "get" /\ tc[p].name \in Name /\ tc[p].iret = "none"
    BY DownloadIs DEF ReadFirst
  <2> DEFINE n == tc[p].name
  <2>3. ASSUME SameNumbers
        PROVE  /\ index[n] # NoFile /\ tc[p].fb = index[n] /\ tc[p].addr \in Running
               /\ tc[p].addr = tc[p].fb.holder
               /\ ApartIn(blocks, tc[p].fb) => Begins(net[p].down, Body[n])
    <3>1. Loads(tc[p], net[p], index, blocks)
      BY <2>3 DEF LoadIInv
    <3>2. QED BY <2>2, <3>1 DEF Loads
  <2>4. CASE FirstSize(k) = tc[p].fb.size
    <3> DEFINE file == BeforeNul(SubSeq(net[p].down, 2, k))
               t == [tc[p] EXCEPT !.file = file]
    <3>1. t.name = n /\ t.file = file
      BY RunIs DEF RunFields
    <3>2. Ends(p, t, "OK")
      BY <2>1, <2>4
    <3>3. ASSUME SameNumbers, ApartIn(blocks, index[n]) PROVE LeftOf(file, Body[n])
      <4>1. Begins(net[p].down, Body[n]) /\ FirstSize(k) = Len(Body[n])
        BY <2>2, <2>3, <2>4, <3>3 DEF ClientIInv, IndexWhole
      <4>2. SubSeq(net[p].down, 2, k) = Body[n]
        <5> DEFINE body == Body[n]
                   down == net[p].down
        <5>1. body \in Seq(Byte) /\ Begins(down, body) /\ FirstSize(k) = Len(body)
              /\ k \in 1..Min({Buf, Len(down)})
          BY <2>2, <4>1, BodyIsSeq
        <5> HIDE DEF body, down
        <5>2. SubSeq(down, 2, k) = body
          BY <5>1, FirstIsBody
        <5>3. QED BY <5>2 DEF body, down
      <4>3. QED BY <2>2, <4>2, BodyIsSeq, BeforeNulLeaves
    <3> HIDE DEF t, file
    <3>4. SameNumbers => /\ t.name \in Name /\ index[t.name] # NoFile
                         /\ ApartIn(blocks, index[t.name]) => LeftOf(t.file, Body[t.name])
      BY <2>2, <2>3, <3>1, <3>3
    <3>5. QED BY <3>2, <3>4, EndsLoads
  <2>5. CASE FirstSize(k) # tc[p].fb.size
    <3> DEFINE t == [tc[p] EXCEPT !.at = "more"]
               down == SubSeq(net[p].down, k + 1, Len(net[p].down))
               c == [net[p] EXCEPT !.down = down]
    <3>1. t.opt = "get" /\ t.at = "more" /\ t.name = n /\ t.fb = tc[p].fb
          /\ t.addr = tc[p].addr /\ t.iret = "none"
      BY <2>2, RunIs DEF RunFields
    <3>2. tc' = [tc EXCEPT ![p] = t] /\ net' = [net EXCEPT ![p] = c] /\ UNCHANGED others
      BY <2>1, <2>5, RunIs DEF Goes
    <3>3. index' = index /\ clientFile' = clientFile
      BY <3>2 DEF others
    <3> HIDE DEF t, c
    <3>4. SameNumbers => Loads(t, c, index', blocks')
      BY <2>2, <2>3, <3>1, <3>3 DEF Loads
    <3>5. QED BY <3>2, <3>3, <3>4, OneLoads
  <2>6. QED BY <2>4, <2>5
<1>3. QED BY <1>1, <1>2

LEMMA ReadMoreLoads ==
    ASSUME ClientIInv, StoreIInv, StoreIInv', Lasting, LoadIInv, NEW p \in Proc, ReadMore(p)
    PROVE  LoadIInv'
<1>1. PICK down : net' = [net EXCEPT ![p].down = down]
  BY DEF ReadMore
<1> DEFINE c == [net[p] EXCEPT !.down = down]
<1>2. net' = [net EXCEPT ![p] = c] /\ tc' = tc /\ UNCHANGED others /\ tc[p].at = "more"
  BY <1>1, RunIs DEF ReadMore
<1>3. index' = index /\ clientFile' = clientFile
  BY <1>2 DEF others
<1> HIDE DEF c
<1>4. ASSUME SameNumbers PROVE Loads(tc[p], c, index', blocks')
  <2>1. Loads(tc[p], net[p], index, blocks) /\ tc[p].iret = "none"
    BY <1>2, <1>4, RunIs DEF LoadIInv
  <2>2. QED BY <1>2, <1>3, <2>1 DEF Loads
<1>5. QED BY <1>2, <1>3, <1>4, AnswersLoads

\* What the block has at the place of a registered file is the file.
LEMMA StoredIs ==
    ASSUME NEW bl, NEW md, StoreSound(bl, md), NEW fb, NEW body \in Seq(Byte),
           Kept(bl, fb, body, fb.size), fb.size = Len(body), ApartIn(bl, fb)
    PROVE  LET stored == Stored(BlockOf(bl, fb), fb)
           IN  /\ stored \in Seq(Byte) /\ Len(stored) = Len(body)
               /\ \A i \in 1..Len(body) : stored[i] = body[i]
<1> DEFINE bytes == BlockOf(bl, fb).bytes
           o == fb.off
           n == Len(body)
           stored == SubSeq(bytes, o + 1, Min({o + n, Len(bytes)}))
<1>1. o \in Nat /\ n \in Nat \ {0}
  BY DEF Kept, Placed
<1>2. bytes \in Seq(Byte) /\ Len(bytes) \in Nat
  BY BlockIs DEF Kept, Placed, BlockOf
<1>3. \A i \in 1..n : o + i <= Len(bytes) /\ bytes[o + i] = body[i]
  BY DEF Kept
<1>4. Stored(BlockOf(bl, fb), fb) = stored
  BY DEF Stored
<1> HIDE DEF bytes, o, n
<1>5. o + n <= Len(bytes)
  BY <1>1, <1>3
<1>6. Min({o + n, Len(bytes)}) = o + n
  <2>1. o + n \in Nat
    BY <1>1
  <2>2. QED BY <1>2, <1>5, <2>1, SmallerIs
<1>7. o \in 0..Len(bytes) /\ o + n \in o..Len(bytes) /\ (o + n) - o = n
  BY <1>1, <1>2, <1>5
<1>8. stored \in Seq(Byte) /\ Len(stored) = n /\ \A i \in 1..n : stored[i] = bytes[o + i]
  <2> DEFINE m == o + n
  <2>1. m \in o..Len(bytes) /\ m - o = n /\ stored = SubSeq(bytes, o + 1, m)
    BY <1>6, <1>7
  <2> HIDE DEF m, stored
  <2>2. QED BY <1>2, <1>7, <2>1, PartIs
<1> HIDE DEF stored
<1>9. QED BY <1>3, <1>4, <1>8 DEF n

\* The line, and then some of the file.
LEMMA SentBegins ==
    ASSUME NEW body \in Seq(Byte), NEW stored \in Seq(Byte), Len(stored) = Len(body),
           \A i \in 1..Len(body) : stored[i] = body[i], NEW k \in 0..Len(stored)
    PROVE  Begins(<<Line>> \o SubSeq(stored, 1, k), body)
<1> DEFINE part == SubSeq(stored, 1, k)
           down == <<Line>> \o part
<1>1. Len(stored) \in Nat /\ Len(body) \in Nat
  BY LenProperties
<1>2. 0 \in 0..Len(stored) /\ k \in 0..Len(stored) /\ 0 + 1 = 1 /\ k - 0 = k
  BY <1>1
<1>3. part \in Seq(Byte) /\ Len(part) = k /\ \A i \in 1..k : part[i] = stored[i]
  BY <1>1, <1>2, PartIs
<1>4. <<Line>> \in Seq(Byte) /\ Len(<<Line>>) = 1
  BY DEF Byte
<1> HIDE DEF part
<1>5. /\ down \in Seq(Byte) /\ Len(down) = 1 + k
      /\ \A i \in 1..(1 + k) : down[i] = IF i <= 1 THEN <<Line>>[i] ELSE part[i - 1]
  BY <1>3, <1>4, ConcatProperties
<1> HIDE DEF down
<1>6. ASSUME NEW i \in 1..(Len(down) - 1) PROVE down[i + 1] = body[i]
  <2>1. i \in 1..k /\ i \in 1..Len(body) /\ i + 1 \in 1..(1 + k) /\ ~(i + 1 <= 1)
        /\ (i + 1) - 1 = i
    BY <1>1, <1>5
  <2>2. QED BY <1>3, <1>5, <2>1
<1>7. Len(down) <= Len(body) + 1
  BY <1>1, <1>5
<1>8. QED BY <1>5, <1>6, <1>7 DEF Begins, down, part

LEMMA ServerSendsLoads ==
    ASSUME ClientIInv, StoreIInv, StoreIInv', Lasting, LoadIInv, NEW p \in Proc, ServerSends(p)
    PROVE  LoadIInv'
<1> DEFINE fb == tc[p].fb
           n == tc[p].name
           block == blocks[tc[p].addr][fb.block]
           stored == Stored(block, fb)
<1>1. PICK k \in 0..Len(stored) :
         net' = [net EXCEPT ![p].down = @ \o SubSeq(stored, 1, k),
                            ![p].done = k, ![p].ready = k < fb.size]
  BY DEF ServerSends
<1> DEFINE down == net[p].down \o SubSeq(stored, 1, k)
           ready == k < fb.size
           c == [net[p] EXCEPT !.down = down, !.done = k, !.ready = ready]
<1>2. /\ tc[p].opt = "get" /\ net[p].ready /\ net[p].done = 0 /\ tc' = tc
      /\ index' = index /\ blocks' = blocks /\ clientFile' = clientFile
  BY DEF ServerSends
<1>3. net' = [net EXCEPT ![p] = c]
  BY <1>1, RunIs
<1>4. c.down = down /\ c.done = k
  BY RunIs DEF ConnFields
<1>5. tc[p].at \in {"first", "more"} /\ n \in Name /\ tc[p].iret = "none"
  BY <1>2, RunIs DEF Downloads
<1> HIDE DEF c
<1>6. ASSUME SameNumbers PROVE Loads(tc[p], c, index', blocks')
  <2>1. Loads(tc[p], net[p], index, blocks)
    BY <1>6 DEF LoadIInv
  <2>2. /\ index[n] # NoFile /\ fb = index[n] /\ tc[p].addr = fb.holder
        /\ tc[p].at = "first" => net[p].down = <<Line>>
    BY <1>2, <1>5, <2>1 DEF Loads
  <2>3. Kept(blocks, fb, Body[n], fb.size) /\ fb.size = Len(Body[n])
    BY <1>5, <2>2 DEF StoreIInv, FilesKept, ClientIInv, IndexWhole
  <2>4. ASSUME tc[p].at = "first", k = 0 PROVE down = <<Line>>
    <3>1. SubSeq(stored, 1, 0) = <<>>
      BY SubSeqEmpty
    <3>2. <<Line>> \in Seq(Byte)
      BY DEF Byte
    <3>3. QED BY <2>2, <2>4, <3>1, <3>2, ConcatEmptySeq
  <2>5. ASSUME tc[p].at = "first", ApartIn(blocks, fb) PROVE Begins(down, Body[n])
    <3> DEFINE body == Body[n]
    <3>1. block = BlockOf(blocks, fb)
      BY <2>2 DEF BlockOf
    <3>2. body \in Seq(Byte)
      BY <1>5, BodyIsSeq
    <3>3. StoreSound(blocks, mode)
      BY DEF StoreIInv
    <3>4. down = <<Line>> \o SubSeq(stored, 1, k)
      BY <2>2, <2>5
    <3> DEFINE s == Stored(BlockOf(blocks, fb), fb)
    <3>5. Kept(blocks, fb, body, fb.size) /\ fb.size = Len(body)
      BY <2>3
    <3>6. stored = s
      BY <3>1
    <3> HIDE DEF body, fb, stored, block
    <3>7. s \in Seq(Byte) /\ Len(s) = Len(body) /\ \A i \in 1..Len(body) : s[i] = body[i]
      BY <2>5, <3>2, <3>3, <3>5, StoredIs
    <3> HIDE DEF s, down
    <3>8. Begins(<<Line>> \o SubSeq(s, 1, k), body)
      BY <3>2, <3>6, <3>7, SentBegins
    <3>9. QED BY <3>4, <3>6, <3>8 DEF body
  <2> HIDE DEF fb, down
  <2>6. QED BY <1>2, <1>4, <1>5, <2>1, <2>2, <2>4, <2>5 DEF Loads, fb
<1>7. QED BY <1>2, <1>3, <1>6, AnswersLoads

LEMMA ClosesLoads ==
    ASSUME ClientIInv, StoreIInv, StoreIInv', Lasting, LoadIInv,
           \/ \E p \in Proc : ServerCloses(p)
           \/ \E d \in Running : ServerRestarts(d)
    PROVE  LoadIInv'
<1>1. /\ tc' = tc /\ clientFile' = clientFile
      /\ \A p \in Proc : net'[p] = net[p] \/ net'[p] = Closed(net[p])
  <2>1. ASSUME NEW p \in Proc, ServerCloses(p)
        PROVE  /\ tc' = tc /\ clientFile' = clientFile
               /\ \A q \in Proc : net'[q] = net[q] \/ net'[q] = Closed(net[q])
    BY <2>1, RunIs DEF ServerCloses, others
  <2>2. ASSUME NEW d \in Running, ServerRestarts(d)
        PROVE  /\ tc' = tc /\ clientFile' = clientFile
               /\ \A q \in Proc : net'[q] = net[q] \/ net'[q] = Closed(net[q])
    BY <2>2 DEF ServerRestarts
  <2>3. QED BY <2>1, <2>2
<1>2. SameNumbers' <=> SameNumbers
  BY <1>1 DEF SameNumbers
<1>3. ASSUME SameNumbers, NEW p \in Proc PROVE Loads(tc'[p], net'[p], index', blocks')
  <2>1. Loads(tc[p], net[p], index, blocks) /\ tc'[p] = tc[p]
    BY <1>1, <1>3 DEF LoadIInv
  <2>2. net'[p].down = net[p].down
        /\ (net'[p].ready => net[p].ready /\ net'[p].done = net[p].done)
    BY <1>1, ClosedIs
  <2>3. QED BY <2>1, <2>2, LoadsStay
<1>4. QED BY <1>1, <1>2, <1>3 DEF LoadIInv

LEMMA AddLoads ==
    ASSUME ClientIInv, StoreIInv, StoreIInv', Lasting, LoadIInv, NEW p \in Proc,
           AddLookup(p) \/ StorageFromMaster(p) \/ SendFileAdd(p) \/ SendBody(p)
    PROVE  LoadIInv'
<1>1. CASE Fails(p)
  BY <1>1, FailsLoads
<1>2. CASE ~Fails(p)
  <2>1. PICK t : /\ Goes(p, t) /\ t.iret # "OK" /\ t.opt # "get"
    <3>1. tc[p].opt = "add" /\ tc[p].iret = "none"
      BY UploadIs, RunIs DEF AddLookup, StorageFromMaster, SendFileAdd, SendBody
    <3>2. \A at : LET t == [tc[p] EXCEPT !.at = at] IN t.iret # "OK" /\ t.opt # "get"
      BY <3>1, RunIs DEF RunFields
    <3>3. CASE AddLookup(p)
      <4> DEFINE t == [tc[p] EXCEPT !.at = "find", !.named = FALSE]
      <4>1. t.iret # "OK" /\ t.opt # "get"
        BY <3>1, RunIs DEF RunFields
      <4>2. Goes(p, t)
        BY <1>2, <3>3 DEF AddLookup
      <4>3. QED BY <4>1, <4>2
    <3>4. CASE StorageFromMaster(p)
      <4>1. \A d : LET t == [tc[p] EXCEPT !.at = "file_add", !.addr = d]
                   IN  t.iret # "OK" /\ t.opt # "get"
        BY <3>1, RunIs DEF RunFields
      <4>2. PICK d : \/ Goes(p, [tc[p] EXCEPT !.at = "find again"])
                     \/ Goes(p, [tc[p] EXCEPT !.at = "file_add", !.addr = d])
        BY <1>2, <3>4 DEF StorageFromMaster, GoesTo
      <4> DEFINE t == [tc[p] EXCEPT !.at = "find again"]
                 u == [tc[p] EXCEPT !.at = "file_add", !.addr = d]
      <4>3. (t.iret # "OK" /\ t.opt # "get") /\ (u.iret # "OK" /\ u.opt # "get")
        BY <3>2, <4>1
      <4>4. Goes(p, t) \/ Goes(p, u)
        BY <4>2
      <4> HIDE DEF t, u
      <4>5. QED BY <4>3, <4>4
    <3>5. CASE SendFileAdd(p)
      <4>1. Goes(p, [tc[p] EXCEPT !.at = "body"])
        BY <1>2, <3>5 DEF SendFileAdd, GoesTo
      <4>2. QED BY <3>2, <4>1
    <3>6. CASE SendBody(p)
      <4>1. PICK sent, at : Goes(p, [tc[p] EXCEPT !.sent = sent, !.at = at])
        BY <1>2, <3>6 DEF SendBody
      <4> DEFINE t == [tc[p] EXCEPT !.sent = sent, !.at = at]
      <4>2. t.iret # "OK" /\ t.opt # "get"
        BY <3>1, RunIs DEF RunFields
      <4>3. QED BY <4>1, <4>2
    <3>7. QED BY <3>3, <3>4, <3>5, <3>6
  <2>2. PICK c : net' = [net EXCEPT ![p] = c]
    <3>1. CASE AddLookup(p) \/ StorageFromMaster(p)
      <4>1. net' = [net EXCEPT ![p] = net[p]]
        BY <1>2, <3>1, RunIs DEF AddLookup, StorageFromMaster
      <4>2. QED BY <4>1
    <3>2. CASE SendFileAdd(p)
      BY <1>2, <3>2 DEF SendFileAdd
    <3>3. CASE SendBody(p)
      <4>1. PICK up : net' = [net EXCEPT ![p].up = up]
        BY <1>2, <3>3 DEF SendBody
      <4>2. net' = [net EXCEPT ![p] = [net[p] EXCEPT !.up = up]]
        BY <4>1, RunIs
      <4>3. QED BY <4>2
    <3>4. QED BY <3>1, <3>2, <3>3
  <2>3. clientFile' = clientFile
    BY <1>2 DEF AddLookup, StorageFromMaster, SendFileAdd, SendBody, others
  <2>4. Loads(t, c, index', blocks')
    BY <2>1, NoLoad
  <2>5. QED BY <2>1, <2>2, <2>3, <2>4, OneLoads DEF Goes
<1>3. QED BY <1>1, <1>2

LEMMA MainLoads ==
    ASSUME ClientIInv, StoreIInv, StoreIInv', Lasting, LoadIInv, NEW p \in Proc,
           NEW opt \in {"add", "get"}, NEW n \in Name, NEW named \in BOOLEAN,
           Main(p, opt, n, named)
    PROVE  LoadIInv'
<1> DEFINE s == [Idle EXCEPT !.opt = opt, !.name = n, !.named = named]
           t == [s EXCEPT !.at = "index"]
<1>1. CASE Configured
  <2>1. t.at = "index" /\ t.iret = "none"
    BY IdleIs DEF RunFields
  <2>2. Goes(p, t) /\ UNCHANGED others /\ net' = net
    BY <1>1 DEF Main
  <2> HIDE DEF t
  <2>3. Loads(t, net[p], index', blocks')
    BY <2>1, NoLoad
  <2>4. QED BY <2>2, <2>3, GoesLoads DEF others
<1>2. CASE ~Configured
  <2>1. Ends(p, s, "ERR")
    BY <1>2 DEF Main
  <2> HIDE DEF s
  <2>2. QED BY <2>1, EndsLoads
<1>3. QED BY <1>1, <1>2

LEMMA TakesLoads ==
    ASSUME ClientIInv, StoreIInv, StoreIInv', Lasting, LoadIInv, NEW p \in Proc,
           NEW k \in 1..Len(net[p].up), ServerTakes(p, k)
    PROVE  LoadIInv'
<1>1. tc[p].opt = "add" /\ net[p].ready /\ tc' = tc /\ clientFile' = clientFile
  BY DEF ServerTakes
<1>2. PICK c : net' = [net EXCEPT ![p] = c]
  <2>1. PICK up, taken, done, over :
           \/ net' = [net EXCEPT ![p] = over]
           \/ net' = [net EXCEPT ![p].up = up, ![p].taken = taken, ![p].done = done]
    BY DEF ServerTakes
  <2>2. CASE net' = [net EXCEPT ![p] = over]
    BY <2>2
  <2>3. CASE net' = [net EXCEPT ![p].up = up, ![p].taken = taken, ![p].done = done]
    <3>1. net' = [net EXCEPT ![p] = [net[p] EXCEPT !.up = up, !.taken = taken, !.done = done]]
      BY <2>3, RunIs
    <3>2. QED BY <3>1
  <2>4. QED BY <2>1, <2>2, <2>3
<1>3. tc[p].iret # "OK"
  BY <1>1, RunIs DEF Uploads
<1>4. Loads(tc[p], c, index', blocks')
  BY <1>1, <1>3, NoLoad
<1>5. QED BY <1>1, <1>2, <1>4, AnswersLoads

LEMMA LoadKept ==
    ASSUME ClientIInv, StoreIInv, LoadIInv, [ClientNext]_clientVars
    PROVE  LoadIInv'
<1>1. StoreIInv' /\ Lasting
  BY StoreKept
<1>2. CASE UNCHANGED clientVars
  <2>1. SameNumbers' <=> SameNumbers
    BY <1>2 DEF clientVars, others, SameNumbers
  <2>2. QED BY <1>2, <2>1 DEF clientVars, others, LoadIInv
<1>3. ASSUME NEW p \in Proc, NEW opt \in {"add", "get"}, NEW n \in Name, NEW named \in BOOLEAN,
             Main(p, opt, n, named)
      PROVE  LoadIInv'
  BY <1>1, <1>3, MainLoads
<1>4. ASSUME NEW p \in Proc, ClientStep(p) PROVE LoadIInv'
  <2>1. CASE ReadLast(p)
    <3>1. Ends(p, tc[p], "OK") /\ tc[p].opt # "get"
      BY <2>1, UploadIs DEF ReadLast
    <3>2. QED BY <1>1, <3>1, EndsLoads
  <2>2. CASE TimesOut(p)
    BY <1>1, <2>2, FailsLoads DEF TimesOut
  <2>3. CASE AddLookup(p) \/ StorageFromMaster(p) \/ SendFileAdd(p) \/ SendBody(p)
    BY <1>1, <2>3, AddLoads
  <2>4. CASE GetLookup(p)
    BY <1>1, <2>4, GetLookupLoads
  <2>5. CASE SendFileGet(p)
    BY <1>1, <2>5, SendFileGetLoads
  <2>6. CASE ReadFirst(p)
    BY <1>1, <2>6, ReadFirstLoads
  <2>7. CASE ReadMore(p)
    BY <1>1, <2>7, ReadMoreLoads
  <2>8. QED BY <1>4, <2>1, <2>2, <2>3, <2>4, <2>5, <2>6, <2>7 DEF ClientStep
<1>5. ASSUME NEW p \in Proc, NEW k \in 1..Len(net[p].up), ServerTakes(p, k) PROVE LoadIInv'
  BY <1>1, <1>5, TakesLoads
<1>6. ASSUME NEW p \in Proc, ServerSends(p) PROVE LoadIInv'
  BY <1>1, <1>6, ServerSendsLoads
<1>7. CASE (\E p \in Proc : ServerCloses(p)) \/ (\E d \in Running : ServerRestarts(d))
  BY <1>1, <1>7, ClosesLoads
<1>8. QED BY <1>2, <1>3, <1>4, <1>5, <1>6, <1>7 DEF ClientNext

LEMMA LoadInit == ClientInit => LoadIInv
<1> SUFFICES ASSUME ClientInit PROVE LoadIInv
  OBVIOUS
<1>1. clientFile \in ClientFiles /\ \A p \in Proc : tc[p] = Idle
  BY DEF ClientInit
<1>2. QED BY <1>1, IdleIs, NoLoad DEF LoadIInv

(* A download that ends well leaves the file, or its beginning when one of *)
(* its bytes is 0 (get_file_from_storage), as what the data server sends   *)
(* from the place the name server gives (__file_get_loop_send) was written *)
(* there for this file and nothing has cut it or written over it since:    *)
(* however uploads, restarts and partial reads and sends interleave.  Two  *)
(* files that share bytes of a block are excepted, and clients that number *)
(* the data servers otherwise.                                             *)
THEOREM DownloadsAreWhole == ClientSpec => []GetOkIsWhole
<1>1. StoreIInv /\ LoadIInv => GetOkIsWhole
  <2> SUFFICES ASSUME StoreIInv, LoadIInv PROVE GetOkIsWhole
    OBVIOUS
  <2>1. ASSUME NEW p \in Proc, tc[p].iret = "OK", SameNumbers, Apart(index[tc[p].name])
        PROVE  LeftOf(tc[p].file, Body[tc[p].name])
    <3>1. Loads(tc[p], net[p], index, blocks)
      BY <2>1 DEF LoadIInv
    <3>2. QED BY <2>1, <3>1 DEF Loads, ApartIn, Apart, BlockOf
  <2>2. QED BY <2>1 DEF GetOkIsWhole, LeftOf
<1>2. ClientInit => StoreIInv /\ LoadIInv
  BY StoreInit, LoadInit
<1>3. ClientIInv /\ StoreIInv /\ LoadIInv /\ [ClientNext]_clientVars => StoreIInv' /\ LoadIInv'
  BY StoreKept, LoadKept
<1>4. QED BY <1>1, <1>2, <1>3, ClientInductive, PTL DEF ClientSpec

=============================================================================
