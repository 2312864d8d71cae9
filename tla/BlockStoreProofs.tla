--------------------------- MODULE BlockStoreProofs ---------------------------
(***************************************************************************)
(* Proofs about BlockStore: type correctness, and that the extents of the  *)
(* uploads placed behind the recorded size are disjoint and lie inside the *)
(* file, for every set of blocks, uploads and sizes and every limit.       *)
(***************************************************************************)
EXTENDS BlockStore, SequenceTheorems, TLAPS

Byte == Writer \cup {Hole}

(* ftruncate to n bytes yields a file of n bytes.                          *)
LEMMA TruncateLemma ==
    ASSUME NEW d \in Seq(Byte), NEW n \in Nat
    PROVE  Truncate(d, n) \in Seq(Byte) /\ Len(Truncate(d, n)) = n
<1>1. Truncate(d, n) \in [1..n -> Byte]
  BY DEF Truncate, Byte
<1>2. QED
  BY <1>1

(* A write yields a file that is at least as long as before.               *)
LEMMA WriteAtLemma ==
    ASSUME NEW d \in Seq(Byte), NEW off \in Int, NEW n \in Nat,
           NEW w \in Writer
    PROVE  WriteAt(d, off, n, w) \in Seq(Byte)
           /\ Len(WriteAt(d, off, n, w)) >= Len(d)
<1> DEFINE end == IF n = 0 \/ Len(d) > off + n THEN Len(d) ELSE off + n
<1>1. Len(d) \in Nat
  OBVIOUS
<1>2. end \in Nat /\ end >= Len(d)
  BY <1>1
<1>3. WriteAt(d, off, n, w) \in [1..end -> Byte]
  BY <1>1 DEF WriteAt, Byte
<1> HIDE DEF end
<1>4. QED
  BY <1>2, <1>3

-----------------------------------------------------------------------------
(* One lemma per action: it preserves StoreTypeOK.                         *)

(* The initial state is well typed.                                        *)
LEMMA InitType == StoreInit => StoreTypeOK
<1>1. <<>> \in Seq(Writer \cup {Hole})
  OBVIOUS
<1>2. QED
  BY <1>1 DEF StoreInit, StoreTypeOK, NoHandle, Handle

(* Retiring a block changes neither sizes nor which handles exist.         *)
LEMMA RetiredType ==
    ASSUME StoreTypeOK, NEW size \in Size
    PROVE  /\ Retired(size) \in [Block -> Handle]
           /\ \A b \in Block : Retired(size)[b].size = bf[b].size
           /\ \A b \in Block \ files : Retired(size)[b] = NoHandle
<1>1. CASE Full(size)
  <2>1. cbf \in Block /\ cbf \in files
    BY <1>1 DEF Full, StoreTypeOK
  <2>2. QED
    BY <1>1, <2>1 DEF Retired, StoreTypeOK, Handle
<1>2. CASE ~Full(size)
  BY <1>2 DEF Retired, StoreTypeOK
<1>3. QED
  BY <1>1, <1>2

LEMMA CreateType ==
    ASSUME StoreTypeOK, NEW w \in Writer, NEW size \in Size,
           NEW pos \in StaleOffset, NEW b \in Block,
           AppendCreate(w, size, pos, b)
    PROVE  StoreTypeOK'
<1>1. size \in Nat
  BY BlockAssumption
<1>2. pos \in Int
  BY DEF StaleOffset, StoreTypeOK, Grant
<1>3. <<>> \in Seq(Byte)
  OBVIOUS
<1>4. Truncate(<<>>, size) \in Seq(Writer \cup {Hole})
  BY <1>1, <1>3, TruncateLemma DEF Byte
<1>5. data' \in [Block -> Seq(Writer \cup {Hole})]
  BY <1>4 DEF AppendCreate, StoreTypeOK
<1>6. Fresh \in Handle
  BY DEF Fresh, Handle
<1>7. bf' \in [Block -> Handle] /\ \A c \in Block \ files' : bf'[c] = NoHandle
  BY <1>6, RetiredType DEF AppendCreate, StoreTypeOK
<1>8. grants' \subseteq Grant /\ \A g \in grants' : g.block \in files'
  BY <1>2 DEF AppendCreate, StoreTypeOK, Grant
<1>9. QED
  BY <1>5, <1>7, <1>8 DEF AppendCreate, StoreTypeOK

LEMMA CreateFailType ==
    ASSUME StoreTypeOK, NEW size \in Size, AppendCreateFail(size)
    PROVE  StoreTypeOK'
BY RetiredType DEF AppendCreateFail, StoreTypeOK

LEMMA ExtendType ==
    ASSUME StoreTypeOK, NEW w \in Writer, NEW size \in Size,
           AppendExtend(w, size), bf[cbf].size \in Nat
    PROVE  StoreTypeOK'
<1>1. size \in Nat /\ cbf \in Block /\ cbf \in files
  BY BlockAssumption DEF AppendExtend, MustCreate, StoreTypeOK
<1>2. bf[cbf].size + size \in Nat /\ bf[cbf] \in Handle
  BY <1>1 DEF StoreTypeOK
<1>3. Truncate(data[cbf], bf[cbf].size + size) \in Seq(Writer \cup {Hole})
  BY <1>1, <1>2, TruncateLemma DEF StoreTypeOK, Byte
<1>4. data' \in [Block -> Seq(Writer \cup {Hole})]
  BY <1>1, <1>3 DEF AppendExtend, StoreTypeOK
<1>5. bf' \in [Block -> Handle] /\ \A c \in Block \ files' : bf'[c] = NoHandle
  BY <1>1, <1>2 DEF AppendExtend, StoreTypeOK, Handle
<1>6. grants' \subseteq Grant /\ \A g \in grants' : g.block \in files'
  BY <1>1, <1>2 DEF AppendExtend, StoreTypeOK, Grant
<1>7. QED
  BY <1>4, <1>5, <1>6 DEF AppendExtend, StoreTypeOK

(* What block_file_close leaves of the handles.                            *)
LEMMA CloseHandles ==
    ASSUME StoreTypeOK, NEW b \in Block, CloseHandle(b)
    PROVE  /\ bf' \in [Block -> Handle] /\ live' \subseteq live
           /\ \A c \in Block : bf'[c].size = bf[c].size
           /\ \A c \in Block \ files : bf'[c] = NoHandle
<1>1. b \in files /\ bf[b].num - 1 \in Int
  BY DEF CloseHandle, StoreTypeOK, Handle
<1>2. CASE bf' = [bf EXCEPT ![b].num = @ - 1] /\ UNCHANGED live
  BY <1>1, <1>2 DEF StoreTypeOK, Handle
<1>3. CASE live' = live \ {b} /\ UNCHANGED bf
  BY <1>3 DEF StoreTypeOK
<1>4. QED
  BY <1>2, <1>3 DEF CloseHandle

LEMMA CloseType ==
    ASSUME StoreTypeOK, NEW b \in Block, Close(b)
    PROVE  StoreTypeOK'
BY CloseHandles DEF Close, StoreTypeOK

(* What a write leaves of the files.                                       *)
LEMMA WriteLonger ==
    ASSUME StoreTypeOK, NEW g \in grants, NEW done \in Nat, NEW n \in Nat,
           WriteBytes(g, done, n)
    PROVE  /\ data' \in [Block -> Seq(Writer \cup {Hole})]
           /\ \A b \in Block : Len(data'[b]) >= Len(data[b])
<1>1. g \in Grant /\ g.block \in Block /\ g.who \in Writer /\ g.off + done \in Int
  BY DEF StoreTypeOK, Grant
<1>2. /\ WriteAt(data[g.block], g.off + done, n, g.who) \in Seq(Writer \cup {Hole})
      /\ Len(WriteAt(data[g.block], g.off + done, n, g.who)) >= Len(data[g.block])
  BY <1>1, WriteAtLemma DEF StoreTypeOK, Byte
<1>3. data' \in [Block -> Seq(Writer \cup {Hole})]
  BY <1>1, <1>2 DEF WriteBytes, StoreTypeOK
<1>4. \A b \in Block : Len(data'[b]) >= Len(data[b])
  BY <1>1, <1>2 DEF WriteBytes, StoreTypeOK
<1>5. QED
  BY <1>3, <1>4

LEMMA WriteType ==
    ASSUME StoreTypeOK, NEW g \in grants, NEW done \in Nat, NEW n \in Nat,
           Write(g, done, n)
    PROVE  /\ StoreTypeOK'
           /\ \A b \in Block : Len(data'[b]) >= Len(data[b])
BY WriteLonger DEF Write, StoreTypeOK

-----------------------------------------------------------------------------
(* The inductive invariant: types, and extents inside their file.  The     *)
(* two need each other, since ExtendType needs the recorded size of cbf to *)
(* be a natural number.                                                    *)

StoreIInv ==
    /\ StoreTypeOK
    /\ \A b \in Block : bf[b].size \in Nat
    /\ ExtendedDisjoint
    /\ ExtendedInsideFile

(* The initial state satisfies the inductive invariant.                    *)
LEMMA InitIInv == StoreInit => StoreIInv
BY InitType DEF StoreInit, StoreIInv, ExtendedDisjoint, ExtendedInsideFile,
   Extended, NoHandle

(* A grant made by creating a file is not an extended one.                 *)
LEMMA CreateInv ==
    ASSUME StoreIInv, NEW w \in Writer, NEW size \in Size,
           NEW pos \in StaleOffset, NEW b \in Block,
           AppendCreate(w, size, pos, b)
    PROVE  StoreIInv'
<1>1. StoreTypeOK /\ StoreTypeOK'
  BY CreateType DEF StoreIInv
<1>2. Extended' = Extended
  BY DEF AppendCreate, Extended
<1>3. bf'[b].size = 0 /\ \A c \in Block \ {b} : bf'[c].size = bf[c].size
  BY <1>1, RetiredType DEF AppendCreate, Fresh, StoreTypeOK
<1>4. \A g \in Extended : g.block \in files /\ g.block \in Block \ {b}
  BY <1>1 DEF Extended, StoreTypeOK, AppendCreate
<1>5. Len(data'[b]) \in Nat /\ \A c \in Block \ {b} : data'[c] = data[c]
  BY <1>1 DEF AppendCreate, StoreTypeOK
<1>6. ExtendedDisjoint'
  BY <1>2 DEF StoreIInv, ExtendedDisjoint
<1>7. ExtendedInsideFile'
  <2>1. \A g \in Extended' : g.off >= 0 /\ g.off + g.size <= bf'[g.block].size
    BY <1>2, <1>3, <1>4 DEF StoreIInv, ExtendedInsideFile
  <2>2. \A c \in files' : bf'[c].size <= Len(data'[c])
    <3>1. bf'[b].size <= Len(data'[b])
      BY <1>3, <1>5
    <3>2. \A c \in files : c \in Block \ {b}
      BY <1>1 DEF AppendCreate, StoreTypeOK
    <3>3. \A c \in files : bf'[c].size <= Len(data'[c])
      BY <3>2, <1>3, <1>5 DEF StoreIInv, ExtendedInsideFile
    <3>4. files' = files \cup {b}
      BY DEF AppendCreate
    <3>5. QED
      BY <3>1, <3>3, <3>4
  <2>3. \A c \in Block : bf'[c].size > 0 => bf'[c].size < MaxBlockSize
    BY <1>3 DEF StoreIInv, ExtendedInsideFile
  <2>4. QED
    BY <2>1, <2>2, <2>3 DEF ExtendedInsideFile
<1>8. \A c \in Block : bf'[c].size \in Nat
  BY <1>3 DEF StoreIInv
<1>9. QED
  BY <1>1, <1>6, <1>7, <1>8 DEF StoreIInv

(* The new extent starts where the recorded size was, which is where every *)
(* earlier one of the block has ended.                                     *)
LEMMA ExtendInv ==
    ASSUME StoreIInv, NEW w \in Writer, NEW size \in Size, AppendExtend(w, size)
    PROVE  StoreIInv'
<1> DEFINE end == bf[cbf].size + size
           new == [who |-> w, block |-> cbf, off |-> bf[cbf].size,
                   size |-> size, how |-> "extend"]
<1>1. /\ StoreTypeOK /\ size \in Nat
      /\ cbf \in Block /\ cbf \in files /\ bf[cbf].size \in Nat
  BY BlockAssumption DEF StoreIInv, StoreTypeOK, AppendExtend, MustCreate
<1>2. StoreTypeOK'
  BY <1>1, ExtendType
<1>3. end \in Nat /\ end >= bf[cbf].size /\ end < MaxBlockSize
  BY <1>1, BlockAssumption DEF AppendExtend, MustCreate, Full
<1>4. bf'[cbf].size = end /\ \A c \in Block \ {cbf} : bf'[c].size = bf[c].size
  BY <1>1 DEF AppendExtend, StoreTypeOK, Handle
<1>5. Len(data'[cbf]) = end /\ \A c \in Block \ {cbf} : data'[c] = data[c]
  BY <1>1, <1>3, TruncateLemma DEF AppendExtend, StoreTypeOK, Byte
<1>6. Extended' = Extended \cup {new}
  BY DEF AppendExtend, Extended
<1>7. \A g \in Extended : g.off \in Int /\ g.size \in Nat /\ g.block \in Block
  BY <1>1, BlockAssumption DEF Extended, StoreTypeOK, Grant
<1> HIDE DEF end
<1>8. ExtendedDisjoint'
  <2> SUFFICES ASSUME NEW g \in Extended', NEW h \in Extended',
                      g # h, g.block = h.block
               PROVE  g.off + g.size <= h.off \/ h.off + h.size <= g.off
    BY DEF ExtendedDisjoint
  <2>1. CASE g \in Extended /\ h \in Extended
    BY <2>1 DEF StoreIInv, ExtendedDisjoint
  <2>2. CASE g = new /\ h \in Extended
    BY <2>2, <1>7 DEF StoreIInv, ExtendedInsideFile
  <2>3. CASE h = new /\ g \in Extended
    BY <2>3, <1>7 DEF StoreIInv, ExtendedInsideFile
  <2>4. QED
    BY <1>6, <2>1, <2>2, <2>3
<1>9. ExtendedInsideFile'
  <2>1. \A g \in Extended' : g.off >= 0 /\ g.off + g.size <= bf'[g.block].size
    <3> SUFFICES ASSUME NEW g \in Extended'
                 PROVE  g.off >= 0 /\ g.off + g.size <= bf'[g.block].size
      OBVIOUS
    <3>1. CASE g \in Extended
      BY <3>1, <1>1, <1>3, <1>4, <1>7 DEF StoreIInv, ExtendedInsideFile
    <3>2. CASE g = new
      BY <3>2, <1>1, <1>3, <1>4 DEF end
    <3>3. QED
      BY <1>6, <3>1, <3>2
  <2>2. \A c \in files' : bf'[c].size <= Len(data'[c])
    BY <1>1, <1>3, <1>4, <1>5 DEF StoreIInv, ExtendedInsideFile, AppendExtend, StoreTypeOK
  <2>3. \A c \in Block : bf'[c].size > 0 => bf'[c].size < MaxBlockSize
    BY <1>3, <1>4 DEF StoreIInv, ExtendedInsideFile
  <2>4. QED
    BY <2>1, <2>2, <2>3 DEF ExtendedInsideFile
<1>10. \A c \in Block : bf'[c].size \in Nat
  BY <1>3, <1>4 DEF StoreIInv
<1>11. QED
  BY <1>2, <1>8, <1>9, <1>10 DEF StoreIInv

(* A step that grants nothing, keeps the recorded sizes and never shortens *)
(* a file preserves the invariant.                                         *)
LEMMA QuietInv ==
    ASSUME StoreIInv, StoreTypeOK', UNCHANGED grants,
           \A b \in Block : bf'[b].size = bf[b].size,
           \A b \in files' : bf'[b].size <= Len(data'[b])
    PROVE  StoreIInv'
<1>1. Extended' = Extended
  BY DEF Extended
<1>2. \A g \in Extended : g.block \in Block
  BY DEF StoreIInv, StoreTypeOK, Extended
<1>3. ExtendedDisjoint'
  BY <1>1 DEF StoreIInv, ExtendedDisjoint
<1>4. ExtendedInsideFile'
  BY <1>1, <1>2 DEF StoreIInv, ExtendedInsideFile
<1>5. QED
  BY <1>3, <1>4 DEF StoreIInv

(* Every step preserves the inductive invariant.                           *)
LEMMA NextIInv == StoreIInv /\ [StoreNext]_storeVars => StoreIInv'
<1> SUFFICES ASSUME StoreIInv, [StoreNext]_storeVars
             PROVE  StoreIInv'
  OBVIOUS
<1>0. StoreTypeOK /\ \A b \in files : bf[b].size <= Len(data[b])
  BY DEF StoreIInv, ExtendedInsideFile
<1>1. ASSUME NEW w \in Writer, NEW size \in Size,
             NEW pos \in StaleOffset, NEW b \in Block,
             AppendCreate(w, size, pos, b)
      PROVE  StoreIInv'
  BY <1>1, CreateInv
<1>2. ASSUME NEW w \in Writer, NEW size \in Size, AppendExtend(w, size)
      PROVE  StoreIInv'
  BY <1>2, ExtendInv
<1>3. ASSUME NEW size \in Size, AppendCreateFail(size)
      PROVE  StoreIInv'
  <2>1. StoreTypeOK'
    BY <1>0, <1>3, CreateFailType
  <2>2. \A b \in Block : bf'[b].size = bf[b].size
    BY <1>0, <1>3, RetiredType DEF AppendCreateFail
  <2>3. \A b \in files' : bf'[b].size <= Len(data'[b])
    <3> SUFFICES ASSUME NEW b \in files'
                 PROVE  bf[b].size <= Len(data[b])
      BY <1>3, <2>1, <2>2 DEF AppendCreateFail, StoreTypeOK
    <3>1. CASE b \in files
      BY <1>0, <3>1
    <3>2. CASE b \notin files
      <4>1. b \in Block /\ bf[b].size = 0
        BY <1>0, <2>1, <3>2 DEF StoreTypeOK, NoHandle
      <4>2. Len(data[b]) \in Nat
        BY <1>0, <4>1 DEF StoreTypeOK
      <4>3. QED
        BY <4>1, <4>2
    <3>3. QED
      BY <3>1, <3>2
  <2>4. QED
    BY <1>3, <2>1, <2>2, <2>3, QuietInv DEF AppendCreateFail
<1>4. ASSUME NEW b \in Block, Close(b)
      PROVE  StoreIInv'
  <2>1. StoreTypeOK'
    BY <1>0, <1>4, CloseType
  <2>2. \A c \in Block : bf'[c].size = bf[c].size
    BY <1>0, <1>4, CloseHandles DEF Close
  <2>3. QED
    BY <1>0, <1>4, <2>1, <2>2, QuietInv DEF Close, CloseHandle, StoreTypeOK
<1>5. ASSUME NEW g \in grants, NEW done \in 0..g.size,
             NEW n \in 1..(g.size - done), Write(g, done, n)
      PROVE  StoreIInv'
  <2>1. g.size \in Nat
    BY <1>0, BlockAssumption DEF StoreTypeOK, Grant
  <2>2. done \in Nat /\ n \in Nat
    BY <2>1
  <2>3. StoreTypeOK' /\ \A b \in Block : Len(data'[b]) >= Len(data[b])
    BY <1>0, <1>5, <2>2, WriteType
  <2>4. \A b \in files : Len(data'[b]) \in Nat /\ Len(data[b]) \in Nat /\ bf[b].size \in Nat
    BY <1>0, <2>3 DEF StoreTypeOK, StoreIInv
  <2>5. \A b \in files' : bf'[b].size <= Len(data'[b])
    BY <1>0, <1>5, <2>3, <2>4 DEF Write, WriteBytes, StoreTypeOK
  <2>6. QED
    BY <1>5, <2>3, <2>5, QuietInv DEF Write, WriteBytes
<1>6. CASE UNCHANGED storeVars
  <2>1. StoreTypeOK'
    BY <1>0, <1>6 DEF storeVars, StoreTypeOK
  <2>2. QED
    BY <1>0, <1>6, <2>1, QuietInv DEF storeVars
<1>7. QED
  BY <1>1, <1>2, <1>3, <1>4, <1>5, <1>6 DEF StoreNext

(* The inductive invariant holds in every reachable state.                 *)
LEMMA SpecIInv == StoreSpec => []StoreIInv
BY InitIInv, NextIInv, PTL DEF StoreSpec

-----------------------------------------------------------------------------
(* block_file_append, block_file_create and block_file_close keep the      *)
(* store well formed.                                                      *)
THEOREM StoreTypeCorrect == StoreSpec => []StoreTypeOK
<1>1. StoreIInv => StoreTypeOK
  BY DEF StoreIInv
<1>2. QED
  BY <1>1, SpecIInv, PTL

(* However appends, closes, retirements and failures interleave, two       *)
(* uploads placed behind the recorded size of a block share no byte.       *)
THEOREM ExtentsDisjoint == StoreSpec => []ExtendedDisjoint
<1>1. StoreIInv => ExtendedDisjoint
  BY DEF StoreIInv
<1>2. QED
  BY <1>1, SpecIInv, PTL

(* ... and lie inside the recorded size, which lies inside the file and    *)
(* below the configured limit.                                             *)
THEOREM ExtentsInsideFile == StoreSpec => []ExtendedInsideFile
<1>1. StoreIInv => ExtendedInsideFile
  BY DEF StoreIInv
<1>2. QED
  BY <1>1, SpecIInv, PTL

-----------------------------------------------------------------------------
(* What a step does to the bytes of the uploads behind the recorded size.  *)

\* Beyond the recorded size only the upload that created the block has written.
BeyondIsCreators ==
    \A b \in Block : \A i \in 1..Len(data[b]) :
        i > bf[b].size => data[b][i] \in {Hole} \cup Creators(b)

BytesIInv == ExtendedBytesOwned /\ BeyondIsCreators

\* The byte behind an upload's is there.
LEMMA ByteIsThere ==
    ASSUME StoreIInv, NEW g \in Extended, NEW i \in (g.off + 1)..(g.off + g.size)
    PROVE  /\ g.block \in Block /\ g.block \in files /\ g.off \in Nat /\ g.size \in Nat
           /\ i \in Nat /\ i \in 1..bf[g.block].size /\ i \in 1..Len(data[g.block])
<1>1. /\ g.block \in Block /\ g.block \in files /\ g.off \in Int /\ g.size \in Nat
      /\ bf[g.block].size \in Nat /\ Len(data[g.block]) \in Nat
  <2>1. StoreTypeOK /\ g \in Grant /\ g.block \in files
    BY DEF StoreIInv, StoreTypeOK, Extended
  <2>2. g.block \in Block /\ g.off \in Int /\ g.size \in Nat
    BY <2>1, BlockAssumption DEF Grant
  <2>3. QED BY <2>1, <2>2 DEF StoreIInv, StoreTypeOK
<1>2. /\ g.off >= 0 /\ g.off + g.size <= bf[g.block].size
      /\ bf[g.block].size <= Len(data[g.block])
  BY <1>1 DEF StoreIInv, ExtendedInsideFile
<1>3. QED BY <1>1, <1>2

(* What a write covers is inside its extent.                              *)
LEMMA Between ==
    ASSUME NEW off \in Int, NEW size \in Nat, NEW done \in Nat, NEW n \in Nat, done + n <= size
    PROVE  \A i \in (off + done + 1)..(off + done + n) : i > off /\ i <= off + size
OBVIOUS

(* What is in a file after a write.                                        *)
LEMMA WriteAtBytes ==
    ASSUME NEW d \in Seq(Byte), NEW off \in Int, NEW n \in Nat, NEW w \in Writer,
           NEW i \in 1..Len(WriteAt(d, off, n, w))
    PROVE  WriteAt(d, off, n, w)[i]
             = IF i \in (off + 1)..(off + n) THEN w ELSE IF i \in 1..Len(d) THEN d[i] ELSE Hole
<1> DEFINE end == IF n = 0 \/ Len(d) > off + n THEN Len(d) ELSE off + n
<1>1. Len(d) \in Nat /\ DOMAIN d = 1..Len(d) /\ end \in Nat
  OBVIOUS
<1>2. WriteAt(d, off, n, w) = [j \in 1..end |-> IF j \in (off + 1)..(off + n) THEN w
                                               ELSE IF j \in DOMAIN d THEN d[j] ELSE Hole]
  BY DEF WriteAt
<1> HIDE DEF end
<1>3. Len(WriteAt(d, off, n, w)) = end
  BY <1>1, <1>2, WriteAtLemma
<1>4. QED BY <1>1, <1>2, <1>3

(* A write changes the bytes it is given, and fills with holes.            *)
LEMMA WriteBytesOf ==
    ASSUME StoreIInv, NEW h \in grants, NEW done \in Nat, NEW n \in Nat,
           WriteBytes(h, done, n), NEW b \in Block, NEW i \in 1..Len(data'[b])
    PROVE  \/ b = h.block /\ data'[b][i] = h.who
              /\ i > h.off /\ i <= h.off + h.size
           \/ i \in 1..Len(data[b]) /\ data'[b][i] = data[b][i]
           \/ i \notin 1..Len(data[b]) /\ data'[b][i] = Hole
<1>1. /\ StoreTypeOK /\ h \in Grant /\ h.block \in Block /\ h.who \in Writer /\ h.off \in Int
      /\ h.size \in Nat
  BY BlockAssumption DEF StoreIInv, StoreTypeOK, Grant
<1>2. done \in Nat /\ n \in Nat /\ done + n <= h.size /\ h.off + done \in Int
  BY <1>1 DEF WriteBytes
<1>3. data[b] \in Seq(Byte)
  BY <1>1 DEF StoreTypeOK, Byte
<1>4. data' = [data EXCEPT ![h.block] = WriteAt(@, h.off + done, n, h.who)]
  BY DEF WriteBytes
<1>5. CASE b # h.block
  BY <1>1, <1>4, <1>5 DEF StoreTypeOK
<1>6. CASE b = h.block
  <2>1. data'[b] = WriteAt(data[b], h.off + done, n, h.who)
    BY <1>1, <1>4, <1>6 DEF StoreTypeOK
  <2>2. data'[b][i] = IF i \in (h.off + done + 1)..(h.off + done + n) THEN h.who
                      ELSE IF i \in 1..Len(data[b]) THEN data[b][i] ELSE Hole
    <3> DEFINE at == h.off + done
    <3>1. at \in Int /\ data'[b] = WriteAt(data[b], at, n, h.who)
      BY <1>2, <2>1
    <3> HIDE DEF at
    <3>2. \A j \in 1..Len(WriteAt(data[b], at, n, h.who)) :
             WriteAt(data[b], at, n, h.who)[j]
               = IF j \in (at + 1)..(at + n) THEN h.who
                 ELSE IF j \in 1..Len(data[b]) THEN data[b][j] ELSE Hole
      BY <1>1, <1>2, <1>3, <3>1, WriteAtBytes, SMTT(30)
    <3>3. data'[b][i] = IF i \in (at + 1)..(at + n) THEN h.who
                        ELSE IF i \in 1..Len(data[b]) THEN data[b][i] ELSE Hole
      BY <3>1, <3>2
    <3>4. QED BY <3>3 DEF at
  <2>3. i \in (h.off + done + 1)..(h.off + done + n) => i > h.off /\ i <= h.off + h.size
    <3> DEFINE off == h.off
               size == h.size
    <3>1. off \in Int /\ size \in Nat /\ done + n <= size
      BY <1>1, <1>2
    <3> HIDE DEF off, size
    <3>2. i \in (off + done + 1)..(off + done + n) => i > off /\ i <= off + size
      BY <1>2, <3>1, Between
    <3>3. QED BY <3>2 DEF off, size
  <2>4. QED BY <1>6, <2>2, <2>3
<1>7. QED BY <1>5, <1>6

(* A step that places no upload behind the recorded size keeps their bytes.*)
LEMMA WriteKeeps ==
    ASSUME StoreIInv, NEW h \in grants, NEW done \in Nat, NEW n \in Nat,
           WriteBytes(h, done, n), NEW g \in Extended, NEW i \in (g.off + 1)..(g.off + g.size)
    PROVE  /\ i \in 1..Len(data'[g.block])
           /\ \/ data'[g.block][i] = data[g.block][i]
              \/ data'[g.block][i] = h.who /\ g.block = h.block
                 /\ i > h.off /\ i <= h.off + h.size
<1>1. g.block \in Block /\ i \in 1..Len(data[g.block])
  BY ByteIsThere
<1>2. Len(data'[g.block]) >= Len(data[g.block])
  BY <1>1, WriteLonger DEF StoreIInv
<1>3. Len(data'[g.block]) \in Nat /\ Len(data[g.block]) \in Nat
  BY <1>1, WriteLonger DEF StoreIInv, StoreTypeOK
<1>4. i \in 1..Len(data'[g.block])
  BY <1>1, <1>2, <1>3
<1>5. QED BY <1>1, <1>4, WriteBytesOf

LEMMA ExtendKeeps ==
    ASSUME StoreIInv, NEW w \in Writer, NEW size \in Size, AppendExtend(w, size)
    PROVE  /\ cbf \in Block /\ bf[cbf].size \in Nat /\ size \in Nat
           /\ bf'[cbf].size = bf[cbf].size + size
           /\ Len(data'[cbf]) = bf[cbf].size + size
           /\ \A i \in 1..Len(data'[cbf]) :
                 data'[cbf][i] = IF i \in 1..Len(data[cbf]) THEN data[cbf][i] ELSE Hole
           /\ \A b \in Block \ {cbf} : data'[b] = data[b] /\ bf'[b] = bf[b]
<1>1. /\ StoreTypeOK /\ size \in Nat /\ cbf \in Block /\ bf[cbf].size \in Nat
  BY BlockAssumption DEF StoreIInv, StoreTypeOK, AppendExtend, MustCreate
<1>2. data' = [data EXCEPT ![cbf] = Truncate(@, bf[cbf].size + size)]
  BY DEF AppendExtend
<1>3. data'[cbf] = Truncate(data[cbf], bf[cbf].size + size) /\ bf[cbf].size + size \in Nat
  BY <1>1, <1>2 DEF StoreTypeOK
<1>4. data[cbf] \in Seq(Byte) /\ DOMAIN data[cbf] = 1..Len(data[cbf])
  BY <1>1 DEF StoreTypeOK, Byte
<1>5. Len(data'[cbf]) = bf[cbf].size + size
  BY <1>3, <1>4, TruncateLemma
<1>6. \A i \in 1..Len(data'[cbf]) :
         data'[cbf][i] = IF i \in 1..Len(data[cbf]) THEN data[cbf][i] ELSE Hole
  BY <1>3, <1>4, <1>5 DEF Truncate
<1>7. bf'[cbf].size = bf[cbf].size + size /\ \A b \in Block \ {cbf} : bf'[b] = bf[b]
  BY <1>1 DEF AppendExtend, StoreTypeOK, Handle
<1>8. \A b \in Block \ {cbf} : data'[b] = data[b]
  BY <1>1, <1>2 DEF StoreTypeOK
<1>9. QED BY <1>1, <1>5, <1>6, <1>7, <1>8

LEMMA ExtendKeepsBytes ==
    ASSUME StoreIInv, NEW w \in Writer, NEW size \in Size, AppendExtend(w, size),
           NEW g \in Extended, NEW i \in (g.off + 1)..(g.off + g.size)
    PROVE  data'[g.block][i] = data[g.block][i]
<1>1. /\ g.block \in Block /\ i \in Nat
      /\ i \in 1..bf[g.block].size /\ i \in 1..Len(data[g.block])
  BY ByteIsThere
<1>2. CASE g.block = cbf
  <2>1. i \in 1..(bf[cbf].size + size)
    <3>1. bf[cbf].size \in Nat /\ size \in Nat
      BY ExtendKeeps
    <3>2. QED BY <1>1, <1>2, <3>1
  <2>2. QED BY <1>1, <1>2, <2>1, ExtendKeeps
<1>3. CASE g.block # cbf
  BY <1>1, <1>3, ExtendKeeps
<1>4. QED BY <1>2, <1>3

LEMMA CreateKeepsBytes ==
    ASSUME StoreIInv, NEW w \in Writer, NEW size \in Size, NEW pos, NEW b \in Block,
           AppendCreate(w, size, pos, b)
    PROVE  \A c \in Block \ {b} : data'[c] = data[c]
  BY DEF AppendCreate, StoreIInv, StoreTypeOK

LEMMA BytesKeptStep ==
    StoreIInv /\ [StoreNext]_storeVars =>
        \A g \in Extended : \A i \in (g.off + 1)..(g.off + g.size) :
            data[g.block][i] # Hole => data'[g.block][i] # Hole
<1> SUFFICES ASSUME StoreIInv, [StoreNext]_storeVars,
                    NEW g \in Extended, NEW i \in (g.off + 1)..(g.off + g.size),
                    data[g.block][i] # Hole
             PROVE  data'[g.block][i] # Hole
  OBVIOUS
<1>1. ASSUME NEW w \in Writer, NEW size \in Size, AppendExtend(w, size)
      PROVE  data'[g.block][i] # Hole
  BY <1>1, ExtendKeepsBytes
<1>2. ASSUME NEW w \in Writer, NEW size \in Size, NEW pos, NEW b \in Block,
             AppendCreate(w, size, pos, b)
      PROVE  data'[g.block][i] # Hole
  <2>1. g.block \in Block \ {b}
    BY <1>2, ByteIsThere DEF AppendCreate
  <2>2. QED BY <1>2, <2>1, CreateKeepsBytes
<1>3. ASSUME NEW h \in grants, NEW done \in 0..h.size, NEW n \in 1..(h.size - done),
             Write(h, done, n)
      PROVE  data'[g.block][i] # Hole
  <2>1. h.who # Hole /\ h.size \in Nat
    BY BlockAssumption DEF StoreIInv, StoreTypeOK, Grant
  <2>2. done \in Nat /\ n \in Nat
    BY <2>1
  <2>3. QED BY <1>3, <2>1, <2>2, WriteKeeps DEF Write
<1>4. CASE UNCHANGED data
  BY <1>4
<1>5. QED BY <1>1, <1>2, <1>3, <1>4 DEF StoreNext, AppendCreateFail, Close, storeVars

-----------------------------------------------------------------------------
(* Whose bytes they are: one lemma per kind of step.                       *)

LEMMA CreateOwned ==
    ASSUME StoreIInv, BytesIInv, NEW w \in Writer, NEW size \in Size, NEW pos, NEW b \in Block,
           AppendCreate(w, size, pos, b)
    PROVE  BytesIInv'
<1>1. /\ StoreTypeOK /\ size \in Nat
      /\ grants \subseteq grants' /\ Extended' = Extended
  BY BlockAssumption DEF StoreIInv, AppendCreate, Extended
<1>2. \A c \in Block : Creators(c) \subseteq Creators(c)'
  BY <1>1 DEF Creators
<1>3. \A c \in Block \ {b} : data'[c] = data[c] /\ bf'[c].size = bf[c].size
  BY <1>1, CreateKeepsBytes, RetiredType DEF AppendCreate, StoreTypeOK
<1>4. Len(data'[b]) = size /\ \A i \in 1..size : data'[b][i] = Hole
  <2>1. data'[b] = Truncate(<<>>, size)
    BY <1>1 DEF AppendCreate, StoreTypeOK
  <2>2. <<>> \in Seq(Byte)
    OBVIOUS
  <2>3. Len(Truncate(<<>>, size)) = size
    BY <1>1, <2>2, TruncateLemma
  <2>4. \A i \in 1..size : Truncate(<<>>, size)[i] = Hole
    BY DEF Truncate
  <2>5. QED BY <2>1, <2>3, <2>4
<1>5. \A g \in Extended : g.block \in Block \ {b}
  BY <1>1 DEF StoreTypeOK, Extended, AppendCreate
<1>6. ExtendedBytesOwned'
  <2>1. ASSUME NEW g \in Extended, NEW i \in (g.off + 1)..(g.off + g.size)
        PROVE  data'[g.block][i] \in {g.who, Hole} \cup Creators(g.block)'
    <3>1. data[g.block][i] \in {g.who, Hole} \cup Creators(g.block)
      BY DEF BytesIInv, ExtendedBytesOwned
    <3>2. data'[g.block] = data[g.block] /\ Creators(g.block) \subseteq Creators(g.block)'
      BY <1>2, <1>3, <1>5
    <3>3. QED BY <3>1, <3>2
  <2>2. QED BY <1>1, <2>1 DEF ExtendedBytesOwned, Creators
<1>7. BeyondIsCreators'
  <2>1. ASSUME NEW c \in Block, NEW i \in 1..Len(data'[c]), i > bf'[c].size
        PROVE  data'[c][i] \in {Hole} \cup Creators(c)'
    <3>1. CASE c = b
      BY <1>4, <2>1, <3>1
    <3>2. CASE c # b
      <4>1. data[c][i] \in {Hole} \cup Creators(c)
        BY <1>3, <2>1, <3>2 DEF BytesIInv, BeyondIsCreators
      <4>2. QED BY <1>2, <1>3, <3>2, <4>1
    <3>3. QED BY <3>1, <3>2
  <2>2. QED BY <2>1 DEF BeyondIsCreators, Creators
<1>8. QED BY <1>6, <1>7 DEF BytesIInv

LEMMA ExtendOwned ==
    ASSUME StoreIInv, BytesIInv, NEW w \in Writer, NEW size \in Size, AppendExtend(w, size)
    PROVE  BytesIInv'
<1> DEFINE new == [who |-> w, block |-> cbf, off |-> bf[cbf].size,
                   size |-> size, how |-> "extend"]
<1>1. Extended' = Extended \cup {new}
  BY DEF AppendExtend, Extended
<1>2. cbf' = cbf /\ \A b \in Block : Creators(b)' = Creators(b)
  BY DEF AppendExtend, Creators
<1>3. cbf \in Block /\ bf[cbf].size \in Nat /\ size \in Nat
  BY ExtendKeeps
<1>4. ExtendedBytesOwned'
  <2>1. ASSUME NEW g \in Extended, NEW i \in (g.off + 1)..(g.off + g.size)
        PROVE  data'[g.block][i] \in {g.who, Hole} \cup Creators(g.block)
    <3>1. data[g.block][i] \in {g.who, Hole} \cup Creators(g.block)
      BY DEF BytesIInv, ExtendedBytesOwned
    <3>2. data'[g.block][i] = data[g.block][i]
      BY ExtendKeepsBytes
    <3>3. QED BY <3>1, <3>2
  <2>2. ASSUME NEW i \in (bf[cbf].size + 1)..(bf[cbf].size + size)
        PROVE  data'[cbf][i] \in {Hole} \cup Creators(cbf)
    <3>1. i \in 1..(bf[cbf].size + size) /\ i > bf[cbf].size
      BY <1>3
    <3>2. /\ i \in 1..Len(data[cbf]) => data'[cbf][i] = data[cbf][i]
          /\ i \notin 1..Len(data[cbf]) => data'[cbf][i] = Hole
      BY <3>1, ExtendKeeps
    <3>3. i \in 1..Len(data[cbf]) => data[cbf][i] \in {Hole} \cup Creators(cbf)
      BY <1>3, <3>1 DEF BytesIInv, BeyondIsCreators
    <3>4. QED BY <3>2, <3>3
  <2>3. ASSUME NEW g \in Extended', NEW i \in (g.off + 1)..(g.off + g.size)
        PROVE  data'[g.block][i] \in {g.who, Hole} \cup Creators(g.block)
    <3>1. CASE g \in Extended
      BY <2>1, <3>1
    <3>2. CASE g = new
      <4>1. g.block = cbf /\ g.off = bf[cbf].size /\ g.size = size
        BY <3>2
      <4>2. QED BY <2>2, <4>1
    <3>3. QED BY <1>1, <3>1, <3>2
  <2>4. \A g \in Extended' : g.block \in Block
    BY <1>1, <1>3 DEF Extended, StoreIInv, StoreTypeOK
  <2>5. \A g \in Extended' : Creators(g.block)' = Creators(g.block)
    BY <1>2, <2>4
  <2>6. QED BY <2>3, <2>5 DEF ExtendedBytesOwned, Creators
<1>5. BeyondIsCreators'
  <2>1. ASSUME NEW b \in Block, NEW i \in 1..Len(data'[b]), i > bf'[b].size
        PROVE  data'[b][i] \in {Hole} \cup Creators(b)'
    <3>1. CASE b = cbf
      <4>1. bf'[cbf].size = bf[cbf].size + size /\ Len(data'[cbf]) = bf[cbf].size + size
        BY ExtendKeeps
      <4>2. QED BY <1>3, <2>1, <3>1, <4>1
    <3>2. CASE b # cbf
      <4>1. data'[b] = data[b] /\ bf'[b] = bf[b]
        BY <3>2, ExtendKeeps
      <4>2. QED BY <1>2, <2>1, <4>1 DEF BytesIInv, BeyondIsCreators
    <3>3. QED BY <3>1, <3>2
  <2>2. QED BY <2>1 DEF BeyondIsCreators, Creators
<1>6. QED BY <1>4, <1>5 DEF BytesIInv

LEMMA WriteOwned ==
    ASSUME StoreIInv, BytesIInv, NEW h \in grants, NEW done \in Nat, NEW n \in Nat,
           WriteBytes(h, done, n), UNCHANGED grants,
           \A b \in Block : bf'[b].size = bf[b].size
    PROVE  BytesIInv'
<1>1. /\ UNCHANGED grants /\ Extended' = Extended
      /\ \A b \in Block : bf'[b].size = bf[b].size
  BY DEF Extended
<1>2. \A b \in Block : Creators(b)' = Creators(b)
  BY <1>1 DEF Creators
<1>3. /\ h \in Extended \/ h.who \in Creators(h.block)
      /\ h.block \in Block /\ h.off \in Int /\ h.size \in Nat
  BY BlockAssumption DEF StoreIInv, StoreTypeOK, Grant, Extended, Creators
<1>4. ExtendedBytesOwned'
  <2>1. ASSUME NEW g \in Extended, NEW i \in (g.off + 1)..(g.off + g.size)
        PROVE  data'[g.block][i] \in {g.who, Hole} \cup Creators(g.block)'
    <3>1. data[g.block][i] \in {g.who, Hole} \cup Creators(g.block)
      BY DEF BytesIInv, ExtendedBytesOwned
    <3>2. /\ g.block \in Block /\ g.off \in Nat /\ g.size \in Nat /\ i \in Nat
      BY ByteIsThere
    <3>3. CASE data'[g.block][i] = data[g.block][i]
      BY <1>2, <3>1, <3>2, <3>3
    <3>4. CASE /\ data'[g.block][i] = h.who /\ g.block = h.block
               /\ i > h.off /\ i <= h.off + h.size
      <4>1. CASE h \in Extended
        <5>1. h = g
          BY <1>3, <3>2, <3>4, <4>1 DEF StoreIInv, ExtendedDisjoint
        <5>2. QED BY <3>4, <5>1
      <4>2. CASE h.who \in Creators(h.block)
        BY <1>2, <1>3, <3>4, <4>2
      <4>3. QED BY <1>3, <4>1, <4>2
    <3>5. QED BY <3>3, <3>4, WriteKeeps
  <2>2. QED BY <1>1, <2>1 DEF ExtendedBytesOwned, Creators
<1>5. BeyondIsCreators'
  <2>1. ASSUME NEW b \in Block, NEW i \in 1..Len(data'[b]), i > bf'[b].size
        PROVE  data'[b][i] \in {Hole} \cup Creators(b)'
    <3>1. i > bf[b].size /\ i \in Int /\ bf[b].size \in Nat
      BY <1>1, <2>1 DEF StoreIInv
    <3>2. CASE /\ b = h.block /\ data'[b][i] = h.who
               /\ i > h.off /\ i <= h.off + h.size
      <4>1. h \notin Extended
        <5>1. h \in Extended => h.off + h.size <= bf[h.block].size
          BY DEF StoreIInv, ExtendedInsideFile
        <5>2. QED BY <1>3, <3>1, <3>2, <5>1
      <4>2. QED BY <1>2, <1>3, <3>2, <4>1
    <3>3. CASE i \in 1..Len(data[b]) /\ data'[b][i] = data[b][i]
      BY <1>2, <3>1, <3>3 DEF BytesIInv, BeyondIsCreators
    <3>4. CASE data'[b][i] = Hole
      BY <3>4
    <3>5. QED BY <3>2, <3>3, <3>4, WriteBytesOf
  <2>2. QED BY <2>1 DEF BeyondIsCreators, Creators
<1>6. QED BY <1>4, <1>5 DEF BytesIInv

LEMMA BytesStep == StoreIInv /\ BytesIInv /\ [StoreNext]_storeVars => BytesIInv'
<1> SUFFICES ASSUME StoreIInv, BytesIInv, [StoreNext]_storeVars
             PROVE  BytesIInv'
  OBVIOUS
<1>1. CASE UNCHANGED <<data, grants>> /\ \A b \in Block : bf'[b].size = bf[b].size
  <2>1. Extended' = Extended /\ \A b : Creators(b)' = Creators(b)
    BY <1>1 DEF Extended, Creators
  <2>2. ExtendedBytesOwned'
    BY <1>1, <2>1 DEF BytesIInv, ExtendedBytesOwned
  <2>3. BeyondIsCreators'
    BY <1>1, <2>1 DEF BytesIInv, BeyondIsCreators
  <2>4. QED BY <2>2, <2>3 DEF BytesIInv
<1>2. ASSUME NEW size \in Size, AppendCreateFail(size)
      PROVE  BytesIInv'
  BY <1>1, <1>2, RetiredType DEF AppendCreateFail, StoreIInv
<1>3. ASSUME NEW b \in Block, Close(b)
      PROVE  BytesIInv'
  BY <1>1, <1>3, CloseHandles DEF Close, StoreIInv
<1>4. ASSUME NEW h \in grants, NEW done \in 0..h.size, NEW n \in 1..(h.size - done),
             Write(h, done, n)
      PROVE  BytesIInv'
  <2>1. h.size \in Nat
    BY BlockAssumption DEF StoreIInv, StoreTypeOK, Grant
  <2>2. done \in Nat /\ n \in Nat
    BY <2>1
  <2>3. QED BY <1>4, <2>2, WriteOwned DEF Write
<1>5. CASE UNCHANGED storeVars
  BY <1>1, <1>5 DEF storeVars
<1>6. QED
  BY <1>2, <1>3, <1>4, <1>5, CreateOwned, ExtendOwned DEF StoreNext

(* A handler that flushes and closes in one call keeps what the two keep   *)
(* one after the other.                                                    *)
LEMMA FlushInv ==
    ASSUME StoreIInv, BytesIInv, NEW h \in grants, NEW done \in Nat, NEW n \in Nat,
           WriteBytes(h, done, n), CloseHandle(h.block) \/ UNCHANGED <<bf, live>>,
           UNCHANGED <<files, cbf, grants>>
    PROVE  StoreIInv' /\ BytesIInv'
<1>1. StoreTypeOK /\ h.block \in Block
  BY DEF StoreIInv, StoreTypeOK, Grant
<1>2. /\ bf' \in [Block -> Handle] /\ live' \subseteq live
      /\ \A c \in Block : bf'[c].size = bf[c].size
      /\ \A c \in Block \ files : bf'[c] = NoHandle
  BY <1>1, CloseHandles DEF StoreTypeOK
<1>3. data' \in [Block -> Seq(Writer \cup {Hole})] /\ \A b \in Block : Len(data'[b]) >= Len(data[b])
  BY <1>1, WriteLonger
<1>4. StoreTypeOK'
  BY <1>1, <1>2, <1>3 DEF StoreTypeOK
<1>5. \A b \in files' : bf'[b].size <= Len(data'[b])
  <2>1. \A b \in files : b \in Block /\ bf[b].size <= Len(data[b])
    BY <1>1 DEF StoreIInv, ExtendedInsideFile, StoreTypeOK
  <2>2. \A b \in Block : Len(data'[b]) \in Nat /\ Len(data[b]) \in Nat /\ bf[b].size \in Nat
    BY <1>1, <1>3 DEF StoreIInv, StoreTypeOK
  <2>3. QED BY <1>2, <1>3, <2>1, <2>2
<1>6. QED BY <1>2, <1>4, <1>5, QuietInv, WriteOwned

-----------------------------------------------------------------------------
(* An upload behind the recorded size is an allocation, every other step   *)
(* allocates nothing.                                                      *)

Extents == {[block |-> g.block, off |-> g.off, size |-> g.size] : g \in Extended}

LEMMA ExtendAllocates ==
    ASSUME StoreIInv, NEW w \in Writer, NEW size \in Size, AppendExtend(w, size)
    PROVE  \E e \in Alloc!Extent :
              /\ e.off + e.size < MaxBlockSize
              /\ \A f \in Extents : ~Alloc!Overlap(e, f)
              /\ Extents' = Extents \cup {e}
<1> DEFINE new == [who |-> w, block |-> cbf, off |-> bf[cbf].size,
                   size |-> size, how |-> "extend"]
           e == [block |-> cbf, off |-> bf[cbf].size, size |-> size]
<1>1. /\ StoreTypeOK /\ size \in Nat
      /\ cbf \in Block /\ bf[cbf].size \in Nat
  BY BlockAssumption DEF StoreIInv, StoreTypeOK, AppendExtend, MustCreate
<1>2. bf[cbf].size + size < MaxBlockSize
  BY <1>1, BlockAssumption DEF AppendExtend, MustCreate, Full
<1>3. e \in Alloc!Extent
  BY <1>1, <1>2, BlockAssumption DEF Alloc!Extent
<1>4. Extended' = Extended \cup {new}
  BY DEF AppendExtend, Extended
<1>5. Extents' = Extents \cup {e}
  <2> DEFINE ext(g) == [block |-> g.block, off |-> g.off, size |-> g.size]
  <2>1. Extents = {ext(g) : g \in Extended} /\ Extents' = {ext(g) : g \in Extended'}
    BY DEF Extents
  <2>2. ext(new) = e
    OBVIOUS
  <2> HIDE DEF ext, new, e
  <2>3. QED BY <1>4, <2>1, <2>2
<1>6. ASSUME NEW g \in Extended, g.block = cbf PROVE g.off + g.size <= bf[cbf].size
  BY <1>6 DEF StoreIInv, ExtendedInsideFile
<1>7. \A g \in Extended : g.off \in Int /\ g.size \in Nat
  BY <1>1, BlockAssumption DEF Extended, StoreTypeOK, Grant
<1>8. \A f \in Extents : ~Alloc!Overlap(e, f)
  BY <1>1, <1>6, <1>7 DEF Extents, Alloc!Overlap
<1>9. QED BY <1>1, <1>2, <1>3, <1>5, <1>8

LEMMA OthersAllocateNothing ==
    ASSUME [StoreNext]_storeVars,
           ~ \E w \in Writer, size \in Size : AppendExtend(w, size)
    PROVE  Extended' = Extended
<1>1. ASSUME NEW w \in Writer, NEW size \in Size, NEW pos, NEW b,
             AppendCreate(w, size, pos, b)
      PROVE  Extended' = Extended
  BY <1>1 DEF AppendCreate, Extended
<1>2. CASE UNCHANGED grants
  BY <1>2 DEF Extended
<1>3. QED
  BY <1>1, <1>2 DEF StoreNext, AppendCreateFail, Close, Write, storeVars

LEMMA StepAllocates ==
    StoreIInv /\ [StoreNext]_storeVars => [Alloc!AllocNext]_Extents
<1> SUFFICES ASSUME StoreIInv, [StoreNext]_storeVars
             PROVE  [Alloc!AllocNext]_Extents
  OBVIOUS
<1>1. CASE \E w \in Writer, size \in Size : AppendExtend(w, size)
  <2>1. \E e \in Alloc!Extent :
           /\ e.off + e.size < MaxBlockSize
           /\ \A f \in Extents : ~Alloc!Overlap(e, f)
           /\ Extents' = Extents \cup {e}
    BY <1>1, ExtendAllocates
  <2>2. QED BY <2>1 DEF Alloc!AllocNext, Alloc!Allocate, Extents
<1>2. CASE ~ \E w \in Writer, size \in Size : AppendExtend(w, size)
  BY <1>2, OthersAllocateNothing DEF Extents
<1>3. QED BY <1>1, <1>2

(* A byte of an upload behind the recorded size was written by it, by the  *)
(* upload that created the block, or by nobody (write and lseek in         *)
(* process.c, ftruncate in block_file_append).                             *)
THEOREM BytesAreOwned == StoreSpec => []ExtendedBytesOwned
<1>1. StoreInit => BytesIInv
  BY DEF StoreInit, BytesIInv, ExtendedBytesOwned, BeyondIsCreators, Extended
<1>2. BytesIInv => ExtendedBytesOwned
  BY DEF BytesIInv
<1>3. QED
  BY <1>1, <1>2, BytesStep, SpecIInv, PTL DEF StoreSpec

(* A byte that an upload behind the recorded size has written stays        *)
(* written: no ftruncate of a later block_file_append cuts it off.         *)
THEOREM BytesStayWritten == StoreSpec => ExtendedBytesKept
<1>1. StoreIInv /\ [StoreNext]_storeVars =>
        [\A g \in Extended : \A i \in (g.off + 1)..(g.off + g.size) :
            data[g.block][i] # Hole => data[g.block]'[i] # Hole]_storeVars
  BY BytesKeptStep
<1>2. QED
  BY <1>1, SpecIInv, PTL DEF StoreSpec, ExtendedBytesKept

(* Towards the uploads it places behind the recorded size block_file_append *)
(* is an allocator of extents: it gives each one of its own, below the     *)
(* limit, and never takes one back.                                        *)
THEOREM StoreImplementsAllocator == StoreSpec => ExtendRefinesAllocator
<1>1. StoreInit => Alloc!AllocInit
  BY DEF StoreInit, Alloc!AllocInit, Extended
<1>2. StoreIInv /\ [StoreNext]_storeVars
        => [Alloc!AllocNext]_{[block |-> g.block, off |-> g.off, size |-> g.size] : g \in Extended}
  BY StepAllocates DEF Extents
<1>3. QED
  BY <1>1, <1>2, SpecIInv, PTL DEF StoreSpec, ExtendRefinesAllocator, Alloc!AllocSpec
=============================================================================
