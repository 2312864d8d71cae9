------------------------------ MODULE BlockStore ------------------------------
(***************************************************************************)
(* The block files of one data server process (data_server/data_file.c).   *)
(*                                                                         *)
(* Uploads are packed into block files.  The file that new uploads are     *)
(* appended to is cbf; when an upload would take it to max_block_size the  *)
(* file is retired (state 2) and a new one is created.  The store keeps in *)
(* its handle the size it believes the file has and the number of uploads  *)
(* that use it.  The contents of a file are a sequence with one element    *)
(* per byte: the upload that wrote the byte, or Hole.                      *)
(*                                                                         *)
(* grants is a history variable: one record per successful call of         *)
(* block_file_append, with the offset the caller ends up using.            *)
(***************************************************************************)
EXTENDS Integers, Sequences

CONSTANTS
    Block,          \* names open(O_EXCL|O_CREAT) can pick
    NoBlock,        \* cbf == NULL
    Writer,         \* uploads
    Hole,           \* a byte ftruncate or lseek made, that nobody wrote
    Size,           \* sizes clients declare
    MaxBlockSize,   \* ds_conf.max_block_size
    OverClose       \* bound: how far below zero num may be driven

ASSUME BlockAssumption ==
    /\ NoBlock \notin Block
    /\ Hole \notin Writer
    /\ Size \subseteq Nat
    /\ MaxBlockSize \in Nat
    /\ OverClose \in Nat

VARIABLES
    files,      \* block files that exist on disk
    data,       \* their contents
    bf,         \* block_file_t of each file created by this process
    live,       \* files whose block_file_t is allocated
    cbf,        \* the file new uploads are appended to
    grants      \* history: what block_file_append handed out

storeVars == <<files, data, bf, live, cbf, grants>>

Handle == [state : 0..2, num : Int, size : Int]

NoHandle == [state |-> 0, num |-> 0, size |-> 0]

\* The handle block_file_create leaves behind: size is never assigned there.
Fresh == [state |-> 1, num |-> 1, size |-> 0]

Grant == [who : Writer, block : Block, off : Int, size : Size,
          how : {"create", "extend"}]

-----------------------------------------------------------------------------
(* File contents.                                                          *)
\* Variant: the file is emptied first, as O_TRUNC would.
TruncateAll(d, n) == [i \in 1..n |-> Hole]

Truncate(d, n) == [i \in 1..n |-> IF i \in DOMAIN d THEN d[i] ELSE Hole]

\* Variant: no lseek, the bytes go to the end of the file.
WriteAtEnd(d, off, n, w) == d \o [i \in 1..n |-> w]

\* lseek(off) followed by write of n bytes: extends the file when it must, and
\* not for a write of nothing.
WriteAt(d, off, n, w) ==
    LET end == IF n = 0 \/ Len(d) > off + n THEN Len(d) ELSE off + n
    IN  [i \in 1..end |-> IF i \in (off + 1)..(off + n) THEN w
                          ELSE IF i \in DOMAIN d THEN d[i] ELSE Hole]

-----------------------------------------------------------------------------
(* block_file_append.  Which branch is taken depends on cbf; a branch that *)
(* creates a file leaves the caller's *pos as it was.                      *)

\* Variant: the limit may be reached.
FullLate(size) == cbf # NoBlock /\ bf[cbf].size + size > MaxBlockSize

Full(size) == cbf # NoBlock /\ bf[cbf].size + size >= MaxBlockSize

MustCreate(size) == cbf # NoBlock => Full(size)

\* A use of a freed handle is undefined: no step is modelled after it.
CbfDefined == cbf # NoBlock => cbf \in live

Retired(size) == IF Full(size) THEN [bf EXCEPT ![cbf].state = 2] ELSE bf

AppendCreate(w, size, pos, b) ==
    /\ CbfDefined /\ MustCreate(size)
    /\ b \in Block \ files
    /\ files' = files \cup {b}
    /\ data' = [data EXCEPT ![b] = Truncate(<<>>, size)]
    /\ bf' = [Retired(size) EXCEPT ![b] = Fresh]
    /\ live' = live \cup {b}
    /\ cbf' = b
    /\ grants' = grants \cup
          {[who |-> w, block |-> b, off |-> pos, size |-> size, how |-> "create"]}

\* The new file cannot be opened, or ftruncate on it fails and it stays on
\* disk unused.  The old file has been retired all the same, and stays cbf.
AppendCreateFail(size) ==
    /\ CbfDefined /\ MustCreate(size)
    /\ \/ UNCHANGED files
       \/ \E b \in Block \ files : files' = files \cup {b}
    /\ bf' = Retired(size)
    /\ UNCHANGED <<data, live, cbf, grants>>

\* Variant: the recorded size is not moved on.
AppendExtendStale(w, size) ==
    /\ CbfDefined /\ ~MustCreate(size)
    /\ data' = [data EXCEPT ![cbf] = Truncate(@, bf[cbf].size + size)]
    /\ bf' = [bf EXCEPT ![cbf].num = @ + 1]
    /\ grants' = grants \cup
          {[who |-> w, block |-> cbf, off |-> bf[cbf].size, size |-> size,
            how |-> "extend"]}
    /\ UNCHANGED <<files, live, cbf>>

\* Variant: the new use of the file is not counted.
AppendExtendUncounted(w, size) ==
    /\ CbfDefined /\ ~MustCreate(size)
    /\ LET end == bf[cbf].size + size IN
       /\ data' = [data EXCEPT ![cbf] = Truncate(@, end)]
       /\ bf' = [bf EXCEPT ![cbf].size = end]
    /\ grants' = grants \cup
          {[who |-> w, block |-> cbf, off |-> bf[cbf].size, size |-> size,
            how |-> "extend"]}
    /\ UNCHANGED <<files, live, cbf>>

AppendExtend(w, size) ==
    /\ CbfDefined /\ ~MustCreate(size)
    /\ LET end == bf[cbf].size + size IN
       /\ data' = [data EXCEPT ![cbf] = Truncate(@, end)]
       /\ bf' = [bf EXCEPT ![cbf].size = end, ![cbf].num = @ + 1]
    /\ grants' = grants \cup
          {[who |-> w, block |-> cbf, off |-> bf[cbf].size, size |-> size,
            how |-> "extend"]}
    /\ UNCHANGED <<files, live, cbf>>

\* ftruncate fails: nothing has changed yet.
AppendExtendFail(size) ==
    /\ CbfDefined /\ ~MustCreate(size)
    /\ UNCHANGED storeVars

-----------------------------------------------------------------------------
(* block_file_close.  Its status argument only chooses a log line, and the *)
(* handle is freed only by a call that finds num already at zero.          *)

CloseHandle(b) ==
    /\ b \in live
    /\ IF bf[b].num = 0 /\ bf[b].state = 2
       THEN live' = live \ {b} /\ UNCHANGED bf
       ELSE bf' = [bf EXCEPT ![b].num = @ - 1] /\ UNCHANGED live

Close(b) == CloseHandle(b) /\ UNCHANGED <<files, data, cbf, grants>>

\* A flush of an upload: the n bytes from position done of its file.
WriteBytes(g, done, n) ==
    /\ g.block \in live
    /\ done + n <= g.size
    /\ data' = [data EXCEPT ![g.block] = WriteAt(@, g.off + done, n, g.who)]

Write(g, done, n) == WriteBytes(g, done, n) /\ UNCHANGED <<files, bf, live, cbf, grants>>

-----------------------------------------------------------------------------
StoreInit ==
    /\ files = {}
    /\ data = [b \in Block |-> <<>>]
    /\ bf = [b \in Block |-> NoHandle]
    /\ live = {}
    /\ cbf = NoBlock
    /\ grants = {}

\* Offsets a session may still hold from an earlier request.
StaleOffset == {0} \cup {g.off : g \in grants}

StoreNext ==
    \/ \E w \in Writer, size \in Size :
          \/ \E pos \in StaleOffset, b \in Block : AppendCreate(w, size, pos, b)
          \/ AppendExtend(w, size)
    \/ \E size \in Size : AppendCreateFail(size)
    \/ \E b \in Block : bf[b].num > -OverClose /\ Close(b)
    \/ \E g \in grants : \E done \in 0..g.size : \E n \in 1..(g.size - done) :
          Write(g, done, n)

StoreSpec == StoreInit /\ [][StoreNext]_storeVars

-----------------------------------------------------------------------------
(* Properties.                                                             *)

\* Type invariant of the store: cbf and every grant name a file that exists,
\* and no file that does not exist has a handle.
StoreTypeOK ==
    /\ files \subseteq Block
    /\ data \in [Block -> Seq(Writer \cup {Hole})]
    /\ bf \in [Block -> Handle]
    /\ \A b \in Block \ files : bf[b] = NoHandle
    /\ live \subseteq files
    /\ cbf \in files \cup {NoBlock}
    /\ grants \subseteq Grant
    /\ \A g \in grants : g.block \in files

Extended == {g \in grants : g.how = "extend"}

\* Two uploads that block_file_append placed behind the recorded size of a
\* block never share a byte of it, however appends, closes, failures and
\* retirements interleave.
ExtendedDisjoint ==
    \A g, h \in Extended :
        g # h /\ g.block = h.block =>
            g.off + g.size <= h.off \/ h.off + h.size <= g.off

\* Every such upload lies inside the recorded size, and the recorded size
\* inside the file: what ftruncate does for a later upload never cuts bytes
\* off an earlier one, and no file is recorded as reaching the limit.
ExtendedInsideFile ==
    /\ \A g \in Extended : g.off >= 0 /\ g.off + g.size <= bf[g.block].size
    /\ \A b \in files : bf[b].size <= Len(data[b])
    /\ \A b \in Block : bf[b].size > 0 => bf[b].size < MaxBlockSize

\* The uploads whose block_file_append created a block (one, as names are new).
Creators(b) == {h.who : h \in {g \in grants : g.how = "create" /\ g.block = b}}

\* The bytes of such an upload are its own, except where the upload that
\* created the block, which starts at the same offset 0, has written.
ExtendedBytesOwned ==
    \A g \in Extended : \A i \in (g.off + 1)..(g.off + g.size) :
        data[g.block][i] \in {g.who, Hole} \cup Creators(g.block)

\* A byte that such an upload has written is never lost again: no later call
\* truncates it away (data_file.c:328).
ExtendedBytesKept ==
    [][\A g \in Extended : \A i \in (g.off + 1)..(g.off + g.size) :
          data[g.block][i] # Hole => data[g.block]'[i] # Hole]_storeVars

Alloc == INSTANCE ExtentAllocator WITH
    Limit <- MaxBlockSize,
    extents <- {[block |-> g.block, off |-> g.off, size |-> g.size] : g \in Extended}

\* The uploads placed behind the recorded size are served as the abstract
\* allocator promises (the uploads that create a block are not).
ExtendRefinesAllocator == Alloc!AllocSpec
=============================================================================
