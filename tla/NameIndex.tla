------------------------------ MODULE NameIndex ------------------------------
(***************************************************************************)
(* The index of one name server: fblock_mem.c over hashdb.c.               *)
(*                                                                         *)
(* The index is a hash table in memory.  hashdb_insert and hashdb_delete   *)
(* append a record to a binlog before the client is answered, and          *)
(* hashdb_init replays the binlog when the process starts.  fblock_ref_inc *)
(* and fblock_ref_dec change the reference count through a pointer into    *)
(* the table, past the log.  The buckets and their chains are abstracted:  *)
(* the table is a function from names to entries.                          *)
(***************************************************************************)
EXTENDS Integers, Sequences, SequencesExt

CONSTANTS
    Key,        \* names
    Loc,        \* where a file is: server, block file, offset and size
    None,       \* no entry, or no location
    MaxRef,     \* bound: reference count
    MaxLog,     \* bound: records in the log
    FaultSets   \* which of FaultKind happen in one behaviour

\* torn: a write to the log is cut short; delete: references are dropped.
FaultKind == {"torn", "delete"}

ASSUME IndexAssumption ==
    /\ None \notin Loc
    /\ MaxRef \in Nat /\ MaxLog \in Nat
    /\ FaultSets \subseteq SUBSET FaultKind

VARIABLES
    mem,        \* the table: Key -> Entry or NoEntry
    log,        \* the binlog on disk
    proc,       \* the process: up, down, or unable to start
    faults      \* the kinds of fault of this behaviour

vars == <<mem, log, proc, faults>>

\* fblock_mem_t; NoEntry stands for a name that is not in the table.
Entry == [loc : Loc, ref : 1..MaxRef]
NoEntry == [loc |-> None, ref |-> 0]

Empty == [k \in Key |-> NoEntry]

\* The log holds records [type, key, val], hashdb_sec_t with key and value, where
\* vlen is 0 for NoEntry, and what is left of a write that was cut short within
\* the header, and behind it.
Fragment == {[type |-> t, key |-> k, val |-> NoEntry] : t \in {"head", "body"}, k \in Key}

Intact(r) == r.type \notin {"head", "body"}

Has(k) == mem[k] # NoEntry

-----------------------------------------------------------------------------
(* hashdb_init.                                                            *)

\* Replaying one record.  An insert without a value is refused, an insert of
\* a name that is there changes nothing.
Replayed(m, r) ==
    CASE r.type = "add" /\ r.val # NoEntry /\ m[r.key] = NoEntry -> [m EXCEPT ![r.key] = r.val]
      [] r.type = "update" /\ r.val # NoEntry /\ m[r.key] # NoEntry -> [m EXCEPT ![r.key] = r.val]
      [] r.type = "delete" -> [m EXCEPT ![r.key] = NoEntry]
      [] OTHER -> m

\* Variant: the last record is taken for one that was cut short.
ReadableShort(s) == IF s = <<>> THEN s ELSE SubSeq(s, 1, Len(s) - 1)

\* The records before the first one that was cut short.
Readable(s) ==
    LET cut == {i \in DOMAIN s : ~Intact(s[i])}
    IN  IF cut = {} THEN s ELSE SubSeq(s, 1, (CHOOSE i \in cut : \A j \in cut : i <= j) - 1)

Replay(s) == FoldLeft(Replayed, Empty, Readable(s))

\* What follows a header that was cut short is taken for the rest of it: the
\* bytes then read as a header ask for a key that may not be there.
Unreadable(s) ==
    LET n == Len(Readable(s)) + 1
    IN  n \in DOMAIN s /\ (s[n].type = "body" \/ n < Len(s))

Start ==
    /\ proc = "down"
    /\ \/ /\ ~(Unreadable(log) /\ log[Len(Readable(log)) + 1].type = "body")
          /\ proc' = "up"
          /\ mem' = Replay(log)
       \/ /\ Unreadable(log)
          /\ proc' = "failed"
          /\ UNCHANGED mem
    /\ UNCHANGED <<log, faults>>

-----------------------------------------------------------------------------
(* hashdb_append_binlog.  A write that fails half way ends the process,    *)
(* and so may a crash; either leaves a fragment.                           *)

Logged(r) ==
    /\ Len(log) < MaxLog
    /\ log' = Append(log, r)

CutShort(k) ==
    /\ "torn" \in faults
    /\ proc = "up"
    /\ Len(log) < MaxLog
    /\ \E r \in Fragment : r.key = k /\ log' = Append(log, r)
    /\ proc' = "down"
    /\ UNCHANGED <<mem, faults>>

-----------------------------------------------------------------------------
(* fblock_mem.c.                                                           *)

RefInc(k) ==
    /\ mem[k].ref < MaxRef
    /\ mem' = [mem EXCEPT ![k].ref = @ + 1]
    /\ UNCHANGED log

\* Variant: an insert that is not logged.
AddUnlogged(k, l) ==
    /\ proc = "up"
    /\ IF Has(k) THEN RefInc(k)
       ELSE mem' = [mem EXCEPT ![k] = [loc |-> l, ref |-> 1]] /\ UNCHANGED log
    /\ UNCHANGED <<proc, faults>>

\* Variant: a later registration overwrites the location.
AddOverwrites(k, l) ==
    /\ proc = "up"
    /\ Logged([type |-> "add", key |-> k, val |-> [loc |-> l, ref |-> 1]])
    /\ mem' = [mem EXCEPT ![k] = [loc |-> l, ref |-> 1]]
    /\ UNCHANGED <<proc, faults>>

\* A name that is there keeps its location and gets one more reference.
Add(k, l) ==
    /\ proc = "up"
    /\ IF Has(k) THEN RefInc(k)
       ELSE LET new == [loc |-> l, ref |-> 1] IN
            /\ Logged([type |-> "add", key |-> k, val |-> new])
            /\ mem' = [mem EXCEPT ![k] = new]
    /\ UNCHANGED <<proc, faults>>

AppendFails(k) ==
    /\ ~Has(k) \/ ("delete" \in faults /\ mem[k].ref = 1)
    /\ CutShort(k)

\* The record of a deletion has type 1, which is "add", and no value.
RefDec(k) ==
    /\ "delete" \in faults
    /\ proc = "up" /\ Has(k)
    /\ IF mem[k].ref > 1
       THEN mem' = [mem EXCEPT ![k].ref = @ - 1] /\ UNCHANGED log
       ELSE /\ mem' = [mem EXCEPT ![k] = NoEntry]
            /\ Logged([type |-> "add", key |-> k, val |-> NoEntry])
    /\ UNCHANGED <<proc, faults>>

\* fblock_mem_set leaves a name that is there alone; one that is not is
\* changed through a null pointer.
Set(k, l) ==
    /\ proc = "up"
    /\ proc' = IF Has(k) THEN "up" ELSE "down"
    /\ UNCHANGED <<mem, log, faults>>

Crash ==
    /\ proc = "up"
    /\ proc' = "down"
    /\ UNCHANGED <<mem, log, faults>>

-----------------------------------------------------------------------------
Init ==
    /\ mem = Empty
    /\ log = <<>>
    /\ proc = "down"
    /\ faults \in FaultSets

Next ==
    \/ \E k \in Key : AppendFails(k) \/ RefDec(k) \/ \E l \in Loc : Add(k, l) \/ Set(k, l)
    \/ Crash \/ Start

Spec == Init /\ [][Next]_vars

-----------------------------------------------------------------------------
(* Properties.                                                             *)

\* The index as a client sees it, or will see it after a restart.
Locations == [k \in Key |-> (IF proc = "up" THEN mem ELSE Replay(log))[k].loc]

\* A client that was given the location of a name is never given another one.
\* What has been logged is what the next start finds: no crash, wherever it
\* comes, and no restart changes where a name is.  Promised only where no
\* write is cut short and nothing is deleted.
Map == INSTANCE DurableMap WITH
    map <- IF faults = {} THEN Locations ELSE [k \in Key |-> None]
IndexIsDurable == Map!MapSpec

\* Whatever is cut short, dropped or replayed, the index never invents a
\* location: each entry is one that some client registered under that name.
EntryWasLogged ==
    proc = "up" => \A k \in Key : Has(k) =>
        \E i \in DOMAIN log :
            log[i].type = "add" /\ log[i].key = k /\ log[i].val.loc = mem[k].loc

Registrations(k) ==
    {i \in DOMAIN Readable(log) : log[i].key = k /\ log[i].val # NoEntry}

\* The registration logged first decides where a name is, over all later ones,
\* fragments and restarts: what lies before the first fragment is never lost.
FirstWins ==
    proc = "up" /\ "delete" \notin faults =>
        \A k \in Key : \A i \in Registrations(k) :
            (\A j \in Registrations(k) : i <= j) => mem[k].loc = log[i].val.loc
=============================================================================
