# A TLA+ verification of TDSS

TDSS stores many small files on a few servers. A **client** library asks the
**master server** where an upload may go, sends the file to a **data server**,
which packs it into a large block file and registers the place with the **name
server** that is responsible for the name. A download asks the name server and
then the data server. Each name server is a pair, master and slave.

This directory holds the TLA+ modules that model the program, the TLC
configurations that check them on small instances, and the theorems that TLAPS
proves for instances of every size. Paths below are relative to the
repository's `src/`, which holds the program.

## 1. Inventory

| Component | State it keeps | Operations | Talks to | Modelled |
|---|---|---|---|---|
| Data server, block files (`data_server/data_file.c`) | the current block `cbf`; per block its recorded size, its number of uses and its state | create, append, close, open for reading | called by the sessions | `BlockStore` |
| Data server, sessions and commands (`process.c`, `command.c`) | per connection `session_t`: what it does, the file it works on, the bytes done, a buffer | `file_add`, `file_get`, `status`; receive a body, send a file, reply, end | block files, name server API | `DataServer` |
| Data server, name server API (`name_server_api.c`) | per upload one connection and its parent | `ns_file_info_add` (`ns_file_info_set` has no caller) | wakes the session | `DataServer` |
| Name server, commands and sessions (`name_server/command.c`, `process.c`) | per connection `session_t` | `file_info_add`, `file_info_set`, `file_info_get`, `file_ref_inc`, `file_ref_dec`, `status` | index, synchronisation | `NameServer` |
| Name server, synchronisation (`name_server_sync.c`) | per write one connection to the slave and its parent | send, receive, finish | the slave runs the same command | `NameServer` |
| Name server, index (`fblock_mem.c`) | the table of names | add, set, get, reference counts | hashdb | `NameIndex` |
| Hash tables (`lib_mrt/hashdb.c`, `hashmap.c`, `binmap.c`) | buckets, chains, a counter; hashdb also a binlog on disk | find, insert, update, delete, grow; replay | index, configuration | `HashTable`; `NameIndex` (the log, over the table as a function) |
| Master server, polling (`master_server/server_check.c`) | two server lists, where each loop is, when its pass began | check one server, note the result, go on | `status` of every server | `MasterServer` |
| Master server, commands (`master_server/command.c`) | `work_id`, the server chosen last | `server_find`, `status` | reads the lists | `MasterServer` |
| Master server, sessions and start-up (`process.c`, `master.c`) | a session's two strings | – | event center | no: in the middle of a move to another event library |
| Configuration and location of a name (`lib_tdss/config.c`) | the server lists, read at the start | load; which server a name or a number belongs to | all | `Locate` |
| Requests (`lib_tdss/request.c`) | none | cut a line into arguments | all | `Locate` (which lines are accepted) |
| Client (`tdss_client`) | one upload or download | upload, download | all three servers | `Client` |
| Event center (`lib_mrt/event_center.c`) | connections, timers, descriptors | accept, connect, read, write, clean, close | master server, factory | `EventCenter` |
| Factory (`lib_mrt/factory.c`) | worker threads, their number, two task lists | start, push, pop, return, end | event center | `WorkerPool` |
| Memory pool (`lib_mrt/mem_pool.c`) | arenas, a list of freed blocks per class | alloc, free | all | `MemPool` |
| Timer heap (`lib_mrt/minheap.h`) | an array | push, pop, erase | event center | `MinHeap` |
| Strings, sockets, files, encodings, logging (`lib_mrt`) | none | conversions, wrappers | – | no |

**Concurrency.** Each server is one thread that runs an event loop and calls
one handler at a time, so the grain of the models is one handler call. What
interleaves is the sessions: between two handlers of one upload any other
session may append to the same block, close it or fail. Between the servers,
messages travel on connections made for a single command, so two commands can
arrive in either order. The name server pair adds crashes and restarts. Threads are in `lib_mrt` alone:
the factory's workers, with a grain of one lock, one unlocked test or one wait,
and the memory pool they allocate from.

**What is hard.** A block file is shared by all the uploads in it, through one
descriptor, one recorded size and one count of uses. A session is parked while
another server is asked. A body arrives in arbitrary pieces and leaves through
a buffer. The index must be what its log says, also when the log ends in the
middle of a record. The pair must not disagree. Polling must go on for ever
although each step is only started by the end of the one before. `hazards` in
`PROJECT.json` lists these one by one, with their lines and the properties that
answer for them.

## 2. Modules

| Module | What it is |
|---|---|
| `ExtentAllocator` | abstract: every file gets an extent of its own, for good |
| `BlockStore` | `data_file.c`; implements `ExtentAllocator` for uploads placed behind the recorded size |
| `BlockStoreProofs` | theorems about `BlockStore` |
| `DataServer` | one data server process; EXTENDS `BlockStore` |
| `DataServerProofs` | theorems about `DataServer` |
| `DurableMap` | abstract: a name keeps the first location it was given |
| `NameIndex` | `fblock_mem.c` over `hashdb.c`; implements `DurableMap` where no write is cut short |
| `NameIndexProofs` | theorems about `NameIndex` |
| `NameServer` | the pair of name servers, over two indexes as `NameIndex` has them |
| `NameServerProofs` | theorems about `NameServer` |
| `MasterServer` | polling loops and `server_find` |
| `MasterServerProofs` | theorems about `MasterServer` |
| `HashTable` | the three hash tables, cell by cell |
| `MemPool` | `M_alloc` and `M_free` |
| `MinHeap` | the heap of timers, as operators on a record |
| `TimerHeap` | `MinHeap` called in any order |
| `EventCenter` | the event loop of the master server, over `MinHeap` |
| `LibraryProofs` | theorems about `HashTable`, `MemPool`, `TimerHeap` and `EventCenter` |
| `WorkerPool` | the factory and its threads |
| `WorkerPoolProofs` | theorems about `WorkerPool` |
| `Locate` | `lib_tdss`: configuration files and look-ups, as operators |
| `Client` | `tdss_client` and what it meets at the servers; EXTENDS `Locate` |
| `ClientProofs` | theorems about `Client` |
| `MCLibrary` | `HashTable`, `MemPool`, `TimerHeap` and `EventCenter` side by side |
| `MC*` | instances for TLC: model values, symmetry, bounds |

Operators whose comment begins with *Variant* are not part of any
specification. Each is a faulty form of the definition below it (a forgotten
count, a test off by one, an answer not waited for) under which one property
fails; `mutants` in `PROJECT.json` pairs them. They document what each property
is sensitive to.

### BlockStore

`files` and `data` are the disk: the contents of a file are a sequence with one
element per byte, the upload that wrote it or `Hole`. `bf`, `live` and `cbf`
are the `block_file_t` of each block (`num`, `size`, `state`), which of them are
allocated, and the current one. `grants` records what `block_file_append` handed
out, with the offset that the caller goes on to use.

* `AppendCreate`: the current block is retired if there is one, a new one is
  created. As in the code, the handle's `size` and the caller's `*pos` are not
  assigned, so the offset is an input (`pos`): 0 in a new session, otherwise
  what an earlier request has left.
* `AppendExtend`: `ftruncate` to the new end; offset, size and count follow.
* `AppendCreateFail`, `AppendExtendFail`: what has been changed by the time
  `open` or `ftruncate` fails.
* `CloseHandle`: the count goes down, and the handle is freed by a call that
  finds it at zero already. A call on a freed handle is undefined behaviour;
  the model has no step after it.
* `WriteBytes`: seek and write of a part of an upload.

### DataServer

`sess`, `task` and `child` are `session_t`, the state the event loop is told to
wait for, and the connection to the name server made for the session; `peer`
and `rest` are the client's end. `index` stands for the name server, which keeps
the first location of a name and answers 1000 either way. There is one action
per handler and outcome: commands (`FileAdd`, `FileGet`, `OtherCommand`,
`CommandCut`), replies (`SendReply`, `PartialReply`, `ReplyToClosed`), the body
(`RecvSome`, `RecvLast`, `RecvEof`, `RecvReset`, `RecvWriteError`), the name
server (`NameServerTakes`, `Registered`, `NotRegistered`), downloads
(`SendFile`, `SendPart`, `SendPastEnd`, `SendError`) and the end of a session.
`hung` is set when a handler enters a loop that nothing can end; no handler
runs after that. `faults` is chosen at the start and says which kinds of fault
happen in a behaviour, so that properties can be stated exactly for the faults
they survive.

What the model keeps of the code although one would not expect it: `NEXT_WRITE`
is 1, which `request_process` takes for `SESSION_READ`; a handler's -1 has no
case in its caller; `request_deinit` does not close the block; descriptors of
downloads are never closed (`rfds`).

### NameIndex

`mem` is the table, `log` the binlog as a sequence of records, `proc` whether
the process runs. A write that is cut short leaves a fragment: within the header
of the record (`head`) or behind it (`body`). Replay stops at a `head` fragment
at the end of the log; behind a `body` fragment, or when more follows, the bytes
are taken for something else. The model lets such a log be refused; and when
bytes that follow a cut header are misread, lets the start succeed with what
came before, the other outcome the code has. Deletions are logged with the type
of an addition, as at `hashdb.c:446`. References can be dropped in `NameIndex`
although no command reaches `fblock_ref_dec` at present, because its request is
never parsed.

`fblock_mem_init` calls `hashdb_init` with two of its three arguments; the third,
a callback for loaded entries, is taken to be absent.

### NameServer

`index` and `refs` per server, `sess` per client of the master, `sync` the
connection to the slave made for its command, `stray` the commands on their way
on connections that nobody listens to any more. A master applies a command
before it forwards it, and nothing is undone. `Stopped` ends a process: its
connections break, commands already sent may still arrive. `fblock_mem_set` ends
the process for a name it does not know, which is why `FileInfoSet` and
`SlaveBreaks` lead there. A restart finds every location again and counts of 1.
Commands are numbered in the model, so that two adds alike are two, and `added`
remembers how many the master was given for each name: an add may count nowhere,
on one server or on both, and `CountedOnce` says that it never counts twice on one.
A count of 0 stands for a name the table does not hold.

### MasterServer

`id`, `conn` and `begun` are the position of each loop, what it waits for, and
whether its pass began in the current second (the clock is only ever compared
for equality with `start`, so that one bit is exact). `info` is what is kept
about each server; disk and inode numbers are reduced to the size of the
largest file they leave room for. `asked` is the server that the open
connection goes to, `last` how the last check of each server went: neither is in
the program, they are what the properties compare its lists with. A failed check
of a name server is marked at `id["data"]`, as at `server_check.c:250`; when the
name server list is shorter, the write may hit anything (`broken`) or nothing.
`Chosen` is the search of `server_find`: the first server that fits, from the
one after `work_id`. The reply to the client is left out: at this commit it is
composed and not sent.

### HashTable

`tab` is the table with its cells and their links, `live` the cells that are
allocated; a chain is the one sequence of different cells that the links make
from a bucket to a null (`ChainFrom`). `expected` is a reference: what was entered for each key, the last one
first. The three files are one algorithm with different tests: `hashdb` refuses a
key that is there, grows when full and counts in 16 bits (`UsedMod`); `hashmap`
grows beyond 0.72 of its size; `binmap` grows when full. A cell that becomes the
head of a chain keeps its own `prev`, as in the code; growth walks the old chains
and links every cell anew, which turns chains round. `broken` is set when a
deletion trusts such a link and frees a cell that a chain still holds.

### MemPool

`uses` says which classes each thread allocates from, chosen at the start: one
thread alone, as in the servers, or all threads one class, the two ways of using
the pool that its locks allow. `Carve` is the part of `block_alloc` up to the
block, `Carved` the rest, which looks at the master arena again: between the two
other threads run.

### MinHeap, EventCenter

The heap is modelled as it is written, holes and all: a loop is as many rounds
as the heap has timers, and a round in which the hole stays ends it. `EventCenter` follows one
thread round its loop (`at`): once a second `EventClean`, then what epoll
reports, then the tasks workers have returned. `mishap` is set where epoll
refuses a connection or a task comes back for a connection that is closed: from
then on the code closes what is not its own, and nothing is promised.

### WorkerPool

`starter`, `master` and `pc` are the places of `factory_start`, of the master
thread and of each worker. `worker_create` polls the state of the thread it has
made without the worker's lock, the master keeps `factory.mtx` meanwhile, a worker
counts under the lock and decides without. `exited` is `M_free` on the record of
the master thread, which the pool never gave and which ends the program, or does
not: it reads what lies before that record.

### Locate, Client

A configuration file is a record with the servers it lists; every program loads
its own. `Locate` keeps what the look-ups do at their limits: the position behind
the last data server is not refused (`Nowhere`), a program that no list names
takes number 0, names are hashed with `& (n - 1)`, and `ns_get_server_id` reads
every name as the same number. The operator that hashes a name is external (zlib).

In `Client`, `tc` is one run of the program, `net` its connection to a data
server and the session at the other end, with the bytes under way in both
directions, `index` what the name servers hold, and `blocks` what the block files
of the data servers hold, byte for byte. An upload is placed as `block_file_append`
places it (`Located`, `BlockFileAppend`), written as `session_write_file` flushes
it (`Flushed`, `Written`), and a download is sent what the block holds at the
place of the file (`Stored`), whoever wrote it. So the collision that
`saved_complete` shows is there too, and `GetOkIsWhole` has to except the files it
befalls (`Apart`: the ones that overlap the file their block was created for, and
that file), and clients whose list numbers the data servers otherwise
(`SameNumbers`). `mode` says whether a data server goes on with its last block,
was started anew, or hangs in a handler's endless loop; `holder`, `first` and
`bytes` of a location are history. A name server registers and answers whether
it is the master or the slave of its pair by its own file (`Served`).

`block_file_open` looks for the name of a block below `data_path`, with which that
name begins already: a download is opened only where that path leads back to the
block, as with `data_path=.`, and refused elsewhere. Both are in `SendFileGet`.

A chunk that the socket takes in part counts as sent; the first read
of a download is counted and cut at a zero byte, later reads are written and not
counted; replies to an upload are not looked at. The model answers `server_find`,
although at this commit the master server composes its reply and does not send it.
An upload goes on when the name server gives no location for whatever reason.

## 3. Runs

| Run | Instance | Shows |
|---|---|---|
| `block_store` | 2 blocks, 2 writers, sizes 1–2, limit 4, 4 uploads | extents behind the recorded size are disjoint (`ExtendedDisjoint`), inside the file (`ExtendedInsideFile`), and keep their bytes (`ExtendedBytesOwned`, `ExtendedBytesKept`); refinement of `ExtentAllocator` |
| `data_server` | 2 connections, 1 name, sizes 1 and 3, buffer 2, 2 uploads; two sets of faults | `RegisteredIntact`, `AckedIsRegistered`, `BytesAccounted`, `ParkedIffAsking`, `NumIsRefCount` |
| `data_server_live` | 2 connections, 2 names, name server failing | `UploadAnswered` |
| `name_index` | 3 names, 2 locations, logs of 4 records; no fault, torn writes, deletions, both | `EntryWasLogged`, `FirstWins`; refinement of `DurableMap` |
| `name_servers` | 2 clients, 2 names, 2 locations, 3 commands, 2 crashes | `SlaveBehindMaster`, `AckedOnBoth`, `AgreeUnlessConflict`, `ParkedIffSync`, `CountedOnce`, `Forwarded` (the rest of the inductive invariant), `SyncAnswered` |
| `master_server` | 3 data servers, 2 name servers; no fault, failing data servers, failing name servers and connections | `FoundFits`, `LoadIsSpread`, `DataStateIsLast`, `EveryServerChecked` |
| `library` | tables: 4 keys, 4 entries, 2 values, sizes 3 then 5 (1 then 3 for `binmap`), counter modulo 3; pool: 2 threads, 2 classes, 2 arenas of 8 units, 4 blocks; heap: 6 timers; loop: 2 connections, 2 descriptors, timeout 2, 3 seconds | `TableAgrees`, `CellsCounted`; `BlocksApart`, `InsideArena`; `TimersInOrder`; `TimersSound`, `IdleClosed` |
| `workers` | 3 threads, 1 to 2 workers, 2 tasks | `WorkersCounted`, `PolledIsAlive`, `TaskInOnePlace`, `StaffStays`, `TaskReturned` |
| `client` | 2 runs, 2 names (1 byte, and 2 of which the last is zero), reads of 3 bytes, one data server that runs of two, blocks of less than 3 bytes, one name server that runs or does not, two client configurations | `NamedByContent`, `GetOkIsWhole`, `ClientEnds` |

**Why the bounds are enough.** A conflict in a block needs two uploads, and a
third behind them to be truncated away by; four uploads over two blocks reach
roll-over, a failed roll-over and uploads in a retired block. In `data_server`
sizes 1 and 3 with a buffer of 2 put the end of a file before a buffer boundary
and behind it; uploads placed behind the recorded size have size 1 there, so for
them the boundary rests on the theorems `RegisteredFilesIntact` and
`UploadsAddUp`, which hold for every size and buffer. Two
commands that cross need two clients; with three commands and two crashes a
conflict can happen before, between and after restarts of both servers. A log of
four records holds an entry, a fragment, and what is written behind it and again
after a restart. With three data servers and two name servers the loops get out
of step and the data loop reaches an index the name servers do not have.

A table that holds three or four entries is grown with chains of two and three
cells, which is where growth turns a chain round; the counter modulo 3 wraps in a
table of that size, as 16 bits do in one of 129793. Six timers are three levels of
the heap, so a timer taken from one side can be replaced by a smaller one of the
other. Four blocks leave an arena and fill a second one, with a class that is as
wide as what makes the pool leave it. Two connections and descriptors are one to
idle and one to take over a descriptor; three seconds are more than the timeout.
Three threads are two workers and one that is created while they leave. Two runs
of the client share an index and a block: in `client` the block takes the file it
is created for, one that overlaps it and one behind that, both files can be the
first, and a download may find any of them, in pieces or whole. Each server there
creates one block, so a roll-over and what follows a restart are left to the
theorem `DownloadsAreWhole` and to `block_store`.

Bounds, all in guards or constants: `MaxGrants`, `OverClose` (how far below zero
the count of uses is driven), `MaxReads`, `MaxRef`, `MaxLog`, `MaxOps`,
`MaxCrash`, `MaxFree`, `Cell`, `Sizes`, `Block`, `Arena`, `Conn`, `MaxTime`,
`Worker`, `Task`, `Proc`, `MaxBlocks`. Deadlock is not checked in runs that a bound stops, or
where the program may really end or hang (`workers`: `factory_deinit` wakes no
worker that waits for a task, so both wait). Symmetry is used for safety only.

**Disagreements.** Three runs find that the code does not do what its
documents say; each is an entry in `findings`:

| Run | Property | What happens |
|---|---|---|
| `saved_complete` | `SavedFileComplete` | the upload that creates a block and the next one are given the same bytes (`data_file.c:232`) |
| `replicas` | `ReplicasAgree` | two registrations of one name that cross leave master and slave with different locations for good (`name_server/command.c:66`) |
| `name_checked` | `NameServerChecked` | the master server proposes a data server for a name whose name server it knows to be offline (`lib_tdss/config.c:195`) |

The first is why the properties of `BlockStore` and `RegisteredIntact` speak of
uploads placed *behind* the recorded size: for those they hold whatever happens,
and for the upload that creates a block they do not.

Others are in the models without a run of their own, and limit what the
properties promise:

* a handler's -1 leaves the connection open and waiting, against the comment at
  `data_server/process.c:262` (`Answers` in `DataServer`);
* a download that fills the socket then waits for the client to send
  (`data_server/command.c:158`, `SendPart`);
* a log cut short behind the header of a record keeps the name server from
  starting, against the comment at `hashdb.c:644` (`Unreadable` in `NameIndex`);
* a name server that fails its check is marked at the index of the data loop
  (`server_check.c:250`, `CheckFails` in `MasterServer`);
* the client reports success for an upload that was refused
  (`tdss_client.c:317`), asks the master server twice (`:294`), and never ends a
  download by itself that does not fit into the first read (`:421`);
* `factory_deinit` does not end while a worker waits for a task, and a master
  thread that starts before `factory_start` has set the state ends at once;
* of the shipped `data_server.ini` files only the client's has the
  `max_block_size` and `data_path` that `data_server_config_load` insists on, and
  with `server_count=5` (the master's `name_server.ini`) the mask of
  `ns_get_master_addr` leaves three of the five servers unused.

## 4. Fairness

* `DataServer`: weak fairness of the handlers of each session and of its name
  server connection. The event loop returns to every ready descriptor, clients
  send what they declared (a client that does not is dropped by the loop's
  timeout), and the connection to the name server is answered, breaks or is
  dropped. `UploadAnswered` is checked without the faults that end or hang
  the session of the client itself.
* `NameServer`: weak fairness of the synchronisation connection (it is answered
  or fails), of replies, and of the master's restart. Nothing is assumed of the
  slave.
* `MasterServer`: weak fairness of each loop and of the clock.
  `EveryServerChecked` is stated for behaviours in which connections can be
  made: one that cannot ends its loop, by design of the code.

* `WorkerPool`: weak fairness of every thread, which the kernel schedules and whose
  tasks end, and strong fairness of the steps that need `factory.mtx`: the master
  thread gives it up for a second between its rounds. Nothing has to be pushed or
  ended.
* `Client`: weak fairness of the program alone, including the timeout that
  `socket_read_wait` sets with `SO_RCVTIMEO`. Nothing is assumed of the servers.

In the models of the servers no action of a client is fair except sending a body
it has declared.

## 5. Proofs

| Theorem | For every |
|---|---|
| `StoreTypeCorrect`, `ExtentsDisjoint`, `ExtentsInsideFile`, `BytesAreOwned`, `BytesStayWritten`, `StoreImplementsAllocator` (`BlockStoreProofs`) | set of blocks, of writers and of sizes, limit and `OverClose` |
| `ParkedJustWhileAsking`, `AckedNamesAreKnown`, `RegisteredFilesIntact`, `UploadsAddUp`, `NumCountsUploads`, `ServerKeepsStore`, `ServerImplementsAllocator` (`DataServerProofs`) | set of clients, names, sizes, blocks and faults, size of the buffer |
| `EntriesWereLogged`, `FirstRegistrationWins`, `IndexImplementsMap` (`NameIndexProofs`) | set of names and locations, length of the log, set of faults |
| `NameTypeCorrect`, `SlaveStaysBehind`, `AckedStaysOnBoth`, `AgreeWithoutConflict`, `ParkedOnlyForSync`, `AddsCountOnce`, `MasterDoesFirst` (`NameServerProofs`) | set of clients, names and locations, number of commands and crashes |
| `MasterTypeCorrect`, `DataStateTrue`, `FoundServersFit`, `SearchSpreads` (`MasterServerProofs`) | number of servers, room and set of faults |
| `RegisteredByContent`, `DownloadsAreWhole` (`ClientProofs`) | set of runs, names, files, configurations and data servers, number and limit of the blocks, buffers of both ends, however a file is cut into reads |
| `WorkersCountedRight`, `PolledNeverFreed`, `StaffKept`, `TaskNeverDoubled` (`WorkerPoolProofs`) | set of threads and tasks, numbers of workers |
| `NoByteTwice`, `BlocksInside`, `FreedOnce` (`LibraryProofs`) | set of threads, classes, arenas and blocks, sizes of header and arena, thresholds |
| `TimersKeepOrder` (`LibraryProofs`) | set of timers and of times |
| `TimersStaySound`, `IdleAreClosed` (`LibraryProofs`) | set of connections and of descriptors, timeout |
| `LookUpAgrees`, `EveryCellCounted` (`LibraryProofs`) | set of keys and of values, finite set of cells, list of sizes, width of the counter up to the first size |

Every safety invariant and both refinements that the runs check are theorems.
They rest on the assumptions named in the modules and
on nothing else: sentinels are outside the sets they complete and bounds are
numbers (`BlockAssumption`, `NameServerAssumption`, `DataServerAssumption`,
`IndexAssumption`, `TimerAssumption`, `EventAssumption`), each list has a server
(`MasterAssumption`), the thresholds of the pool are in their order
(`PoolAssumption`), there is at least one worker and at most as many as the most
(`WorkerAssumption`), memory holds finitely many cells and the index starts with at
least as many buckets as its counter can count (`HashAssumption`), a file is a sequence with something in it and no two files are alike
(`ClientAssumption`). TLC evaluates them in the runs.

*BlockStore.* `StoreTypeOK` is inductive. `ExtendedDisjoint` is not: a new extent
is disjoint from the old ones because they all end at or below the recorded
size, which is `ExtendedInsideFile`; and that the size is below the limit and
inside the file needs that writes and `ftruncate` never shorten a file. Two
lemmas on `Truncate` and `WriteAt` give their lengths; one lemma per part of the
invariant has one step per action. That a byte of an extent is the writer's own or
zero needs to know what lies beyond the recorded size, where the next extent will
be: only bytes of the creator of the block, which is what `BytesIInv` adds.
`StoreImplementsAllocator` maps a block to its extents: extending a block is the
allocator's step for it, every other step allocates nothing.

*NameServer.* `NameIInv` adds `Forwarded` to the properties: whatever is on its
way to the slave, waited for or stray, has been applied by the master, with a
location that was offered for its name, and a session that has been given the
slave's answer is about a name the slave knows. Crashes keep it because the
index survives and the commands only move to `stray`. `SlaveBehindMaster` and
`AckedOnBoth` are then preserved action by action. `ParkedIffSync` needs only the
types: each action that parks a session makes its connection in the same step.
`CountedOnce` needs to know what is still to come: the count of a name on the
slave and the adds of that name on their way to it are together no more than the
adds the master was given (`Counted`). The adds on their way are told apart by
their numbers, none is on its way twice (`OneWay`), and whatever the slave takes it
takes off the way in the same step, so the sum stays. A restart may only lower a
count: a known name has been counted once at least.

*MasterServer.* `MasterIInv` adds `InStep` (while a connection is open the loop
is at the server it goes to, which is what makes storing the result at the
loop's index right) and `UnknownIsEmpty` (a server never asked has no room,
which is why `server_find` need not test for it). The lemma `FailureKept` shows
that the misplaced mark of a name server never falls on a data server.
`SearchSpreads` is about one round of the search: every server has its turn in it
once and the server chosen before has the last, so a server that fits is found and
the same one twice only where no other fits. That there is a first turn that fits
is the least-number principle, from the library's theorem on `<`.

*DataServer.* `DataIInv` says of each session in which order it works: it has a
state and a next part only over a reply, its file is held while a body is
received or registered, and it is told that its name is known only after the name
server took it. One lemma per group of handlers; a step of one session leaves the
others' as they are.

The bytes need the store below. Every handler makes at most two calls of it, a
flush and a close (`StoreMoves` is what one call does), so `ServerKeepsStore`
and `ServerImplementsAllocator` follow from the theorems of `BlockStoreProofs`.
`UploadIInv` then says of each session where it is in its extent: what it has
written there, what is in its buffer and what is still to come, and that an
extent is filled when the file is given to the name server; `RegisteredFilesIntact`
and `UploadsAddUp` are its consequences, and hold in a step of another session
because the store never touches a written byte. `NumCountsUploads` counts the
sessions that upload to a block; without errors, hang-ups and timeouts (`Calm`)
a session never ends without its close, and one that starts or ends changes the
count and `num` by one.

*NameIndex.* Replay is a fold over the log. Its value is pinned down by
induction over sets of numbers, from the library's theorem on `<`: after the
first m records the table holds, for each name, the first of them that registers
it, or nothing when none does (`FromLog`). With that the invariant is that the
table is what the log says, with references that only a running process counts;
a crash forgets them. Where no record is torn nothing in the log is ever
unreadable (`WholeUnlessTorn`), and the refinement maps a start to a stutter.

*Client.* What a server has received and what is still on its way to it are, one
behind the other, the beginning of the file as far as the client counts it as
sent, or else fewer bytes than that (`SentInOrder`): a short send is counted as
a full one, and nothing sent later makes up for it. So what arrives with the
declared length is the file (`ClientIInv`, `RegisteredByContent`). `StoreIInv` is
about the blocks: the places handed out in a block behind the end of the file it
was created for lie apart, each below the recorded size, so writing one keeps
what another has flushed, and so does lengthening the block; what is registered is
therefore still there (`Lasting`), after a restart or a roll-over too. `LoadIInv`
follows a download: what it is sent is the beginning of what is stored at its
place, its first read counts as the whole file only when it has taken all of it,
and a zero byte cuts it there.

*MemPool.* `PoolIInv` says that every block of an arena ends at or below what is
used of it, except the one being carved, which begins there; that at most one is
being carved, because its class is locked and whoever could carve besides uses the
same class; and that an arena is only carved from while 32 KB of it are left, the
width of the widest class. `BlocksApart` and `InsideArena` follow. `FreedOnce`
adds that a block somebody has was carved and is not being carved; two lemmas on
sequences say what taking the head of a list and putting a block before it do to
its members.

*MinHeap.* Between two rounds the heap has a hole (`Hole`): the other timers are
each in one place and know it, in order above and below each other and across
the hole. A rising hole leaves no timer below it that ends before the one to be
placed (`FitsAbove`), a sinking one none above it that ends after (`FitsBelow`);
where both hold the timer is filled in and the heap is sound. Each round moves
the hole or finds the other half, so as many rounds as there are timers are
enough: induction over the rounds, from the library's theorem on `<`. To erase
is to fill the hole of the erased timer with the last one, upwards or downwards
as the parent says; the last place itself is the case apart, where the code
writes beyond the heap's end. `TopIsLeast` is the same induction over places.

*EventCenter.* `LoopSound` adds to the property that a record is used once, that
clocks do not run back, and that a timer ends no later than its connection has
been idle for the timeout (`DueInTime`): pushed again, it is due at the last use
and the timeout, and later use only makes that earlier than needed. When no timer
has ended, then, no connection is idle. That `connect_close` finds the timer of
what it closes needs the connection to be open, which is what `mishap` is about.

*WorkerPool.* A creator polls the state of its worker without a lock, so that
the record is there has two reasons. The master keeps the mutex the new worker
needs to register: it is still asleep or awake (`Polled`). factory_start keeps no
mutex, but until the master thread runs (`Early`) the workers are those it has
made, at most `WorkerMin`; a worker counts at most that many and does not leave
(`EarlyStaff`). The same holds for good where the master thread ended at the
start, which is `StaffStays`. `Phases` says how the state, factory_start and the
master thread go together, and `WorkersCounted` is inductive beside it. For
`TaskInOnePlace`, a worker has a task just while it runs one, and two lemmas say
what appending to a list and taking its head do to its members.

*HashTable.* That each cell is in just one chain is a fact about links, and the
invariant states it without following any: there is a rank that goes down from a
cell to its next one, which is in the same bucket, and each cell is either the head
of its bucket or the next of exactly one other (`Tabled`). From
that, by induction over ranks, a bucket's links make exactly one path to a null,
and it holds the bucket's cells (`ChainIs`); so a look-up stops at the cell of the
key with the greatest rank, `Walked` meets every cell once, and the counter is
the number of cells. A second number on cells, the place of a cell's value among
those entered for its key, is what `expected` is compared with: in a table that
has not grown the ranks of a key are in the order of those places (`Ordered`), and
the first found was entered last; a table that has grown keeps the cells and
loses the order. Growing is a fold of `Link`: after k links the table holds the
first k cells walked, by induction over k. The links back are promised only in a
table that has not grown: a deletion, which trusts them, goes wrong only in one
that has (`broken => Grown`). The index never grows, because its counter wraps before it reaches the
number of buckets (`HashdbNeverFull`); a lemma on remainders keeps the
counter equal to the number of cells modulo its width.

**Model-checked only.** Liveness, which the prover does not treat: `UploadAnswered`,
`SyncAnswered`, `EveryServerChecked`, `TaskReturned` and `ClientEnds`.

## 6. What is left out

* The event library of the data and the name server (`inet_event`) is not in
  the repository; the models use of it what the handlers rely on: one handler at
  a time, idle tasks that read or write are dropped, tasks that wait for
  nothing are not.
* Clients follow the protocol of `tdss_client`: the body is sent after the reply,
  with the declared length. Sizes are positive: an upload of size 0 is never
  completed.
* Short writes to a file, the width of integers, wording of replies and logs.
* `disk_status`, `ns_file_info_set` and the one-file-per-upload functions of
  `data_file.c`: nothing calls them.
* `hashdb_flush_binlog`, `hashdb_update`, `add_file_ref_to_index`: no caller;
  `hashdb_update` is an action of `HashTable` all the same, and replay of update
  records is in `NameIndex` because the log format has them.
* Memory that runs out, except in `MemPool`; the freeing of whole tables;
  `memory_realloc`, `memory_status` and the debugging lists.
* `master_server_config_load`, `parse_args` and start-up of the servers.
* The sessions of the master server (`process.c`): at this commit they are being
  moved to the event center, and what they compose is not sent.
* The contents of strings and of files, except the bytes in `Client`, wrappers of sockets and files, encodings, and
  the clients of other systems in `lib_mrt`: no state of their own.

## 7. Plan

What is left, in this order:

1. The log exchange of `hashdb_flush_binlog`, with a crash between its unlink and
   its link, once something calls it.
2. The sessions of the master server, once their replies are sent.
