-------------------------------- MODULE Locate --------------------------------
(***************************************************************************)
(* Where things are: lib_tdss/config.c.  Every program has configuration   *)
(* files of its own, and knows of the servers what these list.  An address *)
(* (ip and port) is one value.  Positions start at 0, as in the code.      *)
(*                                                                         *)
(* A configuration file is a record:                                       *)
(*   complete   every entry the program asks for is there and has its form *)
(*   addrs      the servers it lists, a pair (master, slave) for each name *)
(*              server                                                     *)
(***************************************************************************)
EXTENDS Integers, Sequences, FiniteSets, FiniteSetsExt

CONSTANTS
    Crc,        \* external: crc32 of zlib, of each name
    Nowhere     \* what lies behind an array, taken for an address

At(seq, i) == seq[i + 1]
Positions(seq) == 0..(Len(seq) - 1)

\* The loops over the servers keep the last position that fits, and 0 when none
\* does.
LastPosition(fitting) == IF fitting = {} THEN 0 ELSE Max(fitting)

\* data_server_config_load: a file that is refused changes nothing, and the
\* program that was starting ends.
DataServerConfigLoad(file, local, conf) ==
    IF file.complete /\ Len(file.addrs) > 0
    THEN [loaded |-> TRUE, server |-> file.addrs,
          id |-> LastPosition({i \in Positions(file.addrs) : At(file.addrs, i) = local})]
    ELSE [conf EXCEPT !.loaded = FALSE]

\* name_server_config_load: also whether the program is the master (1) or the
\* slave (2) of the last pair that names it, or neither (0).
NameServerConfigLoad(file, local, conf) ==
    IF file.complete /\ Len(file.addrs) > 0
    THEN LET Names(pair) == local \in {pair.master, pair.slave}
             id == LastPosition({i \in Positions(file.addrs) : Names(At(file.addrs, i))})
             type == CASE ~Names(At(file.addrs, id))          -> 0
                       [] local = At(file.addrs, id).master   -> 1
                       [] OTHER                               -> 2
         IN  [loaded |-> TRUE, server |-> file.addrs, id |-> id, type |-> type]
    ELSE [conf EXCEPT !.loaded = FALSE]

\* ns_get_master_addr and ns_get_slave_addr: of n name servers, the one a name
\* belongs to.  A list has fewer than 2^31 servers.
Bits(k) == {i \in 0..30 : (k \div 2^i) % 2 = 1}
NameServerOf(name, n) == MapThenSumSet(LAMBDA i : 2^i, Bits(Crc[name]) \cap Bits(n - 1))

\* ns_get_server_id, which the master server uses instead.  A name is 32 hex
\* digits: %jx reads a number of 64 bits, and more than that as the greatest.
NameServerId(n) == n - 1

\* ds_get_addr_by_id: the position behind the last is not refused.
DsAddrById(conf, id) ==
    IF Len(conf.server) < id \/ id < 0 THEN "error"
    ELSE IF id = Len(conf.server) THEN Nowhere
    ELSE At(conf.server, id)

\* request_parse: a word is only taken when what follows it has come.  It counts
\* the words it knows, and a word that comes twice counts twice.
RequestParse(words, keys) ==
    Cardinality({i \in DOMAIN words : words[i] \in keys}) >= Cardinality(keys)

\* What one recv gives of a reply, in whole words.
Received(words) == {SubSeq(words, 1, k) : k \in 0..Len(words)}

Unloaded == [loaded |-> FALSE, server |-> <<>>, id |-> 0]
=============================================================================
