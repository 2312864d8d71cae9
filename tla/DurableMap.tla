------------------------------ MODULE DurableMap ------------------------------
(***************************************************************************)
(* What an index promises: a name, once it has a location, keeps it;       *)
(* crashes and restarts change nothing.                                    *)
(***************************************************************************)
CONSTANTS Key, Loc, None

VARIABLE map

MapInit == map = [k \in Key |-> None]

Put(k, l) == map[k] = None /\ map' = [map EXCEPT ![k] = l]

MapNext == \E k \in Key, l \in Loc : Put(k, l)

MapSpec == MapInit /\ [][MapNext]_map
=============================================================================
