--------------------------- MODULE ExtentAllocator ---------------------------
(***************************************************************************)
(* What a block store promises its uploads: every file gets an extent of   *)
(* its own.  An extent, once granted, is never taken back and never        *)
(* overlaps another extent of the same block file.                         *)
(***************************************************************************)
EXTENDS Integers

CONSTANTS
    Block,      \* names of block files
    Limit       \* extents end strictly below this offset

VARIABLE extents

Extent == [block : Block, off : 0..Limit, size : 0..Limit]

Overlap(e, f) ==
    /\ e.block = f.block
    /\ e.off < f.off + f.size
    /\ f.off < e.off + e.size

AllocInit == extents = {}

Allocate(e) ==
    /\ e.off + e.size < Limit
    /\ \A f \in extents : ~Overlap(e, f)
    /\ extents' = extents \cup {e}

AllocNext == \E e \in Extent : Allocate(e)

AllocSpec == AllocInit /\ [][AllocNext]_extents
=============================================================================
