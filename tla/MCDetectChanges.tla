--------------------------- MODULE MCDetectChanges ---------------------------
(***************************************************************************)
(* DetectChanges for TLC: two directories with three paths, two contents   *)
(* of one size, so that an edit may leave it, and one of another.  Which   *)
(* of the first two a file has makes no difference.                        *)
(***************************************************************************)
EXTENDS DetectChanges, TLC

CONSTANTS A, B, C,   \* the paths
          x, y, z    \* the contents

MCPaths == {A, B, C}
MCDirs == <<<<A, B>>, <<C>>>>
MCSizes == (x :> 1) @@ (y :> 1) @@ (z :> 2)
MCStamps == [size : {0, 1, 2}, mtime : 0..(MaxEdits + 1)]
MCPrints == { Sha1(c) : c \in {x, y, z} } \union {NoPrint, Mixture}
AnyContents == Permutations({x, y})
=============================================================================
