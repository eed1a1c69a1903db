--------------------------- MODULE MCStateLogger ---------------------------
(* Instances of StateLogger for TLC: every diff of one operation and   *)
(* some of two operations on different paths.                              *)
EXTENDS StateLogger

CONSTANTS p1, p2, a, b, st

MCPaths  == {p1, p2}
MCStamps == {st}
MCPrints == {a, b, NoPrint}

(* the operations a scan can put in a diff; the sha1 of a file that cannot *)
(* be opened is left to the scanner's own model                            *)
Ops ==
  { AddFileOp(p, st, s) : p \in MCPaths, s \in {a, b} } \union
  { ModifyFileOp(p, st, s) : p \in MCPaths, s \in {a, b} } \union
  { RemoveFileOp(p) : p \in MCPaths } \union
  { RenameFileOp(p1, p2), RenameFileOp(p2, p1) }

Singles == { <<op>> : op \in Ops }

(* one diff of each shape a scan of two files produces: two files are new, *)
(* one has changed and the other is gone, one is new and the other gone    *)
Pairs ==
  { <<AddFileOp(p1, st, a), AddFileOp(p2, st, s)>> : s \in {a, b} } \union
  { <<ModifyFileOp(p1, st, b), RemoveFileOp(p2)>>,
    <<AddFileOp(p2, st, a), RemoveFileOp(p1)>> }

MCDiffs == Singles \union Pairs
MCAllCrashPoints == {"idle", "opened", "written", "saved"}
MCCrashPoints == MCAllCrashPoints \ {"written"}
=============================================================================
