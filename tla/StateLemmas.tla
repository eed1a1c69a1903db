---------------------------- MODULE StateLemmas ----------------------------
(***************************************************************************)
(* Lemmas about the index of State.tla: what an operation and a diff       *)
(* preserve, for all paths, stamps and fingerprints.                       *)
(***************************************************************************)
EXTENDS State, Recursion

-----------------------------------------------------------------------------
(* One operation.                                                          *)

LEMMA ValueAtType ==
  ASSUME NEW idx \in Index, NEW p \in Paths
  PROVE  ValueAt(idx.files, p) \in FileInfo
BY StateAssumption DEF Index, ValueAt, DefaultFileInfo, FileInfo

LEMMA EmptyIndexType == EmptyIndex \in Index /\ Sound(EmptyIndex)
BY DEF EmptyIndex, Index, Sound, PathsAgree, PrintsAgree, KnownFilePath, KnownFingerPrint

(* an operation on an index gives an index, applicable or not *)
LEMMA PerformOpType ==
  ASSUME NEW idx \in Index, NEW op \in StateOp
  PROVE  PerformOp(idx, op) \in Index
<1> DEFINE old == ValueAt(idx.files, op.path)
<1>1. old \in FileInfo
  BY ValueAtType DEF StateOp
<1>2. op.path \in Paths /\ op.newPath \in Paths \union {NoPath} /\ op.action \in Actions
      /\ op.stamp \in Stamps \union {NoStamp} /\ op.print \in Prints
  BY DEF StateOp
<1>3. AddFile(idx, op) \in Index
  BY <1>2 DEF AddFile, Index, FileInfo
<1>4. ModifyFile(idx, op) \in Index
  <2> HIDE DEF old
  <2>1. [old EXCEPT !.stamp = op.stamp, !.print = op.print] \in FileInfo
    BY <1>1, <1>2 DEF FileInfo
  <2> QED BY <1>1, <1>2, <2>1 DEF ModifyFile, Index, old
<1>5. RemoveFile(idx, op) \in Index
  <2> HIDE DEF old
  <2> QED BY <1>1, <1>2 DEF RemoveFile, Index, old
<1>6. RenameFile(idx, op) \in Index
  <2> HIDE DEF old
  <2>1. [old EXCEPT !.path = op.newPath] \in FileInfo
    BY <1>1, <1>2 DEF FileInfo
  <2> QED BY <1>1, <1>2, <2>1 DEF RenameFile, Index, old
<1> QED BY <1>2, <1>3, <1>4, <1>5, <1>6 DEF PerformOp, Actions

(* an operation that is applicable keeps the two hashes in agreement *)
LEMMA OpKeepsSound ==
  ASSUME NEW idx \in Index, NEW op \in StateOp, WellFormedOp(op),
         CanPerformOp(idx, op), Sound(idx)
  PROVE  Sound(PerformOp(idx, op))
<1> DEFINE old == idx.files[op.path]
<1> USE StateAssumption
<1>1. op.path \in Paths /\ op.action \in Actions /\ op.print \in Prints
      /\ op.stamp \in Stamps \union {NoStamp}
      /\ (op.action = "RenameFile" => op.newPath \in Paths)
  BY DEF StateOp, WellFormedOp
<1>2. /\ idx.files \in [Paths -> FileInfo \union {Unknown}]
      /\ idx.prints \in [Prints -> FileInfo \union {Unknown}]
  BY DEF Index
<1>3. op.action # "AddFile" =>
        ValueAt(idx.files, op.path) = old /\ old \in FileInfo /\ old.path = op.path
  BY <1>1, <1>2 DEF CanPerformOp, ValueAt, KnownFilePath, Sound, PathsAgree, Actions
<1>4. CASE op.action = "AddFile"
  <2> DEFINE entry == [path |-> op.path, stamp |-> op.stamp, print |-> op.print]
  <2>1. PerformOp(idx, op) = [files  |-> [idx.files  EXCEPT ![op.path]  = entry],
                              prints |-> [idx.prints EXCEPT ![op.print] = entry]]
    BY <1>4 DEF PerformOp, AddFile
  <2>2. idx.files[op.path] = Unknown /\ entry \in FileInfo
    BY <1>4, <1>1 DEF CanPerformOp, KnownFilePath, FileInfo
  <2>3. entry.path = op.path /\ entry.print = op.print
    OBVIOUS
  <2> HIDE DEF entry
  <2> QED BY <1>1, <1>2, <2>1, <2>2, <2>3
       DEF Sound, PathsAgree, PrintsAgree, KnownFilePath, KnownFingerPrint
<1>5. CASE op.action = "ModifyFile"
  <2> DEFINE entry == [old EXCEPT !.stamp = op.stamp, !.print = op.print]
  <2>1. PerformOp(idx, op) =
          [files  |-> [idx.files  EXCEPT ![op.path] = entry],
           prints |-> [idx.prints EXCEPT ![old.print] = Unknown, ![op.print] = entry]]
    BY <1>5, <1>3 DEF PerformOp, ModifyFile
  <2>2. entry \in FileInfo /\ entry.path = op.path /\ entry.print = op.print
        /\ old.print \in Prints
    BY <1>1, <1>3, <1>5 DEF FileInfo
  <2> HIDE DEF entry
  <2> QED BY <1>1, <1>2, <1>3, <1>5, <2>1, <2>2
       DEF Sound, PathsAgree, PrintsAgree, KnownFilePath, KnownFingerPrint
<1>6. CASE op.action = "RemoveFile"
  <2>1. PerformOp(idx, op) = [files  |-> [idx.files  EXCEPT ![op.path] = Unknown],
                              prints |-> [idx.prints EXCEPT ![old.print] = Unknown]]
    BY <1>6, <1>3 DEF PerformOp, RemoveFile
  <2>2. old.print \in Prints
    BY <1>3, <1>6 DEF FileInfo
  <2> QED BY <1>1, <1>2, <1>3, <1>6, <2>1, <2>2
       DEF Sound, PathsAgree, PrintsAgree, KnownFilePath, KnownFingerPrint
<1>7. CASE op.action = "RenameFile"
  <2> DEFINE entry == [old EXCEPT !.path = op.newPath]
  <2>1. PerformOp(idx, op) =
          [files  |-> [idx.files  EXCEPT ![op.path] = Unknown, ![op.newPath] = entry],
           prints |-> [idx.prints EXCEPT ![entry.print] = entry]]
    BY <1>7, <1>3 DEF PerformOp, RenameFile
  <2>2. entry \in FileInfo /\ entry.path = op.newPath /\ entry.print = old.print
        /\ old.print \in Prints
    BY <1>1, <1>3, <1>7 DEF FileInfo
  <2>3. idx.files[op.newPath] = Unknown
    BY <1>7 DEF CanPerformOp, KnownFilePath
  <2> HIDE DEF entry
  <2> QED BY <1>1, <1>2, <1>3, <1>7, <2>1, <2>2, <2>3
       DEF Sound, PathsAgree, PrintsAgree, KnownFilePath, KnownFingerPrint
<1> QED BY <1>1, <1>4, <1>5, <1>6, <1>7 DEF Actions

(* an operation leaves the paths it does not touch as they were *)
LEMMA OpIsLocal ==
  ASSUME NEW idx \in Index, NEW op \in StateOp, NEW p \in Paths, p \notin PathsOf(op)
  PROVE  PerformOp(idx, op).files[p] = idx.files[p]
<1>1. op.path \in Paths /\ op.action \in Actions /\ p # op.path /\ p # op.newPath
  BY StateAssumption DEF StateOp, PathsOf
<1> QED BY <1>1 DEF PerformOp, Actions, AddFile, ModifyFile, RemoveFile, RenameFile, Index

-----------------------------------------------------------------------------
(* A whole diff.                                                           *)

(* performing a diff is performing its operations one after the other *)
LEMMA IndexAfterDef ==
  ASSUME NEW idx \in Index, NEW ops \in StateDiff
  PROVE  /\ IndexAfter(idx, ops) \in [0..Len(ops) -> Index]
         /\ IndexAfter(idx, ops)[0] = idx
         /\ \A n \in 1..Len(ops) :
              IndexAfter(idx, ops)[n] = PerformOp(IndexAfter(idx, ops)[n - 1], ops[n])
<1> DEFINE N == Len(ops)
           step == [a \in (1..N) \X Index |-> PerformOp(a[2], ops[a[1]])]
<1>1. N \in Nat /\ \A n \in 1..N : ops[n] \in StateOp
  BY DEF StateDiff
<1>2. step \in [(1..N) \X Index -> Index]
  <2>1. ASSUME NEW a \in (1..N) \X Index PROVE PerformOp(a[2], ops[a[1]]) \in Index
    <3>1. a[1] \in 1..N /\ a[2] \in Index
      OBVIOUS
    <3>2. ops[a[1]] \in StateOp
      BY <1>1, <3>1
    <3> QED BY <3>1, <3>2, PerformOpType
  <2> QED BY <2>1
<1>3. PICK f : /\ f \in [0..N -> Index]
              /\ f[0] = idx
              /\ \A n \in 1..N : f[n] = step[<<n, f[n - 1]>>]
  <2> HIDE DEF step, N
  <2>1. PICK f : Iterates(f, N, Index, idx, step)
    BY <1>1, <1>2, RecursionExists
  <2> QED BY <2>1 DEF Iterates
<1>4. \A n \in 1..N : f[n - 1] \in Index /\ f[n] = PerformOp(f[n - 1], ops[n])
  <2>1. SUFFICES ASSUME NEW n \in 1..N
        PROVE f[n - 1] \in Index /\ f[n] = PerformOp(f[n - 1], ops[n])
    OBVIOUS
  <2>2. f[n - 1] \in Index
    BY <1>1, <1>3
  <2>3. <<n, f[n - 1]>> \in (1..N) \X Index
    BY <2>2
  <2>4. step[<<n, f[n - 1]>>] = PerformOp(f[n - 1], ops[n])
    BY <2>3
  <2> QED BY <1>3, <2>2, <2>4
<1> DEFINE Eqn(g) == g = [n \in 0..N |-> IF n = 0 THEN idx ELSE PerformOp(g[n - 1], ops[n])]
<1>5. Eqn(f)
  <2>1. \A n \in 0..N : f[n] = IF n = 0 THEN idx ELSE PerformOp(f[n - 1], ops[n])
    BY <1>1, <1>3, <1>4
  <2> HIDE DEF N
  <2> QED BY <1>3, <2>1
<1>6. IndexAfter(idx, ops) = CHOOSE g : Eqn(g)
  BY DEF IndexAfter
<1>7. Eqn(IndexAfter(idx, ops))
  <2> HIDE DEF Eqn
  <2> QED BY <1>5, <1>6
<1> DEFINE h == IndexAfter(idx, ops)
<1>8. h[0] = idx /\ \A n \in 1..N : h[n] = PerformOp(h[n - 1], ops[n])
  <2> HIDE DEF h, N
  <2>1. h = [n \in 0..N |-> IF n = 0 THEN idx ELSE PerformOp(h[n - 1], ops[n])]
    BY <1>7 DEF h
  <2> QED BY <2>1, <1>1
<1>9. h \in [0..N -> Index]
  <2> DEFINE T == { n \in Nat : n <= N => h[n] \in Index }
  <2>1. 0 \in T
    BY <1>8
  <2>2. ASSUME NEW n \in T PROVE n + 1 \in T
    <3>1. SUFFICES ASSUME n + 1 <= N PROVE h[n + 1] \in Index
      OBVIOUS
    <3>2. h[n] \in Index /\ n + 1 \in 1..N /\ (n + 1) - 1 = n
      BY <1>1, <3>1
    <3>3. h[n + 1] = PerformOp(h[n], ops[n + 1])
      <4> HIDE DEF h, N
      <4> QED BY <1>8, <3>2
    <3> QED BY <1>1, <3>2, <3>3, PerformOpType
  <2>3. T = Nat
    <3> HIDE DEF T
    <3>1. T \in SUBSET Nat
      BY DEF T
    <3> QED BY <2>1, <2>2, <3>1, SetInduction
  <2>4. \A n \in 0..N : h[n] \in Index
    BY <2>3, <1>1
  <2>5. h = [n \in 0..N |-> h[n]]
    <3> HIDE DEF h, N
    <3>1. h = [n \in 0..N |-> IF n = 0 THEN idx ELSE PerformOp(h[n - 1], ops[n])]
      BY <1>7 DEF h
    <3> QED BY <3>1
  <2> HIDE DEF h, N
  <2> QED BY <2>4, <2>5
<1> QED BY <1>8, <1>9

LEMMA PerformChangesType ==
  ASSUME NEW idx \in Index, NEW ops \in StateDiff
  PROVE  PerformChanges(idx, ops) \in Index
<1>1. Len(ops) \in 0..Len(ops)
  BY DEF StateDiff
<1> QED BY <1>1, IndexAfterDef DEF PerformChanges

(* A diff that canPerformChanges accepts keeps the hashes in agreement when *)
(* its operations touch different paths: each is then still applicable when *)
(* its turn comes, although it was only checked before the first.           *)
LEMMA PerformChangesSound ==
  ASSUME NEW idx \in Index, NEW ops \in StateDiff, Independent(ops),
         CanPerformChanges(idx, ops), Sound(idx)
  PROVE  Sound(PerformChanges(idx, ops))
<1> DEFINE N == Len(ops)
           h == IndexAfter(idx, ops)
<1>1. N \in Nat /\ DOMAIN ops = 1..N
      /\ \A n \in 1..N : ops[n] \in StateOp /\ WellFormedOp(ops[n])
  BY DEF StateDiff
<1>2. /\ h \in [0..N -> Index]
      /\ h[0] = idx
      /\ \A n \in 1..N : h[n] = PerformOp(h[n - 1], ops[n])
  BY IndexAfterDef
<1> DEFINE T == { n \in Nat : n <= N => /\ Sound(h[n])
                                        /\ \A j \in (n + 1)..N : CanPerformOp(h[n], ops[j]) }
<1>3. 0 \in T
  BY <1>1, <1>2 DEF CanPerformChanges
<1>4. ASSUME NEW n \in T PROVE n + 1 \in T
  <2> HIDE DEF h, N
  <2>1. SUFFICES ASSUME n + 1 <= N
        PROVE /\ Sound(h[n + 1])
              /\ \A j \in (n + 2)..N : CanPerformOp(h[n + 1], ops[j])
    BY <1>1
  <2>2. /\ n + 1 \in 1..N /\ h[n] \in Index /\ Sound(h[n])
        /\ \A j \in (n + 1)..N : CanPerformOp(h[n], ops[j])
    BY <1>1, <1>2, <2>1
  <2>3. h[n + 1] = PerformOp(h[n], ops[n + 1])
    <3>1. (n + 1) - 1 = n
      BY <2>2
    <3> QED BY <1>2, <2>2, <3>1
  <2>4. ops[n + 1] \in StateOp /\ WellFormedOp(ops[n + 1]) /\ CanPerformOp(h[n], ops[n + 1])
    BY <1>1, <2>2
  <2>5. Sound(h[n + 1])
    BY <2>2, <2>3, <2>4, OpKeepsSound
  <2>6. ASSUME NEW j \in (n + 2)..N PROVE CanPerformOp(h[n + 1], ops[j])
    <3>1. j \in 1..N /\ j # n + 1 /\ CanPerformOp(h[n], ops[j])
      BY <1>1, <2>2
    <3>2. PathsOf(ops[n + 1]) \intersect PathsOf(ops[j]) = {}
      BY <1>1, <2>2, <3>1 DEF Independent
    <3>3. ops[j].path \in PathsOf(ops[j]) /\ ops[j].path \in Paths
      BY <1>1, <3>1, StateAssumption DEF StateOp, PathsOf
    <3>4. h[n + 1].files[ops[j].path] = h[n].files[ops[j].path]
      BY <2>2, <2>3, <2>4, <3>2, <3>3, OpIsLocal
    <3>5. ops[j].action = "RenameFile" =>
            h[n + 1].files[ops[j].newPath] = h[n].files[ops[j].newPath]
      <4>1. SUFFICES ASSUME ops[j].action = "RenameFile"
            PROVE h[n + 1].files[ops[j].newPath] = h[n].files[ops[j].newPath]
        OBVIOUS
      <4>2. ops[j].newPath \in PathsOf(ops[j]) /\ ops[j].newPath \in Paths
        BY <1>1, <3>1, <4>1 DEF WellFormedOp, StateOp, PathsOf
      <4> QED BY <2>2, <2>3, <2>4, <3>2, <4>2, OpIsLocal
    <3>6. ops[j].action \in Actions
      BY <1>1, <3>1 DEF StateOp
    <3> QED BY <3>1, <3>4, <3>5, <3>6 DEF CanPerformOp, KnownFilePath, Actions
  <2> QED BY <2>5, <2>6
<1>5. T = Nat
  <2> HIDE DEF T
  <2>1. T \in SUBSET Nat
    BY DEF T
  <2> QED BY <1>3, <1>4, <2>1, SetInduction
<1>6. N \in T
  BY <1>1, <1>5
<1>7. Sound(h[N])
  <2> HIDE DEF h
  <2> QED BY <1>1, <1>6
<1> QED BY <1>7 DEF PerformChanges

-----------------------------------------------------------------------------
(* A diff with several renames to one path.                                *)

(* where an operation finds a file, and where it puts one *)
SourcesOf(op) == IF op.action = "AddFile" THEN {} ELSE {op.path}
TargetsOf(op) == CASE op.action = "AddFile"    -> {op.path}
                   [] op.action = "RenameFile" -> {op.newPath}
                   [] OTHER                    -> {}

(* no two operations find the same file, and those that put one at the     *)
(* same path are renames of files that are equal in the index              *)
Compatible(idx, a, b) ==
  /\ SourcesOf(a) \intersect SourcesOf(b) = {}
  /\ TargetsOf(a) \intersect TargetsOf(b) # {} =>
       /\ a.action = "RenameFile" /\ b.action = "RenameFile"
       /\ idx.files[a.path].print = idx.files[b.path].print

(* what must still hold of a later operation, when a part of the diff has  *)
(* been performed on idx0                                                  *)
StillPerformable(idx0, idx, op) ==
  /\ \A p \in SourcesOf(op) : idx.files[p] = idx0.files[p]
  /\ \A p \in TargetsOf(op) : KnownFilePath(idx, p) =>
       op.action = "RenameFile" /\ idx.files[p].print = idx0.files[op.path].print

(* a rename over an entry with the same fingerprint keeps the two hashes   *)
(* in agreement                                                            *)
LEMMA RenameOverEqual ==
  ASSUME NEW idx \in Index, NEW op \in StateOp, WellFormedOp(op), op.action = "RenameFile",
         op.path # op.newPath, KnownFilePath(idx, op.path), KnownFilePath(idx, op.newPath),
         idx.files[op.newPath].print = idx.files[op.path].print, Sound(idx)
  PROVE  Sound(PerformOp(idx, op))
<1> DEFINE old == idx.files[op.path]
           entry == [old EXCEPT !.path = op.newPath]
<1> USE StateAssumption
<1>1. op.path \in Paths /\ op.newPath \in Paths
  BY DEF StateOp, WellFormedOp
<1>2. /\ idx.files \in [Paths -> FileInfo \union {Unknown}]
      /\ idx.prints \in [Prints -> FileInfo \union {Unknown}]
  BY DEF Index
<1>3. ValueAt(idx.files, op.path) = old /\ old \in FileInfo /\ old.path = op.path
  BY <1>1, <1>2 DEF ValueAt, KnownFilePath, Sound, PathsAgree
<1>4. PerformOp(idx, op) =
        [files  |-> [idx.files  EXCEPT ![op.path] = Unknown, ![op.newPath] = entry],
         prints |-> [idx.prints EXCEPT ![entry.print] = entry]]
  BY <1>3 DEF PerformOp, RenameFile
<1>5. entry \in FileInfo /\ entry.path = op.newPath /\ entry.print = old.print
      /\ old.print \in Prints
  BY <1>1, <1>3 DEF FileInfo
<1> HIDE DEF entry
<1> QED BY <1>1, <1>2, <1>3, <1>4, <1>5
     DEF Sound, PathsAgree, PrintsAgree, KnownFilePath, KnownFingerPrint

(* an operation leaves what the others need *)
LEMMA OpLeavesOthers ==
  ASSUME NEW idx0 \in Index, NEW idx \in Index, NEW a \in StateOp, NEW b \in StateOp,
         WellFormedOp(a), WellFormedOp(b), CanPerformOp(idx0, a), CanPerformOp(idx0, b),
         StillPerformable(idx0, idx, a), StillPerformable(idx0, idx, b), Compatible(idx0, a, b)
  PROVE  StillPerformable(idx0, PerformOp(idx, a), b)
<1>1. /\ a.path \in Paths /\ b.path \in Paths /\ a.action \in Actions /\ b.action \in Actions
      /\ a.action = "RenameFile" => a.newPath \in Paths
      /\ b.action = "RenameFile" => b.newPath \in Paths
      /\ a.action # "RenameFile" => a.newPath = NoPath
  BY DEF StateOp, WellFormedOp
<1>2. PathsOf(a) \subseteq SourcesOf(a) \union TargetsOf(a)
  BY <1>1, StateAssumption DEF PathsOf, SourcesOf, TargetsOf, Actions
<1>3. /\ \A p \in SourcesOf(a) \union SourcesOf(b) : p \in Paths /\ KnownFilePath(idx0, p)
      /\ \A p \in TargetsOf(a) \union TargetsOf(b) : p \in Paths /\ ~KnownFilePath(idx0, p)
  BY <1>1 DEF SourcesOf, TargetsOf, CanPerformOp, Actions
<1>4. ASSUME NEW p \in SourcesOf(b)
      PROVE  PerformOp(idx, a).files[p] = idx0.files[p]
  <2>1. p \notin PathsOf(a) /\ p \in Paths
    BY <1>2, <1>3 DEF Compatible
  <2>2. PerformOp(idx, a).files[p] = idx.files[p]
    BY <2>1, OpIsLocal
  <2> QED BY <2>2 DEF StillPerformable
<1>5. ASSUME NEW p \in TargetsOf(b), KnownFilePath(PerformOp(idx, a), p)
      PROVE  b.action = "RenameFile"
             /\ PerformOp(idx, a).files[p].print = idx0.files[b.path].print
  <2>1. CASE p \notin TargetsOf(a)
    <3>1. p \notin PathsOf(a) /\ p \in Paths
      BY <1>2, <1>3, <2>1
    <3>2. PerformOp(idx, a).files[p] = idx.files[p]
      BY <3>1, OpIsLocal
    <3> QED BY <1>5, <3>2 DEF StillPerformable, KnownFilePath
  <2>2. CASE p \in TargetsOf(a)
    <3>1. /\ a.action = "RenameFile" /\ b.action = "RenameFile" /\ p = a.newPath
          /\ idx0.files[a.path].print = idx0.files[b.path].print
      BY <2>2 DEF Compatible, TargetsOf
    <3>2. idx.files[a.path] = idx0.files[a.path] /\ idx.files[a.path] # Unknown
      BY <1>3, <3>1 DEF StillPerformable, SourcesOf, KnownFilePath
    <3>3. idx.files[a.path] \in FileInfo /\ idx.files \in [Paths -> FileInfo \union {Unknown}]
      BY <1>1, <3>2 DEF Index
    <3>4. PerformOp(idx, a).files =
            [idx.files EXCEPT ![a.path] = Unknown,
                              ![a.newPath] = [idx.files[a.path] EXCEPT !.path = a.newPath]]
      BY <3>1, <3>2 DEF PerformOp, RenameFile, ValueAt
    <3>5. PerformOp(idx, a).files[p] = [idx.files[a.path] EXCEPT !.path = a.newPath]
      BY <1>1, <3>1, <3>3, <3>4
    <3>6. [idx.files[a.path] EXCEPT !.path = a.newPath].print = idx.files[a.path].print
      BY <3>3 DEF FileInfo
    <3> QED BY <3>1, <3>2, <3>5, <3>6
  <2> QED BY <2>1, <2>2
<1> QED BY <1>4, <1>5 DEF StillPerformable

(* A diff that canPerformChanges accepts keeps the hashes in agreement     *)
(* when its operations are compatible, although a rename may then put a    *)
(* file where an earlier one has put another.                              *)
LEMMA PerformCompatibleSound ==
  ASSUME NEW idx \in Index, NEW ops \in StateDiff, CanPerformChanges(idx, ops), Sound(idx),
         \A i, j \in DOMAIN ops : i # j => Compatible(idx, ops[i], ops[j])
  PROVE  Sound(PerformChanges(idx, ops))
<1> DEFINE N == Len(ops)
           h == IndexAfter(idx, ops)
<1>1. N \in Nat /\ DOMAIN ops = 1..N
      /\ \A n \in 1..N : ops[n] \in StateOp /\ WellFormedOp(ops[n]) /\ CanPerformOp(idx, ops[n])
  BY DEF StateDiff, CanPerformChanges
<1>2. /\ h \in [0..N -> Index]
      /\ h[0] = idx
      /\ \A n \in 1..N : h[n] = PerformOp(h[n - 1], ops[n])
  BY IndexAfterDef
<1> DEFINE T == { n \in Nat : n <= N =>
                    /\ Sound(h[n])
                    /\ \A j \in (n + 1)..N : StillPerformable(idx, h[n], ops[j]) }
<1>3. 0 \in T
  <2> HIDE DEF h, N
  <2>1. ASSUME NEW j \in 1..N PROVE StillPerformable(idx, idx, ops[j])
    <3>1. CanPerformOp(idx, ops[j]) /\ ops[j].action \in Actions
      BY <1>1 DEF StateOp
    <3> QED BY <3>1 DEF StillPerformable, CanPerformOp, SourcesOf, TargetsOf, Actions
  <2>2. 0 + 1 = 1
    OBVIOUS
  <2> QED BY <1>2, <2>1, <2>2
<1>4. ASSUME NEW n \in T PROVE n + 1 \in T
  <2> HIDE DEF h, N
  <2>1. SUFFICES ASSUME n + 1 <= N
        PROVE /\ Sound(h[n + 1])
              /\ \A j \in (n + 2)..N : StillPerformable(idx, h[n + 1], ops[j])
    BY <1>1
  <2> DEFINE op == ops[n + 1]
  <2>2. /\ n + 1 \in 1..N /\ n + 1 \in (n + 1)..N /\ (n + 1) - 1 = n
        /\ h[n] \in Index /\ Sound(h[n])
        /\ \A j \in (n + 1)..N : StillPerformable(idx, h[n], ops[j])
    BY <1>1, <1>2, <2>1
  <2>3. h[n + 1] = PerformOp(h[n], op)
    BY <1>2, <2>2
  <2>4. op \in StateOp /\ WellFormedOp(op) /\ CanPerformOp(idx, op)
        /\ StillPerformable(idx, h[n], op)
    BY <1>1, <2>2
  <2>5. Sound(PerformOp(h[n], op))
    <3> HIDE DEF op
    <3>1. op.path \in Paths /\ op.action \in Actions
          /\ (op.action = "RenameFile" => op.newPath \in Paths)
      BY <2>4 DEF StateOp, WellFormedOp
    <3>2. CASE CanPerformOp(h[n], op)
      BY <2>2, <2>4, <3>2, OpKeepsSound
    <3>3. CASE ~CanPerformOp(h[n], op)
      <4>1. /\ op.action = "RenameFile" /\ KnownFilePath(h[n], op.path)
            /\ KnownFilePath(h[n], op.newPath) /\ op.path # op.newPath
        BY <2>4, <3>1, <3>3 DEF StillPerformable, CanPerformOp, SourcesOf, TargetsOf,
                                KnownFilePath, Actions
      <4>2. h[n].files[op.newPath].print = h[n].files[op.path].print
        BY <2>4, <4>1 DEF StillPerformable, SourcesOf, TargetsOf
      <4> QED BY <2>2, <2>4, <4>1, <4>2, RenameOverEqual
    <3> QED BY <3>2, <3>3
  <2>6. ASSUME NEW j \in (n + 2)..N PROVE StillPerformable(idx, PerformOp(h[n], op), ops[j])
    <3>1. j \in 1..N /\ j \in (n + 1)..N /\ j # n + 1
      BY <1>1, <2>2
    <3>2. Compatible(idx, op, ops[j])
      BY <1>1, <2>2, <3>1
    <3>3. ops[j] \in StateOp /\ WellFormedOp(ops[j]) /\ CanPerformOp(idx, ops[j])
          /\ StillPerformable(idx, h[n], ops[j])
      BY <1>1, <2>2, <3>1
    <3> HIDE DEF op
    <3> QED BY <2>2, <2>4, <3>2, <3>3, OpLeavesOthers
  <2> QED BY <2>3, <2>5, <2>6
<1>5. T = Nat
  <2> HIDE DEF T
  <2>1. T \in SUBSET Nat
    BY DEF T
  <2> QED BY <1>3, <1>4, <2>1, SetInduction
<1>6. N \in T
  BY <1>1, <1>5
<1>7. Sound(h[N])
  <2> HIDE DEF h
  <2> QED BY <1>1, <1>6
<1> QED BY <1>7 DEF PerformChanges

(* the entry that an operation on an index leaves at a path that it names *)
EntryAfter(idx, op, p) ==
  CASE op.action = "AddFile" -> [path |-> p, stamp |-> op.stamp, print |-> op.print]
    [] op.action = "ModifyFile" -> [idx.files[p] EXCEPT !.stamp = op.stamp, !.print = op.print]
    [] op.action = "RenameFile" /\ p = op.newPath -> [idx.files[op.path] EXCEPT !.path = p]
    [] OTHER -> Unknown

(* What a diff of compatible operations leaves at each path: what was      *)
(* there, or what one of its operations makes of the index before it.      *)
LEMMA DiffEffect ==
  ASSUME NEW idx \in Index, NEW ops \in StateDiff, CanPerformChanges(idx, ops),
         \A i, j \in DOMAIN ops : i # j => Compatible(idx, ops[i], ops[j]),
         NEW q \in Paths
  PROVE  \/ /\ \A i \in DOMAIN ops : q \notin PathsOf(ops[i])
            /\ PerformChanges(idx, ops).files[q] = idx.files[q]
         \/ \E i \in DOMAIN ops : /\ q \in PathsOf(ops[i])
                                  /\ PerformChanges(idx, ops).files[q] = EntryAfter(idx, ops[i], q)
<1> DEFINE N == Len(ops)
           h == IndexAfter(idx, ops)
           Left(n, p) ==
             \/ /\ \A i \in 1..n : p \notin PathsOf(ops[i])
                /\ h[n].files[p] = idx.files[p]
             \/ \E i \in 1..n : /\ p \in PathsOf(ops[i])
                               /\ h[n].files[p] = EntryAfter(idx, ops[i], p)
           T == { n \in Nat : n <= N => \A p \in Paths : Left(n, p) }
<1>1. N \in Nat /\ DOMAIN ops = 1..N
      /\ \A n \in 1..N : ops[n] \in StateOp /\ WellFormedOp(ops[n]) /\ CanPerformOp(idx, ops[n])
  BY DEF StateDiff, CanPerformChanges
<1>2. h \in [0..N -> Index] /\ h[0] = idx
      /\ \A n \in 1..N : h[n] = PerformOp(h[n - 1], ops[n])
  BY IndexAfterDef
<1> HIDE DEF N, h
<1>3. 0 \in T
  BY <1>2
<1>4. ASSUME NEW n \in T PROVE n + 1 \in T
  <2>1. SUFFICES ASSUME n + 1 <= N, NEW p \in Paths PROVE Left(n + 1, p)
    OBVIOUS
  <2> DEFINE op == ops[n + 1]
  <2>2. /\ n + 1 \in 1..N /\ (n + 1) - 1 = n /\ n \in 0..N /\ h[n] \in Index
        /\ \A r \in Paths : Left(n, r)
        /\ 1..n \subseteq 1..(n + 1) /\ n + 1 \in 1..(n + 1)
        /\ \A i \in 1..(n + 1) : i \in 1..n \/ i = n + 1
        /\ \A i \in 1..n : i \in 1..N /\ i # n + 1
    BY <1>1, <1>2, <2>1
  <2>3. h[n + 1] = PerformOp(h[n], op) /\ op \in StateOp /\ WellFormedOp(op) /\ CanPerformOp(idx, op)
        /\ \A i \in 1..n : Compatible(idx, ops[i], op) /\ WellFormedOp(ops[i]) /\ ops[i] \in StateOp
                           /\ CanPerformOp(idx, ops[i])
    BY <1>1, <1>2, <2>2
  <2> HIDE DEF op
  <2>4. CASE p \notin PathsOf(op)
    <3>1. h[n + 1].files[p] = h[n].files[p]
      BY <2>2, <2>3, <2>4, OpIsLocal
    <3> QED BY <2>2, <2>4, <3>1 DEF op
  <2>5. ASSUME NEW r \in SourcesOf(op)
        PROVE  h[n].files[r] = idx.files[r] /\ r = op.path /\ r \in Paths /\ KnownFilePath(idx, r)
    <3>1. /\ r = op.path /\ r \in Paths /\ KnownFilePath(idx, r)
      BY <2>3, <2>5 DEF SourcesOf, CanPerformOp, StateOp, Actions
    <3>2. \A i \in 1..n : r \notin PathsOf(ops[i])
      <4>1. SUFFICES ASSUME NEW i \in 1..n PROVE r \notin PathsOf(ops[i])
        OBVIOUS
      <4>2. r \notin SourcesOf(ops[i])
        BY <2>3, <2>5 DEF Compatible
      <4>3. r \notin TargetsOf(ops[i])
        BY <2>3, <3>1 DEF TargetsOf, CanPerformOp, StateOp, Actions
      <4> QED BY <2>3, <3>1, <4>2, <4>3, StateAssumption
              DEF PathsOf, SourcesOf, TargetsOf, WellFormedOp, StateOp, Actions
    <3> QED BY <2>2, <3>1, <3>2
  <2>6. CASE p \in PathsOf(op)
    <3>1. h[n + 1].files[p] = EntryAfter(idx, op, p)
      <4>1. p = op.path \/ p = op.newPath
        BY <2>6 DEF PathsOf
      <4>f. h[n].files \in [Paths -> FileInfo \union {Unknown}] /\ op.path \in Paths
        BY <2>2, <2>3 DEF Index, StateOp
      <4>2. CASE op.action = "AddFile"
        <5>1. p = op.path
          BY <2>3, <4>1, <4>2, StateAssumption DEF WellFormedOp, StateAssumption, StateOp
        <5>2. h[n + 1].files =
                [h[n].files EXCEPT ![p] = [path |-> p, stamp |-> op.stamp, print |-> op.print]]
          BY <2>3, <4>2, <5>1 DEF PerformOp, AddFile
        <5>3. EntryAfter(idx, op, p) = [path |-> p, stamp |-> op.stamp, print |-> op.print]
          BY <4>2 DEF EntryAfter
        <5> QED BY <4>f, <5>2, <5>3
      <4>3. CASE op.action = "ModifyFile"
        <5>1. h[n].files[p] = idx.files[p] /\ p = op.path /\ idx.files[p] # Unknown
          BY <2>3, <2>5, <4>1, <4>3, StateAssumption
             DEF SourcesOf, WellFormedOp, StateAssumption, StateOp, KnownFilePath
        <5>2. h[n + 1].files =
                [h[n].files EXCEPT ![p] = [idx.files[p] EXCEPT !.stamp = op.stamp, !.print = op.print]]
          <6>1. ValueAt(h[n].files, op.path) = idx.files[p]
            BY <5>1 DEF ValueAt
          <6>2. h[n + 1] = ModifyFile(h[n], op)
            BY <2>3, <4>3 DEF PerformOp
          <6> QED BY <5>1, <6>1, <6>2 DEF ModifyFile
        <5>3. EntryAfter(idx, op, p) = [idx.files[p] EXCEPT !.stamp = op.stamp, !.print = op.print]
          BY <4>3 DEF EntryAfter
        <5> QED BY <4>f, <5>2, <5>3
      <4>4. CASE op.action = "RemoveFile"
        <5>1. p = op.path
          BY <2>3, <4>1, <4>4, StateAssumption DEF WellFormedOp, StateAssumption, StateOp
        <5>2. h[n + 1].files = [h[n].files EXCEPT ![p] = Unknown]
          BY <2>3, <4>4, <5>1 DEF PerformOp, RemoveFile
        <5>3. EntryAfter(idx, op, p) = Unknown
          BY <4>4 DEF EntryAfter
        <5> QED BY <4>f, <5>2, <5>3
      <4>5. CASE op.action = "RenameFile"
        <5>1. op.path # op.newPath /\ op.path \in Paths
          BY <2>3, <4>5 DEF CanPerformOp, StateOp
        <5>2. h[n].files[op.path] = idx.files[op.path] /\ idx.files[op.path] # Unknown
          BY <2>5, <4>5 DEF SourcesOf, KnownFilePath
        <5> DEFINE entry == [idx.files[op.path] EXCEPT !.path = op.newPath]
        <5>3. h[n + 1].files = [h[n].files EXCEPT ![op.path] = Unknown, ![op.newPath] = entry]
          BY <2>3, <4>5, <5>2 DEF PerformOp, RenameFile, ValueAt
        <5>4. EntryAfter(idx, op, p) = IF p = op.newPath THEN entry ELSE Unknown
          BY <4>5 DEF EntryAfter
        <5> HIDE DEF entry
        <5>5. h[n + 1].files[p] = IF p = op.newPath THEN entry ELSE Unknown
          BY <4>1, <4>f, <5>1, <5>3
        <5> QED BY <5>4, <5>5
      <4> QED BY <2>3, <4>2, <4>3, <4>4, <4>5 DEF StateOp, Actions
    <3> QED BY <2>2, <2>6, <3>1 DEF op
  <2> QED BY <2>4, <2>6
<1>5. T = Nat
  <2> HIDE DEF T
  <2>1. T \in SUBSET Nat
    BY DEF T
  <2> QED BY <1>3, <1>4, <2>1, SetInduction
<1>6. \A p \in Paths : Left(N, p)
  BY <1>1, <1>5
<1>7. PerformChanges(idx, ops) = h[N]
  BY DEF PerformChanges, h, N
<1> QED BY <1>1, <1>6, <1>7

=============================================================================
