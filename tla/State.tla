------------------------------- MODULE State -------------------------------
(***************************************************************************)
(* The index a repository keeps of its files: class State (state.cpp), the *)
(* FileInfo entries it holds and the StateOp / StateDiff values that       *)
(* change it.                                                              *)
(*                                                                         *)
(* An index has two hashes.  "files" is m_files, from a path to the entry  *)
(* recorded for it; "prints" is m_fingerprints, from a sha1 to ONE entry   *)
(* that carries it.  A hash is a total function whose value is Unknown     *)
(* where the QHash has no such key.                                        *)
(*                                                                         *)
(* A stamp stands for the size and modification time of a file.  The index *)
(* stores and returns them and never looks inside.                         *)
(***************************************************************************)
EXTENDS Integers, Sequences

CONSTANTS
  Paths,      \* the file paths, relative to the root of the repository
  Stamps,     \* what stat tells of a file: its size and modification time
  Prints,     \* the sha1 fingerprints
  NoPath,     \* the path of a default-constructed FileInfo
  NoStamp,    \* its size and modification time, which are not set
  NoPrint,    \* its fingerprint "", also that of a file that cannot be opened
  Unknown     \* the value of a hash at a key that it does not contain

FileInfo == [path : Paths \union {NoPath}, stamp : Stamps \union {NoStamp},
             print : Prints]

ASSUME StateAssumption ==
  /\ NoPath \notin Paths
  /\ NoStamp \notin Stamps
  /\ NoPrint \in Prints
  /\ Unknown \notin FileInfo

Index == [files  : [Paths  -> FileInfo \union {Unknown}],
          prints : [Prints -> FileInfo \union {Unknown}]]

(* State::clear, and a State that has just been constructed *)
EmptyIndex == [files  |-> [p \in Paths  |-> Unknown],
               prints |-> [s \in Prints |-> Unknown]]

DefaultFileInfo == [path |-> NoPath, stamp |-> NoStamp, print |-> NoPrint]

(* QHash::value: a default-constructed entry when the key is not there *)
ValueAt(hash, key) == IF hash[key] = Unknown THEN DefaultFileInfo ELSE hash[key]

KnownFilePath(idx, path) == idx.files[path] # Unknown
KnownFingerPrint(idx, print) == idx.prints[print] # Unknown

-----------------------------------------------------------------------------
(* The operations of a diff.  Fields an action does not use keep the       *)
(* defaults of the StateOp constructor.                                    *)

Actions == {"AddFile", "ModifyFile", "RemoveFile", "RenameFile"}

StateOp == [action : Actions, path : Paths, newPath : Paths \union {NoPath},
            stamp : Stamps \union {NoStamp}, print : Prints]

WellFormedOp(op) ==
  /\ op \in StateOp
  /\ op.action = "RenameFile" <=> op.newPath # NoPath

StateDiff == { ops \in Seq(StateOp) : \A i \in DOMAIN ops : WellFormedOp(ops[i]) }

AddFileOp(path, stamp, print) ==
  [action |-> "AddFile", path |-> path, newPath |-> NoPath,
   stamp |-> stamp, print |-> print]

ModifyFileOp(path, stamp, print) ==
  [action |-> "ModifyFile", path |-> path, newPath |-> NoPath,
   stamp |-> stamp, print |-> print]

RemoveFileOp(path) ==
  [action |-> "RemoveFile", path |-> path, newPath |-> NoPath,
   stamp |-> NoStamp, print |-> NoPrint]

RenameFileOp(path, newPath) ==
  [action |-> "RenameFile", path |-> path, newPath |-> newPath,
   stamp |-> NoStamp, print |-> NoPrint]

-----------------------------------------------------------------------------
(* What each operation does to the two hashes, in the order of the code's  *)
(* removals and insertions.  None of them checks that it is applicable.    *)

AddFile(idx, op) ==
  LET entry == [path |-> op.path, stamp |-> op.stamp, print |-> op.print]
  IN  [files  |-> [idx.files  EXCEPT ![op.path]  = entry],
       prints |-> [idx.prints EXCEPT ![op.print] = entry]]

(* a faulty ModifyFile that leaves the entry of the old contents behind *)
ModifyFileKeepingPrint(idx, op) ==
  LET entry == [ValueAt(idx.files, op.path) EXCEPT !.stamp = op.stamp, !.print = op.print]
  IN  [files  |-> [idx.files  EXCEPT ![op.path]  = entry],
       prints |-> [idx.prints EXCEPT ![op.print] = entry]]

ModifyFile(idx, op) ==
  LET old   == ValueAt(idx.files, op.path)
      entry == [old EXCEPT !.stamp = op.stamp, !.print = op.print]
  IN  [files  |-> [idx.files  EXCEPT ![op.path] = entry],
       prints |-> [idx.prints EXCEPT ![old.print] = Unknown, ![op.print] = entry]]

RemoveFile(idx, op) ==
  LET old == ValueAt(idx.files, op.path)
  IN  [files  |-> [idx.files  EXCEPT ![op.path] = Unknown],
       prints |-> [idx.prints EXCEPT ![old.print] = Unknown]]

RenameFile(idx, op) ==
  LET entry == [ValueAt(idx.files, op.path) EXCEPT !.path = op.newPath]
  IN  [files  |-> [idx.files  EXCEPT ![op.path] = Unknown, ![op.newPath] = entry],
       prints |-> [idx.prints EXCEPT ![entry.print] = entry]]

PerformOp(idx, op) ==
  CASE op.action = "AddFile"    -> AddFile(idx, op)
    [] op.action = "ModifyFile" -> ModifyFile(idx, op)
    [] op.action = "RemoveFile" -> RemoveFile(idx, op)
    [] op.action = "RenameFile" -> RenameFile(idx, op)

(* the index after the first n operations of a diff *)
IndexAfter(idx, ops) ==
  LET after[n \in 0..Len(ops)] ==
        IF n = 0 THEN idx ELSE PerformOp(after[n - 1], ops[n])
  IN  after

PerformChanges(idx, ops) == IndexAfter(idx, ops)[Len(ops)]

-----------------------------------------------------------------------------
(* When an operation is accepted.  canPerformChanges looks at every        *)
(* operation of the diff, each against the index as it is BEFORE the diff. *)

CanPerformOp(idx, op) ==
  CASE op.action = "AddFile"    -> ~KnownFilePath(idx, op.path)
    [] op.action = "ModifyFile" -> KnownFilePath(idx, op.path)
    [] op.action = "RemoveFile" -> KnownFilePath(idx, op.path)
    [] op.action = "RenameFile" -> /\ KnownFilePath(idx, op.path)
                                   /\ ~KnownFilePath(idx, op.newPath)

CanPerformChanges(idx, ops) == \A i \in DOMAIN ops : CanPerformOp(idx, ops[i])

-----------------------------------------------------------------------------
(* Predicates over an index and a diff that the properties of the          *)
(* components are made of.                                                 *)

(* Every entry is filed under its own path, and every entry the            *)
(* fingerprint hash returns is the current entry of the file it names: a   *)
(* lookup by sha1 never answers with a file that is gone, renamed or       *)
(* changed since.                                                          *)
PathsAgree(idx) ==
  \A p \in Paths : KnownFilePath(idx, p) => idx.files[p].path = p

PrintsAgree(idx) ==
  \A s \in Prints : KnownFingerPrint(idx, s) =>
     /\ idx.prints[s].print = s
     /\ idx.prints[s].path \in Paths
     /\ idx.files[idx.prints[s].path] = idx.prints[s]

Sound(idx) == PathsAgree(idx) /\ PrintsAgree(idx)

(* the paths an operation reads or writes *)
PathsOf(op) == {op.path, op.newPath} \ {NoPath}

(* no two operations of the diff touch the same path *)
Independent(ops) ==
  \A i, j \in DOMAIN ops : i # j => PathsOf(ops[i]) \intersect PathsOf(ops[j]) = {}
=============================================================================
