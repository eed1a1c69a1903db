--------------------------- MODULE DetectChanges ---------------------------
(***************************************************************************)
(* The scanner: Repo::detectChanges (repo.cpp) on a LocalDiskRepo          *)
(* (localdiskrepo.cpp), and the commit of the diff it returns.             *)
(*                                                                         *)
(* A scan lists the directories one after the other, then looks at every   *)
(* file whose path is in the index, then reads every file whose path is    *)
(* not, and matches those against the indexed files it did not find.  Its  *)
(* caller commits the diff (tst_localdiskrepotest.cpp).  Only the scan     *)
(* changes the index, but the files belong to other programs: between any  *)
(* two reads of the disk a file may be saved, deleted or moved.            *)
(*                                                                         *)
(* Each read of the disk (the list of a directory, the stat of a file) is  *)
(* one step, but the contents of a file are read in blocks, with the event *)
(* loop in between: the open and the end of the hash are two steps.  A     *)
(* stamp is a record of the size and the modification time in seconds,     *)
(* which is as much of it as is ever compared (fileinfo.cpp:49).           *)
(***************************************************************************)
EXTENDS State, Lists, SequencesExt

CONSTANTS
  Dirs,        \* the directories in the order of a visit, each the sequence
               \* of the paths that files in it may have, in order of name
  FileSizes,   \* the size of each contents a file may have; its domain are
               \* the contents
  ReadOrders,  \* in which order readFileInfo may read a file (see ReadFirst)
  Editing,     \* the ways other programs change files
  MaxEdits     \* bound: the number of times they do

Contents == DOMAIN FileSizes

(* the sha1 of some contents, different for different contents, and that   *)
(* of the blocks of several                                                *)
Sha1(c) == <<"sha1", c>>
Mixture == <<"sha1 of a mixture">>

(* every path is in a directory, and in one only *)
ASSUME DirsAssumption == \A p \in Paths : \E d \in DOMAIN Dirs : p \in ToSet(Dirs[d])

ASSUME ScanAssumption ==
  /\ Dirs \in Seq(Seq(Paths)) /\ IsFiniteSet(Paths)
  /\ \A d, e \in DOMAIN Dirs : \A i \in DOMAIN Dirs[d], j \in DOMAIN Dirs[e] :
       Dirs[d][i] = Dirs[e][j] => d = e /\ i = j
  /\ \A c \in Contents : Sha1(c) \in Prints
  /\ Mixture \in Prints
  /\ \A size \in {0} \union { FileSizes[c] : c \in Contents }, mtime \in 0..(MaxEdits + 1) :
       [size |-> size, mtime |-> mtime] \in Stamps
  /\ ReadOrders \subseteq {"statFirst", "hashFirst"}
  /\ Editing \subseteq {"save", "saveAgain", "delete", "move"}
  /\ MaxEdits \in Nat

VARIABLES
  disk,     \* the file at each path, or NoFile
  clock,    \* the time, in seconds
  edits,    \* how many times files were changed
  idx,      \* the index, m_state of the logger
  pc,       \* "idle", or the part of the scan that is next
  dir,      \* how many directories have been listed
  found,    \* the paths the listing has found
  known,    \* of those, the indexed ones still to be looked at
  unknown,  \* of those, the ones not in the index still to be read
  missing,  \* the indexed paths that the listing did not find
  half,     \* what has been read so far of the file being read
  ops,      \* the diff
  quiet     \* history: how many scans in a row were committed with no edit
            \* since the first of them began (at most 2), whether there was
            \* none since the last Start, what was stale when the first of
            \* them began, and whether every file was read stat first and
            \* given a time of its own: [scans, still, stale, sure]

diskVars == <<disk, clock, edits>>
scanVars == <<pc, dir, found, known, unknown, missing, half, ops>>
vars == <<diskVars, idx, scanVars, quiet>>

NoFile == [content |-> "none", mtime |-> 0]
Files == [content : Contents, mtime : 1..(MaxEdits + 1)]

-----------------------------------------------------------------------------
(* Reading the disk.                                                       *)

Exists(p) == disk[p] # NoFile

(* QFileInfo of a file: size 0 and no time when it is not there *)
Stat(p) == IF Exists(p)
             THEN [size |-> FileSizes[disk[p].content], mtime |-> disk[p].mtime]
             ELSE [size |-> 0, mtime |-> 0]

(* the sha1 of the file as it is now, "" when there is none *)
FingerPrint(p) == IF Exists(p) THEN Sha1(disk[p].content) ELSE NoPrint

(* What has been read of a file: its stat, the file as it was when it was  *)
(* opened, its fingerprint, and what is read next.  The index keeps a file *)
(* that is stale: it has the stamp of the file with another fingerprint.   *)
Unread == [stamp |-> NoStamp, file |-> NoFile, print |-> NoPrint, next |-> "first"]
Readings == [stamp : Stamps \union {NoStamp}, file : Files \union {NoFile}, print : Prints,
             next : {"first", "open", "hash", "stat"}]

Stale == { p \in Paths : /\ Exists(p) /\ KnownFilePath(idx, p)
                         /\ idx.files[p].stamp = Stat(p)
                         /\ idx.files[p].print # FingerPrint(p) }

(* a faulty one that always reads the contents before the stat *)
ReadContentsFirst(p, order) == [Unread EXCEPT !.file = disk[p], !.next = "hash"]

(* readFileInfo computes the arguments of a constructor, the stat of the   *)
(* file and its fingerprint, in the order the compiler chose.              *)
ReadFirst(p, order) ==
  IF order = "statFirst" THEN [Unread EXCEPT !.stamp = Stat(p), !.next = "open"]
                         ELSE [Unread EXCEPT !.file = disk[p], !.next = "hash"]

(* readFingerPrint: "" for a file that could not be opened; for one that    *)
(* was written while it was read, the sha1 of what it held before, of what *)
(* it holds now or of blocks of both                                       *)
Hashed(p) ==
  IF half.file = NoFile THEN {NoPrint}
  ELSE {Sha1(half.file.content)} \union
         (IF disk[p] \in {half.file, NoFile} THEN {} ELSE {Sha1(disk[p].content), Mixture})

(* what may have been read of a file after the next read of it *)
Continue(p) ==
  CASE half.next = "open" -> { [half EXCEPT !.file = disk[p], !.next = "hash"] }
    [] half.next = "hash" ->
         { [half EXCEPT !.file = NoFile, !.print = s,
                        !.next = IF half.stamp = NoStamp THEN "stat" ELSE "done"] : s \in Hashed(p) }
    [] OTHER -> { [half EXCEPT !.stamp = Stat(p), !.next = "done"] }

-----------------------------------------------------------------------------
(* The scan.                                                               *)

Start ==
  /\ pc = "idle"
  /\ pc' = "list"
  /\ dir' = 0
  /\ found' = <<>>
  /\ ops' = <<>>
  /\ quiet' = [quiet EXCEPT !.still = TRUE,
                            !.stale = IF quiet.scans = 0 THEN Stale ELSE @]
  /\ UNCHANGED <<diskVars, idx, known, unknown, missing, half>>

(* findAllFiles: the files of one directory, in order of name *)
ListDir ==
  /\ pc = "list"
  /\ dir < Len(Dirs)
  /\ dir' = dir + 1
  /\ found' = found \o Without(Dirs[dir + 1], { p \in Paths : ~Exists(p) })
  /\ UNCHANGED <<diskVars, idx, pc, known, unknown, missing, half, ops, quiet>>

(* a faulty comparison that takes every found file for an unknown one *)
CompareAllUnknown ==
  /\ pc = "list"
  /\ dir = Len(Dirs)
  /\ known' = <<>>
  /\ unknown' = found
  /\ missing' = { p \in Paths : KnownFilePath(idx, p) } \ ToSet(found)
  /\ pc' = "known"
  /\ UNCHANGED <<diskVars, idx, dir, found, half, ops, quiet>>

(* knownFilePaths, unknownFilePaths and missingFilePaths of what was found *)
Compare ==
  /\ pc = "list"
  /\ dir = Len(Dirs)
  /\ LET indexed == { p \in Paths : KnownFilePath(idx, p) }
     IN  /\ known'   = Without(found, Paths \ indexed)
         /\ unknown' = Without(found, indexed)
         /\ missing' = indexed \ ToSet(found)
  /\ pc' = "known"
  /\ UNCHANGED <<diskVars, idx, dir, found, half, ops, quiet>>

(* a faulty check that only looks at the size *)
StatSameSize ==
  /\ pc = "known"
  /\ half = Unread
  /\ known # <<>>
  /\ Stat(Head(known)).size = idx.files[Head(known)].stamp.size
  /\ known' = Tail(known)
  /\ UNCHANGED <<diskVars, idx, pc, dir, found, unknown, missing, half, ops, quiet>>

(* a known file whose size and time are those of the index is left alone *)
StatUnchanged ==
  /\ pc = "known"
  /\ half = Unread
  /\ known # <<>>
  /\ Stat(Head(known)) = idx.files[Head(known)].stamp
  /\ known' = Tail(known)
  /\ UNCHANGED <<diskVars, idx, pc, dir, found, unknown, missing, half, ops, quiet>>

(* otherwise it is to be hashed, with the stat that was compared *)
StatChanged ==
  /\ pc = "known"
  /\ half = Unread
  /\ known # <<>>
  /\ Stat(Head(known)) # idx.files[Head(known)].stamp
  /\ half' = ReadFirst(Head(known), "statFirst")
  /\ UNCHANGED <<diskVars, idx, pc, dir, found, known, unknown, missing, ops, quiet>>

(* the reads between the first and the last of a file *)
ReadMore ==
  /\ pc \in {"known", "unknown"}
  /\ half # Unread
  /\ \E read \in Continue(Head(IF pc = "known" THEN known ELSE unknown)) :
        read.next # "done" /\ half' = read
  /\ UNCHANGED <<diskVars, idx, pc, dir, found, known, unknown, missing, ops, quiet>>

(* a faulty one that forgets that the file has been read *)
HashChangedAgain ==
  /\ pc = "known"
  /\ half # Unread
  /\ \E read \in Continue(Head(known)) :
        /\ read.next = "done"
        /\ ops' = Append(ops, ModifyFileOp(Head(known), read.stamp, read.print))
  /\ known' = Tail(known)
  /\ UNCHANGED <<diskVars, idx, pc, dir, found, unknown, missing, half, quiet>>

HashChanged ==
  /\ pc = "known"
  /\ half # Unread
  /\ \E read \in Continue(Head(known)) :
        /\ read.next = "done"
        /\ ops' = Append(ops, ModifyFileOp(Head(known), read.stamp, read.print))
  /\ known' = Tail(known)
  /\ half' = Unread
  /\ UNCHANGED <<diskVars, idx, pc, dir, found, unknown, missing, quiet>>

KnownDone ==
  /\ pc = "known"
  /\ known = <<>>
  /\ pc' = "unknown"
  /\ UNCHANGED <<diskVars, idx, dir, found, known, unknown, missing, half, ops, quiet>>

ReadHalf ==
  /\ pc = "unknown"
  /\ half = Unread
  /\ unknown # <<>>
  /\ \E order \in ReadOrders :
       /\ half' = ReadFirst(Head(unknown), order)
       /\ quiet' = [quiet EXCEPT !.sure = @ /\ order = "statFirst"]
  /\ UNCHANGED <<diskVars, idx, pc, dir, found, known, unknown, missing, ops>>

(* a faulty comparison of the sizes alone *)
IdenticalSize(info) ==
  { m \in missing : idx.files[m].stamp.size = info.stamp.size }

(* the missing files of the size and fingerprint that were read *)
Identical(info) ==
  { m \in missing : /\ idx.files[m].stamp.size = info.stamp.size
                    /\ idx.files[m].print = info.print }

(* Every missing file that is identical becomes a rename to the one that   *)
(* was read, in the order of a hash; without any, the file is new.         *)
ReadRest ==
  /\ pc = "unknown"
  /\ half # Unread
  /\ \E info \in Continue(Head(unknown)) :
       LET path == Head(unknown)
           olds == Identical(info)
       IN  /\ info.next = "done"
           /\ missing' = missing \ olds
           /\ IF olds = {}
                THEN ops' = Append(ops, AddFileOp(path, info.stamp, info.print))
                ELSE \E renames \in SetToSeqs({ RenameFileOp(m, path) : m \in olds }) :
                        ops' = ops \o renames
  /\ unknown' = Tail(unknown)
  /\ half' = Unread
  /\ UNCHANGED <<diskVars, idx, pc, dir, found, known, quiet>>

(* a faulty end of the scan, without the removals *)
SweepNothing ==
  /\ pc = "unknown"
  /\ unknown = <<>>
  /\ pc' = "commit"
  /\ UNCHANGED <<diskVars, idx, dir, found, known, unknown, missing, half, ops, quiet>>

(* what is still missing was removed, and the diff is returned *)
Sweep ==
  /\ pc = "unknown"
  /\ unknown = <<>>
  /\ \E removes \in SetToSeqs({ RemoveFileOp(m) : m \in missing }) :
        ops' = ops \o removes
  /\ pc' = "commit"
  /\ UNCHANGED <<diskVars, idx, dir, found, known, unknown, missing, half, quiet>>

(* StateLogger::commitChanges of the diff *)
Commit ==
  /\ pc = "commit"
  /\ idx' = IF CanPerformChanges(idx, ops) THEN PerformChanges(idx, ops) ELSE idx
  /\ quiet' = IF quiet.still /\ quiet.scans < 2 THEN [quiet EXCEPT !.scans = @ + 1]
                                                ELSE quiet
  /\ pc' = "idle"
  /\ missing' = {}
  /\ found' = <<>>
  /\ UNCHANGED <<diskVars, dir, known, unknown, half, ops>>

Scan ==
  \/ Start \/ ListDir \/ Compare
  \/ StatUnchanged \/ StatChanged \/ ReadMore \/ HashChanged \/ KnownDone
  \/ ReadHalf \/ ReadRest \/ Sweep \/ Commit

-----------------------------------------------------------------------------
(* Other programs.                                                         *)

Edit(dated) ==
  /\ edits < MaxEdits
  /\ edits' = edits + 1
  /\ quiet' = [scans |-> 0, still |-> FALSE, stale |-> {}, sure |-> quiet.sure /\ dated]
  /\ UNCHANGED <<idx, scanVars>>

(* new contents at a path, at least a second after any other change *)
Save(p, c) ==
  /\ "save" \in Editing
  /\ Edit(TRUE)
  /\ clock' = clock + 1
  /\ disk' = [disk EXCEPT ![p] = [content |-> c, mtime |-> clock']]

(* new contents at a path in the same second *)
SaveAgain(p, c) ==
  /\ "saveAgain" \in Editing
  /\ Edit(FALSE)
  /\ disk' = [disk EXCEPT ![p] = [content |-> c, mtime |-> clock]]
  /\ UNCHANGED clock

Delete(p) ==
  /\ "delete" \in Editing
  /\ Edit(TRUE)
  /\ Exists(p)
  /\ disk' = [disk EXCEPT ![p] = NoFile]
  /\ UNCHANGED clock

(* a move keeps the time of the file and replaces what was there *)
Move(p, q) ==
  /\ "move" \in Editing
  /\ Edit(FALSE)
  /\ p # q
  /\ Exists(p)
  /\ disk' = [disk EXCEPT ![p] = NoFile, ![q] = disk[p]]
  /\ UNCHANGED clock

Others ==
  \E p \in Paths :
    \/ \E c \in Contents : Save(p, c) \/ SaveAgain(p, c)
    \/ Delete(p)
    \/ \E q \in Paths : Move(p, q)

Init ==
  /\ disk \in [Paths -> { [content |-> c, mtime |-> 1] : c \in Contents } \union {NoFile}]
  /\ clock = 1
  /\ edits = 0
  /\ idx = EmptyIndex
  /\ pc = "idle"
  /\ dir = 0
  /\ found = <<>> /\ known = <<>> /\ unknown = <<>> /\ missing = {}
  /\ half = Unread
  /\ ops = <<>>
  /\ quiet = [scans |-> 0, still |-> FALSE, stale |-> {}, sure |-> TRUE]

Next == Scan \/ Others

Spec == Init /\ [][Next]_vars

-----------------------------------------------------------------------------
(* Properties.                                                             *)

(* The variables keep their types, the lists of a scan name no path twice, *)
(* no path is both found and missing, and a half read file is the head of  *)
(* a list.                                                                 *)
TypeOK ==
  /\ disk \in [Paths -> Files \union {NoFile}]
  /\ clock \in 1..(MaxEdits + 1)
  /\ edits \in 0..MaxEdits
  /\ idx \in Index
  /\ pc \in {"idle", "list", "known", "unknown", "commit"}
  /\ dir \in 0..Len(Dirs)
  /\ \A list \in {found, known, unknown} : list \in Seq(Paths) /\ IsInjective(list)
  /\ missing \subseteq Paths \ ToSet(found)
  /\ ops \in StateDiff
  /\ half \in Readings
  /\ half = Unread \/ (pc = "known" /\ known # <<>>) \/ (pc = "unknown" /\ unknown # <<>>)
  /\ quiet \in [scans : 0..2, still : BOOLEAN, stale : SUBSET Paths, sure : BOOLEAN]

(* Whatever other programs do to the files during a scan, the diff that    *)
(* detectChanges returns is one that canPerformChanges accepts: the caller *)
(* that commits it is never refused.                                       *)
CommitAccepted == pc = "commit" => CanPerformChanges(idx, ops)

(* Scans keep the two hashes of the index in agreement, even when a diff   *)
(* has several renames to one file.                                        *)
IndexSound == Sound(idx)

(* After a scan during which no file was changed, the paths of the index   *)
(* are those of the files on the disk, and the size, at least, of each     *)
(* entry is the size of the file.                                          *)
QuietScanAgrees ==
  pc = "idle" /\ quiet.scans >= 1 =>
    \A p \in Paths :
      /\ KnownFilePath(idx, p) <=> Exists(p)
      /\ Exists(p) => idx.files[p].stamp.size = Stat(p).size

(* While files are read stat first and every edit gives a file a time of   *)
(* its own, a fingerprint is recorded with a stamp that is not younger     *)
(* than it: when the stamp of an entry is that of the file, so is its      *)
(* fingerprint.  If this fails the change is never seen, since             *)
(* sameModifiedAtAndSize skips the file in every later scan                *)
(* (localdiskrepo.cpp:138, fileinfo.cpp:49).                               *)
NoStale == quiet.sure => Stale = {}

(* No scan that runs undisturbed makes an entry stale: it takes an edit,   *)
(* in the middle of a scan or one that leaves a file its stamp, whichever  *)
(* way files are read and whatever the renames of the scan put where       *)
(* (repo.cpp:73-112).                                                      *)
OnlyEditsMakeStale ==
  [][quiet.still /\ edits' = edits => Stale' \subseteq Stale]_vars

(* Two scans in a row without a change leave an index that is the disk,    *)
(* but for the fingerprints that were stale when the first began: the      *)
(* first may record a rename with the old modification time, the second    *)
(* puts it right (repo.cpp:82-106).                                        *)
SettledAfterTwo ==
  pc = "idle" /\ quiet.scans = 2 =>
    \A p \in Paths :
      /\ KnownFilePath(idx, p) <=> Exists(p)
      /\ Exists(p) => idx.files[p].path = p /\ idx.files[p].stamp = Stat(p)
      /\ Exists(p) /\ p \notin quiet.stale => idx.files[p].print = FingerPrint(p)
=============================================================================
