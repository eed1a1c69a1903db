------------------------ MODULE DetectChangesProofs ------------------------
(***************************************************************************)
(* What holds of a scan for any paths, directories, contents and number of *)
(* edits, whenever other programs make them.                               *)
(***************************************************************************)
EXTENDS DetectChanges, StateLemmas, FiniteSetTheorems, SequenceTheorems

Scanning == pc \in {"known", "unknown"}

(* what is found is in the directories that have been listed *)
FoundIsListed ==
  pc = "list" => \A p \in ToSet(found) : \E d \in 1..dir : p \in ToSet(Dirs[d])

(* the lists of a scan agree with the index *)
ListsAgree ==
  Scanning =>
    /\ \A p \in ToSet(known) : KnownFilePath(idx, p) /\ p \notin missing
    /\ \A p \in ToSet(unknown) : ~KnownFilePath(idx, p)
    /\ \A p \in missing : KnownFilePath(idx, p)

(* a diff that can be performed and whose operations are compatible *)
Fits(index, diff) ==
  /\ \A i \in DOMAIN diff : CanPerformOp(index, diff[i])
  /\ \A i, j \in DOMAIN diff : i # j => Compatible(index, diff[i], diff[j])

OpsFit == pc # "idle" => Fits(idx, ops)

(* what is still to be looked at is not yet in the diff *)
NotYet ==
  /\ pc = "list" => ops = <<>>
  /\ Scanning =>
       \A op \in ToSet(ops) :
         /\ SourcesOf(op) \intersect (ToSet(known) \union missing) = {}
         /\ TargetsOf(op) \intersect ToSet(unknown) = {}

(* between scans nothing is missing, and each edit takes at most a second *)
AtRest == pc \in {"idle", "list"} => missing = {}
ClockOK == clock <= edits + 1

ScanInv ==
  /\ TypeOK /\ ClockOK /\ AtRest
  /\ FoundIsListed /\ ListsAgree /\ OpsFit /\ NotYet

-----------------------------------------------------------------------------
(* Diffs that grow.                                                        *)

LEMMA OpsWellFormed ==
  /\ \A p \in Paths, stamp \in Stamps \union {NoStamp}, print \in Prints :
       /\ AddFileOp(p, stamp, print) \in StateOp /\ WellFormedOp(AddFileOp(p, stamp, print))
       /\ ModifyFileOp(p, stamp, print) \in StateOp /\ WellFormedOp(ModifyFileOp(p, stamp, print))
  /\ \A p \in Paths : RemoveFileOp(p) \in StateOp /\ WellFormedOp(RemoveFileOp(p))
  /\ \A p, q \in Paths : RenameFileOp(p, q) \in StateOp /\ WellFormedOp(RenameFileOp(p, q))
BY StateAssumption DEF AddFileOp, ModifyFileOp, RemoveFileOp, RenameFileOp, StateOp, Actions,
   WellFormedOp

LEMMA ConcatIndices ==
  ASSUME NEW S, NEW s \in Seq(S), NEW t \in Seq(S), NEW i \in DOMAIN (s \o t)
  PROVE  \/ i \in DOMAIN s /\ (s \o t)[i] = s[i]
         \/ /\ i - Len(s) \in DOMAIN t
            /\ (s \o t)[i] = t[i - Len(s)]
            /\ i \notin DOMAIN s
<1>1. /\ Len(s) \in Nat /\ Len(t) \in Nat
      /\ DOMAIN s = 1..Len(s) /\ DOMAIN t = 1..Len(t)
      /\ DOMAIN (s \o t) = 1..(Len(s) + Len(t))
  OBVIOUS
<1>2. (s \o t)[i] = IF i <= Len(s) THEN s[i] ELSE t[i - Len(s)]
  BY <1>1, ConcatProperties
<1> QED BY <1>1, <1>2

LEMMA DiffConcat ==
  ASSUME NEW s \in StateDiff, NEW t \in StateDiff
  PROVE  s \o t \in StateDiff
<1>1. s \in Seq(StateOp) /\ t \in Seq(StateOp) /\ s \o t \in Seq(StateOp)
  BY DEF StateDiff
<1>2. ASSUME NEW i \in DOMAIN (s \o t) PROVE WellFormedOp((s \o t)[i])
  BY <1>1, ConcatIndices DEF StateDiff
<1> QED BY <1>1, <1>2 DEF StateDiff

LEMMA CompatibleSymmetric ==
  ASSUME NEW index, NEW a, NEW b, Compatible(index, a, b)
  PROVE  Compatible(index, b, a)
BY DEF Compatible

LEMMA FitsConcat ==
  ASSUME NEW index, NEW s \in StateDiff, NEW t \in StateDiff, Fits(index, s), Fits(index, t),
         \A a \in ToSet(s), b \in ToSet(t) : Compatible(index, a, b)
  PROVE  Fits(index, s \o t)
<1>0. \A i \in DOMAIN s, j \in DOMAIN t : Compatible(index, s[i], t[j])
  BY DEF ToSet
<1>1. s \in Seq(StateOp) /\ t \in Seq(StateOp)
  BY DEF StateDiff
<1>2. ASSUME NEW i \in DOMAIN (s \o t) PROVE CanPerformOp(index, (s \o t)[i])
  BY <1>1, ConcatIndices DEF Fits
<1>3. ASSUME NEW i \in DOMAIN (s \o t), NEW j \in DOMAIN (s \o t), i # j
      PROVE  Compatible(index, (s \o t)[i], (s \o t)[j])
  <2>0. i \in Int /\ j \in Int /\ Len(s) \in Nat
    BY <1>1
  <2>1. CASE i \in DOMAIN s /\ j \in DOMAIN s
    BY <1>1, <1>3, <2>1, ConcatIndices DEF Fits
  <2>2. CASE i \in DOMAIN s /\ j \notin DOMAIN s
    BY <1>0, <1>1, <2>2, ConcatIndices
  <2>3. CASE i \notin DOMAIN s /\ j \in DOMAIN s
    BY <1>0, <1>1, <2>3, ConcatIndices, CompatibleSymmetric
  <2>4. CASE i \notin DOMAIN s /\ j \notin DOMAIN s
    <3>1. /\ i - Len(s) \in DOMAIN t /\ (s \o t)[i] = t[i - Len(s)]
          /\ j - Len(s) \in DOMAIN t /\ (s \o t)[j] = t[j - Len(s)]
      BY <1>1, <2>4, ConcatIndices
    <3>2. i - Len(s) # j - Len(s)
      BY <1>3, <2>0
    <3> QED BY <3>1, <3>2 DEF Fits
  <2> QED BY <2>1, <2>2, <2>3, <2>4
<1> QED BY <1>2, <1>3 DEF Fits

LEMMA DiffOfOne ==
  ASSUME NEW op \in StateOp, WellFormedOp(op), NEW index, CanPerformOp(index, op)
  PROVE  <<op>> \in StateDiff /\ Fits(index, <<op>>)
BY DEF StateDiff, Fits

LEMMA AppendFits ==
  ASSUME NEW index, NEW s \in StateDiff, NEW op \in StateOp, WellFormedOp(op), Fits(index, s),
         CanPerformOp(index, op), \A a \in ToSet(s) : Compatible(index, a, op)
  PROVE  Append(s, op) \in StateDiff /\ Fits(index, Append(s, op))
<1>1. Append(s, op) = s \o <<op>>
  BY AppendIsConcat DEF StateDiff
<1>2. <<op>> \in StateDiff /\ Fits(index, <<op>>)
  BY DiffOfOne
<1>3. ToSet(<<op>>) = {op}
  BY DEF ToSet
<1> HIDE DEF Fits
<1> QED BY <1>1, <1>2, <1>3, DiffConcat, FitsConcat

(* a set of operations, in any order *)
LEMMA AnyOrder ==
  ASSUME NEW S, IsFiniteSet(S), NEW f \in SetToSeqs(S)
  PROVE  /\ f \in Seq(S)
         /\ \A i \in DOMAIN f : f[i] \in S
         /\ \A i, j \in DOMAIN f : i # j => f[i] # f[j]
<1>1. Cardinality(S) \in Nat
  BY FS_CardinalityType
<1>2. f \in [1..Cardinality(S) -> S]
      /\ \A i, j \in 1..Cardinality(S) : i # j => f[i] # f[j]
  BY DEF SetToSeqs
<1>3. f \in Seq(S)
  <2> DEFINE n == Cardinality(S)
  <2> HIDE DEF n
  <2>1. n \in Nat /\ f \in [1..n -> S]
    BY <1>1, <1>2 DEF n
  <2> QED BY <2>1
<1> QED BY <1>2, <1>3

LEMMA AnyOrderFits ==
  ASSUME NEW index, NEW S \in SUBSET StateOp, IsFiniteSet(S), NEW f \in SetToSeqs(S),
         \A op \in S : WellFormedOp(op) /\ CanPerformOp(index, op),
         \A a, b \in S : a # b => Compatible(index, a, b)
  PROVE  f \in StateDiff /\ Fits(index, f) /\ ToSet(f) \subseteq S
<1>1. /\ f \in Seq(S) /\ \A i \in DOMAIN f : f[i] \in S
      /\ \A i, j \in DOMAIN f : i # j => f[i] # f[j]
  BY AnyOrder
<1>2. f \in Seq(StateOp)
  BY <1>1
<1> QED BY <1>1, <1>2 DEF StateDiff, Fits, ToSet

LEMMA RemovesFinite ==
  ASSUME NEW M \in SUBSET Paths
  PROVE  IsFiniteSet({ RemoveFileOp(m) : m \in M })
<1> DEFINE S == { RemoveFileOp(m) : m \in M }
           f == [m \in M |-> RemoveFileOp(m)]
<1>1. IsFiniteSet(M)
  BY FS_Subset, ScanAssumption DEF ScanAssumption
<1>2. f \in Surjection(M, S)
  BY DEF Surjection
<1> QED BY <1>1, <1>2, FS_Surjection

LEMMA RenamesFinite ==
  ASSUME NEW M \in SUBSET Paths, NEW p
  PROVE  IsFiniteSet({ RenameFileOp(m, p) : m \in M })
<1> DEFINE S == { RenameFileOp(m, p) : m \in M }
           f == [m \in M |-> RenameFileOp(m, p)]
<1>1. IsFiniteSet(M)
  BY FS_Subset, ScanAssumption DEF ScanAssumption
<1>2. f \in Surjection(M, S)
  BY DEF Surjection
<1> QED BY <1>1, <1>2, FS_Surjection

-----------------------------------------------------------------------------
(* What is read.                                                           *)

LEMMA ReadingType ==
  ASSUME TypeOK, NEW p \in Paths
  PROVE  /\ Stat(p) \in Stamps /\ FingerPrint(p) \in Prints /\ Hashed(p) \subseteq Prints
         /\ disk[p] \in Files \union {NoFile}
<1>1. disk[p] \in Files \union {NoFile} /\ half.file \in Files \union {NoFile}
  BY DEF TypeOK, Readings
<1>2. \A file \in Files \union {NoFile} : file # NoFile =>
        file.content \in Contents /\ file.mtime \in 0..(MaxEdits + 1)
  BY ScanAssumption DEF Files, ScanAssumption
<1>3. 0 \in 0..(MaxEdits + 1)
  BY ScanAssumption DEF ScanAssumption
<1>4. Stat(p) \in Stamps /\ FingerPrint(p) \in Prints
  BY <1>1, <1>2, <1>3, ScanAssumption, StateAssumption
     DEF ScanAssumption, StateAssumption, Stat, FingerPrint, Exists
<1>5. Hashed(p) \subseteq Prints
  <2>1. NoPrint \in Prints /\ Mixture \in Prints /\ \A c \in Contents : Sha1(c) \in Prints
    BY ScanAssumption, StateAssumption DEF ScanAssumption, StateAssumption
  <2>2. half.file # NoFile => Sha1(half.file.content) \in Prints
    BY <1>1, <1>2, <2>1
  <2>3. disk[p] # NoFile => Sha1(disk[p].content) \in Prints
    BY <1>1, <1>2, <2>1
  <2> QED BY <2>1, <2>2, <2>3 DEF Hashed
<1> QED BY <1>1, <1>4, <1>5

LEMMA UnreadType == Unread \in Readings
BY StateAssumption DEF StateAssumption, Unread, Readings

LEMMA ReadFirstType ==
  ASSUME TypeOK, NEW p \in Paths, NEW order
  PROVE  ReadFirst(p, order) \in Readings
<1>1. Stat(p) \in Stamps /\ disk[p] \in Files \union {NoFile}
  BY ReadingType
<1> QED BY <1>1, UnreadType DEF ReadFirst, Readings

LEMMA ContinueType ==
  ASSUME TypeOK, NEW p \in Paths, NEW read \in Continue(p)
  PROVE  /\ read.stamp \in Stamps \union {NoStamp} /\ read.print \in Prints
         /\ read.next # "done" => read \in Readings
<1>1. /\ half \in Readings /\ Stat(p) \in Stamps /\ disk[p] \in Files \union {NoFile}
      /\ Hashed(p) \subseteq Prints
  BY ReadingType DEF TypeOK
<1>2. CASE half.next = "open"
  <2>1. read = [half EXCEPT !.file = disk[p], !.next = "hash"]
    BY <1>2 DEF Continue
  <2> QED BY <1>1, <2>1 DEF Readings
<1>3. CASE half.next = "hash"
  <2>1. PICK s \in Hashed(p) :
          read = [half EXCEPT !.file = NoFile, !.print = s,
                              !.next = IF half.stamp = NoStamp THEN "stat" ELSE "done"]
    BY <1>3 DEF Continue
  <2> QED BY <1>1, <2>1 DEF Readings
<1>4. CASE half.next \notin {"open", "hash"}
  <2>1. read = [half EXCEPT !.stamp = Stat(p), !.next = "done"]
    BY <1>4 DEF Continue
  <2> QED BY <1>1, <2>1 DEF Readings
<1> QED BY <1>2, <1>3, <1>4

-----------------------------------------------------------------------------
(* Each step.                                                              *)

LEMMA StartKeeps ==
  ASSUME ScanInv, Start PROVE ScanInv'
<1>1. <<>> \in StateDiff /\ Fits(idx, <<>>)
  BY DEF StateDiff, Fits
<1>2. <<>> \in Seq(Paths) /\ IsInjective(<<>>) /\ ToSet(<<>>) = {} /\ 0 \in 0..Len(Dirs)
  BY ScanAssumption DEF IsInjective, ToSet, ScanAssumption
<1> USE DEF ScanInv, Start, diskVars
<1>3. TypeOK'
  <2>1. quiet' \in [scans : 0..2, still : BOOLEAN, stale : SUBSET Paths, sure : BOOLEAN]
    <3>1. Stale \in SUBSET Paths
      BY DEF Stale
    <3>2. quiet \in [scans : 0..2, still : BOOLEAN, stale : SUBSET Paths, sure : BOOLEAN]
      BY DEF TypeOK
    <3> QED BY <3>1, <3>2
  <2> QED BY <1>1, <1>2, <2>1, Zenon DEF TypeOK
<1>4. ClockOK' /\ AtRest' /\ FoundIsListed' /\ ListsAgree' /\ NotYet' /\ OpsFit'
  BY <1>1, <1>2 DEF ClockOK, AtRest, FoundIsListed, ListsAgree, NotYet, OpsFit, Scanning
<1> QED BY <1>3, <1>4

LEMMA ListDirKeeps ==
  ASSUME ScanInv, ListDir PROVE ScanInv'
<1> DEFINE here == Dirs[dir + 1]
           gone == { p \in Paths : ~Exists(p) }
           more == Without(here, gone)
<1>1. /\ dir \in Nat /\ dir + 1 \in 1..Len(Dirs) /\ DOMAIN Dirs = 1..Len(Dirs)
      /\ here \in Seq(Paths) /\ dir + 1 \in 0..Len(Dirs)
      /\ 1..dir \subseteq 1..Len(Dirs) /\ 1..dir \subseteq 1..(dir + 1)
      /\ dir + 1 \notin 1..dir /\ dir + 1 \in 1..(dir + 1)
  BY ScanAssumption DEF ScanAssumption, ScanInv, TypeOK, ListDir
<1>2. IsInjective(here) /\ \A d \in 1..dir : ToSet(Dirs[d]) \intersect ToSet(here) = {}
  <2>1. \A d, e \in 1..Len(Dirs) : \A i \in DOMAIN Dirs[d], j \in DOMAIN Dirs[e] :
           Dirs[d][i] = Dirs[e][j] => d = e /\ i = j
    BY <1>1, ScanAssumption DEF ScanAssumption
  <2>2. \A d \in 1..dir : d \in 1..Len(Dirs) /\ d # dir + 1
    BY <1>1
  <2>3. IsInjective(here)
    BY <1>1, <2>1 DEF IsInjective
  <2>4. ASSUME NEW d \in 1..dir PROVE ToSet(Dirs[d]) \intersect ToSet(here) = {}
    BY <1>1, <2>1, <2>2 DEF ToSet
  <2> QED BY <2>3, <2>4
<1> HIDE DEF here, gone
<1>3. more \in Seq(Paths) /\ IsInjective(more) /\ ToSet(more) \subseteq ToSet(here)
  BY <1>1, <1>2, WithoutType, WithoutInjective, SetOfWithout
<1> HIDE DEF more
<1>4. /\ found \in Seq(Paths) /\ IsInjective(found) /\ pc = "list"
      /\ \A p \in ToSet(found) : \E d \in 1..dir : p \in ToSet(Dirs[d])
      /\ missing = {}
  BY DEF ScanInv, TypeOK, ListDir, FoundIsListed, AtRest
<1>5. ToSet(found) \intersect ToSet(more) = {}
  BY <1>2, <1>3, <1>4
<1>6. found' = found \o more /\ dir' = dir + 1
  BY DEF ListDir, here, gone, more
<1>7. found' \in Seq(Paths) /\ IsInjective(found') /\ ToSet(found') = ToSet(found) \union ToSet(more)
  BY <1>3, <1>4, <1>5, <1>6, InjectiveConcat, ConcatAsSet
<1>8. TypeOK'
  BY <1>1, <1>4, <1>6, <1>7, Zenon DEF ScanInv, TypeOK, ListDir, diskVars
<1>9. FoundIsListed'
  BY <1>1, <1>3, <1>4, <1>6, <1>7 DEF FoundIsListed, here
<1>10. ClockOK' /\ AtRest' /\ ListsAgree' /\ NotYet' /\ OpsFit'
  BY <1>4 DEF ScanInv, ListDir, diskVars, ClockOK, AtRest, ListsAgree, NotYet, OpsFit, Scanning
<1> QED BY <1>8, <1>9, <1>10 DEF ScanInv

LEMMA CompareKeeps ==
  ASSUME ScanInv, Compare PROVE ScanInv'
<1> DEFINE indexed == { p \in Paths : KnownFilePath(idx, p) }
<1>1. found \in Seq(Paths) /\ IsInjective(found) /\ ToSet(found) \subseteq Paths
      /\ half = Unread /\ ops = <<>>
  BY DEF ScanInv, TypeOK, Compare, NotYet, ToSet
<1>2. /\ known' \in Seq(Paths) /\ IsInjective(known')
      /\ unknown' \in Seq(Paths) /\ IsInjective(unknown')
      /\ ToSet(known') \subseteq ToSet(found) \ (Paths \ indexed)
      /\ ToSet(unknown') \subseteq ToSet(found) \ indexed
      /\ missing' = indexed \ ToSet(found)
  <2> HIDE DEF indexed
  <2>1. /\ known' = Without(found, Paths \ indexed) /\ unknown' = Without(found, indexed)
        /\ missing' = indexed \ ToSet(found)
    BY DEF Compare, indexed
  <2> QED BY <1>1, <2>1, WithoutType, WithoutInjective, SetOfWithout
<1>3. TypeOK'
  BY <1>1, <1>2, Zenon DEF ScanInv, TypeOK, Compare, diskVars
<1>4. ListsAgree'
  BY <1>1, <1>2 DEF ListsAgree, KnownFilePath, Compare
<1>5. ToSet(<<>>) = {}
  BY SetOfEmpty
<1>6. ClockOK' /\ AtRest' /\ FoundIsListed' /\ NotYet' /\ OpsFit'
  BY <1>1, <1>5 DEF ScanInv, Compare, diskVars, ClockOK, AtRest, FoundIsListed, NotYet, OpsFit,
     Scanning
<1> QED BY <1>3, <1>4, <1>6 DEF ScanInv

LEMMA StatUnchangedKeeps ==
  ASSUME ScanInv, StatUnchanged PROVE ScanInv'
<1>1. /\ known \in Seq(Paths) /\ IsInjective(known) /\ known # <<>> /\ pc = "known"
  BY DEF ScanInv, TypeOK, StatUnchanged
<1>2. Tail(known) \in Seq(Paths) /\ IsInjective(Tail(known))
      /\ ToSet(Tail(known)) \subseteq ToSet(known)
  BY <1>1, InjectiveTail, SetOfTail
<1>3. TypeOK'
  BY <1>1, <1>2, Zenon DEF ScanInv, TypeOK, StatUnchanged, diskVars
<1>4. ListsAgree' /\ NotYet'
  BY <1>1, <1>2 DEF ScanInv, StatUnchanged, ListsAgree, NotYet, Scanning
<1>5. ClockOK' /\ AtRest' /\ FoundIsListed' /\ OpsFit'
  BY <1>1 DEF ScanInv, StatUnchanged, diskVars, ClockOK, AtRest, FoundIsListed, OpsFit
<1> QED BY <1>3, <1>4, <1>5 DEF ScanInv

(* a file that is half read changes nothing else *)
LEMMA HalfKeeps ==
  ASSUME ScanInv, UNCHANGED <<diskVars, idx, pc, dir, found, known, unknown, missing, ops>>,
         half' \in Readings,
         quiet' \in [scans : 0..2, still : BOOLEAN, stale : SUBSET Paths, sure : BOOLEAN],
         (pc = "known" /\ known # <<>>) \/ (pc = "unknown" /\ unknown # <<>>)
  PROVE  ScanInv'
<1>1. TypeOK'
  BY Zenon DEF ScanInv, TypeOK, diskVars
<1>2. ClockOK' /\ AtRest' /\ FoundIsListed' /\ ListsAgree' /\ NotYet' /\ OpsFit'
  BY DEF ScanInv, diskVars, ClockOK, AtRest, FoundIsListed, ListsAgree, NotYet, OpsFit, Scanning
<1> QED BY <1>1, <1>2 DEF ScanInv

LEMMA ReadMoreKeeps ==
  ASSUME ScanInv, ReadMore PROVE ScanInv'
<1> DEFINE path == Head(IF pc = "known" THEN known ELSE unknown)
<1>1. PICK read \in Continue(path) : read.next # "done" /\ half' = read
  BY DEF ReadMore
<1>2. (pc = "known" /\ known # <<>>) \/ (pc = "unknown" /\ unknown # <<>>)
  BY DEF ScanInv, TypeOK, ReadMore
<1>3. path \in Paths
  BY <1>2, HeadTailProperties DEF ScanInv, TypeOK
<1> HIDE DEF path
<1>4. half' \in Readings
  BY <1>1, <1>3, ContinueType DEF ScanInv
<1>5. quiet' \in [scans : 0..2, still : BOOLEAN, stale : SUBSET Paths, sure : BOOLEAN]
  BY DEF ReadMore, ScanInv, TypeOK
<1> QED BY <1>2, <1>4, <1>5, HalfKeeps DEF ReadMore

LEMMA HashChangedKeeps ==
  ASSUME ScanInv, HashChanged PROVE ScanInv'
<1> DEFINE path == Head(known)
<1>0. PICK read \in Continue(path) :
        ops' = Append(ops, ModifyFileOp(path, read.stamp, read.print))
  BY DEF HashChanged
<1> DEFINE op == ModifyFileOp(path, read.stamp, read.print)
<1>1. /\ known \in Seq(Paths) /\ IsInjective(known) /\ known # <<>> /\ pc = "known"
      /\ ops \in StateDiff /\ Fits(idx, ops)
  BY DEF ScanInv, TypeOK, HashChanged, OpsFit
<1>2. /\ Tail(known) \in Seq(Paths) /\ IsInjective(Tail(known))
      /\ ToSet(Tail(known)) \subseteq ToSet(known)
      /\ path \in ToSet(known) /\ path \notin ToSet(Tail(known)) /\ path \in Paths
  BY <1>1, InjectiveTail, SetOfTail, HeadTailProperties
<1> HIDE DEF path
<1>3. op \in StateOp /\ WellFormedOp(op)
  BY <1>0, <1>2, ContinueType, OpsWellFormed DEF ScanInv
<1>4. SourcesOf(op) = {path} /\ TargetsOf(op) = {} /\ CanPerformOp(idx, op) /\ path \notin missing
  BY <1>1, <1>2 DEF ModifyFileOp, SourcesOf, TargetsOf, CanPerformOp, ScanInv, ListsAgree, Scanning
<1> HIDE DEF op
<1>5. \A a \in ToSet(ops) : Compatible(idx, a, op)
  BY <1>1, <1>2, <1>4 DEF ScanInv, NotYet, Compatible, Scanning
<1>6. ops' = Append(ops, op) /\ ops' \in StateDiff /\ Fits(idx, ops')
  <2>1. ops' = Append(ops, op)
    BY <1>0 DEF op
  <2> QED BY <1>1, <1>3, <1>4, <1>5, <2>1, AppendFits
<1>7. ToSet(ops') = ToSet(ops) \union {op}
  BY <1>1, <1>3, <1>6, SetOfAppend DEF StateDiff
<1>8. Unread \in Readings
  BY UnreadType
<1>9. TypeOK'
  BY <1>1, <1>2, <1>6, <1>8, Zenon DEF ScanInv, TypeOK, HashChanged, diskVars
<1>10. ListsAgree' /\ NotYet'
  BY <1>1, <1>2, <1>4, <1>7 DEF ScanInv, HashChanged, ListsAgree, NotYet, Scanning
<1>11. ClockOK' /\ AtRest' /\ FoundIsListed' /\ OpsFit'
  BY <1>1, <1>6 DEF ScanInv, HashChanged, diskVars, ClockOK, AtRest, FoundIsListed, OpsFit
<1> QED BY <1>9, <1>10, <1>11 DEF ScanInv

LEMMA KnownDoneKeeps ==
  ASSUME ScanInv, KnownDone PROVE ScanInv'
<1>1. half = Unread /\ pc = "known"
  BY DEF ScanInv, TypeOK, KnownDone
<1>2. TypeOK'
  BY <1>1, Zenon DEF ScanInv, TypeOK, KnownDone, diskVars
<1>3. ClockOK' /\ AtRest' /\ FoundIsListed' /\ ListsAgree' /\ NotYet' /\ OpsFit'
  BY <1>1 DEF ScanInv, KnownDone, diskVars, ClockOK, AtRest, FoundIsListed, ListsAgree, NotYet,
     OpsFit, Scanning
<1> QED BY <1>2, <1>3 DEF ScanInv

(* the rest of the unknown files, with whatever has come to the diff *)
LEMMA NextUnknown ==
  ASSUME ScanInv, pc = "unknown", unknown # <<>>, UNCHANGED <<diskVars, idx, pc, dir, found, known, quiet>>,
         unknown' = Tail(unknown), half' = Unread, missing' \subseteq missing,
         ops' \in StateDiff, Fits(idx, ops'),
         \A op \in ToSet(ops') \ ToSet(ops) :
           /\ SourcesOf(op) \intersect (ToSet(known) \union missing') = {}
           /\ TargetsOf(op) \subseteq {Head(unknown)}
  PROVE  ScanInv'
<1>1. unknown \in Seq(Paths) /\ IsInjective(unknown) /\ missing \subseteq Paths \ ToSet(found)
  BY DEF ScanInv, TypeOK
<1>2. /\ Tail(unknown) \in Seq(Paths) /\ IsInjective(Tail(unknown))
      /\ ToSet(Tail(unknown)) \subseteq ToSet(unknown)
      /\ Head(unknown) \notin ToSet(Tail(unknown))
  BY <1>1, InjectiveTail, SetOfTail
<1>3. Unread \in Readings
  BY UnreadType
<1>4. TypeOK'
  <2>1. missing' \subseteq Paths \ ToSet(found)
    BY <1>1
  <2> QED BY <1>2, <1>3, <2>1, Zenon DEF ScanInv, TypeOK, diskVars
<1>5. ListsAgree'
  BY <1>2 DEF ScanInv, ListsAgree, Scanning
<1>6. NotYet'
  BY <1>2 DEF ScanInv, NotYet, Scanning
<1>7. ClockOK' /\ AtRest' /\ FoundIsListed' /\ OpsFit'
  BY DEF ScanInv, diskVars, ClockOK, AtRest, FoundIsListed, OpsFit
<1> QED BY <1>4, <1>5, <1>6, <1>7 DEF ScanInv

(* what a file that has been read adds to the diff *)
Brings(path, info) ==
  LET olds == Identical(info)
  IN  /\ missing' = missing \ olds
      /\ IF olds = {}
           THEN ops' = Append(ops, AddFileOp(path, info.stamp, info.print))
           ELSE \E renames \in SetToSeqs({ RenameFileOp(m, path) : m \in olds }) :
                   ops' = ops \o renames

LEMMA ReadRestKeeps ==
  ASSUME ScanInv, ReadRest PROVE ScanInv'
<1> DEFINE path == Head(unknown)
<1>0. PICK info \in Continue(path) : info.next = "done" /\ Brings(path, info)
  BY Zenon DEF ReadRest, Brings
<1> DEFINE olds == Identical(info)
<1>1. /\ unknown \in Seq(Paths) /\ unknown # <<>> /\ pc = "unknown"
      /\ missing \subseteq Paths /\ ops \in StateDiff /\ Fits(idx, ops)
      /\ UNCHANGED <<diskVars, idx, pc, dir, found, known, quiet>>
      /\ unknown' = Tail(unknown) /\ half' = Unread
  BY DEF ScanInv, TypeOK, ReadRest, OpsFit
<1>2. path \in ToSet(unknown) /\ path \in Paths
  BY <1>1, SetOfTail, HeadTailProperties
<1>3. ~KnownFilePath(idx, path)
      /\ \A a \in ToSet(ops) : path \notin TargetsOf(a) /\ SourcesOf(a) \intersect missing = {}
  BY <1>1, <1>2 DEF ScanInv, ListsAgree, NotYet, Scanning
<1>4. olds \subseteq missing /\ missing' = missing \ olds
      /\ \A m \in olds : KnownFilePath(idx, m) /\ idx.files[m].print = info.print
                         /\ m \notin ToSet(known) /\ m \in Paths
  BY <1>0, <1>1 DEF ScanInv, ListsAgree, Scanning, Identical, Brings
<1>5. CASE olds = {}
  <2> DEFINE add == AddFileOp(path, info.stamp, info.print)
  <2>1. ops' = Append(ops, add)
    BY <1>0, <1>5 DEF Brings
  <2>2. add \in StateOp /\ WellFormedOp(add)
    BY <1>0, <1>2, ContinueType, OpsWellFormed DEF ScanInv
  <2>3. SourcesOf(add) = {} /\ TargetsOf(add) = {path} /\ CanPerformOp(idx, add)
    BY <1>3 DEF AddFileOp, SourcesOf, TargetsOf, CanPerformOp
  <2> HIDE DEF add, path
  <2>4. \A a \in ToSet(ops) : Compatible(idx, a, add)
    BY <1>3, <2>3 DEF Compatible
  <2>5. ops' \in StateDiff /\ Fits(idx, ops')
    BY <1>1, <2>1, <2>2, <2>4, <2>3, AppendFits
  <2>6. ToSet(ops') = ToSet(ops) \union {add}
    BY <1>1, <2>1, <2>2, SetOfAppend DEF StateDiff
  <2> QED BY <1>1, <1>4, <2>3, <2>5, <2>6, NextUnknown DEF path
<1>6. CASE olds # {}
  <2> DEFINE R == { RenameFileOp(m, path) : m \in olds }
  <2>1. PICK renames \in SetToSeqs(R) : ops' = ops \o renames
    BY <1>0, <1>6, Zenon DEF Brings
  <2> HIDE DEF path, olds
  <2>2. /\ \A op \in R : op \in StateOp /\ WellFormedOp(op) /\ op.action = "RenameFile"
        /\ \A op \in R : SourcesOf(op) \subseteq olds /\ TargetsOf(op) = {path}
        /\ \A op \in R : CanPerformOp(idx, op)
    <3>1. SUFFICES ASSUME NEW m \in olds
          PROVE LET r == RenameFileOp(m, path)
                IN  /\ r \in StateOp /\ WellFormedOp(r) /\ r.action = "RenameFile"
                    /\ SourcesOf(r) \subseteq olds /\ TargetsOf(r) = {path}
                    /\ CanPerformOp(idx, r)
      OBVIOUS
    <3>2. RenameFileOp(m, path) \in StateOp /\ WellFormedOp(RenameFileOp(m, path))
      BY <1>2, <1>4, OpsWellFormed
    <3> QED BY <1>3, <1>4, <3>2 DEF RenameFileOp, SourcesOf, TargetsOf, CanPerformOp
  <2>3. \A a, b \in R : a # b => Compatible(idx, a, b)
    <3>1. SUFFICES ASSUME NEW m \in olds, NEW n \in olds, m # n
          PROVE Compatible(idx, RenameFileOp(m, path), RenameFileOp(n, path))
      OBVIOUS
    <3> QED BY <1>4, <3>1 DEF RenameFileOp, Compatible, SourcesOf, TargetsOf
  <2>4. IsFiniteSet(R)
    BY <1>1, <1>4, RenamesFinite
  <2> HIDE DEF R
  <2>5. renames \in StateDiff /\ Fits(idx, renames) /\ ToSet(renames) \subseteq R
    BY <2>2, <2>3, <2>4, AnyOrderFits
  <2>6. \A a \in ToSet(ops), b \in ToSet(renames) : Compatible(idx, a, b)
    BY <1>3, <1>4, <2>2, <2>5 DEF Compatible
  <2>7. ops' \in StateDiff /\ Fits(idx, ops')
    BY <1>1, <2>1, <2>5, <2>6, DiffConcat, FitsConcat
  <2>8. ToSet(ops') = ToSet(ops) \union ToSet(renames)
    BY <1>1, <2>1, <2>5, ConcatAsSet DEF StateDiff
  <2>9. \A op \in ToSet(ops') \ ToSet(ops) :
          /\ SourcesOf(op) \intersect (ToSet(known) \union missing') = {}
          /\ TargetsOf(op) \subseteq {path}
    BY <1>4, <2>2, <2>5, <2>8
  <2> QED BY <1>1, <1>4, <2>7, <2>9, NextUnknown DEF path
<1> QED BY <1>5, <1>6

LEMMA SweepKeeps ==
  ASSUME ScanInv, Sweep PROVE ScanInv'
<1> DEFINE R == { RemoveFileOp(m) : m \in missing }
<1>1. /\ half = Unread /\ pc = "unknown" /\ missing \subseteq Paths
      /\ ops \in StateDiff /\ Fits(idx, ops)
  BY DEF ScanInv, TypeOK, Sweep, OpsFit
<1>2. \A m \in missing : KnownFilePath(idx, m)
  BY <1>1 DEF ScanInv, ListsAgree, Scanning
<1>3. PICK removes \in SetToSeqs(R) : ops' = ops \o removes
  BY Zenon DEF Sweep
<1>4. \A op \in R : /\ op \in StateOp /\ WellFormedOp(op) /\ CanPerformOp(idx, op)
                    /\ SourcesOf(op) \subseteq missing /\ TargetsOf(op) = {}
  <2>1. SUFFICES ASSUME NEW m \in missing
        PROVE LET op == RemoveFileOp(m)
              IN  /\ op \in StateOp /\ WellFormedOp(op) /\ CanPerformOp(idx, op)
                  /\ SourcesOf(op) \subseteq missing /\ TargetsOf(op) = {}
    OBVIOUS
  <2>2. RemoveFileOp(m) \in StateOp /\ WellFormedOp(RemoveFileOp(m))
    BY <1>1, OpsWellFormed
  <2> QED BY <1>2, <2>2 DEF RemoveFileOp, SourcesOf, TargetsOf, CanPerformOp
<1>5. \A a, b \in R : a # b => Compatible(idx, a, b)
  <2>1. SUFFICES ASSUME NEW m \in missing, NEW n \in missing, m # n
        PROVE Compatible(idx, RemoveFileOp(m), RemoveFileOp(n))
    OBVIOUS
  <2> QED BY <2>1 DEF RemoveFileOp, Compatible, SourcesOf, TargetsOf
<1>6. IsFiniteSet(R)
  BY <1>1, RemovesFinite
<1> HIDE DEF R
<1>7. removes \in StateDiff /\ Fits(idx, removes) /\ ToSet(removes) \subseteq R
  BY <1>4, <1>5, <1>6, AnyOrderFits
<1>8. \A a \in ToSet(ops), b \in ToSet(removes) : Compatible(idx, a, b)
  BY <1>1, <1>4, <1>7 DEF ScanInv, NotYet, Scanning, Compatible
<1>9. ops' \in StateDiff /\ Fits(idx, ops')
  BY <1>1, <1>3, <1>7, <1>8, DiffConcat, FitsConcat
<1>10. TypeOK'
  BY <1>1, <1>9, Zenon DEF ScanInv, TypeOK, Sweep, diskVars
<1>11. ClockOK' /\ AtRest' /\ FoundIsListed' /\ ListsAgree' /\ NotYet' /\ OpsFit'
  BY <1>9 DEF ScanInv, Sweep, diskVars, ClockOK, AtRest, FoundIsListed, ListsAgree, NotYet,
     OpsFit, Scanning
<1> QED BY <1>10, <1>11 DEF ScanInv

LEMMA CommitKeeps ==
  ASSUME ScanInv, Commit PROVE ScanInv'
<1>1. idx' \in Index
  BY PerformChangesType DEF ScanInv, TypeOK, Commit
<1>2. half = Unread
  BY DEF ScanInv, TypeOK, Commit
<1>3. quiet' \in [scans : 0..2, still : BOOLEAN, stale : SUBSET Paths, sure : BOOLEAN]
  <2>1. quiet \in [scans : 0..2, still : BOOLEAN, stale : SUBSET Paths, sure : BOOLEAN]
    BY DEF ScanInv, TypeOK
  <2>2. quiet.scans < 2 => quiet.scans + 1 \in 0..2
    BY <2>1
  <2> QED BY <2>1, <2>2 DEF Commit
<1>4. <<>> \in Seq(Paths) /\ IsInjective(<<>>) /\ ToSet(<<>>) = {}
  BY DEF IsInjective, ToSet
<1>5. TypeOK'
  BY <1>1, <1>2, <1>3, <1>4, Zenon DEF ScanInv, TypeOK, Commit, diskVars
<1>6. ClockOK' /\ AtRest' /\ FoundIsListed' /\ ListsAgree' /\ NotYet' /\ OpsFit'
  BY DEF ScanInv, Commit, diskVars, ClockOK, AtRest, FoundIsListed, ListsAgree, NotYet, OpsFit,
     Scanning
<1> QED BY <1>5, <1>6 DEF ScanInv

LEMMA OthersKeep ==
  ASSUME ScanInv, Others PROVE ScanInv'
<1>1. /\ disk \in [Paths -> Files \union {NoFile}] /\ clock \in 1..(MaxEdits + 1)
      /\ edits \in 0..MaxEdits /\ clock <= edits + 1 /\ MaxEdits \in Nat
  BY ScanAssumption DEF ScanInv, TypeOK, ClockOK, ScanAssumption
<1>2. PICK dated \in BOOLEAN : Edit(dated)
  BY DEF Others, Save, SaveAgain, Delete, Move
<1>3. edits < MaxEdits /\ edits' = edits + 1 /\ quiet' \in [scans : 0..2, still : BOOLEAN, stale : SUBSET Paths, sure : BOOLEAN]
  BY <1>2 DEF ScanInv, TypeOK, Edit
<1>4. /\ disk' \in [Paths -> Files \union {NoFile}]
      /\ clock' \in {clock, clock + 1}
  <2>1. PICK p \in Paths : \/ \E c \in Contents : Save(p, c) \/ SaveAgain(p, c)
                          \/ Delete(p)
                          \/ \E q \in Paths : Move(p, q)
    BY Zenon DEF Others
  <2>2. ASSUME NEW c \in Contents, Save(p, c)
        PROVE  disk' \in [Paths -> Files \union {NoFile}] /\ clock' \in {clock, clock + 1}
    <3>1. [content |-> c, mtime |-> clock + 1] \in Files
      BY <1>1, <1>3 DEF Files
    <3> QED BY <1>1, <2>2, <3>1 DEF Save
  <2>3. ASSUME NEW c \in Contents, SaveAgain(p, c)
        PROVE  disk' \in [Paths -> Files \union {NoFile}] /\ clock' \in {clock, clock + 1}
    <3>1. [content |-> c, mtime |-> clock] \in Files
      BY <1>1 DEF Files
    <3> QED BY <1>1, <2>3, <3>1 DEF SaveAgain
  <2>4. CASE Delete(p)
    BY <1>1, <2>4 DEF Delete
  <2>5. ASSUME NEW q \in Paths, Move(p, q)
        PROVE  disk' \in [Paths -> Files \union {NoFile}] /\ clock' \in {clock, clock + 1}
    BY <1>1, <2>5 DEF Move
  <2> QED BY <2>1, <2>2, <2>3, <2>4, <2>5
<1>5. clock' \in 1..(MaxEdits + 1) /\ edits' \in 0..MaxEdits /\ clock' <= edits' + 1
  BY <1>1, <1>3, <1>4
<1>6. TypeOK'
  BY <1>2, <1>3, <1>4, <1>5, Zenon DEF ScanInv, TypeOK, Edit, scanVars
<1>7. ClockOK' /\ AtRest' /\ FoundIsListed' /\ ListsAgree' /\ NotYet' /\ OpsFit'
  BY <1>2, <1>5 DEF ScanInv, Edit, scanVars, ClockOK, AtRest, FoundIsListed, ListsAgree, NotYet,
     OpsFit, Scanning
<1> QED BY <1>6, <1>7 DEF ScanInv

-----------------------------------------------------------------------------
LEMMA InitiallyInv == Init => ScanInv
<1> SUFFICES ASSUME Init PROVE ScanInv
  OBVIOUS
<1>1. disk \in [Paths -> Files \union {NoFile}]
  <2>1. \A c \in Contents : [content |-> c, mtime |-> 1] \in Files
    BY ScanAssumption DEF Files, ScanAssumption
  <2> QED BY <2>1 DEF Init
<1>2. Unread \in Readings
  BY UnreadType
<1>3. <<>> \in Seq(Paths) /\ IsInjective(<<>>) /\ ToSet(<<>>) = {} /\ <<>> \in StateDiff
  BY DEF IsInjective, ToSet, StateDiff
<1>4. /\ 1 \in 1..(MaxEdits + 1) /\ 0 \in 0..MaxEdits /\ 0 \in 0..Len(Dirs) /\ 0 \in 0..2
      /\ 1 <= 0 + 1
  BY ScanAssumption DEF ScanAssumption
<1>5. TypeOK
  BY <1>1, <1>2, <1>3, <1>4, EmptyIndexType, Zenon DEF Init, TypeOK
<1>6. ClockOK /\ AtRest /\ FoundIsListed /\ ListsAgree /\ NotYet /\ OpsFit
  BY <1>4 DEF Init, ClockOK, AtRest, FoundIsListed, ListsAgree, NotYet, OpsFit, Scanning
<1> QED BY <1>5, <1>6 DEF ScanInv

LEMMA Invariant == Spec => []ScanInv
<1>1. ScanInv /\ [Next]_vars => ScanInv'
  <2> SUFFICES ASSUME ScanInv, [Next]_vars PROVE ScanInv'
    OBVIOUS
  <2>1. CASE Scan
    <3>1. ASSUME StatChanged PROVE ScanInv'
      <4>1. Head(known) \in Paths /\ known # <<>> /\ pc = "known"
        BY <3>1, HeadTailProperties DEF ScanInv, TypeOK, StatChanged
      <4>2. half' \in Readings
        BY <3>1, <4>1, ReadFirstType DEF StatChanged, ScanInv
      <4>3. quiet' \in [scans : 0..2, still : BOOLEAN, stale : SUBSET Paths, sure : BOOLEAN]
        BY <3>1 DEF StatChanged, ScanInv, TypeOK
      <4> QED BY <3>1, <4>1, <4>2, <4>3, HalfKeeps DEF StatChanged
    <3>2. ASSUME ReadHalf PROVE ScanInv'
      <4>1. Head(unknown) \in Paths /\ unknown # <<>> /\ pc = "unknown"
        BY <3>2, HeadTailProperties DEF ScanInv, TypeOK, ReadHalf
      <4>2. half' \in Readings
        BY <3>2, <4>1, ReadFirstType DEF ReadHalf, ScanInv
      <4>3. quiet' \in [scans : 0..2, still : BOOLEAN, stale : SUBSET Paths, sure : BOOLEAN]
        <5>1. PICK order \in ReadOrders : quiet' = [quiet EXCEPT !.sure = @ /\ order = "statFirst"]
          BY <3>2 DEF ReadHalf
        <5> QED BY <5>1 DEF ScanInv, TypeOK
      <4> QED BY <3>2, <4>1, <4>2, <4>3, HalfKeeps DEF ReadHalf
    <3> QED BY <2>1, <3>1, <3>2, StartKeeps, ListDirKeeps, CompareKeeps, StatUnchangedKeeps,
            ReadMoreKeeps, HashChangedKeeps, KnownDoneKeeps, ReadRestKeeps, SweepKeeps, CommitKeeps DEF Scan
  <2>2. CASE Others
    BY <2>2, OthersKeep
  <2>3. CASE UNCHANGED vars
    BY <2>3 DEF ScanInv, vars, diskVars, scanVars, TypeOK, ClockOK, AtRest, FoundIsListed,
       ListsAgree, OpsFit, NotYet, Scanning
  <2> QED BY <2>1, <2>2, <2>3 DEF Next
<1> QED BY <1>1, InitiallyInv, PTL DEF Spec

(* The variables keep their types, for any paths, contents and number of edits. *)
THEOREM TypeCorrect == Spec => []TypeOK
<1>1. ScanInv => TypeOK
  BY DEF ScanInv
<1> QED BY <1>1, Invariant, PTL

(* Whatever other programs do between any two reads, and however many      *)
(* files there are, the diff of a scan (repo.cpp:54) is one that           *)
(* canPerformChanges (state.cpp:159) accepts.                              *)
THEOREM DiffIsAccepted == Spec => []CommitAccepted
<1>1. ScanInv => CommitAccepted
  BY DEF ScanInv, CommitAccepted, OpsFit, Fits, CanPerformChanges
<1> QED BY <1>1, Invariant, PTL

(* ... and to perform it keeps the two hashes of the index in agreement,   *)
(* also when several missing files become renames to one path              *)
(* (repo.cpp:96-107), which no check of the diff before it was performed   *)
(* excludes.                                                               *)
THEOREM IndexStaysSound == Spec => []IndexSound
<1>1. Init => IndexSound
  BY EmptyIndexType DEF Init, IndexSound
<1>2. ScanInv /\ IndexSound /\ [Next]_vars => IndexSound'
  <2> SUFFICES ASSUME ScanInv, IndexSound, [Next]_vars PROVE IndexSound'
    OBVIOUS
  <2>1. CASE Commit
    <3>1. idx \in Index /\ ops \in StateDiff /\ Fits(idx, ops)
      BY <2>1 DEF ScanInv, TypeOK, OpsFit, Commit
    <3>2. Sound(PerformChanges(idx, ops))
      BY <3>1, PerformCompatibleSound DEF Fits, CanPerformChanges, IndexSound
    <3> QED BY <2>1, <3>2 DEF Commit, IndexSound
  <2>2. CASE UNCHANGED idx
    BY <2>2 DEF IndexSound
  <2> QED BY <2>1, <2>2 DEF Next, Scan, Others, vars, Start, ListDir, Compare, StatUnchanged,
          StatChanged, ReadMore, HashChanged, KnownDone, ReadHalf, ReadRest, Sweep, Save, SaveAgain,
          Delete, Move, Edit
<1> QED BY <1>1, <1>2, Invariant, PTL DEF Spec

-----------------------------------------------------------------------------
(* Scans while no file is changed.                                         *)

(* an index whose paths and sizes are those of the disk *)
Agrees(index) ==
  \A p \in Paths :
    /\ KnownFilePath(index, p) <=> Exists(p)
    /\ Exists(p) => index.files[p].stamp.size = Stat(p).size

(* ... and whose stamps are those of the files *)
Settled(index) ==
  \A p \in Paths :
    /\ KnownFilePath(index, p) <=> Exists(p)
    /\ Exists(p) => index.files[p].path = p /\ index.files[p].stamp = Stat(p)

Touched(diff, p) == \E op \in ToSet(diff) : p \in PathsOf(op)

(* an operation that says what the disk says *)
Right(op) ==
  CASE op.action \in {"AddFile", "ModifyFile"} ->
         Exists(op.path) /\ op.stamp = Stat(op.path) /\ op.print = FingerPrint(op.path)
    [] op.action = "RemoveFile" -> ~Exists(op.path)
    [] op.action = "RenameFile" ->
         /\ ~Exists(op.path) /\ Exists(op.newPath)
         /\ idx.files[op.path].stamp.size = Stat(op.newPath).size
         /\ idx.files[op.path].print = FingerPrint(op.newPath)

(* what has been found is what exists *)
Found ==
  pc = "list" =>
    \A p \in Paths : p \in ToSet(found) <=> Exists(p) /\ \E d \in 1..dir : p \in ToSet(Dirs[d])

(* every path that is not yet right in the index is in a list or the diff *)
Accounted ==
  pc \notin {"idle", "list"} =>
    /\ \A p \in Paths : p \in ToSet(found) <=> Exists(p)
    /\ ToSet(known) \subseteq ToSet(found) /\ ToSet(unknown) \subseteq ToSet(found)
    /\ pc # "known" => known = <<>>
    /\ pc = "commit" => unknown = <<>>
    /\ \A p \in Paths :
         /\ Exists(p) /\ KnownFilePath(idx, p) =>
              p \in ToSet(known) \/ idx.files[p].stamp = Stat(p) \/ Touched(ops, p)
         /\ Exists(p) /\ ~KnownFilePath(idx, p) => p \in ToSet(unknown) \/ Touched(ops, p)
         /\ ~Exists(p) /\ KnownFilePath(idx, p) => (pc # "commit" /\ p \in missing) \/ Touched(ops, p)

(* a reading of which every part says what the disk says *)
ReadRight(read, p) ==
  \/ read.next = "open" /\ read.stamp = Stat(p)
  \/ read.next = "hash" /\ read.file = disk[p] /\ read.stamp \in {Stat(p), NoStamp}
  \/ read.next = "stat" /\ read.print = FingerPrint(p)

HalfRight ==
  /\ pc = "known" /\ half # Unread => ReadRight(half, Head(known))
  /\ pc = "unknown" /\ half # Unread => ReadRight(half, Head(unknown))

AllRight == pc # "idle" => \A op \in ToSet(ops) : Right(op)

QuietInv ==
  /\ quiet.still => Found /\ Accounted /\ HalfRight /\ AllRight
  /\ quiet.scans >= 1 => quiet.still /\ Agrees(idx)

(* a list of all the elements of a set has them all *)
LEMMA AllOrdered ==
  ASSUME NEW S, IsFiniteSet(S), NEW f \in SetToSeqs(S)
  PROVE  f \in Seq(S) /\ ToSet(f) = S
<1>1. Cardinality(S) \in Nat
  BY FS_CardinalityType
<1> DEFINE n == Cardinality(S)
<1>2. f \in [1..n -> S] /\ \A i, j \in 1..n : i # j => f[i] # f[j]
  BY DEF SetToSeqs
<1>3. IsFiniteSet(1..n) /\ Cardinality(1..n) = n
  BY <1>1, FS_Interval
<1>4. f \in Injection(1..n, S)
  BY <1>2 DEF Injection, IsInjective
<1>5. f \in Surjection(1..n, S)
  BY <1>3, <1>4, FS_Injection
<1>6. DOMAIN f = 1..n /\ f \in Seq(S)
  <2> HIDE DEF n
  <2> QED BY <1>1, <1>2 DEF n
<1> QED BY <1>5, <1>6 DEF ToSet, Surjection

LEMMA DiskStands ==
  ASSUME disk' = disk
  PROVE  /\ \A p : Exists(p)' = Exists(p) /\ Stat(p)' = Stat(p) /\ FingerPrint(p)' = FingerPrint(p)
         /\ \A index : Agrees(index)' = Agrees(index)
         /\ idx' = idx => \A op : Right(op)' = Right(op)
         /\ \A read, p : ReadRight(read, p)' = ReadRight(read, p)
<1>1. /\ \A p : Exists(p)' = Exists(p) /\ Stat(p)' = Stat(p) /\ FingerPrint(p)' = FingerPrint(p)
      /\ \A index : Agrees(index)' = Agrees(index)
  BY DEF Exists, Stat, FingerPrint, Agrees
<1>2. idx' = idx => \A op : Right(op)' = Right(op)
  BY DEF Exists, Stat, FingerPrint, Right
<1>3. \A read, p : ReadRight(read, p)' = ReadRight(read, p)
  BY DEF Exists, Stat, FingerPrint, ReadRight
<1> QED BY <1>1, <1>2, <1>3

(* what is read while no file is changed *)
LEMMA ContinueRight ==
  ASSUME TypeOK, NEW p \in Paths, ReadRight(half, p), NEW read \in Continue(p)
  PROVE  IF read.next = "done" THEN read.stamp = Stat(p) /\ read.print = FingerPrint(p)
                               ELSE ReadRight(read, p)
<1>1. half \in Readings
  BY DEF TypeOK
<1>2. CASE half.next = "open"
  <2>1. read = [half EXCEPT !.file = disk[p], !.next = "hash"]
    BY <1>2 DEF Continue
  <2> QED BY <1>1, <1>2, <2>1 DEF Readings, ReadRight
<1>3. CASE half.next = "hash"
  <2>1. PICK s \in Hashed(p) :
          read = [half EXCEPT !.file = NoFile, !.print = s,
                              !.next = IF half.stamp = NoStamp THEN "stat" ELSE "done"]
    BY <1>3 DEF Continue
  <2>2. half.file = disk[p] /\ half.stamp \in {Stat(p), NoStamp}
    BY <1>3 DEF ReadRight
  <2>3. s = FingerPrint(p)
    BY <2>2 DEF Hashed, FingerPrint, Exists
  <2> QED BY <1>1, <2>1, <2>2, <2>3 DEF Readings, ReadRight
<1>4. CASE half.next = "stat"
  <2>1. read = [half EXCEPT !.stamp = Stat(p), !.next = "done"]
    BY <1>4 DEF Continue
  <2> QED BY <1>1, <1>4, <2>1 DEF Readings, ReadRight
<1> QED BY <1>2, <1>3, <1>4 DEF ReadRight

LEMMA StartQuiet ==
  ASSUME ScanInv, QuietInv, Start PROVE QuietInv'
<1>1. ToSet(<<>>) = {} /\ 1..0 = {}
  BY SetOfEmpty
<1>2. quiet'.scans = quiet.scans /\ quiet'.still = TRUE
  BY DEF ScanInv, TypeOK, Start
<1>3. Found' /\ Accounted' /\ HalfRight' /\ AllRight'
  BY <1>1, DiskStands DEF Start, Found, Accounted, HalfRight, AllRight
<1> QED BY <1>2, <1>3, DiskStands DEF Start, QuietInv, diskVars

LEMMA ListDirQuiet ==
  ASSUME ScanInv, QuietInv, ListDir PROVE QuietInv'
<1> DEFINE here == Dirs[dir + 1]
           gone == { p \in Paths : ~Exists(p) }
           more == Without(here, gone)
<1>1. /\ dir \in Nat /\ dir + 1 \in 1..Len(Dirs) /\ DOMAIN Dirs = 1..Len(Dirs) /\ here \in Seq(Paths)
      /\ 1..(dir + 1) = (1..dir) \union {dir + 1}
  BY ScanAssumption DEF ScanAssumption, ScanInv, TypeOK, ListDir
<1> HIDE DEF here, gone
<1>2. more \in Seq(Paths) /\ ToSet(more) = ToSet(here) \ gone
  BY <1>1, WithoutType, WithoutKeeps
<1> HIDE DEF more
<1>3. /\ found \in Seq(Paths) /\ pc = "list" /\ pc' = "list" /\ dir' = dir + 1
      /\ found' = found \o more /\ quiet' = quiet /\ disk' = disk /\ idx' = idx /\ ops' = ops
  BY DEF ScanInv, TypeOK, ListDir, diskVars, here, gone, more
<1>4. ToSet(found') = ToSet(found) \union (ToSet(here) \ gone)
  BY <1>2, <1>3, ConcatAsSet
<1>5. \A p \in Paths : p \in gone <=> ~Exists(p)
  BY DEF gone
<1>6. quiet.still => Found'
  BY <1>1, <1>3, <1>4, <1>5, DiskStands DEF QuietInv, Found, here
<1>7. Accounted' /\ HalfRight' /\ (quiet.still => AllRight')
  BY <1>3, DiskStands DEF QuietInv, Accounted, HalfRight, AllRight
<1> QED BY <1>3, <1>6, <1>7, DiskStands DEF QuietInv

LEMMA CompareQuiet ==
  ASSUME ScanInv, QuietInv, Compare PROVE QuietInv'
<1> DEFINE indexed == { p \in Paths : KnownFilePath(idx, p) }
<1>1. /\ found \in Seq(Paths) /\ half = Unread /\ ops = <<>> /\ pc = "list" /\ dir = Len(Dirs)
      /\ pc' = "known" /\ quiet' = quiet /\ disk' = disk /\ idx' = idx /\ ops' = ops
      /\ found' = found /\ half' = half
  BY DEF ScanInv, TypeOK, Compare, NotYet, diskVars
<1>2. \A p \in Paths : p \in indexed <=> KnownFilePath(idx, p)
  OBVIOUS
<1>3. /\ ToSet(known') = ToSet(found) \ (Paths \ indexed)
      /\ ToSet(unknown') = ToSet(found) \ indexed
      /\ missing' = indexed \ ToSet(found)
  <2> HIDE DEF indexed
  <2>1. /\ known' = Without(found, Paths \ indexed) /\ unknown' = Without(found, indexed)
        /\ missing' = indexed \ ToSet(found)
    BY DEF Compare, indexed
  <2> QED BY <1>1, <2>1, WithoutKeeps
<1> HIDE DEF indexed
<1>4. ASSUME quiet.still PROVE \A p \in Paths : p \in ToSet(found) <=> Exists(p)
  <2>1. \A p \in Paths : \E d \in 1..Len(Dirs) : p \in ToSet(Dirs[d])
    <3>1. DOMAIN Dirs = 1..Len(Dirs)
      BY ScanAssumption DEF ScanAssumption
    <3> QED BY <3>1, DirsAssumption DEF DirsAssumption
  <2> QED BY <1>1, <1>4, <2>1 DEF QuietInv, Found
<1>5. quiet.still => Accounted'
  <2> SUFFICES ASSUME quiet.still PROVE Accounted'
    OBVIOUS
  <2>1. ToSet(known') \subseteq ToSet(found) /\ ToSet(unknown') \subseteq ToSet(found)
    BY <1>3
  <2> QED BY <1>1, <1>2, <1>3, <1>4, <2>1, DiskStands DEF Accounted
<1>6. ToSet(<<>>) = {}
  BY SetOfEmpty
<1>7. Found' /\ HalfRight' /\ AllRight'
  BY <1>1, <1>6 DEF Found, HalfRight, AllRight
<1> QED BY <1>1, <1>5, <1>7, DiskStands DEF QuietInv

(* what holds of the half of a scan that goes over its lists, when a file  *)
(* is half read, when one has been dealt with and when a list is at its end *)
LEMMA StillThere ==
  ASSUME ScanInv, QuietInv, quiet.still, Scanning, UNCHANGED <<diskVars, idx, found>>,
         quiet'.still = quiet.still, quiet'.scans = quiet.scans, pc' \in {"known", "unknown", "commit"},
         HalfRight', ToSet(ops) \subseteq ToSet(ops'),
         \A op \in ToSet(ops') \ ToSet(ops) : Right(op),
         ToSet(known') \subseteq ToSet(known), ToSet(unknown') \subseteq ToSet(unknown),
         pc' # "known" => known' = <<>>, pc' = "commit" => unknown' = <<>>,
         \A p \in ToSet(known) \ ToSet(known') : idx.files[p].stamp = Stat(p) \/ Touched(ops', p),
         \A p \in ToSet(unknown) \ ToSet(unknown') : Touched(ops', p),
         missing' \subseteq missing,
         \A p \in missing : (pc' # "commit" /\ p \in missing') \/ Touched(ops', p)
  PROVE  QuietInv'
<1>1. disk' = disk /\ idx' = idx /\ found' = found
  BY DEF diskVars
<1>2. \A p : Touched(ops, p) => Touched(ops', p)
  BY DEF Touched
<1>3. Accounted /\ AllRight /\ pc \in {"known", "unknown"}
  BY DEF QuietInv, Scanning
<1>4. AllRight'
  BY <1>1, <1>3, DiskStands DEF AllRight
<1>5. Accounted'
  <2>1. /\ \A p \in Paths : p \in ToSet(found) <=> Exists(p)
        /\ ToSet(known) \subseteq ToSet(found) /\ ToSet(unknown) \subseteq ToSet(found)
        /\ \A p \in Paths :
             /\ Exists(p) /\ KnownFilePath(idx, p) =>
                  p \in ToSet(known) \/ idx.files[p].stamp = Stat(p) \/ Touched(ops, p)
             /\ Exists(p) /\ ~KnownFilePath(idx, p) => p \in ToSet(unknown) \/ Touched(ops, p)
             /\ ~Exists(p) /\ KnownFilePath(idx, p) => p \in missing \/ Touched(ops, p)
    BY <1>3 DEF Accounted
  <2>2. ASSUME NEW p \in Paths
        PROVE /\ Exists(p) /\ KnownFilePath(idx, p) =>
                   p \in ToSet(known') \/ idx.files[p].stamp = Stat(p) \/ Touched(ops', p)
              /\ Exists(p) /\ ~KnownFilePath(idx, p) => p \in ToSet(unknown') \/ Touched(ops', p)
              /\ ~Exists(p) /\ KnownFilePath(idx, p) =>
                   (pc' # "commit" /\ p \in missing') \/ Touched(ops', p)
    BY <1>2, <2>1
  <2> QED BY <1>1, <2>1, <2>2, DiskStands DEF Accounted
<1>6. Found'
  BY DEF Found
<1> QED BY <1>1, <1>4, <1>5, <1>6, DiskStands DEF QuietInv

(* a step of the lists in a scan that has seen an edit *)
LEMMA NotQuiet ==
  ASSUME QuietInv, ~quiet.still, quiet'.still = quiet.still, quiet'.scans = quiet.scans PROVE QuietInv'
BY DEF QuietInv

LEMMA StatUnchangedQuiet ==
  ASSUME ScanInv, QuietInv, StatUnchanged PROVE QuietInv'
<1>1. known \in Seq(Paths) /\ known # <<>> /\ known' = Tail(known) /\ pc = "known" /\ half = Unread
      /\ UNCHANGED <<diskVars, idx, pc, found, unknown, missing, ops, half, quiet>>
  BY DEF ScanInv, TypeOK, StatUnchanged
<1>2. ToSet(known) = {Head(known)} \union ToSet(known')
  BY <1>1, HeadOrTail
<1>3. idx.files[Head(known)].stamp = Stat(Head(known))
  BY DEF StatUnchanged
<1>4. HalfRight'
  BY <1>1 DEF HalfRight
<1> QED BY <1>1, <1>2, <1>3, <1>4, StillThere, NotQuiet DEF Scanning

LEMMA HalfQuiet ==
  ASSUME ScanInv, QuietInv, UNCHANGED <<diskVars, idx, pc, dir, found, known, unknown, missing, ops>>,
         quiet'.still = quiet.still, quiet'.scans = quiet.scans, HalfRight', Scanning
  PROVE  QuietInv'
<1>1. quiet.still => Accounted
  BY DEF QuietInv
<1>2. Accounted /\ pc' # "known" => known' = <<>>
  BY DEF Accounted, Scanning
<1>3. pc' \in {"known", "unknown"}
  BY DEF Scanning
<1> QED BY <1>1, <1>2, <1>3, StillThere, NotQuiet

LEMMA StatChangedQuiet ==
  ASSUME ScanInv, QuietInv, StatChanged PROVE QuietInv'
<1>1. pc = "known" /\ UNCHANGED <<diskVars, idx, pc, dir, found, known, unknown, missing, ops, quiet>>
      /\ half' = ReadFirst(Head(known), "statFirst")
  BY DEF StatChanged
<1>2. ReadRight(half', Head(known))
  BY <1>1 DEF ReadFirst, ReadRight, Unread
<1>3. HalfRight'
  BY <1>1, <1>2, DiskStands DEF HalfRight, diskVars
<1> QED BY <1>1, <1>3, HalfQuiet DEF Scanning

LEMMA ReadMoreQuiet ==
  ASSUME ScanInv, QuietInv, ReadMore PROVE QuietInv'
<1> DEFINE path == Head(IF pc = "known" THEN known ELSE unknown)
<1>1. PICK read \in Continue(path) : read.next # "done" /\ half' = read
  BY DEF ReadMore
<1>2. /\ (pc = "known" /\ known # <<>>) \/ (pc = "unknown" /\ unknown # <<>>)
      /\ UNCHANGED <<diskVars, idx, pc, dir, found, known, unknown, missing, ops, quiet>>
      /\ half # Unread
  BY DEF ScanInv, TypeOK, ReadMore
<1>3. path \in Paths
  BY <1>2, HeadTailProperties DEF ScanInv, TypeOK
<1>4. SUFFICES ASSUME quiet.still PROVE QuietInv'
  BY <1>2, NotQuiet
<1>5. ReadRight(half, path)
  BY <1>2, <1>4 DEF QuietInv, HalfRight
<1> HIDE DEF path
<1>6. ReadRight(half', path)
  BY <1>1, <1>3, <1>5, ContinueRight DEF ScanInv
<1>7. HalfRight'
  BY <1>2, <1>6, DiskStands DEF HalfRight, diskVars, path
<1> QED BY <1>2, <1>7, HalfQuiet DEF Scanning

LEMMA ReadHalfQuiet ==
  ASSUME ScanInv, QuietInv, ReadHalf PROVE QuietInv'
<1>1. /\ pc = "unknown" /\ UNCHANGED <<diskVars, idx, pc, dir, found, known, unknown, missing, ops>>
      /\ quiet'.still = quiet.still /\ quiet'.scans = quiet.scans
  BY DEF ScanInv, TypeOK, ReadHalf
<1>2. PICK order \in ReadOrders : half' = ReadFirst(Head(unknown), order)
  BY DEF ReadHalf
<1>3. ReadRight(half', Head(unknown))
  BY <1>2 DEF ReadFirst, ReadRight, Unread
<1>4. HalfRight'
  BY <1>1, <1>3, DiskStands DEF HalfRight, diskVars
<1> QED BY <1>1, <1>4, HalfQuiet DEF Scanning

LEMMA HashChangedQuiet ==
  ASSUME ScanInv, QuietInv, HashChanged PROVE QuietInv'
<1> DEFINE path == Head(known)
<1>0. PICK read \in Continue(path) :
        read.next = "done" /\ ops' = Append(ops, ModifyFileOp(path, read.stamp, read.print))
  BY DEF HashChanged
<1> DEFINE op == ModifyFileOp(path, read.stamp, read.print)
<1>1. known \in Seq(Paths) /\ known # <<>> /\ known' = Tail(known) /\ pc = "known" /\ half # Unread
      /\ half' = Unread /\ UNCHANGED <<diskVars, idx, pc, found, unknown, missing, quiet>>
      /\ ops \in StateDiff
  BY DEF ScanInv, TypeOK, HashChanged
<1>2. ToSet(known) = {path} \union ToSet(known') /\ path \in Paths
  BY <1>1, HeadOrTail, HeadTailProperties
<1>3. ops' = Append(ops, op)
  BY <1>0
<1> HIDE DEF path
<1>4. op \in StateOp
  BY <1>0, <1>2, ContinueType, OpsWellFormed DEF ScanInv
<1>5. ToSet(ops') = ToSet(ops) \union {op}
  BY <1>1, <1>3, <1>4, SetOfAppend DEF StateDiff
<1>6. path \in PathsOf(op)
  BY <1>2, StateAssumption DEF PathsOf, ModifyFileOp, StateAssumption
<1>7. Touched(ops', path)
  BY <1>5, <1>6 DEF Touched
<1>8. ASSUME quiet.still PROVE Right(op)
  <2>1. Exists(path)
    BY <1>1, <1>2, <1>8 DEF QuietInv, Accounted
  <2>2. ReadRight(half, path)
    BY <1>1, <1>8 DEF QuietInv, HalfRight, path
  <2>3. read.stamp = Stat(path) /\ read.print = FingerPrint(path)
    BY <1>0, <1>2, <2>2, ContinueRight DEF ScanInv
  <2> QED BY <2>1, <2>3 DEF Right, ModifyFileOp
<1>9. HalfRight'
  BY <1>1 DEF HalfRight
<1> HIDE DEF op
<1> QED BY <1>1, <1>2, <1>5, <1>7, <1>8, <1>9, StillThere, NotQuiet DEF Scanning

LEMMA KnownDoneQuiet ==
  ASSUME ScanInv, QuietInv, KnownDone PROVE QuietInv'
<1>1. half = Unread /\ pc = "known" /\ pc' = "unknown" /\ known = <<>>
      /\ UNCHANGED <<diskVars, idx, found, known, unknown, missing, ops, half, quiet>>
  BY DEF ScanInv, TypeOK, KnownDone
<1>2. HalfRight'
  BY <1>1 DEF HalfRight
<1> QED BY <1>1, <1>2, StillThere, NotQuiet DEF Scanning

LEMMA ReadRestQuiet ==
  ASSUME ScanInv, QuietInv, ReadRest PROVE QuietInv'
<1> DEFINE path == Head(unknown)
<1>0. PICK info \in Continue(path) : info.next = "done" /\ Brings(path, info)
  BY Zenon DEF ReadRest, Brings
<1> DEFINE olds == Identical(info)
<1>1. /\ unknown \in Seq(Paths) /\ unknown # <<>> /\ pc = "unknown" /\ half # Unread
      /\ missing \subseteq Paths \ ToSet(found) /\ ops \in StateDiff
      /\ UNCHANGED <<diskVars, idx, pc, found, known, quiet>>
      /\ unknown' = Tail(unknown) /\ half' = Unread /\ missing' = missing \ olds
  BY <1>0 DEF ScanInv, TypeOK, ReadRest, Brings
<1>2. path \in Paths /\ ToSet(unknown) = {path} \union ToSet(unknown')
  BY <1>1, HeadOrTail, HeadTailProperties
<1>3. SUFFICES ASSUME quiet.still PROVE QuietInv'
  BY <1>1, NotQuiet
<1>4. info.stamp = Stat(path) /\ info.print = FingerPrint(path)
  <2>1. ReadRight(half, path)
    BY <1>1, <1>3 DEF QuietInv, HalfRight
  <2> HIDE DEF path
  <2> QED BY <1>0, <1>2, <2>1, ContinueRight DEF ScanInv
<1>5. Exists(path) /\ \A m \in missing : ~Exists(m)
  BY <1>1, <1>2, <1>3 DEF QuietInv, Accounted
<1>6. HalfRight' /\ known = <<>>
  BY <1>1, <1>3 DEF HalfRight, QuietInv, Accounted
<1>7. ToSet(unknown') \subseteq ToSet(unknown) /\ missing' \subseteq missing
  BY <1>1, <1>2
<1>8. CASE olds = {}
  <2> DEFINE add == AddFileOp(path, info.stamp, info.print)
  <2>1. ops' = Append(ops, add)
    BY <1>0, <1>8 DEF Brings
  <2>2. add \in StateOp
    BY <1>0, <1>2, ContinueType, OpsWellFormed DEF ScanInv
  <2>3. Right(add)
    BY <1>4, <1>5 DEF Right, AddFileOp
  <2>4. path \in PathsOf(add)
    BY <1>2, StateAssumption DEF PathsOf, AddFileOp, StateAssumption
  <2> HIDE DEF add, path, olds
  <2>5. ToSet(ops') = ToSet(ops) \union {add}
    BY <1>1, <2>1, <2>2, SetOfAppend DEF StateDiff
  <2>6. Touched(ops', path)
    BY <2>4, <2>5 DEF Touched
  <2> QED BY <1>1, <1>2, <1>3, <1>6, <1>7, <1>8, <2>3, <2>5, <2>6, StillThere DEF Scanning
<1>9. CASE olds # {}
  <2> DEFINE R == { RenameFileOp(m, path) : m \in olds }
  <2>1. PICK renames \in SetToSeqs(R) : ops' = ops \o renames
    BY <1>0, <1>9, Zenon DEF Brings
  <2>2. olds \subseteq missing /\ \A m \in olds : idx.files[m].stamp.size = info.stamp.size
                                          /\ idx.files[m].print = info.print
    BY DEF Identical
  <2> HIDE DEF path, olds
  <2>3. R \subseteq StateOp
    BY <1>1, <1>2, <2>2, OpsWellFormed
  <2>4. IsFiniteSet(R)
    BY <1>1, <2>2, RenamesFinite
  <2>5. \A op \in R : Right(op)
    <3>1. SUFFICES ASSUME NEW m \in olds PROVE Right(RenameFileOp(m, path))
      OBVIOUS
    <3> QED BY <1>4, <1>5, <2>2 DEF Right, RenameFileOp
  <2>6. \A m \in olds : \E op \in R : m \in PathsOf(op) /\ path \in PathsOf(op)
    <3>1. SUFFICES ASSUME NEW m \in olds
          PROVE m \in PathsOf(RenameFileOp(m, path)) /\ path \in PathsOf(RenameFileOp(m, path))
      OBVIOUS
    <3> QED BY <1>1, <1>2, <2>2, StateAssumption DEF PathsOf, RenameFileOp, StateAssumption
  <2> HIDE DEF R
  <2>7. renames \in Seq(R) /\ ToSet(renames) = R
    BY <2>4, AllOrdered
  <2>8. ToSet(ops') = ToSet(ops) \union R
    <3>1. renames \in Seq(StateOp) /\ ops \in Seq(StateOp)
      BY <1>1, <2>3, <2>7 DEF StateDiff
    <3> QED BY <2>1, <2>7, <3>1, ConcatAsSet
  <2>9. Touched(ops', path) /\ \A m \in olds : Touched(ops', m)
    BY <1>9, <2>6, <2>8 DEF Touched
  <2> QED BY <1>1, <1>2, <1>3, <1>6, <1>7, <2>5, <2>8, <2>9, StillThere DEF Scanning
<1> QED BY <1>8, <1>9

LEMMA SweepQuiet ==
  ASSUME ScanInv, QuietInv, Sweep PROVE QuietInv'
<1> DEFINE R == { RemoveFileOp(m) : m \in missing }
<1>1. /\ half = Unread /\ pc = "unknown" /\ pc' = "commit" /\ unknown = <<>>
      /\ missing \subseteq Paths \ ToSet(found) /\ ops \in StateDiff
      /\ UNCHANGED <<diskVars, idx, found, known, unknown, missing, half, quiet>>
  BY DEF ScanInv, TypeOK, Sweep
<1>2. PICK removes \in SetToSeqs(R) : ops' = ops \o removes
  BY Zenon DEF Sweep
<1>3. SUFFICES ASSUME quiet.still PROVE QuietInv'
  BY <1>1, NotQuiet
<1>4. known = <<>> /\ \A m \in missing : ~Exists(m)
  BY <1>1, <1>3 DEF QuietInv, Accounted
<1>5. R \subseteq StateOp
  BY <1>1, OpsWellFormed
<1>6. IsFiniteSet(R)
  BY <1>1, RemovesFinite
<1>7. \A op \in R : Right(op)
  <2>1. SUFFICES ASSUME NEW m \in missing PROVE Right(RemoveFileOp(m))
    OBVIOUS
  <2> QED BY <1>4 DEF Right, RemoveFileOp
<1>8. \A m \in missing : \E op \in R : m \in PathsOf(op)
  <2>1. SUFFICES ASSUME NEW m \in missing PROVE m \in PathsOf(RemoveFileOp(m))
    OBVIOUS
  <2> QED BY <1>1, StateAssumption DEF PathsOf, RemoveFileOp, StateAssumption
<1> HIDE DEF R
<1>9. removes \in Seq(R) /\ ToSet(removes) = R
  BY <1>6, AllOrdered
<1>10. ToSet(ops') = ToSet(ops) \union R
  <2>1. removes \in Seq(StateOp) /\ ops \in Seq(StateOp)
    BY <1>1, <1>5, <1>9 DEF StateDiff
  <2> QED BY <1>2, <1>9, <2>1, ConcatAsSet
<1>11. \A m \in missing : Touched(ops', m)
  BY <1>8, <1>10 DEF Touched
<1>12. HalfRight'
  BY <1>1 DEF HalfRight
<1> QED BY <1>1, <1>3, <1>4, <1>7, <1>10, <1>11, <1>12, StillThere DEF Scanning

(* what a commit leaves at a path that its diff names, after a scan that   *)
(* saw no edit                                                             *)
LEMMA RightEntry ==
  ASSUME ScanInv, NEW op \in StateOp, WellFormedOp(op), CanPerformOp(idx, op), Right(op),
         NEW p \in Paths, p \in PathsOf(op)
  PROVE  /\ Exists(p) => /\ EntryAfter(idx, op, p) # Unknown
                         /\ EntryAfter(idx, op, p).stamp.size = Stat(p).size
         /\ ~Exists(p) => EntryAfter(idx, op, p) = Unknown
         /\ EntryAfter(idx, op, p) # Unknown => EntryAfter(idx, op, p).print = FingerPrint(p)
<1> USE StateAssumption
<1>1. /\ op.path \in Paths /\ p \in {op.path, op.newPath} /\ op.action \in Actions
      /\ op.action # "RenameFile" => p = op.path
      /\ idx \in Index /\ op.stamp \in Stamps \union {NoStamp} /\ op.print \in Prints
  BY DEF StateOp, PathsOf, WellFormedOp, StateAssumption, ScanInv, TypeOK
<1>2. CASE op.action = "AddFile"
  <2>1. EntryAfter(idx, op, p) = [path |-> p, stamp |-> op.stamp, print |-> op.print]
    BY <1>2 DEF EntryAfter
  <2>2. EntryAfter(idx, op, p) \in FileInfo
    BY <1>1, <2>1 DEF FileInfo
  <2> QED BY <1>1, <1>2, <2>1, <2>2 DEF Right, StateAssumption
<1>3. CASE op.action = "ModifyFile"
  <2>1. EntryAfter(idx, op, p) = [idx.files[p] EXCEPT !.stamp = op.stamp, !.print = op.print]
    BY <1>3 DEF EntryAfter
  <2>2. idx.files[p] \in FileInfo
    BY <1>1, <1>3 DEF CanPerformOp, KnownFilePath, Index
  <2>3. EntryAfter(idx, op, p) \in FileInfo
    BY <1>1, <2>1, <2>2 DEF FileInfo
  <2>4. EntryAfter(idx, op, p).stamp = op.stamp /\ EntryAfter(idx, op, p).print = op.print
    BY <2>1, <2>2 DEF FileInfo
  <2> QED BY <1>1, <1>3, <2>3, <2>4 DEF Right, StateAssumption
<1>4. CASE op.action = "RemoveFile"
  BY <1>1, <1>4 DEF Right, EntryAfter
<1>5. CASE op.action = "RenameFile" /\ p = op.path
  <2>1. p # op.newPath
    BY <1>5 DEF CanPerformOp
  <2> QED BY <1>5, <2>1 DEF Right, EntryAfter
<1>6. CASE op.action = "RenameFile" /\ p # op.path
  <2>1. p = op.newPath
    BY <1>1, <1>6
  <2>2. EntryAfter(idx, op, p) = [idx.files[op.path] EXCEPT !.path = p]
    BY <1>6, <2>1 DEF EntryAfter
  <2>3. idx.files[op.path] \in FileInfo
    BY <1>1, <1>6 DEF CanPerformOp, KnownFilePath, Index
  <2>4. EntryAfter(idx, op, p) \in FileInfo
    BY <2>2, <2>3 DEF FileInfo
  <2>5. EntryAfter(idx, op, p).stamp = idx.files[op.path].stamp
        /\ EntryAfter(idx, op, p).print = idx.files[op.path].print
    BY <2>2, <2>3 DEF FileInfo
  <2> QED BY <1>6, <2>1, <2>4, <2>5 DEF Right, StateAssumption
<1> QED BY <1>1, <1>2, <1>3, <1>4, <1>5, <1>6 DEF Actions

(* the diff of a scan, as it is performed *)
LEMMA CommitEffect ==
  ASSUME ScanInv, Commit
  PROVE  /\ idx' = PerformChanges(idx, ops)
         /\ \A i \in DOMAIN ops : /\ ops[i] \in StateOp /\ WellFormedOp(ops[i])
                                  /\ CanPerformOp(idx, ops[i]) /\ ops[i] \in ToSet(ops)
         /\ \A p \in Paths :
              \/ ~Touched(ops, p) /\ idx'.files[p] = idx.files[p]
              \/ \E i \in DOMAIN ops : p \in PathsOf(ops[i])
                                       /\ idx'.files[p] = EntryAfter(idx, ops[i], p)
<1>1. idx \in Index /\ ops \in StateDiff /\ Fits(idx, ops) /\ CanPerformChanges(idx, ops)
  BY DEF ScanInv, TypeOK, OpsFit, Commit, Fits, CanPerformChanges
<1>2. idx' = PerformChanges(idx, ops)
  BY <1>1 DEF Commit
<1>3. \A i \in DOMAIN ops : /\ ops[i] \in StateOp /\ WellFormedOp(ops[i])
                            /\ CanPerformOp(idx, ops[i]) /\ ops[i] \in ToSet(ops)
  BY <1>1 DEF StateDiff, CanPerformChanges, ToSet
<1>4. \A op \in ToSet(ops) : \E i \in DOMAIN ops : op = ops[i]
  BY DEF ToSet
<1>5. ASSUME NEW p \in Paths
      PROVE  \/ ~Touched(ops, p) /\ idx'.files[p] = idx.files[p]
             \/ \E i \in DOMAIN ops : p \in PathsOf(ops[i])
                                      /\ idx'.files[p] = EntryAfter(idx, ops[i], p)
  <2>1. \/ /\ \A i \in DOMAIN ops : p \notin PathsOf(ops[i])
           /\ PerformChanges(idx, ops).files[p] = idx.files[p]
        \/ \E i \in DOMAIN ops : /\ p \in PathsOf(ops[i])
                                 /\ PerformChanges(idx, ops).files[p] = EntryAfter(idx, ops[i], p)
    BY <1>1, DiffEffect DEF Fits
  <2> QED BY <1>2, <1>4, <2>1 DEF Touched
<1> QED BY <1>2, <1>3, <1>5

LEMMA CommitQuiet ==
  ASSUME ScanInv, QuietInv, Commit PROVE QuietInv'
<1>1. pc = "commit" /\ pc' = "idle" /\ disk' = disk /\ half' = half
      /\ quiet'.still = quiet.still
      /\ (quiet'.scans >= 1 => quiet.still \/ quiet.scans >= 1)
  BY DEF ScanInv, TypeOK, Commit, diskVars
<1>2. quiet'.scans >= 1 => quiet.still
  BY <1>1 DEF QuietInv
<1>3. Found' /\ Accounted' /\ HalfRight' /\ AllRight'
  BY <1>1 DEF Found, Accounted, HalfRight, AllRight
<1>4. ASSUME quiet.still PROVE Agrees(idx)'
  <2>1. ASSUME NEW p \in Paths
        PROVE  /\ KnownFilePath(idx', p) <=> Exists(p)
               /\ Exists(p) => idx'.files[p].stamp.size = Stat(p).size
    <3>1. CASE ~Touched(ops, p) /\ idx'.files[p] = idx.files[p]
      BY <1>1, <1>4, <3>1, SetOfEmpty DEF QuietInv, Accounted, KnownFilePath
    <3>2. ASSUME NEW i \in DOMAIN ops, p \in PathsOf(ops[i]),
                 idx'.files[p] = EntryAfter(idx, ops[i], p)
          PROVE  /\ KnownFilePath(idx', p) <=> Exists(p)
                 /\ Exists(p) => idx'.files[p].stamp.size = Stat(p).size
      <4>1. Right(ops[i])
        BY <1>1, <1>4, CommitEffect DEF QuietInv, AllRight
      <4> QED BY <3>2, <4>1, CommitEffect, RightEntry DEF KnownFilePath
    <3> QED BY <3>1, <3>2, CommitEffect
  <2> QED BY <1>1, <2>1, DiskStands DEF Agrees, KnownFilePath
<1> QED BY <1>1, <1>2, <1>3, <1>4 DEF QuietInv

LEMMA QuietInvariant == Spec => []QuietInv
<1>1. Init => QuietInv
  BY DEF Init, QuietInv
<1>2. ScanInv /\ QuietInv /\ [Next]_vars => QuietInv'
  <2> SUFFICES ASSUME ScanInv, QuietInv, [Next]_vars PROVE QuietInv'
    OBVIOUS
  <2>1. CASE Scan
    BY <2>1, StartQuiet, ListDirQuiet, CompareQuiet, StatUnchangedQuiet, StatChangedQuiet,
       ReadMoreQuiet, HashChangedQuiet, KnownDoneQuiet, ReadHalfQuiet, ReadRestQuiet, SweepQuiet, CommitQuiet
       DEF Scan
  <2>2. CASE Others
    <3>1. quiet'.scans = 0 /\ ~quiet'.still
      BY <2>2 DEF Others, Save, SaveAgain, Delete, Move, Edit
    <3> QED BY <3>1 DEF QuietInv
  <2>3. CASE UNCHANGED vars
    BY <2>3, DiskStands DEF QuietInv, Found, Accounted, HalfRight, AllRight, vars, diskVars, scanVars
  <2> QED BY <2>1, <2>2, <2>3 DEF Next
<1> QED BY <1>1, <1>2, Invariant, PTL DEF Spec

(* After a scan that no edit disturbed, the index has the paths of the     *)
(* files on the disk and the sizes that they have (repo.cpp:54), whatever  *)
(* happened before that scan.                                              *)
THEOREM QuietScanIsRight == Spec => []QuietScanAgrees
<1>1. QuietInv => QuietScanAgrees
  BY DEF QuietInv, QuietScanAgrees, Agrees
<1> QED BY <1>1, QuietInvariant, PTL

-----------------------------------------------------------------------------
(* Stale entries: of a file whose stamp they have with another fingerprint. *)

LEMMA StaleStands ==
  ASSUME disk' = disk, idx' = idx PROVE Stale' = Stale
BY DEF Stale, Exists, Stat, FingerPrint, KnownFilePath

(* what the diff of a scan that saw no edit puts at a path is the file there *)
LEMMA CommitStale ==
  ASSUME ScanInv, QuietInv, quiet.still, Commit PROVE Stale' \subseteq Stale
<1>1. disk' = disk /\ pc = "commit" /\ AllRight
  BY DEF Commit, diskVars, QuietInv
<1> SUFFICES ASSUME NEW p \in Stale' PROVE p \in Stale
  OBVIOUS
<1>2. /\ p \in Paths /\ Exists(p) /\ KnownFilePath(idx', p) /\ idx'.files[p].stamp = Stat(p)
      /\ idx'.files[p].print # FingerPrint(p)
  BY <1>1, DiskStands DEF Stale, KnownFilePath
<1>3. CASE ~Touched(ops, p) /\ idx'.files[p] = idx.files[p]
  BY <1>2, <1>3 DEF Stale, KnownFilePath
<1>4. ASSUME NEW i \in DOMAIN ops, p \in PathsOf(ops[i]), idx'.files[p] = EntryAfter(idx, ops[i], p)
      PROVE  FALSE
  <2>1. Right(ops[i])
    BY <1>1, <1>4, CommitEffect DEF AllRight
  <2> QED BY <1>2, <1>4, <2>1, CommitEffect, RightEntry DEF KnownFilePath
<1> QED BY <1>2, <1>3, <1>4, CommitEffect

LEMMA StaleStep ==
  ASSUME ScanInv, QuietInv, [Next]_vars, quiet.still, ~Others PROVE Stale' \subseteq Stale
<1>1. Commit \/ UNCHANGED <<disk, idx>>
  BY DEF Next, Scan, vars, diskVars, Start, ListDir, Compare, StatUnchanged, StatChanged, ReadMore,
     HashChanged, KnownDone, ReadHalf, ReadRest, Sweep
<1> QED BY <1>1, CommitStale, StaleStands

(* No scan that no edit disturbs makes an entry stale, in whichever order  *)
(* the compiler has the stat and the fingerprint of a file read            *)
(* (localdiskrepo.cpp:138) and whatever the other programs did before: its *)
(* renames, too, only move an entry to a file of that fingerprint, and so  *)
(* every entry that is not right is one an edit left behind.               *)
THEOREM OnlyEditsStale == Spec => OnlyEditsMakeStale
<1>1. ScanInv /\ QuietInv /\ [Next]_vars
        => [quiet.still /\ edits' = edits => Stale' \subseteq Stale]_vars
  <2> SUFFICES ASSUME ScanInv, QuietInv, [Next]_vars, quiet.still, edits' = edits
      PROVE Stale' \subseteq Stale
    OBVIOUS
  <2>1. ~Others
    <3>1. edits \in Int
      BY DEF ScanInv, TypeOK
    <3> QED BY <3>1 DEF Others, Save, SaveAgain, Delete, Move, Edit
  <2> QED BY <2>1, StaleStep
<1> QED BY <1>1, Invariant, QuietInvariant, PTL DEF Spec, OnlyEditsMakeStale

-----------------------------------------------------------------------------
(* Two scans while no file is changed.                                     *)

SettledInv == quiet.scans = 2 => Settled(idx)

(* what is stale was so when the first of the scans in a row began *)
StaleKept == quiet.still => Stale \subseteq quiet.stale

LEMMA CommitSettles ==
  ASSUME ScanInv, QuietInv, IndexSound, SettledInv, Commit
  PROVE  SettledInv'
<1>1. pc = "commit" /\ disk' = disk /\ quiet \in [scans : 0..2, still : BOOLEAN, stale : SUBSET Paths, sure : BOOLEAN]
  BY DEF ScanInv, TypeOK, Commit, diskVars
<1>2. SUFFICES ASSUME quiet'.scans = 2 PROVE Settled(idx)'
  BY DEF SettledInv
<1>3. quiet.scans >= 1
  BY <1>1, <1>2 DEF Commit
<1>4. Agrees(idx) /\ Accounted /\ AllRight
  BY <1>3 DEF QuietInv
<1>5. ASSUME NEW p \in Paths
      PROVE  /\ KnownFilePath(idx', p) <=> Exists(p)
             /\ Exists(p) => idx'.files[p].path = p /\ idx'.files[p].stamp = Stat(p)
  <2>1. KnownFilePath(idx, p) => idx.files[p].path = p /\ idx.files[p] \in FileInfo
    BY DEF IndexSound, Sound, PathsAgree, ScanInv, TypeOK, Index, KnownFilePath
  <2>2. CASE ~Touched(ops, p) /\ idx'.files[p] = idx.files[p]
    <3>1. KnownFilePath(idx, p) <=> Exists(p)
      BY <1>4 DEF Agrees
    <3>2. Exists(p) => idx.files[p].stamp = Stat(p)
      BY <1>1, <1>4, <2>2, <3>1, SetOfEmpty DEF Accounted
    <3> QED BY <2>1, <2>2, <3>1, <3>2 DEF KnownFilePath
  <2>3. ASSUME NEW i \in DOMAIN ops, p \in PathsOf(ops[i]),
               idx'.files[p] = EntryAfter(idx, ops[i], p)
        PROVE  /\ KnownFilePath(idx', p) <=> Exists(p)
               /\ Exists(p) => idx'.files[p].path = p /\ idx'.files[p].stamp = Stat(p)
    <3> DEFINE op == ops[i]
    <3>1. /\ op \in StateOp /\ WellFormedOp(op) /\ CanPerformOp(idx, op) /\ Right(op)
      BY <1>1, <1>4, CommitEffect DEF AllRight
    <3> HIDE DEF op
    <3>2. /\ op.path \in Paths /\ op.action \in Actions /\ p \in {op.path, op.newPath}
          /\ op.action # "RenameFile" => p = op.path
          /\ idx'.files[p] = EntryAfter(idx, op, p)
      BY <2>3, <3>1, StateAssumption DEF StateOp, PathsOf, WellFormedOp, op
    <3>3. op.action \notin {"RemoveFile", "RenameFile"}
      BY <1>4, <3>1, <3>2 DEF Agrees, CanPerformOp, Right
    <3>4. op.action \in {"AddFile", "ModifyFile"} /\ p = op.path
          /\ Exists(p) /\ op.stamp = Stat(p)
      BY <3>1, <3>2, <3>3 DEF Actions, Right
    <3>5. EntryAfter(idx, op, p) = [path |-> p, stamp |-> op.stamp, print |-> op.print]
      <4>1. CASE op.action = "AddFile"
        BY <4>1 DEF EntryAfter
      <4>2. CASE op.action = "ModifyFile"
        <5>1. EntryAfter(idx, op, p) = [idx.files[p] EXCEPT !.stamp = op.stamp, !.print = op.print]
          BY <4>2 DEF EntryAfter
        <5>2. KnownFilePath(idx, p)
          BY <3>1, <3>4, <4>2 DEF CanPerformOp
        <5> QED BY <2>1, <5>1, <5>2 DEF FileInfo
      <4> QED BY <3>4, <4>1, <4>2
    <3>6. KnownFilePath(idx', p)
      <4>1. op.stamp \in Stamps \union {NoStamp} /\ op.print \in Prints
        BY <3>1 DEF StateOp
      <4>2. EntryAfter(idx, op, p) \in FileInfo
        BY <3>5, <4>1 DEF FileInfo
      <4> QED BY <3>2, <4>2, StateAssumption DEF KnownFilePath, StateAssumption
    <3> QED BY <3>2, <3>4, <3>5, <3>6
  <2> QED BY <2>2, <2>3, CommitEffect
<1> QED BY <1>1, <1>5, DiskStands DEF Settled, KnownFilePath

LEMMA SettlesInvariant == Spec => [](SettledInv /\ StaleKept)
<1>1. Init => SettledInv /\ StaleKept
  BY DEF Init, SettledInv, StaleKept
<1>2. ScanInv /\ QuietInv /\ IndexSound /\ SettledInv /\ StaleKept /\ [Next]_vars
        => (SettledInv /\ StaleKept)'
  <2> SUFFICES ASSUME ScanInv, QuietInv, IndexSound, SettledInv, StaleKept, [Next]_vars
      PROVE (SettledInv /\ StaleKept)'
    OBVIOUS
  <2>0. quiet \in [scans : 0..2, still : BOOLEAN, stale : SUBSET Paths, sure : BOOLEAN]
    BY DEF ScanInv, TypeOK
  <2>1. CASE Commit
    <3>1. quiet'.still = quiet.still /\ quiet'.stale = quiet.stale
      BY <2>0, <2>1 DEF Commit
    <3>2. StaleKept'
      BY <2>1, <3>1, CommitStale DEF StaleKept
    <3> QED BY <2>1, <3>2, CommitSettles
  <2>2. CASE Start
    <3>1. /\ disk' = disk /\ idx' = idx /\ quiet'.scans = quiet.scans
          /\ quiet'.stale = IF quiet.scans = 0 THEN Stale ELSE quiet.stale
      BY <2>0, <2>2 DEF Start, diskVars
    <3>2. quiet.scans # 0 => quiet.still
      BY <2>0 DEF QuietInv
    <3>3. StaleKept'
      BY <3>1, <3>2, StaleStands DEF StaleKept
    <3> QED BY <3>1, <3>3, DiskStands DEF SettledInv, Settled
  <2>3. CASE Others
    <3>1. quiet'.scans = 0 /\ ~quiet'.still
      BY <2>3 DEF Others, Save, SaveAgain, Delete, Move, Edit
    <3> QED BY <3>1 DEF SettledInv, StaleKept
  <2>4. CASE /\ UNCHANGED <<disk, idx>> /\ quiet'.scans = quiet.scans
             /\ quiet'.still = quiet.still /\ quiet'.stale = quiet.stale
    BY <2>4, DiskStands, StaleStands DEF SettledInv, Settled, StaleKept
  <2>5. ListDir \/ Compare \/ StatUnchanged \/ StatChanged \/ ReadMore \/ HashChanged \/ KnownDone
          \/ ReadRest \/ Sweep \/ UNCHANGED vars => UNCHANGED <<disk, idx, quiet>>
    BY DEF vars, diskVars, ListDir, Compare, StatUnchanged, StatChanged, ReadMore, HashChanged,
       KnownDone, ReadRest, Sweep
  <2>6. ReadHalf => /\ UNCHANGED <<disk, idx>> /\ quiet'.scans = quiet.scans
                    /\ quiet'.still = quiet.still /\ quiet'.stale = quiet.stale
    BY <2>0 DEF diskVars, ReadHalf
  <2> QED BY <2>1, <2>2, <2>3, <2>4, <2>5, <2>6 DEF Next, Scan
<1> QED BY <1>1, <1>2, Invariant, QuietInvariant, IndexStaysSound, PTL DEF Spec

(* Two scans in a row that no edit disturbed leave an index that is        *)
(* exactly the disk, but for the fingerprints that were stale before the   *)
(* first: the second finds nothing missing, so it renames nothing, and     *)
(* corrects what the renames of the first left behind (repo.cpp:96-107).   *)
(* The edits and the order of the reads may be any.                        *)
THEOREM TwoScansSettle == Spec => []SettledAfterTwo
<1>1. ScanInv /\ QuietInv /\ SettledInv /\ StaleKept => SettledAfterTwo
  <2> SUFFICES ASSUME ScanInv, QuietInv, SettledInv, StaleKept, quiet.scans = 2, NEW p \in Paths
      PROVE  /\ KnownFilePath(idx, p) <=> Exists(p)
             /\ Exists(p) => idx.files[p].path = p /\ idx.files[p].stamp = Stat(p)
             /\ Exists(p) /\ p \notin quiet.stale => idx.files[p].print = FingerPrint(p)
    BY DEF SettledAfterTwo
  <2>1. Settled(idx) /\ Stale \subseteq quiet.stale
    BY DEF SettledInv, StaleKept, QuietInv
  <2> QED BY <2>1 DEF Settled, Stale
<1> QED BY <1>1, Invariant, QuietInvariant, SettlesInvariant, PTL
=============================================================================
