------------------------- MODULE StateLoggerProofs -------------------------
(***************************************************************************)
(* Theorems of StateLogger.tla, for all paths, fingerprints, diffs and     *)
(* numbers of logs.                                                        *)
(***************************************************************************)
EXTENDS StateLogger, StateLemmas

-----------------------------------------------------------------------------
(* Replaying the logs.                                                     *)

(* replaying is performing one log after the other, from the empty index *)
LEMMA ReplayToDef ==
  ASSUME NEW lg \in [Names -> Contents]
  PROVE  /\ ReplayTo(lg) \in [0..MaxLogs -> Index]
         /\ ReplayTo(lg)[0] = EmptyIndex
         /\ \A n \in Names : ReplayTo(lg)[n] =
              IF lg[n] \in Diffs THEN PerformChanges(ReplayTo(lg)[n - 1], lg[n])
                                 ELSE ReplayTo(lg)[n - 1]
<1> DEFINE N == MaxLogs
           next(n, i) == IF lg[n] \in Diffs THEN PerformChanges(i, lg[n]) ELSE i
           step == [a \in (1..N) \X Index |-> next(a[1], a[2])]
<1>1. N \in Nat /\ Diffs \subseteq StateDiff /\ Names = 1..N
  BY LoggerAssumption DEF Names
<1>2. ASSUME NEW n \in 1..N, NEW i \in Index PROVE next(n, i) \in Index
  BY <1>1, PerformChangesType
<1>3. step \in [(1..N) \X Index -> Index]
  <2>1. ASSUME NEW a \in (1..N) \X Index PROVE next(a[1], a[2]) \in Index
    <3>1. a[1] \in 1..N /\ a[2] \in Index
      OBVIOUS
    <3> HIDE DEF next
    <3> QED BY <1>2, <3>1
  <2> HIDE DEF next
  <2> QED BY <2>1
<1>4. PICK f : /\ f \in [0..N -> Index]
               /\ f[0] = EmptyIndex
               /\ \A n \in 1..N : f[n] = step[<<n, f[n - 1]>>]
  <2> HIDE DEF step, N
  <2>1. PICK f : Iterates(f, N, Index, EmptyIndex, step)
    BY <1>1, <1>3, RecursionExists, EmptyIndexType
  <2> QED BY <2>1 DEF Iterates
<1>5. \A n \in 1..N : f[n] = next(n, f[n - 1])
  <2>1. SUFFICES ASSUME NEW n \in 1..N PROVE f[n] = next(n, f[n - 1])
    OBVIOUS
  <2>2. f[n - 1] \in Index
    BY <1>1, <1>4
  <2>3. <<n, f[n - 1]>> \in (1..N) \X Index
    BY <2>2
  <2>4. step[<<n, f[n - 1]>>] = next(n, f[n - 1])
    <3> HIDE DEF next
    <3> QED BY <2>3
  <2> HIDE DEF next
  <2> QED BY <1>4, <2>4
<1> DEFINE Eqn(g) == g = [n \in 0..N |-> IF n = 0 THEN EmptyIndex
                            ELSE IF lg[n] \in Diffs THEN PerformChanges(g[n - 1], lg[n])
                                                    ELSE g[n - 1]]
<1>6. Eqn(f)
  <2>1. \A n \in 0..N : f[n] = IF n = 0 THEN EmptyIndex
                                ELSE IF lg[n] \in Diffs THEN PerformChanges(f[n - 1], lg[n])
                                                        ELSE f[n - 1]
    BY <1>1, <1>4, <1>5
  <2> HIDE DEF N
  <2> QED BY <1>4, <2>1
<1>7. ReplayTo(lg) = CHOOSE g : Eqn(g)
  BY DEF ReplayTo
<1>8. Eqn(ReplayTo(lg))
  <2> HIDE DEF Eqn
  <2> QED BY <1>6, <1>7
<1> DEFINE h == ReplayTo(lg)
<1>9. h[0] = EmptyIndex /\ \A n \in 1..N : h[n] = next(n, h[n - 1])
  <2> HIDE DEF h, N
  <2>1. h = [n \in 0..N |-> IF n = 0 THEN EmptyIndex
                            ELSE IF lg[n] \in Diffs THEN PerformChanges(h[n - 1], lg[n])
                                                    ELSE h[n - 1]]
    BY <1>8 DEF h
  <2> QED BY <2>1, <1>1
<1>10. h \in [0..N -> Index]
  <2> DEFINE T == { n \in Nat : n <= N => h[n] \in Index }
  <2>1. 0 \in T
    BY <1>9, EmptyIndexType
  <2>2. ASSUME NEW n \in T PROVE n + 1 \in T
    <3>1. SUFFICES ASSUME n + 1 <= N PROVE h[n + 1] \in Index
      OBVIOUS
    <3>2. h[n] \in Index /\ n + 1 \in 1..N /\ (n + 1) - 1 = n
      BY <1>1, <3>1
    <3> HIDE DEF h, N, next
    <3>3. h[n + 1] = next(n + 1, h[n])
      BY <1>9, <3>2
    <3> QED BY <1>2, <3>2, <3>3
  <2>3. T = Nat
    <3> HIDE DEF T
    <3>1. T \in SUBSET Nat
      BY DEF T
    <3> QED BY <2>1, <2>2, <3>1, SetInduction
  <2>4. \A n \in 0..N : h[n] \in Index
    BY <2>3, <1>1
  <2>5. h = [n \in 0..N |-> h[n]]
    <3> HIDE DEF h, N
    <3>1. h = [n \in 0..N |-> IF n = 0 THEN EmptyIndex
                              ELSE IF lg[n] \in Diffs THEN PerformChanges(h[n - 1], lg[n])
                                                      ELSE h[n - 1]]
      BY <1>8 DEF h
    <3> QED BY <3>1
  <2> HIDE DEF h, N
  <2> QED BY <2>4, <2>5
<1> QED BY <1>1, <1>9, <1>10

(* the logs up to rank m determine what they replay to *)
LEMMA ReplayPrefix ==
  ASSUME NEW lg1 \in [Names -> Contents], NEW lg2 \in [Names -> Contents],
         NEW m \in 0..MaxLogs, \A n \in 1..m : lg1[n] = lg2[n]
  PROVE  ReplayTo(lg1)[m] = ReplayTo(lg2)[m]
<1> DEFINE h1 == ReplayTo(lg1)
           h2 == ReplayTo(lg2)
           T  == { n \in Nat : n <= m => h1[n] = h2[n] }
<1>1. MaxLogs \in Nat /\ Names = 1..MaxLogs /\ m \in Nat /\ m <= MaxLogs
  BY LoggerAssumption DEF Names
<1>2. 0 \in T
  BY ReplayToDef
<1>3. ASSUME NEW n \in T PROVE n + 1 \in T
  <2>1. SUFFICES ASSUME n + 1 <= m PROVE h1[n + 1] = h2[n + 1]
    OBVIOUS
  <2>2. h1[n] = h2[n] /\ n + 1 \in Names /\ (n + 1) - 1 = n /\ lg1[n + 1] = lg2[n + 1]
    BY <1>1, <2>1
  <2>3. /\ h1[n + 1] = IF lg1[n + 1] \in Diffs THEN PerformChanges(h1[n], lg1[n + 1]) ELSE h1[n]
        /\ h2[n + 1] = IF lg2[n + 1] \in Diffs THEN PerformChanges(h2[n], lg2[n + 1]) ELSE h2[n]
    BY <2>2, ReplayToDef
  <2> QED BY <2>2, <2>3
<1>4. T = Nat
  <2> HIDE DEF T
  <2>1. T \in SUBSET Nat
    BY DEF T
  <2> QED BY <1>2, <1>3, <2>1, SetInduction
<1> QED BY <1>1, <1>4

(* ranks without a readable log change nothing *)
LEMMA ReplayGap ==
  ASSUME NEW lg \in [Names -> Contents], NEW k \in 0..MaxLogs, NEW m \in k..MaxLogs,
         \A n \in Names : n > k => lg[n] \notin Diffs
  PROVE  ReplayTo(lg)[m] = ReplayTo(lg)[k]
<1> DEFINE h == ReplayTo(lg)
           T == { n \in Nat : k + n <= MaxLogs => h[k + n] = h[k] }
<1>1. MaxLogs \in Nat /\ Names = 1..MaxLogs
  BY LoggerAssumption DEF Names
<1>2. 0 \in T
  OBVIOUS
<1>3. ASSUME NEW n \in T PROVE n + 1 \in T
  <2>1. SUFFICES ASSUME k + (n + 1) <= MaxLogs PROVE h[k + (n + 1)] = h[k]
    OBVIOUS
  <2>2. h[k + n] = h[k] /\ k + (n + 1) \in Names /\ (k + (n + 1)) - 1 = k + n
        /\ lg[k + (n + 1)] \notin Diffs
    BY <1>1, <2>1
  <2> QED BY <2>2, ReplayToDef
<1>4. T = Nat
  <2> HIDE DEF T
  <2>1. T \in SUBSET Nat
    BY DEF T
  <2> QED BY <1>2, <1>3, <2>1, SetInduction
<1>5. m - k \in Nat /\ k + (m - k) = m /\ m <= MaxLogs
  BY <1>1
<1>6. h[k + (m - k)] = h[k]
  <2> HIDE DEF h
  <2> QED BY <1>4, <1>5
<1> QED BY <1>5, <1>6

(* a log with a name after all others is replayed after all others *)
LEMMA ReplayAppend ==
  ASSUME NEW lg \in [Names -> Contents], NEW k \in Names, NEW d \in Diffs,
         \A m \in Names : lg[m] # Absent => m < k
  PROVE  LET lg2 == [lg EXCEPT ![k] = d]
         IN  /\ \A m \in 0..(k - 1) : ReplayTo(lg2)[m] = ReplayTo(lg)[m]
             /\ ReplayTo(lg)[k - 1] = ReplayLogs(lg)
             /\ ReplayLogs(lg2) = PerformChanges(ReplayLogs(lg), d)
<1> DEFINE lg2 == [lg EXCEPT ![k] = d]
<1>1. /\ MaxLogs \in Nat /\ Names = 1..MaxLogs /\ k \in 1..MaxLogs /\ k - 1 \in 0..MaxLogs
      /\ MaxLogs \in (k - 1)..MaxLogs /\ MaxLogs \in k..MaxLogs /\ k \in 0..MaxLogs
  BY LoggerAssumption DEF Names
<1>2. lg2 \in [Names -> Contents] /\ lg2[k] = d /\ \A m \in Names : m # k => lg2[m] = lg[m]
  BY DEF Contents
<1>3. \A m \in Names : m >= k => lg[m] \notin Diffs
  BY LoggerAssumption, <1>1
<1> HIDE DEF lg2
<1>4. ASSUME NEW m \in 0..(k - 1) PROVE ReplayTo(lg2)[m] = ReplayTo(lg)[m]
  <2>1. m \in 0..MaxLogs /\ \A n \in 1..m : lg2[n] = lg[n]
    BY <1>1, <1>2
  <2> QED BY <1>2, <2>1, ReplayPrefix
<1>5. ReplayTo(lg)[k - 1] = ReplayLogs(lg)
  <2>1. \A n \in Names : n > k - 1 => lg[n] \notin Diffs
    BY <1>1, <1>3
  <2> QED BY <1>1, <2>1, ReplayGap DEF ReplayLogs
<1>6. ReplayTo(lg2)[k] = PerformChanges(ReplayLogs(lg), d)
  <2>1. ReplayTo(lg2)[k] = PerformChanges(ReplayTo(lg2)[k - 1], d)
    BY <1>1, <1>2, ReplayToDef
  <2>2. k - 1 \in 0..(k - 1)
    BY <1>1
  <2> QED BY <1>4, <1>5, <2>1, <2>2
<1>7. ReplayLogs(lg2) = ReplayTo(lg2)[k]
  <2>1. \A n \in Names : n > k => lg2[n] \notin Diffs
    BY <1>1, <1>2, <1>3
  <2> QED BY <1>1, <1>2, <2>1, ReplayGap DEF ReplayLogs
<1> QED BY <1>4, <1>5, <1>6, <1>7 DEF lg2

-----------------------------------------------------------------------------
(* Type correctness, in every environment.                                 *)

(* The facts about the commit under way that type correctness rests on: the *)
(* diff and its name are there from the moment the temporary file is open.  *)
CommitOK ==
  /\ pc \in {"opened", "written", "saved"} => cur \in Diffs /\ name \in Names
  /\ pc = "written" => tmp = cur

(* The index in memory, the logs and the commit under way are always of the *)
(* right kind (StateLogger's members and locals, statelogger.cpp).          *)
THEOREM TypeCorrect == Spec => [](TypeOK /\ CommitOK)
<1> USE DEF TypeOK, CommitOK
<1>1. Init => TypeOK /\ CommitOK
  BY EmptyIndexType DEF Init, Contents
<1>2. TypeOK /\ CommitOK /\ [Next]_vars => (TypeOK /\ CommitOK)'
  <2> SUFFICES ASSUME TypeOK, CommitOK, [Next]_vars PROVE (TypeOK /\ CommitOK)'
    OBVIOUS
  <2> USE DEF Contents
  <2>1. CASE Reload
    <3>1. ReplayLogs(logs) \in Index
      BY ReplayToDef, LoggerAssumption DEF ReplayLogs
    <3>2. Replay(logs, tmp) \in Index
      BY <3>1, PerformChangesType, LoggerAssumption DEF Replay
    <3> QED BY <2>1, <3>2 DEF Reload
  <2>2. ASSUME NEW d \in Diffs, NEW n \in Names, OpenTmp(d, n)
        PROVE (TypeOK /\ CommitOK)'
    BY <2>2 DEF OpenTmp
  <2>3. CASE WriteTmp
    BY <2>3 DEF WriteTmp
  <2>4. CASE RenameTmp
    BY <2>4 DEF RenameTmp
  <2>5. CASE LoseTmp
    BY <2>5 DEF LoseTmp
  <2>6. CASE Perform
    <3>1. PerformChanges(idx, cur) \in Index
      BY <2>6, PerformChangesType, LoggerAssumption DEF Perform
    <3> QED BY <2>6, <3>1 DEF Perform
  <2>7. CASE Crash
    BY <2>7, EmptyIndexType DEF Crash
  <2>8. CASE UNCHANGED vars
    BY <2>8 DEF vars
  <2> QED BY <2>1, <2>2, <2>3, <2>4, <2>5, <2>6, <2>7, <2>8 DEF Next
<1> QED BY <1>1, <1>2, PTL DEF Spec

-----------------------------------------------------------------------------
(* What holds wherever the process is killed, whatever order the names     *)
(* have and whenever the disk is full.                                     *)

(* what AckedDurable and NoTornLog rest on: the log of the commit that is   *)
(* about to be acknowledged holds its diff                                  *)
LogsWhole ==
  /\ AckedDurable
  /\ NoTornLog
  /\ pc = "saved" /\ name \notin lost => logs[name] \in Diffs

LEMMA LogsWholeInvariant == Spec => []LogsWhole
<1>1. Init => LogsWhole
  BY LoggerAssumption DEF Init, LogsWhole, AckedDurable, NoTornLog
<1>2. TypeOK /\ CommitOK /\ LogsWhole /\ [Next]_vars => LogsWhole'
  <2> SUFFICES ASSUME TypeOK, CommitOK, LogsWhole, [Next]_vars PROVE LogsWhole'
    OBVIOUS
  <2> USE DEF LogsWhole, AckedDurable, NoTornLog
  <2>1. CASE RenameTmp
    <3>1. tmp \in Diffs /\ tmp # Torn /\ name \in Names
      BY <2>1, LoggerAssumption DEF RenameTmp, CommitOK
    <3>2. CASE logs[name] = Absent
      <4>1. logs' = [logs EXCEPT ![name] = tmp] /\ lost' = lost \ {name}
        BY <2>1, <3>2 DEF RenameTmp
      <4> QED BY <2>1, <3>1, <4>1 DEF RenameTmp, TypeOK
    <3>3. CASE logs[name] # Absent
      <4>1. logs' = logs /\ lost' = lost
        BY <2>1, <3>3 DEF RenameTmp
      <4>2. name \notin lost => logs[name] \in Diffs
        BY <3>1, <3>3 DEF TypeOK, Contents
      <4> QED BY <2>1, <4>1, <4>2 DEF RenameTmp
    <3> QED BY <3>2, <3>3
  <2>2. CASE Perform
    BY <2>2 DEF Perform
  <2>3. CASE LoseTmp
    <3>1. cur \in Diffs /\ name \in Names
      BY <2>3 DEF LoseTmp, CommitOK
    <3>2. logs' \in {logs, [logs EXCEPT ![name] = Torn]}
      BY <2>3 DEF LoseTmp
    <3>3. \A n \in Names : n = name \/ logs'[n] = logs[n]
      BY <3>2 DEF TypeOK
    <3>4. lost \subseteq lost' /\ (name \in lost' \/ logs'[name] = cur)
      BY <2>3 DEF LoseTmp
    <3>5. acked' = acked /\ acked \subseteq Names /\ name' = name /\ cur # Torn
      BY <2>3, <3>1, LoggerAssumption DEF LoseTmp, TypeOK
    <3> QED BY <3>1, <3>3, <3>4, <3>5
  <2> QED BY <2>1, <2>2, <2>3 DEF Next, Reload, OpenTmp, WriteTmp, Crash, vars
<1> QED BY <1>1, <1>2, TypeCorrect, PTL DEF Spec

(* A commit that returned true has left its whole diff under its name      *)
(* unless the disk was full at that moment, wherever the process is killed  *)
(* and whatever is committed later, also under a name that is taken: a      *)
(* rename is refused only by a log of the same diff, or by what a full disk *)
(* has left of it (statelogger.cpp:95-106).                                 *)
THEOREM AcknowledgedIsDurable == Spec => []AckedDurable
BY LogsWholeInvariant, PTL DEF LogsWhole

(* A log has its name only when all of it has been written, but for that of *)
(* a diff for which the disk was full (statelogger.cpp:98-104).             *)
THEOREM NamedIsWhole == Spec => []NoTornLog
BY LogsWholeInvariant, PTL DEF LogsWhole

-----------------------------------------------------------------------------
(* Recovery.  An orderly environment does not kill the process while a     *)
(* written log still has its temporary name, commits each diff once and in *)
(* the order of the names, and leaves room on the disk.  Without any of    *)
(* the three the properties below fail; run logger_window shows it of the  *)
(* first.                                                                  *)

Orderly ==
  /\ "written" \notin CrashPoints
  /\ ~NamesOvertake
  /\ ~DiskFills

(* The inductive invariant.  The index in memory is what the named logs     *)
(* replay to, except between the rename and the end of a commit, when it    *)
(* is one diff behind; a temporary file with a whole diff only exists while *)
(* that diff is being committed; the name of that diff comes after all.     *)
Recovery ==
  /\ pc = "down" => idx = EmptyIndex
  /\ pc \in {"idle", "opened", "written"} => idx = ReplayLogs(logs)
  /\ pc = "saved" => ReplayLogs(logs) = PerformChanges(idx, cur)
  /\ tmp \in Diffs => pc = "written"
  /\ pc \in {"opened", "written"} =>
       /\ CanPerformChanges(idx, cur)
       /\ \A m \in Names : logs[m] # Absent => m < name
  /\ LogsReplayLegally

(* a reload in an orderly environment finds no diff under the temporary name *)
LEMMA ReloadFindsLogs ==
  ASSUME Recovery, pc \in {"down", "idle"}
  PROVE  Replay(logs, tmp) = ReplayLogs(logs)
BY DEF Recovery, Replay

LEMMA RecoveryInit == Init => Recovery
<1> SUFFICES ASSUME Init PROVE Recovery
  OBVIOUS
<1>1. tmp \notin Diffs /\ \A n \in Names : logs[n] \notin Diffs
  BY LoggerAssumption DEF Init
<1> QED BY <1>1 DEF Init, Recovery, LogsReplayLegally

LEMMA RecoveryStep ==
  Orderly /\ TypeOK /\ CommitOK /\ Recovery /\ [Next]_vars => Recovery'
<1> SUFFICES ASSUME Orderly, TypeOK, CommitOK, Recovery, [Next]_vars PROVE Recovery'
  OBVIOUS
<1>1. CASE Reload
  <2>1. idx' = ReplayLogs(logs)
    BY <1>1, ReloadFindsLogs DEF Reload
  <2> QED BY <1>1, <2>1 DEF Reload, Recovery, LogsReplayLegally
<1>2. ASSUME NEW d \in Diffs, NEW n \in Names, OpenTmp(d, n) PROVE Recovery'
  <2>1. \A m \in Names : logs[m] # Absent => m < n
    BY <1>2 DEF OpenTmp, NewName, Orderly
  <2> QED BY <1>2, <2>1, LoggerAssumption DEF OpenTmp, Recovery, LogsReplayLegally
<1>3. CASE WriteTmp
  BY <1>3 DEF WriteTmp, Recovery, LogsReplayLegally
<1>4. CASE RenameTmp
  <2>1. /\ cur \in Diffs /\ name \in Names /\ tmp = cur
        /\ \A m \in Names : logs[m] # Absent => m < name
        /\ idx = ReplayLogs(logs) /\ CanPerformChanges(idx, cur)
    BY <1>4 DEF RenameTmp, CommitOK, Recovery
  <2>2. logs' = [logs EXCEPT ![name] = cur] /\ logs \in [Names -> Contents] /\ tmp' = Absent
    <3>1. logs[name] = Absent
      BY <2>1, LoggerAssumption DEF Names
    <3> QED BY <1>4, <2>1, <3>1 DEF RenameTmp, TypeOK
  <2>3. /\ \A m \in 0..(name - 1) : ReplayTo(logs')[m] = ReplayTo(logs)[m]
        /\ ReplayTo(logs)[name - 1] = ReplayLogs(logs)
        /\ ReplayLogs(logs') = PerformChanges(ReplayLogs(logs), cur)
    BY <2>1, <2>2, ReplayAppend
  <2>4. LogsReplayLegally'
    <3>1. SUFFICES ASSUME NEW n \in Names, logs'[n] \in Diffs
          PROVE CanPerformChanges(ReplayTo(logs')[n - 1], logs'[n])
      BY DEF LogsReplayLegally
    <3>2. CASE n = name
      <4>1. name - 1 \in 0..(name - 1)
        BY <2>1, LoggerAssumption DEF Names
      <4> QED BY <2>1, <2>2, <2>3, <3>2, <4>1
    <3>3. CASE n # name
      <4>1. logs'[n] = logs[n] /\ logs[n] # Absent
        BY <2>2, <3>1, <3>3, LoggerAssumption
      <4>2. n < name /\ n - 1 \in 0..(name - 1)
        BY <2>1, <4>1, LoggerAssumption DEF Names
      <4> QED BY <2>3, <3>1, <4>1, <4>2 DEF Recovery, LogsReplayLegally
    <3> QED BY <3>2, <3>3
  <2>5. idx' = idx /\ cur' = cur /\ pc' = "saved" /\ tmp' = Absent
    BY <1>4, <2>2 DEF RenameTmp
  <2> QED BY <2>1, <2>3, <2>4, <2>5, LoggerAssumption DEF Recovery
<1>5. CASE LoseTmp
  BY <1>5 DEF LoseTmp, Orderly
<1>6. CASE Perform
  BY <1>6 DEF Perform, Recovery, LogsReplayLegally
<1>7. CASE Crash
  <2>1. pc # "written"
    BY <1>7 DEF Crash, Orderly
  <2> QED BY <1>7, <2>1 DEF Crash, Recovery, LogsReplayLegally
<1>8. CASE UNCHANGED vars
  BY <1>8 DEF vars, Recovery, LogsReplayLegally
<1> QED BY <1>1, <1>2, <1>3, <1>4, <1>5, <1>6, <1>7, <1>8 DEF Next

LEMMA RecoveryInvariant == Orderly /\ Spec => []Recovery
<1>0. SUFFICES ASSUME Orderly PROVE Spec => []Recovery
  OBVIOUS
<1>1. TypeOK /\ CommitOK /\ Recovery /\ [Next]_vars => Recovery'
  BY <1>0, RecoveryStep
<1> QED BY <1>1, RecoveryInit, TypeCorrect, PTL DEF Spec

(* Between commits the index in memory is exactly what a restart would      *)
(* read back, after any number of commits, reloads and crashes of an        *)
(* orderly environment (statelogger.cpp:49-73).                             *)
THEOREM RestartGivesSameIndex == Orderly /\ Spec => []MemoryMatchesDisk
<1>1. Recovery => MemoryMatchesDisk
  BY ReloadFindsLogs DEF Recovery, MemoryMatchesDisk
<1> QED BY <1>1, RecoveryInvariant, PTL

(* Replay performs without asking only what a commit had been asked for,    *)
(* on the same index (statelogger.cpp:65-72).                               *)
THEOREM ReplayIsLegal == Orderly /\ Spec => []LogsReplayLegally
<1>1. Recovery => LogsReplayLegally
  BY DEF Recovery
<1> QED BY <1>1, RecoveryInvariant, PTL

-----------------------------------------------------------------------------
(* The two hashes.                                                         *)

LEMMA ReplayIsSound ==
  ASSUME logs \in [Names -> Contents], LogsReplayLegally,
         \A d \in Diffs : Independent(d), NEW m \in 0..MaxLogs
  PROVE  Sound(ReplayTo(logs)[m])
<1> DEFINE h == ReplayTo(logs)
           T == { n \in Nat : n <= MaxLogs => Sound(h[n]) }
<1>1. MaxLogs \in Nat /\ Names = 1..MaxLogs
  BY LoggerAssumption DEF Names
<1>2. 0 \in T
  BY ReplayToDef, EmptyIndexType
<1>3. ASSUME NEW n \in T PROVE n + 1 \in T
  <2>1. SUFFICES ASSUME n + 1 <= MaxLogs PROVE Sound(h[n + 1])
    OBVIOUS
  <2>2. Sound(h[n]) /\ n + 1 \in Names /\ (n + 1) - 1 = n /\ n \in 0..MaxLogs
    BY <1>1, <2>1
  <2>3. h[n] \in Index
    BY <2>2, ReplayToDef
  <2>4. CASE logs[n + 1] \in Diffs
    <3>1. h[n + 1] = PerformChanges(h[n], logs[n + 1])
      BY <2>2, <2>4, ReplayToDef
    <3>2. CanPerformChanges(h[n], logs[n + 1]) /\ Independent(logs[n + 1])
      BY <2>2, <2>4 DEF LogsReplayLegally
    <3>3. logs[n + 1] \in StateDiff
      BY <2>4, LoggerAssumption
    <3> HIDE DEF h
    <3> QED BY <2>2, <2>3, <3>1, <3>2, <3>3, PerformChangesSound
  <2>5. CASE logs[n + 1] \notin Diffs
    BY <2>2, <2>5, ReplayToDef
  <2> QED BY <2>4, <2>5
<1>4. T = Nat
  <2> HIDE DEF T
  <2>1. T \in SUBSET Nat
    BY DEF T
  <2> QED BY <1>2, <1>3, <2>1, SetInduction
<1> QED BY <1>1, <1>4

(* When no diff touches a path twice, a lookup by sha1 never returns an     *)
(* entry that is not the current entry of its file, in memory as committed  *)
(* or as replayed after a crash (state.cpp:208-241).                        *)
THEOREM LookupsAreCurrent ==
  Orderly /\ (\A d \in Diffs : Independent(d)) /\ Spec => []IndexSound
<1>0. SUFFICES ASSUME Orderly, \A d \in Diffs : Independent(d)
               PROVE Spec => []IndexSound
  OBVIOUS
<1>1. Init => IndexSound
  BY EmptyIndexType DEF Init, IndexSound
<1>2. TypeOK /\ Recovery /\ IndexSound /\ [Next]_vars => IndexSound'
  <2> SUFFICES ASSUME TypeOK, Recovery, IndexSound, [Next]_vars PROVE IndexSound'
    OBVIOUS
  <2> USE DEF IndexSound
  <2>1. Sound(ReplayLogs(logs))
    <3>1. MaxLogs \in 0..MaxLogs
      BY LoggerAssumption
    <3> QED BY <1>0, <3>1, ReplayIsSound DEF TypeOK, Recovery, ReplayLogs
  <2>2. CASE Reload
    BY <2>1, <2>2, ReloadFindsLogs DEF Reload
  <2>3. CASE Perform
    BY <2>1, <2>3 DEF Perform, Recovery
  <2>4. CASE Crash
    BY <2>4, EmptyIndexType DEF Crash
  <2> QED BY <2>2, <2>3, <2>4 DEF Next, OpenTmp, WriteTmp, RenameTmp, LoseTmp, vars
<1> QED BY <1>0, <1>1, <1>2, RecoveryInvariant, TypeCorrect, PTL DEF Spec

-----------------------------------------------------------------------------
(* Refinement.                                                             *)

(* The journal implements DurableIndex: every step of a commit, a crash or  *)
(* a reload is a step of it or a stutter (statelogger.cpp:49-106).          *)
THEOREM JournalIsDurable == Orderly /\ Spec => ImplementsDurable
<1>0. SUFFICES ASSUME Orderly PROVE Spec => ImplementsDurable
  OBVIOUS
<1>1. Init => Durable!Init
  <2> SUFFICES ASSUME Init PROVE Durable!Init
    OBVIOUS
  <2>1. \A n \in Names : logs[n] \notin Diffs
    BY LoggerAssumption DEF Init
  <2>2. logs \in [Names -> Contents] /\ 0 \in 0..MaxLogs /\ MaxLogs \in 0..MaxLogs
    BY LoggerAssumption DEF Init, Contents
  <2>3. ReplayLogs(logs) = EmptyIndex
    BY <2>1, <2>2, ReplayGap, ReplayToDef DEF ReplayLogs
  <2> QED BY <2>3 DEF Init, Durable!Init
<1>2. TypeOK /\ CommitOK /\ Recovery /\ Recovery' /\ [Next]_vars => [Durable!Next]_(Durable!vars)
  <2> SUFFICES ASSUME TypeOK, CommitOK, Recovery, Recovery', [Next]_vars
               PROVE  Durable!Next \/ UNCHANGED Durable!vars
    OBVIOUS
  <2>1. CASE Reload
    <3>1. Durable!Recover
      BY <2>1, ReloadFindsLogs DEF Reload, Durable!Recover
    <3> QED BY <3>1 DEF Durable!Next
  <2>2. ASSUME NEW d \in Diffs, NEW n \in Names, OpenTmp(d, n) PROVE Durable!Next
    <3>1. Durable!Accept(d)
      BY <2>2 DEF OpenTmp, Durable!Accept
    <3> QED BY <3>1 DEF Durable!Next
  <2>3. CASE WriteTmp
    BY <2>3 DEF WriteTmp, Durable!vars
  <2>4. CASE RenameTmp
    <3>1. Durable!Persist
      BY <2>4 DEF RenameTmp, Recovery, Durable!Persist
    <3> QED BY <3>1 DEF Durable!Next
  <2>5. CASE LoseTmp
    BY <1>0, <2>5 DEF LoseTmp, Orderly
  <2>6. CASE Perform
    <3>1. Durable!Publish
      BY <2>6 DEF Perform, Durable!Publish
    <3> QED BY <3>1 DEF Durable!Next
  <2>7. CASE Crash
    <3>1. pc \in {"idle", "opened", "saved"}
      BY <1>0, <2>7, LoggerAssumption DEF Crash, Orderly
    <3>2. Durable!Crash
      BY <2>7, <3>1 DEF Crash, Durable!Crash
    <3> QED BY <3>2 DEF Durable!Next
  <2>8. CASE UNCHANGED vars
    BY <2>8 DEF vars, Durable!vars
  <2> QED BY <2>1, <2>2, <2>3, <2>4, <2>5, <2>6, <2>7, <2>8 DEF Next
<1>3. Spec => [](TypeOK /\ CommitOK /\ Recovery)
  BY <1>0, TypeCorrect, RecoveryInvariant, PTL
<1> QED BY <1>1, <1>2, <1>3, PTL DEF Spec, ImplementsDurable, Durable!Spec
=============================================================================
