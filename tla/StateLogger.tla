---------------------------- MODULE StateLogger ----------------------------
(***************************************************************************)
(* The journal of an index: class StateLogger (statelogger.cpp).           *)
(*                                                                         *)
(* A commit checks a diff against the index in memory, writes it to        *)
(* to_be_renamed.log, renames that file to <name>.log and only then        *)
(* changes the index.  A reload rebuilds the index by replaying, in the    *)
(* order of their names, every file of the directory whose name ends in    *)
(* .log -- to_be_renamed.log, which sorts after the digits of the other    *)
(* names, included.                                                        *)
(*                                                                         *)
(* The name of a diff is the moment it was constructed followed by a hash  *)
(* of its operations: here a number, the rank of the name in sorted order. *)
(* Nothing reads a diff between its construction and its commit, so the    *)
(* commit chooses the rank.                                                *)
(* A crash may come at the steps of CrashPoints.  The steps of a commit    *)
(* are those between which the contents of the disk differ; performing     *)
(* the operations on the index and replaying the logs touch memory only    *)
(* and run without returning to the event loop, so each is one step.       *)
(***************************************************************************)
EXTENDS State

CONSTANTS
  Diffs,           \* the diffs callers commit
  MaxLogs,         \* bound: the highest rank of a log name
  Absent,          \* a file that does not exist
  Torn,            \* the contents of a file that is not a whole JSON value
  NoDiff,          \* no commit is under way
  CrashPoints,     \* the values of pc at which the process may be killed
  NamesOvertake,   \* whether a name may sort before one committed earlier
  DiskFills        \* whether the disk may fill up during a commit

ASSUME LoggerAssumption ==
  /\ Diffs \subseteq StateDiff
  /\ MaxLogs \in Nat
  /\ {Absent, Torn, NoDiff} \intersect Diffs = {}
  /\ Absent # Torn
  /\ CrashPoints \subseteq {"idle", "opened", "written", "saved"}
  /\ NamesOvertake \in BOOLEAN
  /\ DiskFills \in BOOLEAN

VARIABLES
  idx,      \* m_state, the index in memory
  logs,     \* the contents of <name>.log, by rank of the name
  tmp,      \* the contents of to_be_renamed.log
  pc,       \* "down", "idle", or the step a commit has reached
  cur,      \* the diff being committed, or NoDiff
  name,     \* the rank of its name, 0 when there is none
  acked,    \* the ranks of the names whose commit returned true
  lost      \* history: the names whose diff did not fit on a full disk

vars == <<idx, logs, tmp, pc, cur, name, acked, lost>>

Names == 1..MaxLogs
Contents == Diffs \union {Absent, Torn}

(* a faulty replay that takes the last name first *)
ReplayBackwards(lg) ==
  LET after[n \in 0..MaxLogs] ==
        IF n = 0 THEN EmptyIndex
        ELSE IF lg[MaxLogs + 1 - n] \in Diffs
               THEN PerformChanges(after[n - 1], lg[MaxLogs + 1 - n])
               ELSE after[n - 1]
  IN  after

(* the index after replaying the logs of ranks 1 to n *)
ReplayTo(lg) ==
  LET after[n \in 0..MaxLogs] ==
        IF n = 0 THEN EmptyIndex
        ELSE IF lg[n] \in Diffs
               THEN PerformChanges(after[n - 1], lg[n])
               ELSE after[n - 1]
  IN  after

ReplayLogs(lg) == ReplayTo(lg)[MaxLogs]

(* what reload() computes: logs that do not parse are skipped, no operation *)
(* is checked, and the temporary file comes last                           *)
Replay(lg, t) ==
  IF t \in Diffs THEN PerformChanges(ReplayLogs(lg), t) ELSE ReplayLogs(lg)

-----------------------------------------------------------------------------
Init ==
  /\ idx = EmptyIndex
  /\ logs = [n \in Names |-> Absent]
  /\ tmp = Absent
  /\ pc = "down"
  /\ cur = NoDiff
  /\ name = 0
  /\ acked = {}
  /\ lost = {}

(* faulty names, in any order: by the hash alone *)
NewNameInAnyOrder(d, n) == logs[n] = Absent

(* The name a diff was given when it was constructed.  Diffs that are       *)
(* committed once and in the order of their construction, by a clock that   *)
(* is not set back, have names after all others.  Otherwise the name may    *)
(* have any rank, and a file that has it already is of this very diff,      *)
(* committed before: its moment and its operations are those of the name.   *)
NewName(d, n) ==
  IF NamesOvertake THEN logs[n] \in {Absent, Torn, d}
                   ELSE \A m \in Names : logs[m] # Absent => m < n

(* StateLogger::reload, from the constructor or by a caller *)
Reload ==
  /\ pc \in {"down", "idle"}
  /\ idx' = Replay(logs, tmp)
  /\ pc' = "idle"
  /\ UNCHANGED <<logs, tmp, cur, name, acked, lost>>

(* a faulty save that writes to the final name at once *)
OpenFinal(d, n) ==
  /\ pc = "idle"
  /\ NewName(d, n)
  /\ CanPerformChanges(idx, d)
  /\ logs' = [logs EXCEPT ![n] = Torn]
  /\ pc' = "opened"
  /\ cur' = d
  /\ name' = n
  /\ UNCHANGED <<idx, tmp, acked, lost>>

(* a faulty save that makes room for the name before it writes *)
OpenTmpRemovingOld(d, n) ==
  /\ pc = "idle"
  /\ NewName(d, n)
  /\ CanPerformChanges(idx, d)
  /\ tmp' = Torn
  /\ logs' = [logs EXCEPT ![n] = Absent]
  /\ pc' = "opened"
  /\ cur' = d
  /\ name' = n
  /\ UNCHANGED <<idx, acked, lost>>

(* commitChanges accepts the diff; saveStateDiff opens the temporary file, *)
(* which truncates what it held                                            *)
OpenTmp(d, n) ==
  /\ pc = "idle"
  /\ NewName(d, n)
  /\ CanPerformChanges(idx, d)
  /\ tmp' = Torn
  /\ pc' = "opened"
  /\ cur' = d
  /\ name' = n
  /\ UNCHANGED <<idx, logs, acked, lost>>

(* the JSON reaches the file, at the latest when rename closes it *)
WriteTmp ==
  /\ pc = "opened"
  /\ tmp' = cur
  /\ pc' = "written"
  /\ UNCHANGED <<idx, logs, cur, name, acked, lost>>

(* a faulty save that ends without the rename *)
SkipRename ==
  /\ pc = "written"
  /\ pc' = "saved"
  /\ UNCHANGED <<idx, logs, tmp, cur, name, acked, lost>>

(* QFile::rename refuses a name that is taken, which nobody asks about: the *)
(* whole diff then stays in the temporary file.                             *)
RenameTmp ==
  /\ pc = "written"
  /\ \/ /\ logs[name] = Absent
        /\ logs' = [logs EXCEPT ![name] = tmp]
        /\ tmp' = Absent
        /\ lost' = lost \ {name}
     \/ /\ logs[name] # Absent
        /\ UNCHANGED <<logs, tmp, lost>>
  /\ pc' = "saved"
  /\ UNCHANGED <<idx, cur, name, acked>>

(* There is no space for the JSON.  When the write fails the error is      *)
(* cleared by rename and a torn file gets the name; when the flush inside  *)
(* rename fails, or the name is taken, there is no rename.  Neither result *)
(* is looked at, and unless a commit before has saved it the diff is in    *)
(* memory only.                                                            *)
LoseTmp ==
  /\ DiskFills
  /\ pc = "opened"
  /\ \/ logs[name] = Absent /\ logs' = [logs EXCEPT ![name] = Torn] /\ tmp' = Absent
     \/ UNCHANGED <<logs, tmp>>
  /\ pc' = "saved"
  /\ lost' = IF logs'[name] = cur THEN lost ELSE lost \union {name}
  /\ UNCHANGED <<idx, cur, name, acked>>

(* faulty ends of a commit: the operations are not performed on the index, *)
(* or the name is forgotten before it is acknowledged                      *)
EndUnperformed ==
  /\ pc = "saved"
  /\ acked' = acked \union {name}
  /\ pc' = "idle"
  /\ cur' = NoDiff
  /\ name' = 0
  /\ UNCHANGED <<idx, logs, tmp, lost>>

EndForgettingName ==
  /\ pc = "saved"
  /\ idx' = PerformChanges(idx, cur)
  /\ name' = 0
  /\ acked' = acked \union {name'}
  /\ pc' = "idle"
  /\ cur' = NoDiff
  /\ UNCHANGED <<logs, tmp, lost>>

(* the operations are performed on the index and commitChanges returns true *)
Perform ==
  /\ pc = "saved"
  /\ idx' = PerformChanges(idx, cur)
  /\ acked' = acked \union {name}
  /\ pc' = "idle"
  /\ cur' = NoDiff
  /\ name' = 0
  /\ UNCHANGED <<logs, tmp, lost>>

(* the process dies and takes the memory and an unfinished commit with it *)
Crash ==
  /\ pc \in CrashPoints
  /\ idx' = EmptyIndex
  /\ pc' = "down"
  /\ cur' = NoDiff
  /\ name' = 0
  /\ UNCHANGED <<logs, tmp, acked, lost>>

Next ==
  \/ Reload
  \/ \E d \in Diffs, n \in Names : OpenTmp(d, n)
  \/ WriteTmp
  \/ RenameTmp
  \/ LoseTmp
  \/ Perform
  \/ Crash

Spec == Init /\ [][Next]_vars

-----------------------------------------------------------------------------
TypeOK ==
  /\ idx \in Index
  /\ logs \in [Names -> Contents]
  /\ tmp \in Contents
  /\ pc \in {"down", "idle", "opened", "written", "saved"}
  /\ cur \in Diffs \union {NoDiff}
  /\ name \in Names \union {0}
  /\ acked \subseteq Names
  /\ lost \subseteq Names

(* Whenever no commit is under way, stopping the program and starting it   *)
(* again gives back the index that is in memory now: what commitChanges    *)
(* acknowledged is exactly what reload() rebuilds (statelogger.cpp:49-73). *)
MemoryMatchesDisk == pc = "idle" => idx = Replay(logs, tmp)

(* The two hashes of the index agree with one another at every moment,     *)
(* although reload() performs operations without checking them: a lookup   *)
(* by sha1 never returns an entry that is no longer the file's             *)
(* (state.cpp:208-241).                                                    *)
IndexSound == Sound(idx)

(* A commit that returned true has left a readable log under its own name, *)
(* and keeps it whatever crash or other commit comes later, unless the     *)
(* disk was full at that moment, of which commitChanges says nothing       *)
(* (statelogger.cpp:95-106).                                               *)
AckedDurable == \A n \in acked \ lost : logs[n] \in Diffs

(* Every diff is replayed on an index that would have accepted it, though  *)
(* replay never asks: names keep the order of the commits                  *)
(* (statelogger.cpp:65-72).                                                *)
LogsReplayLegally ==
  \A n \in Names : logs[n] \in Diffs =>
     CanPerformChanges(ReplayTo(logs)[n - 1], logs[n])

(* A log that has its final name holds a whole diff: a crash between the   *)
(* steps of a commit leaves a torn file only under the temporary name, and *)
(* a full disk only under the name of the diff that did not fit            *)
(* (statelogger.cpp:97-101).                                               *)
NoTornLog == \A n \in Names \ lost : logs[n] # Torn

(* The journal implements the index that survives crashes: what is durable *)
(* is what the named logs replay to, and a commit becomes durable when its *)
(* file is renamed.                                                        *)
Durable == INSTANCE DurableIndex WITH
  durable <- ReplayLogs(logs),
  view    <- idx,
  pending <- cur,
  phase   <- CASE pc = "idle" -> "ready"
               [] pc \in {"opened", "written"} -> "accepted"
               [] OTHER -> pc

ImplementsDurable == Durable!Spec
=============================================================================
